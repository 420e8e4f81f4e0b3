------------------------ MODULE ContainerOps_proofs -------------------------
(***************************************************************************)
(* Proofs about ContainerOps, for any number of workers, containers,       *)
(* requests, ticks and faults: type correctness, that concurrent upgrades  *)
(* never give a container two successors, and, when inspections succeed,   *)
(* that update_available tells the truth.  The inductive invariant comes   *)
(* first, then lemmas that every step of a worker keeps its part of it.    *)
(***************************************************************************)
EXTENDS ContainerOps, TLAPS

\* Zenon proves the steps that do not name another prover.
USE Zenon

\* Where an upgrade is after it removed the old container.
ReplacingPCs == {"create", "connect", "rollback", "launch", "verify", "swap",
                 "fallback", "retire"}
HasNew == ReplacingPCs \ {"create"}
HasImage == ReplacingPCs \cup {"halt", "remove"}
HasSeen == HasImage \cup {"save", "pull", "image"}
HasRow == HasSeen \cup {"before", "act", "after", "set", "look", "inspect"}

\* The locals an operation reads at a step were set by an earlier one.
Fit(t) ==
    /\ t.pc # "free" => t.id \in Ids
    /\ t.pc = "get" => t.op \in OpKinds
    /\ t.pc \in HasRow => t.row \in Row
    /\ t.pc \in HasSeen => t.seen \in Container
    /\ t.pc \in HasImage => t.img \in Images
    /\ t.pc \in HasNew => t.new \in Ids

\* A container that is being replaced is gone, and its id is never given out again.
Gone(t) == t.pc \in ReplacingPCs => t.id \in used /\ host[t.id] = None

MonitorFit ==
    /\ mon.pc # "idle" => mon.id \in Ids
    /\ mon.pc = "upsert" => mon.insp \in Container
    /\ sync.pc = "upsert" => \A i \in sync.todo : sync.snap[i] \in Container

LiveUsed == \A i \in Ids : host[i] # None => i \in used

TasksOK ==
    /\ task \in [Workers -> Task]
    /\ \A w \in Workers : Fit(task[w]) /\ Gone(task[w])
    /\ OneSuccessor

OpsInv == OpsTypeOK /\ MonitorFit /\ LiveUsed /\ TasksOK

-----------------------------------------------------------------------------
(* Lemmas about the steps of a worker.                                       *)

\* Moving a task to another step keeps its type and its locals.
LEMMA GotoTask ==
    ASSUME NEW t \in Task, NEW p \in TaskPCs
    PROVE  LET u == [t EXCEPT !.pc = p]
           IN  /\ u \in Task
               /\ u.pc = p /\ u.op = t.op /\ u.id = t.id /\ u.row = t.row
               /\ u.seen = t.seen /\ u.img = t.img /\ u.new = t.new
BY DEF Task

\* An idle goroutine has a typed task that promises nothing.
LEMMA FreeTask == Free \in Task /\ Fit(Free) /\ Free.pc = "free"
<1>1. Free \in Task
  BY DEF Free, Task, TaskPCs
<1>2. Free.pc = "free"
  BY DEF Free
<1> QED
  BY <1>1, <1>2 DEF Fit, HasRow, HasSeen, HasImage, HasNew, ReplacingPCs

\* What every step does to the host: ids are only added, and a container that
\* is gone does not come back under its id.
HostMoves ==
    /\ used \subseteq used'
    /\ \A i \in used : host[i] = None => host'[i] = None

\* The task part of the invariant survives a step of one worker, when its own
\* new task is in order and it starts to replace a container only by removing it.
LEMMA TaskStep ==
    ASSUME TasksOK, HostMoves, NEW w \in Workers, NEW t \in Task,
           task' = [task EXCEPT ![w] = t], Fit(t),
           t.pc \in ReplacingPCs => /\ t.id \in used'
                                    /\ host'[t.id] = None
                                    /\ \/ task[w].pc \in ReplacingPCs /\ task[w].id = t.id
                                       \/ host[t.id] # None
    PROVE  TasksOK'
<1>1. task' \in [Workers -> Task]
  BY DEF TasksOK
<1>2. task'[w] = t /\ \A v \in Workers \ {w} : task'[v] = task[v]
  BY DEF TasksOK
<1>3. ASSUME NEW v \in Workers PROVE Fit(task[v])' /\ Gone(task[v])'
  <2>1. CASE v = w
    <3>1. task'[v] = t
      BY <1>2, <2>1
    <3>2. Fit(task[v])'
      BY <3>1 DEF Fit
    <3>3. Gone(task[v])'
      BY <3>1 DEF Gone
    <3> QED BY <3>2, <3>3
  <2>2. CASE v # w
    BY <1>2, <2>2 DEF TasksOK, Fit, Gone, HostMoves
  <2> QED BY <2>1, <2>2
<1>4. OneSuccessor'
  <2> SUFFICES ASSUME NEW u \in Workers, NEW v \in Workers,
                      task'[u].pc \in ReplacingPCs, task'[v].pc \in ReplacingPCs,
                      task'[u].id = task'[v].id
               PROVE  u = v
    BY DEF OneSuccessor, Replacing, ReplacingPCs
  <2>1. \A x \in Workers \ {w} : task'[x].pc \in ReplacingPCs => host[task'[x].id] = None
    BY <1>2 DEF TasksOK, Gone
  <2>2. \A x, y \in Workers :
          task[x].pc \in ReplacingPCs /\ task[y].pc \in ReplacingPCs
            /\ task[x].id = task[y].id => x = y
    BY DEF TasksOK, OneSuccessor, Replacing, ReplacingPCs
  <2> QED BY <1>2, <2>1, <2>2, SMT
<1> QED BY <1>1, <1>3, <1>4 DEF TasksOK

\* The task part survives a step that leaves the tasks alone.
LEMMA TaskStutter ==
    ASSUME TasksOK, HostMoves, task' = task
    PROVE  TasksOK'
BY DEF TasksOK, HostMoves, Fit, Gone, OneSuccessor, Replacing

-----------------------------------------------------------------------------
(* Lemmas about what a step does to the host and to the rest of the state.   *)

\* The variables of the cache other than the host's keep their types.
CacheTypes ==
    /\ table \in [Ids -> Row \cup {None}]
    /\ sync \in [pc : SyncPCs, snap : [Ids -> Container \cup {None}], todo : SUBSET Ids]
    /\ conn \in BOOLEAN
    /\ mon \in [pc : MonitorPCs, id : Ids \cup {None},
                insp : Container \cup {None}, row : Row \cup {None}]
    /\ feed \in [Ids -> Row \cup {None}]
    /\ ext \in 0..MaxExternal
    /\ faults \in 0..MaxFaults

HostTypes ==
    /\ host \in [Ids -> Container \cup {None}]
    /\ used \in SUBSET Ids
    /\ events \in Seq(Event)
    /\ unseen \in SUBSET Ids
    /\ LiveUsed

OpTypes ==
    /\ agenda \in [Ids -> Row \cup {None}]
    /\ registry \in Images
    /\ tagged \in Images
    /\ wanted \in [Ids -> BOOLEAN]
    /\ reqs \in 0..MaxReqs
    /\ ticks \in 0..MaxTicks

\* The invariant, split into what different steps disturb.
LEMMA OpsInvParts ==
    OpsInv <=> HostTypes /\ CacheTypes /\ OpTypes /\ MonitorFit /\ TasksOK
BY DEF OpsInv, OpsTypeOK, TypeOK, HostTypes, CacheTypes, OpTypes, TasksOK

\* An announced change of one container keeps the events typed.
LEMMA EmitTypes ==
    ASSUME HostTypes, NEW kind \in EventKinds, NEW i \in Ids, Emit(kind, i)
    PROVE  events' \in Seq(Event) /\ unseen' \in SUBSET Ids
<1>1. [kind |-> kind, id |-> i] \in Event
  BY DEF Event
<1>2. events \in Seq(Event)
  BY DEF HostTypes
<1>3. Append(events, [kind |-> kind, id |-> i]) \in Seq(Event)
  BY <1>1, <1>2, SMT
<1> QED BY <1>2, <1>3 DEF Emit, HostTypes

\* ContainerStart and ContainerStop change a status and nothing else.
LEMMA SetStatusHost ==
    ASSUME HostTypes, NEW i \in Ids, host[i] # None, NEW st \in Statuses,
           NEW kind \in EventKinds, HostSetStatus(i, kind, st)
    PROVE  HostTypes' /\ HostMoves
<1>1. [host[i] EXCEPT !.status = st] \in Container
  BY DEF HostTypes, Container
<1>2. host' = [host EXCEPT ![i] = [host[i] EXCEPT !.status = st]] /\ used' = used
  BY DEF HostSetStatus
<1>3. events' \in Seq(Event) /\ unseen' \in SUBSET Ids
  BY EmitTypes DEF HostSetStatus
<1>4. i \in used
  BY DEF HostTypes, LiveUsed
<1>5. host' \in [Ids -> Container \cup {None}] /\ used' \in SUBSET Ids /\ LiveUsed'
  BY <1>1, <1>2, <1>4 DEF HostTypes, LiveUsed
<1> QED BY <1>2, <1>3, <1>5 DEF HostTypes, HostMoves

\* ContainerRemove: the container was there and is gone for good.
LEMMA RemoveHost ==
    ASSUME HostTypes, NEW i \in Ids, HostRemove(i)
    PROVE  HostTypes' /\ HostMoves /\ host[i] # None /\ host'[i] = None /\ i \in used'
<1>1. host' = [host EXCEPT ![i] = None] /\ used' = used /\ host[i] # None
  BY DEF HostRemove
<1>2. events' \in Seq(Event) /\ unseen' \in SUBSET Ids
  BY EmitTypes DEF HostRemove, EventKinds
<1>3. host' \in [Ids -> Container \cup {None}] /\ used' \in SUBSET Ids /\ LiveUsed'
  BY <1>1 DEF HostTypes, LiveUsed
<1> QED BY <1>1, <1>2, <1>3 DEF HostTypes, HostMoves, LiveUsed

\* ContainerCreate: the new container has an id that no container had.
LEMMA CreateHost ==
    ASSUME HostTypes, NEW i \in Ids, NEW c \in Container, HostCreate(i, c)
    PROVE  HostTypes' /\ HostMoves
<1>1. host' = [host EXCEPT ![i] = c] /\ used' = used \cup {i} /\ i \notin used
  BY DEF HostCreate
<1>2. events' \in Seq(Event) /\ unseen' \in SUBSET Ids
  BY EmitTypes DEF HostCreate, EventKinds
<1>3. host' \in [Ids -> Container \cup {None}] /\ used' \in SUBSET Ids /\ LiveUsed'
  BY <1>1 DEF HostTypes, LiveUsed
<1> QED BY <1>1, <1>2, <1>3 DEF HostTypes, HostMoves

\* A step that leaves the host alone.
LEMMA SameHost ==
    ASSUME HostTypes, UNCHANGED <<host, used, events, unseen>>
    PROVE  HostTypes' /\ HostMoves
BY DEF HostTypes, HostMoves, LiveUsed

-----------------------------------------------------------------------------
(* A step of a worker: its new task is in order and what it shares is kept.  *)

Good(w, t) ==
    /\ t \in Task
    /\ Fit(t)
    /\ task' = [task EXCEPT ![w] = t]
    /\ t.pc \in ReplacingPCs => /\ t.id \in used'
                                /\ host'[t.id] = None
                                /\ \/ task[w].pc \in ReplacingPCs /\ task[w].id = t.id
                                   \/ host[t.id] # None

Moved(w) == \E t : Good(w, t)

Kept ==
    /\ HostTypes'
    /\ HostMoves
    /\ table' \in [Ids -> Row \cup {None}]
    /\ feed' \in [Ids -> Row \cup {None}]
    /\ faults' \in 0..MaxFaults
    /\ tagged' \in Images

\* Steps that change only the worker's task, spend a fault, write the table or
\* publish keep the rest.
LEMMA KeptByTask ==
    ASSUME OpsInv, OnlyTask
    PROVE  Kept
<1>1. HostTypes /\ CacheTypes /\ OpTypes
  BY OpsInvParts
<1>2. HostTypes' /\ HostMoves
  BY <1>1, SameHost DEF OnlyTask
<1> QED BY <1>1, <1>2 DEF Kept, OnlyTask, CacheTypes, OpTypes

\* A failed call spends a fault.
LEMMA FaultSpent ==
    ASSUME CacheTypes, NEW kind, Fault(kind)
    PROVE  faults' \in 0..MaxFaults /\ UNCHANGED <<host, used, ext>>
BY BoundAssumption, SMT DEF Fault, CacheTypes

\* A failed call leaves everything else as it was.
LEMMA KeptByFault ==
    ASSUME OpsInv, NEW kind, Fault(kind), OnlyFault
    PROVE  Kept
<1>1. HostTypes /\ CacheTypes /\ OpTypes
  BY OpsInvParts
<1>2. faults' \in 0..MaxFaults /\ UNCHANGED <<host, used>>
  BY <1>1, FaultSpent
<1>3. HostTypes' /\ HostMoves
  BY <1>1, <1>2, SameHost DEF OnlyFault
<1> QED BY <1>1, <1>2, <1>3 DEF Kept, OnlyFault, CacheTypes, OpTypes

\* One SQL statement changes the table only.
LEMMA KeptByTable ==
    ASSUME OpsInv, OnlyTable, table' \in [Ids -> Row \cup {None}]
    PROVE  Kept
<1>1. HostTypes /\ CacheTypes /\ OpTypes
  BY OpsInvParts
<1>2. HostTypes' /\ HostMoves
  BY <1>1, SameHost DEF OnlyTable
<1> QED BY <1>1, <1>2 DEF Kept, OnlyTable, CacheTypes, OpTypes

\* One publication changes what subscribers know only.
LEMMA KeptByFeed ==
    ASSUME OpsInv, OnlyFeed, feed' \in [Ids -> Row \cup {None}]
    PROVE  Kept
<1>1. HostTypes /\ CacheTypes /\ OpTypes
  BY OpsInvParts
<1>2. HostTypes' /\ HostMoves
  BY <1>1, SameHost DEF OnlyFeed
<1> QED BY <1>1, <1>2 DEF Kept, OnlyFeed, CacheTypes, OpTypes

\* One Docker call changes the host only.
LEMMA KeptByHost ==
    ASSUME OpsInv, OnlyHost, HostTypes', HostMoves
    PROVE  Kept
<1>1. CacheTypes /\ OpTypes
  BY OpsInvParts
<1> QED BY <1>1 DEF Kept, OnlyHost, CacheTypes, OpTypes

\* An operation that returns leaves an idle goroutine.
LEMMA FinishMoves ==
    ASSUME NEW w \in Workers, Finish(w)
    PROVE  Moved(w)
<1>1. Good(w, Free)
  BY FreeTask DEF Good, Finish, Become, ReplacingPCs
<1> QED BY <1>1 DEF Moved

\* The next step of an operation needs no local that the last one did not have.
LEMMA GotoMoves ==
    ASSUME OpsInv, HostMoves, NEW w \in Workers, NEW p \in TaskPCs \ {"free", "get"},
           Goto(w, p), task[w].pc # "free",
           p \in HasRow => task[w].pc \in HasRow,
           p \in HasSeen => task[w].pc \in HasSeen,
           p \in HasImage => task[w].pc \in HasImage,
           p \in HasNew => task[w].pc \in HasNew,
           p \in ReplacingPCs => task[w].pc \in ReplacingPCs
    PROVE  Moved(w)
<1> DEFINE u == [task[w] EXCEPT !.pc = p]
<1>1. task[w] \in Task /\ Fit(task[w]) /\ Gone(task[w])
  BY DEF OpsInv, TasksOK
<1>2. /\ u \in Task
      /\ u.pc = p /\ u.op = task[w].op /\ u.id = task[w].id /\ u.row = task[w].row
      /\ u.seen = task[w].seen /\ u.img = task[w].img /\ u.new = task[w].new
  BY <1>1, GotoTask
<1>3. task' = [task EXCEPT ![w] = u]
  BY DEF Goto, Become
<1> HIDE DEF u
<1>4. Fit(u)
  BY <1>1, <1>2 DEF Fit
<1>5. Good(w, u)
  BY <1>1, <1>2, <1>3, <1>4 DEF Good, Gone, HostMoves
<1> QED BY <1>5 DEF Moved

\* What is known of a busy worker.
LEMMA Busy ==
    ASSUME OpsInv, NEW w \in Workers
    PROVE  /\ task[w] \in Task /\ Fit(task[w]) /\ Gone(task[w])
           /\ task[w].pc # "free" => /\ task[w].id \in Ids
                                     /\ table[task[w].id] \in Row \cup {None}
                                     /\ host[task[w].id] \in Container \cup {None}
<1>1. task[w] \in Task /\ Fit(task[w]) /\ Gone(task[w])
  BY DEF OpsInv, TasksOK
<1>2. task[w].pc # "free" => task[w].id \in Ids
  BY <1>1 DEF Fit
<1> QED BY <1>1, <1>2 DEF OpsInv, OpsTypeOK, TypeOK

\* A container that is not on the host ends the operation.
LEMMA NotFoundStep ==
    ASSUME OpsInv, NEW w \in Workers, NEW i, NotFound(w, i)
    PROVE  Kept /\ Moved(w)
BY KeptByTask, FinishMoves DEF NotFound

-----------------------------------------------------------------------------
(* The steps that all operations share.                                      *)

\* Get, ReadBack, Publish and EndOfOperation keep the invariant.
LEMMA CommonMoves ==
    ASSUME OpsInv, NEW w \in Workers, CommonStep(w)
    PROVE  Kept /\ Moved(w)
<1> USE DEF At
<1>0. /\ task[w] \in Task /\ Fit(task[w]) /\ Gone(task[w])
      /\ task[w].pc # "free" => /\ task[w].id \in Ids
                                /\ table[task[w].id] \in Row \cup {None}
  BY Busy
<1>1. CASE Get(w)
  <2>1. Kept
    BY <1>1, KeptByTask DEF Get
  <2>2. CASE table[task[w].id] = None
    <3>1. Finish(w)
      BY <1>1, <2>2 DEF Get
    <3> QED BY <2>1, <3>1, FinishMoves
  <2>3. CASE table[task[w].id] # None
    <3>0. /\ task[w].pc = "get" /\ task[w].op \in OpKinds
          /\ table[task[w].id] \in Row /\ task[w].id \in Ids
      BY <1>0, <1>1, <2>3 DEF Get, Fit
    <3>1. PICK p \in {"before", "set", "look", "inspect"} :
            Become(w, [task[w] EXCEPT !.row = table[task[w].id], !.pc = p])
      BY <1>1, <2>3, <3>0 DEF Get, OpKinds
    <3> DEFINE u == [task[w] EXCEPT !.row = table[task[w].id], !.pc = p]
    <3>2. p \in TaskPCs
      BY DEF TaskPCs, CallPCs
    <3>3. u \in Task /\ u.pc = p /\ u.id = task[w].id /\ u.row \in Row
      BY <1>0, <3>0, <3>2 DEF Task
    <3>4. task' = [task EXCEPT ![w] = u]
      BY <3>1 DEF Become
    <3> HIDE DEF u
    <3>5. Fit(u) /\ u.pc \notin ReplacingPCs
      BY <3>0, <3>3 DEF Fit, HasRow, HasSeen, HasImage, HasNew, ReplacingPCs
    <3> QED BY <2>1, <3>3, <3>4, <3>5 DEF Moved, Good
  <2> QED BY <2>2, <2>3
<1>2. CASE ReadBack(w)
  <2>0. task[w].pc = "read" /\ "end" \in TaskPCs \ {"free", "get"}
    BY <1>2 DEF ReadBack, TaskPCs
  <2>1. Goto(w, "end") /\ HostMoves => Moved(w)
    BY <2>0, GotoMoves DEF HasRow, HasSeen, HasImage, HasNew, ReplacingPCs
  <2>2. CASE /\ table[task[w].id] # None
             /\ Become(w, [task[w] EXCEPT !.pc = "publish", !.row = table[task[w].id]])
             /\ OnlyTask
    <3>1. Kept
      BY <2>2, KeptByTask
    <3> DEFINE u == [task[w] EXCEPT !.pc = "publish", !.row = table[task[w].id]]
    <3>2. u \in Task /\ u.pc = "publish" /\ u.id = task[w].id
      BY <1>0, <2>0 DEF Task, TaskPCs
    <3>3. task' = [task EXCEPT ![w] = u]
      BY <2>2 DEF Become
    <3> HIDE DEF u
    <3>4. Fit(u) /\ u.pc \notin ReplacingPCs
      BY <1>0, <2>0, <3>2 DEF Fit, HasRow, HasSeen, HasImage, HasNew, ReplacingPCs
    <3> QED BY <3>1, <3>2, <3>3, <3>4 DEF Moved, Good
  <2>3. CASE table[task[w].id] = None /\ Goto(w, "end") /\ OnlyTask
    BY <2>1, <2>3, KeptByTask DEF Kept
  <2>4. CASE Fault("call") /\ Goto(w, "end") /\ OnlyFault
    BY <2>1, <2>4, KeptByFault DEF Kept
  <2> QED BY <1>2, <2>2, <2>3, <2>4 DEF ReadBack
<1>3. CASE Publish(w)
  <2>0. task[w].pc = "publish" /\ "end" \in TaskPCs \ {"free", "get"}
    BY <1>3 DEF Publish, TaskPCs
  <2>1. feed' \in [Ids -> Row \cup {None}]
    BY <1>0, <1>3 DEF Publish, Task, OpsInv, OpsTypeOK, TypeOK
  <2>2. Kept
    BY <1>3, <2>1, KeptByFeed DEF Publish
  <2>3. Goto(w, "end")
    BY <1>3 DEF Publish
  <2> QED
    BY <2>0, <2>2, <2>3, GotoMoves DEF Kept, HasRow, HasSeen, HasImage, HasNew, ReplacingPCs
<1>4. CASE EndOfOperation(w)
  <2>1. Kept
    BY <1>4, KeptByTask DEF EndOfOperation
  <2> DEFINE u == [Free EXCEPT !.op = "upgrade", !.pc = "get", !.id = task[w].id]
  <2>2. Finish(w) \/ Become(w, u)
    BY <1>4 DEF EndOfOperation
  <2>3. ASSUME Become(w, u) PROVE Moved(w)
    <3>1. task[w].id \in Ids
      BY <1>0, <1>4 DEF EndOfOperation
    <3>2. u \in Task /\ u.pc = "get" /\ u.id = task[w].id /\ u.op = "upgrade"
      BY <3>1 DEF Task, Free, TaskPCs, CallPCs, OpKinds
    <3>3. task' = [task EXCEPT ![w] = u]
      BY <2>3 DEF Become
    <3> HIDE DEF u
    <3>4. Fit(u) /\ u.pc \notin ReplacingPCs
      BY <3>1, <3>2 DEF Fit, OpKinds, HasRow, HasSeen, HasImage, HasNew, ReplacingPCs
    <3> QED BY <3>2, <3>3, <3>4 DEF Moved, Good
  <2> QED BY <2>1, <2>2, <2>3, FinishMoves
<1> QED BY <1>1, <1>2, <1>3, <1>4 DEF CommonStep

-----------------------------------------------------------------------------
(* StartContainer, StopContainer and the flags.                              *)

\* A new task that replaces nothing only has to be typed and fit.
LEMMA BecomeMoves ==
    ASSUME NEW w \in Workers, NEW u \in Task, Fit(u), u.pc \notin ReplacingPCs,
           Become(w, u)
    PROVE  Moved(w)
BY DEF Moved, Good, Become

\* ContainerStart and ContainerStop: an error, nothing, or a change of status.
LEMMA DockerMoves ==
    ASSUME OpsInv, NEW w \in Workers, NEW i \in Ids, NEW p \in TaskPCs \ {"free", "get"},
           DockerStart(w, i, p) \/ DockerStop(w, i, p),
           Goto(w, p) /\ HostMoves => Moved(w)
    PROVE  Kept /\ Moved(w)
<1>0. HostTypes
  BY OpsInvParts
<1>1. CASE Finish(w) /\ OnlyTask
  BY <1>1, KeptByTask, FinishMoves
<1>2. CASE Goto(w, p) /\ OnlyTask
  BY <1>2, KeptByTask DEF Kept
<1>3. CASE /\ host[i] # None /\ HostSetStatus(i, "start", "running")
           /\ Goto(w, p) /\ OnlyHost
  <2>1. "running" \in Statuses /\ "start" \in EventKinds
    BY DEF Statuses, EventKinds
  <2>2. HostTypes' /\ HostMoves
    BY <1>0, <1>3, <2>1, SetStatusHost
  <2> QED BY <1>3, <2>2, KeptByHost
<1>4. CASE /\ host[i] # None /\ HostSetStatus(i, "stop", "exited")
           /\ Goto(w, p) /\ OnlyHost
  <2>1. "exited" \in Statuses /\ "stop" \in EventKinds
    BY DEF Statuses, EventKinds
  <2>2. HostTypes' /\ HostMoves
    BY <1>0, <1>4, <2>1, SetStatusHost
  <2> QED BY <1>4, <2>2, KeptByHost
<1> QED BY <1>1, <1>2, <1>3, <1>4 DEF DockerStart, DockerStop, NotFound

\* The steps of a start or a stop keep the invariant.
LEMMA StartStopMoves ==
    ASSUME OpsInv, NEW w \in Workers, StartStopStep(w)
    PROVE  Kept /\ Moved(w)
<1> USE DEF At
<1>0. /\ task[w] \in Task /\ Fit(task[w]) /\ Gone(task[w])
      /\ task[w].pc # "free" => /\ task[w].id \in Ids
                                /\ host[task[w].id] \in Container \cup {None}
  BY Busy
<1>1. CASE InspectBefore(w)
  <2>1. task[w].pc = "before" /\ "act" \in TaskPCs \ {"free", "get"}
    BY <1>1 DEF InspectBefore, TaskPCs, CallPCs
  <2>2. CASE NotFound(w, task[w].id)
    BY <2>2, NotFoundStep
  <2>3. CASE Goto(w, "act") /\ OnlyTask
    <3>1. Kept
      BY <2>3, KeptByTask
    <3> QED
      BY <2>1, <2>3, <3>1, GotoMoves
      DEF Kept, HasRow, HasSeen, HasImage, HasNew, ReplacingPCs
  <2> QED BY <1>1, <2>2, <2>3 DEF InspectBefore
<1>2. CASE Act(w)
  <2>1. task[w].pc = "act" /\ "after" \in TaskPCs \ {"free", "get"} /\ task[w].id \in Ids
    BY <1>0, <1>2 DEF Act, TaskPCs, CallPCs
  <2>2. Goto(w, "after") /\ HostMoves => Moved(w)
    BY <2>1, GotoMoves DEF HasRow, HasSeen, HasImage, HasNew, ReplacingPCs
  <2>3. DockerStart(w, task[w].id, "after") \/ DockerStop(w, task[w].id, "after")
    BY <1>2 DEF Act
  <2> QED BY <2>1, <2>2, <2>3, DockerMoves
<1>3. CASE InspectAfter(w)
  <2>1. CASE NotFound(w, task[w].id)
    BY <2>1, NotFoundStep
  <2>2. CASE /\ host[task[w].id] # None
             /\ Become(w, [task[w] EXCEPT !.pc = "save", !.seen = host[task[w].id]])
             /\ OnlyTask
    <3> DEFINE u == [task[w] EXCEPT !.pc = "save", !.seen = host[task[w].id]]
    <3>1. task[w].pc = "after" /\ host[task[w].id] \in Container
      BY <1>0, <1>3, <2>2 DEF InspectAfter
    <3>2. /\ u \in Task /\ u.pc = "save" /\ u.id = task[w].id /\ u.row = task[w].row
          /\ u.seen \in Container
      BY <1>0, <3>1 DEF Task, TaskPCs, CallPCs
    <3>3. Become(w, u)
      BY <2>2
    <3> HIDE DEF u
    <3>4. Fit(u) /\ u.pc \notin ReplacingPCs
      BY <1>0, <3>1, <3>2 DEF Fit, HasRow, HasSeen, HasImage, HasNew, ReplacingPCs
    <3> QED BY <2>2, <3>2, <3>3, <3>4, KeptByTask, BecomeMoves
  <2> QED BY <1>3, <2>1, <2>2 DEF InspectAfter
<1>4. CASE Save(w)
  <2>1. task[w].pc = "save" /\ "read" \in TaskPCs \ {"free", "get"}
    BY <1>4 DEF Save, TaskPCs
  <2>2. task[w].row \in Row /\ task[w].seen.status \in Statuses
    BY <1>0, <2>1 DEF Fit, HasRow, HasSeen, Container
  <2>3. [task[w].row EXCEPT !.status = task[w].seen.status] \in Row
    BY <2>2 DEF Row
  <2>4. table' \in [Ids -> Row \cup {None}]
    BY <1>4, <2>3 DEF Save, OpsInv, OpsTypeOK, TypeOK
  <2>5. Kept /\ Goto(w, "read")
    BY <1>4, <2>4, KeptByTable DEF Save
  <2> QED
    BY <2>1, <2>5, GotoMoves DEF Kept, HasRow, HasSeen, HasImage, HasNew, ReplacingPCs
<1> QED BY <1>1, <1>2, <1>3, <1>4 DEF StartStopStep

\* An UPDATE of one flag keeps the table typed.
LEMMA FlagUpdate ==
    ASSUME OpsInv, NEW i \in Ids, NEW b \in BOOLEAN, table[i] # None
    PROVE  /\ [table EXCEPT ![i].auto = b] \in [Ids -> Row \cup {None}]
           /\ [table EXCEPT ![i].avail = b] \in [Ids -> Row \cup {None}]
<1>1. table \in [Ids -> Row \cup {None}] /\ table[i] \in Row
  BY DEF OpsInv, OpsTypeOK, TypeOK
<1>2. [table[i] EXCEPT !.auto = b] \in Row /\ [table[i] EXCEPT !.avail = b] \in Row
  BY <1>1 DEF Row
<1> QED BY <1>1, <1>2

\* The steps of a toggle and of an update check keep the invariant.
LEMMA FlagMoves ==
    ASSUME OpsInv, NEW w \in Workers, FlagStep(w)
    PROVE  Kept /\ Moved(w)
<1> USE DEF At
<1>0. /\ task[w] \in Task /\ Fit(task[w]) /\ Gone(task[w])
      /\ task[w].pc # "free" => /\ task[w].id \in Ids
                                /\ host[task[w].id] \in Container \cup {None}
  BY Busy
<1>1. task[w].flag \in BOOLEAN
  BY <1>0 DEF Task
<1>2. "read" \in TaskPCs \ {"free", "get"} /\ "registry" \in TaskPCs /\ "record" \in TaskPCs
  BY DEF TaskPCs, CallPCs
<1>3. table \in [Ids -> Row \cup {None}]
  BY DEF OpsInv, OpsTypeOK, TypeOK
<1>4. ASSUME Goto(w, "read"), OnlyTable, table' \in [Ids -> Row \cup {None}],
             task[w].pc # "free"
      PROVE  Kept /\ Moved(w)
  <2>1. Kept
    BY <1>4, KeptByTable
  <2> QED
    BY <1>2, <1>4, <2>1, GotoMoves
    DEF Kept, HasRow, HasSeen, HasImage, HasNew, ReplacingPCs
<1>5. CASE SetAuto(w)
  <2>1. task[w].pc = "set" /\ task[w].id \in Ids
    BY <1>0, <1>5 DEF SetAuto
  <2>2. table' \in [Ids -> Row \cup {None}]
    <3>1. CASE table[task[w].id] = None
      BY <1>3, <1>5, <3>1 DEF SetAuto
    <3>2. CASE table[task[w].id] # None
      <4>1. table' = [table EXCEPT ![task[w].id].auto = task[w].flag]
        BY <1>5, <3>2 DEF SetAuto
      <4> QED BY <1>1, <2>1, <3>2, <4>1, FlagUpdate
    <3> QED BY <3>1, <3>2
  <2> QED BY <1>4, <1>5, <2>1, <2>2 DEF SetAuto
<1>6. CASE Look(w)
  <2>1. task[w].pc = "look" /\ task[w].row \in Row
    BY <1>0, <1>6 DEF Look, Fit, HasRow
  <2>2. Kept
    BY <1>6, KeptByTask, KeptByFault DEF Look
  <2>3. PICK m \in Images : Become(w, [task[w] EXCEPT !.pc = "registry", !.img = m])
    <3>1. task[w].row.image \in Images
      BY <2>1 DEF Row
    <3>2. host[task[w].id] # None => host[task[w].id].image \in Images
      BY <1>0, <2>1 DEF Container
    <3> QED BY <1>6, <3>1, <3>2 DEF Look
  <2> DEFINE u == [task[w] EXCEPT !.pc = "registry", !.img = m]
  <2>4. u \in Task /\ u.pc = "registry" /\ u.id = task[w].id
    BY <1>0, <1>2 DEF Task
  <2>5. Become(w, u)
    BY <2>3
  <2> HIDE DEF u
  <2>6. Fit(u) /\ u.pc \notin ReplacingPCs
    BY <1>0, <2>1, <2>4 DEF Fit, HasRow, HasSeen, HasImage, HasNew, ReplacingPCs
  <2> QED BY <2>2, <2>4, <2>5, <2>6, BecomeMoves
<1>7. CASE AskRegistry(w)
  <2>1. task[w].pc = "registry"
    BY <1>7 DEF AskRegistry
  <2>2. Kept
    BY <1>7, KeptByTask, KeptByFault DEF AskRegistry
  <2>3. PICK b \in BOOLEAN : Become(w, [task[w] EXCEPT !.pc = "record", !.flag = b])
    <3>1. (task[w].img # registry) \in BOOLEAN
      OBVIOUS
    <3> QED BY <1>7, <3>1 DEF AskRegistry
  <2> DEFINE v == [task[w] EXCEPT !.pc = "record", !.flag = b]
  <2>4. v \in Task /\ v.pc = "record" /\ v.id = task[w].id
    BY ZenonT(30), <1>0, <1>2 DEF Task
  <2>5. Become(w, v)
    BY <2>3
  <2> HIDE DEF v
  <2>6. Fit(v) /\ v.pc \notin ReplacingPCs
    BY <1>0, <2>1, <2>4 DEF Fit, HasRow, HasSeen, HasImage, HasNew, ReplacingPCs
  <2> QED BY <2>2, <2>4, <2>5, <2>6, BecomeMoves
<1>8. CASE Record(w)
  <2>1. task[w].pc = "record" /\ task[w].id \in Ids
    BY <1>0, <1>8 DEF Record
  <2>2. table' \in [Ids -> Row \cup {None}]
    <3>1. CASE table[task[w].id] = None
      BY <1>3, <1>8, <3>1 DEF Record
    <3>2. CASE table[task[w].id] # None
      <4>1. table' = [table EXCEPT ![task[w].id].avail = task[w].flag]
        BY <1>8, <3>2 DEF Record
      <4> QED BY <1>1, <2>1, <3>2, <4>1, FlagUpdate
    <3> QED BY <3>1, <3>2
  <2> QED BY <1>4, <1>8, <2>1, <2>2 DEF Record
<1> QED BY <1>5, <1>6, <1>7, <1>8 DEF FlagStep

-----------------------------------------------------------------------------
(* upgradeContainerInternal.                                                 *)

\* Until the old container is removed.
LEMMA PrepareMoves ==
    ASSUME OpsInv, NEW w \in Workers,
           Inspect(w) \/ Pull(w) \/ InspectImage(w) \/ Halt(w) \/ Remove(w)
    PROVE  Kept /\ Moved(w)
<1> USE DEF At
<1>0. /\ task[w] \in Task /\ Fit(task[w]) /\ Gone(task[w])
      /\ task[w].pc # "free" => /\ task[w].id \in Ids
                                /\ host[task[w].id] \in Container \cup {None}
  BY Busy
<1>1. HostTypes /\ CacheTypes /\ OpTypes
  BY OpsInvParts
<1>2. CASE Inspect(w)
  <2>1. CASE NotFound(w, task[w].id)
    BY <2>1, NotFoundStep
  <2>2. CASE /\ host[task[w].id] # None
             /\ Become(w, [task[w] EXCEPT !.pc = "pull", !.seen = host[task[w].id]])
             /\ OnlyTask
    <3> DEFINE u == [task[w] EXCEPT !.pc = "pull", !.seen = host[task[w].id]]
    <3>1. task[w].pc = "inspect" /\ host[task[w].id] \in Container
      BY <1>0, <1>2, <2>2 DEF Inspect
    <3>2. /\ u \in Task /\ u.pc = "pull" /\ u.id = task[w].id /\ u.row = task[w].row
          /\ u.seen \in Container
      BY ZenonT(30), <1>0, <3>1 DEF Task, TaskPCs, CallPCs
    <3>3. Become(w, u)
      BY <2>2
    <3> HIDE DEF u
    <3>4. Fit(u) /\ u.pc \notin ReplacingPCs
      BY <1>0, <3>1, <3>2 DEF Fit, HasRow, HasSeen, HasImage, HasNew, ReplacingPCs
    <3> QED BY <2>2, <3>2, <3>3, <3>4, KeptByTask, BecomeMoves
  <2> QED BY <1>2, <2>1, <2>2 DEF Inspect
<1>3. CASE Pull(w)
  <2>1. task[w].pc = "pull" /\ "image" \in TaskPCs \ {"free", "get"} /\ Goto(w, "image")
    BY <1>3 DEF Pull, TaskPCs, CallPCs
  <2>2. /\ UNCHANGED <<host, used, table, events, feed, unseen>>
        /\ faults' \in 0..MaxFaults
        /\ tagged' \in Images
    <3>1. CASE tagged' = registry /\ UNCHANGED <<faults, host, used>>
      BY <1>1, <1>3, <3>1 DEF Pull, CacheTypes, OpTypes
    <3>2. CASE Fault("pull") /\ UNCHANGED tagged
      <4>1. faults' \in 0..MaxFaults /\ UNCHANGED <<host, used>>
        BY <1>1, <3>2, FaultSpent
      <4> QED BY <1>1, <1>3, <3>2, <4>1 DEF Pull, OpTypes
    <3> QED BY <1>3, <3>1, <3>2 DEF Pull
  <2>3. HostTypes' /\ HostMoves
    BY <1>1, <2>2, SameHost
  <2>4. Kept
    BY <1>1, <2>2, <2>3 DEF Kept, CacheTypes
  <2> QED
    BY <2>1, <2>3, <2>4, GotoMoves DEF HasRow, HasSeen, HasImage, HasNew, ReplacingPCs
<1>4. CASE InspectImage(w)
  <2>1. task[w].pc = "image" /\ tagged \in Images
    BY <1>1, <1>4 DEF InspectImage, OpTypes
  <2>2. PICK p \in {"halt", "remove"} : Become(w, [task[w] EXCEPT !.img = tagged, !.pc = p])
    BY <1>4 DEF InspectImage
  <2> DEFINE u == [task[w] EXCEPT !.img = tagged, !.pc = p]
  <2>3. /\ u \in Task /\ u.pc = p /\ u.id = task[w].id /\ u.row = task[w].row
        /\ u.seen = task[w].seen /\ u.img \in Images
    <3>1. p \in TaskPCs
      BY DEF TaskPCs, CallPCs
    <3> QED BY <1>0, <2>1, <3>1 DEF Task
  <2>4. Become(w, u) /\ Kept
    BY <1>4, <2>2, KeptByTask DEF InspectImage
  <2> HIDE DEF u
  <2>5. Fit(u) /\ u.pc \notin ReplacingPCs
    BY <1>0, <2>1, <2>3 DEF Fit, HasRow, HasSeen, HasImage, HasNew, ReplacingPCs
  <2> QED BY <2>3, <2>4, <2>5, BecomeMoves
<1>5. CASE Halt(w)
  <2>1. task[w].pc = "halt" /\ "remove" \in TaskPCs \ {"free", "get"} /\ task[w].id \in Ids
    BY <1>0, <1>5 DEF Halt, TaskPCs, CallPCs
  <2>2. Goto(w, "remove") /\ HostMoves => Moved(w)
    BY <2>1, GotoMoves DEF HasRow, HasSeen, HasImage, HasNew, ReplacingPCs
  <2> QED BY <1>5, <2>1, <2>2, DockerMoves DEF Halt
<1>6. CASE Remove(w)
  <2>1. CASE NotFound(w, task[w].id)
    BY <2>1, NotFoundStep
  <2>2. CASE HostRemove(task[w].id) /\ Goto(w, "create") /\ OnlyHost
    <3> DEFINE u == [task[w] EXCEPT !.pc = "create"]
    <3>1. task[w].pc = "remove" /\ task[w].id \in Ids /\ "create" \in TaskPCs
      BY <1>0, <1>6 DEF Remove, TaskPCs, CallPCs
    <3>2. /\ HostTypes' /\ HostMoves
          /\ host[task[w].id] # None /\ host'[task[w].id] = None /\ task[w].id \in used'
      BY <1>1, <2>2, <3>1, RemoveHost
    <3>3. /\ u \in Task /\ u.pc = "create" /\ u.id = task[w].id /\ u.row = task[w].row
          /\ u.seen = task[w].seen /\ u.img = task[w].img
      BY <1>0, <3>1 DEF Task
    <3>4. task' = [task EXCEPT ![w] = u]
      BY <2>2 DEF Goto, Become
    <3> HIDE DEF u
    <3>5. Fit(u)
      BY <1>0, <3>1, <3>3 DEF Fit, HasRow, HasSeen, HasImage, HasNew, ReplacingPCs
    <3>6. Good(w, u)
      BY <3>2, <3>3, <3>4, <3>5 DEF Good
    <3> QED BY <2>2, <3>2, <3>6, KeptByHost DEF Moved
  <2> QED BY <1>6, <2>1, <2>2 DEF Remove
<1> QED BY <1>2, <1>3, <1>4, <1>5, <1>6

\* An upgrade that goes on replacing the container it removed.
LEMMA ReplaceMoves ==
    ASSUME OpsInv, HostMoves, NEW w \in Workers, NEW u \in Task, Fit(u), Become(w, u),
           task[w].pc \in ReplacingPCs, u.id = task[w].id
    PROVE  Moved(w)
<1>1. Gone(task[w])
  BY Busy
<1>2. task[w].id \in used' /\ host'[task[w].id] = None
  BY <1>1 DEF Gone, HostMoves
<1> QED BY <1>2 DEF Moved, Good, Become

\* The row that an upgrade writes for the new container is one.
LEMMA UpgradedRow ==
    ASSUME NEW t, t.seen \in Container, t.img \in Images, NEW auto \in BOOLEAN
    PROVE  Upgraded(t, auto) \in Row
<1>1. t.seen.name \in Names /\ t.seen.status \in Statuses
  BY DEF Container
<1> QED BY <1>1 DEF Upgraded, Row

\* From the creation of the new container to its start.
LEMMA CreateMoves ==
    ASSUME OpsInv, NEW w \in Workers,
           Create(w) \/ Connect(w) \/ Rollback(w) \/ Launch(w) \/ Verify(w)
    PROVE  Kept /\ Moved(w)
<1> USE DEF At
<1>0. task[w] \in Task /\ Fit(task[w])
  BY Busy
<1>1. HostTypes /\ OpTypes
  BY OpsInvParts
<1>2. CASE Create(w)
  <2>0. task[w].pc = "create" /\ task[w].seen \in Container /\ tagged \in Images
    BY <1>0, <1>1, <1>2 DEF Create, Fit, HasSeen, HasImage, ReplacingPCs, OpTypes
  <2>1. CASE Finish(w) /\ OnlyTask
    BY <2>1, KeptByTask, FinishMoves
  <2>2. ASSUME NEW i \in Ids,
               HostCreate(i, [name |-> task[w].seen.name, image |-> tagged,
                              status |-> "created"]),
               Become(w, [task[w] EXCEPT !.pc = "connect", !.new = i]),
               OnlyHost
        PROVE  Kept /\ Moved(w)
    <3> DEFINE u == [task[w] EXCEPT !.pc = "connect", !.new = i]
    <3>1. [name |-> task[w].seen.name, image |-> tagged, status |-> "created"] \in Container
      BY <2>0 DEF Container, Statuses
    <3>2. HostTypes' /\ HostMoves
      BY <1>1, <2>2, <3>1, CreateHost
    <3>3. /\ u \in Task /\ u.pc = "connect" /\ u.id = task[w].id /\ u.row = task[w].row
          /\ u.seen = task[w].seen /\ u.img = task[w].img /\ u.new = i
      BY ZenonT(30), <1>0 DEF Task, TaskPCs
    <3>4. Become(w, u)
      BY <2>2
    <3> HIDE DEF u
    <3>5. Fit(u)
      BY <1>0, <2>0, <3>3 DEF Fit, HasRow, HasSeen, HasImage, HasNew, ReplacingPCs
    <3>6. Moved(w)
      BY <2>0, <3>2, <3>3, <3>4, <3>5, ReplaceMoves DEF ReplacingPCs
    <3> QED BY <2>2, <3>2, <3>6, KeptByHost
  <2> QED BY <1>2, <2>1, <2>2 DEF Create
<1>3. CASE Connect(w)
  <2>1. /\ task[w].pc = "connect"
        /\ "launch" \in TaskPCs \ {"free", "get"} /\ "rollback" \in TaskPCs \ {"free", "get"}
    BY <1>3 DEF Connect, TaskPCs, CallPCs
  <2>2. Kept
    BY <1>3, KeptByTask, KeptByFault DEF Connect
  <2>3. Goto(w, "launch") \/ Goto(w, "rollback")
    BY <1>3 DEF Connect
  <2> QED
    BY <2>1, <2>2, <2>3, GotoMoves
    DEF Kept, HasRow, HasSeen, HasImage, HasNew, ReplacingPCs
<1>4. CASE Rollback(w)
  <2>1. Finish(w) /\ task[w].new \in Ids
    BY <1>0, <1>4 DEF Rollback, Fit, HasNew, ReplacingPCs
  <2>2. CASE HostRemove(task[w].new) /\ OnlyHost
    <3>1. HostTypes' /\ HostMoves
      BY <1>1, <2>1, <2>2, RemoveHost
    <3> QED BY <2>1, <2>2, <3>1, KeptByHost, FinishMoves
  <2>3. CASE OnlyTask
    BY <2>1, <2>3, KeptByTask, FinishMoves
  <2> QED BY <1>4, <2>2, <2>3 DEF Rollback
<1>5. CASE Launch(w)
  <2>1. task[w].pc = "launch" /\ "verify" \in TaskPCs \ {"free", "get"} /\ task[w].new \in Ids
    BY <1>0, <1>5 DEF Launch, TaskPCs, Fit, HasNew, ReplacingPCs
  <2>2. Goto(w, "verify") /\ HostMoves => Moved(w)
    BY <2>1, GotoMoves DEF HasRow, HasSeen, HasImage, HasNew, ReplacingPCs
  <2> QED BY <1>5, <2>1, <2>2, DockerMoves DEF Launch
<1>6. CASE Verify(w)
  <2>0. /\ task[w].pc = "verify" /\ task[w].new \in Ids /\ task[w].seen \in Container
        /\ host[task[w].new] \in Container \cup {None}
    BY <1>0, <1>1, <1>6
    DEF Verify, Fit, HasNew, HasSeen, HasImage, ReplacingPCs, HostTypes
  <2>1. Kept
    BY <1>6, KeptByTask, KeptByFault DEF Verify
  <2>2. PICK st \in Statuses :
          Become(w, [task[w] EXCEPT !.pc = "swap", !.seen.status = st])
    <3>1. "running" \in Statuses
      BY DEF Statuses
    <3>2. host[task[w].new] # None => host[task[w].new].status \in Statuses
      BY <2>0 DEF Container
    <3> QED BY <1>6, <3>1, <3>2 DEF Verify
  <2> DEFINE u == [task[w] EXCEPT !.pc = "swap", !.seen.status = st]
  <2>3. /\ u \in Task /\ u.pc = "swap" /\ u.id = task[w].id /\ u.row = task[w].row
        /\ u.seen \in Container /\ u.img = task[w].img /\ u.new = task[w].new
    <3>1. [task[w].seen EXCEPT !.status = st] \in Container
      BY <2>0 DEF Container
    <3> QED BY <1>0, <3>1 DEF Task, TaskPCs, CallPCs
  <2>4. Become(w, u)
    BY <2>2
  <2> HIDE DEF u
  <2>5. Fit(u)
    BY <1>0, <2>0, <2>3 DEF Fit, HasRow, HasSeen, HasImage, HasNew, ReplacingPCs
  <2> QED BY <2>0, <2>1, <2>3, <2>4, <2>5, ReplaceMoves DEF Kept, ReplacingPCs
<1> QED BY <1>2, <1>3, <1>4, <1>5, <1>6

\* The writes that put the new container in the old one's place.
LEMMA SwapMoves ==
    ASSUME OpsInv, NEW w \in Workers, Swap(w) \/ Fallback(w) \/ Retire(w)
    PROVE  Kept /\ Moved(w)
<1> USE DEF At
<1>0. task[w] \in Task /\ Fit(task[w])
  BY Busy
<1>1. table \in [Ids -> Row \cup {None}] /\ feed \in [Ids -> Row \cup {None}]
  BY DEF OpsInv, OpsTypeOK, TypeOK
<1>2. task[w].pc \in {"swap", "fallback", "retire"}
  BY DEF Swap, Fallback, Retire
<1>3. /\ task[w].id \in Ids /\ task[w].new \in Ids /\ task[w].row \in Row
      /\ task[w].seen \in Container /\ task[w].img \in Images
  BY <1>0, <1>2 DEF Fit, HasRow, HasSeen, HasImage, HasNew, ReplacingPCs
<1>4. /\ "fallback" \in TaskPCs \ {"free", "get"} /\ "retire" \in TaskPCs \ {"free", "get"}
      /\ "read" \in TaskPCs
  BY DEF TaskPCs, CallPCs
<1>5. \A p \in {"fallback", "retire"} : Goto(w, p) /\ HostMoves => Moved(w)
  BY <1>2, <1>4, GotoMoves DEF HasRow, HasSeen, HasImage, HasNew, ReplacingPCs
<1>6. CASE Swap(w)
  <2>1. CASE Goto(w, "fallback") /\ OnlyTask
    BY <1>5, <2>1, KeptByTask DEF Kept
  <2>2. CASE Finish(w) /\ OnlyTask
    BY <2>2, KeptByTask, FinishMoves
  <2>3. CASE /\ table[task[w].id] # None
             /\ table' = [table EXCEPT ![task[w].id] = None,
                            ![task[w].new] = Upgraded(task[w], table[task[w].id].auto)]
             /\ Goto(w, "retire") /\ OnlyTable
    <3>1. table[task[w].id].auto \in BOOLEAN
      BY <1>1, <1>3, <2>3 DEF Row
    <3>2. Upgraded(task[w], table[task[w].id].auto) \in Row
      BY <1>3, <3>1, UpgradedRow
    <3>3. table' \in [Ids -> Row \cup {None}]
      BY <1>1, <2>3, <3>2
    <3> QED BY <1>5, <2>3, <3>3, KeptByTable DEF Kept
  <2> QED BY <1>6, <2>1, <2>2, <2>3 DEF Swap
<1>7. CASE Fallback(w)
  <2>1. task[w].row.auto \in BOOLEAN
    BY <1>3 DEF Row
  <2>2. Upgraded(task[w], task[w].row.auto) \in Row
    BY <1>3, <2>1, UpgradedRow
  <2>3. table' \in [Ids -> Row \cup {None}]
    BY <1>1, <1>7, <2>2 DEF Fallback
  <2> QED BY <1>5, <1>7, <2>3, KeptByTable DEF Kept, Fallback
<1>8. CASE Retire(w)
  <2> DEFINE u == [task[w] EXCEPT !.pc = "read", !.id = task[w].new]
  <2>1. feed' \in [Ids -> Row \cup {None}]
    BY <1>1, <1>8 DEF Retire
  <2>2. u \in Task /\ u.pc = "read" /\ u.id \in Ids
    BY <1>0, <1>3, <1>4 DEF Task
  <2>3. Become(w, u) /\ OnlyFeed
    BY <1>8 DEF Retire
  <2> HIDE DEF u
  <2>4. Fit(u) /\ u.pc \notin ReplacingPCs
    BY <2>2 DEF Fit, HasRow, HasSeen, HasImage, HasNew, ReplacingPCs
  <2> QED BY <2>1, <2>2, <2>3, <2>4, KeptByFeed, BecomeMoves
<1> QED BY <1>6, <1>7, <1>8

-----------------------------------------------------------------------------
(* The invariant is inductive.                                               *)

\* Whatever the step, one worker's good move leaves the invariant, if the
\* variables that belong to no worker stay in order.
LEMMA MoveKeepsInv ==
    ASSUME OpsInv, NEW w \in Workers, Kept, Moved(w), UNCHANGED monVars,
           agenda' \in [Ids -> Row \cup {None}], registry' \in Images,
           wanted' \in [Ids -> BOOLEAN], reqs' \in 0..MaxReqs, ticks' \in 0..MaxTicks
    PROVE  OpsInv'
<1>0. HostTypes /\ CacheTypes /\ MonitorFit /\ TasksOK
  BY OpsInvParts
<1>1. PICK t : Good(w, t)
  BY DEF Moved
<1>2. TasksOK'
  BY <1>0, <1>1, TaskStep DEF Good, Kept
<1>3. HostTypes'
  BY DEF Kept
<1>4. CacheTypes'
  BY <1>0 DEF CacheTypes, Kept, monVars
<1>5. OpTypes'
  BY DEF OpTypes, Kept
<1>6. MonitorFit'
  BY <1>0 DEF MonitorFit, monVars
<1>7. (HostTypes /\ CacheTypes /\ OpTypes /\ MonitorFit /\ TasksOK)' => OpsInv'
  BY DEF OpsInv, OpsTypeOK, TypeOK, HostTypes, CacheTypes, OpTypes, TasksOK
<1> QED BY <1>2, <1>3, <1>4, <1>5, <1>6, <1>7

\* An idle goroutine takes no step of an operation.
LEMMA WorkerBusy ==
    ASSUME NEW w \in Workers, WorkerStep(w)
    PROVE  ~At(w, "free")
<1>1. CommonStep(w) => ~At(w, "free")
  BY DEF CommonStep, Get, ReadBack, Publish, EndOfOperation, At
<1>2. StartStopStep(w) => ~At(w, "free")
  BY DEF StartStopStep, InspectBefore, Act, InspectAfter, Save, At
<1>3. FlagStep(w) => ~At(w, "free")
  BY DEF FlagStep, SetAuto, Look, AskRegistry, Record, At
<1>4. UpgradeStep(w) => ~At(w, "free")
  BY DEF UpgradeStep, Inspect, Pull, InspectImage, Halt, Remove, Create, Connect,
         Rollback, Launch, Verify, Swap, Fallback, Retire, At
<1> QED BY <1>1, <1>2, <1>3, <1>4 DEF WorkerStep

\* A step of a request's goroutine or the scheduler's, of any operation.
LEMMA WorkerKeepsInv ==
    ASSUME OpsInv, NEW w \in Workers, WorkerStep(w)
    PROVE  OpsInv'
<1>0. task[w].pc # "free"
  <2>1. ~At(w, "free")
    BY WorkerBusy
  <2> QED BY <2>1 DEF At
<1>1. Kept /\ Moved(w)
  <2>1. CASE CommonStep(w)
    BY <2>1, CommonMoves
  <2>2. CASE StartStopStep(w)
    BY <2>2, StartStopMoves
  <2>3. CASE FlagStep(w)
    BY <2>3, FlagMoves
  <2>4. CASE UpgradeStep(w)
    BY <2>4, PrepareMoves, CreateMoves, SwapMoves DEF UpgradeStep
  <2> QED BY <2>1, <2>2, <2>3, <2>4 DEF WorkerStep
<1>2. OpTypes
  BY OpsInvParts
<1>3. Wanted(w) \in [Ids -> BOOLEAN]
  <2>0. task[w] \in Task
    BY Busy
  <2>1. task[w].flag \in BOOLEAN
    BY <2>0 DEF Task
  <2>2. wanted \in [Ids -> BOOLEAN]
    BY <1>2 DEF OpTypes
  <2> SUFFICES ASSUME NEW i \in Ids PROVE Wanted(w)[i] \in BOOLEAN
    BY DEF Wanted
  <2>3. CASE At(w, "set") /\ i = task[w].id
    BY <2>1, <2>3 DEF Wanted
  <2>4. CASE ~(At(w, "set") /\ i = task[w].id) /\ i = task'[w].new /\ i # task[w].new
    BY <1>0, <2>2, <2>4, Busy DEF Wanted
  <2>5. CASE ~(At(w, "set") /\ i = task[w].id) /\ ~(i = task'[w].new /\ i # task[w].new)
    BY <2>2, <2>5 DEF Wanted
  <2> QED BY <2>3, <2>4, <2>5
<1>4. /\ wanted' = Wanted(w) /\ UNCHANGED monVars
      /\ UNCHANGED <<agenda, registry, reqs, ticks>>
  BY DEF WorkerStep
<1> QED BY <1>1, <1>2, <1>3, <1>4, MoveKeepsInv DEF OpTypes

\* A new operation, of a request or of the scheduler's sweep.
LEMMA BeginMoves ==
    ASSUME NEW w \in Workers, NEW u \in Task, u.pc = "get", u.op \in OpKinds, u.id \in Ids,
           Become(w, u)
    PROVE  Moved(w)
<1>1. Fit(u) /\ u.pc \notin ReplacingPCs
  BY DEF Fit, HasRow, HasSeen, HasImage, HasNew, ReplacingPCs
<1> QED BY <1>1, BecomeMoves

\* A step without a worker, if the variables it changes stay in order.
LEMMA OtherKeepsInv ==
    ASSUME OpsInv, HostTypes', HostMoves, CacheTypes', OpTypes', MonitorFit', task' = task
    PROVE  OpsInv'
<1>1. TasksOK'
  BY TaskStutter DEF OpsInv
<1> QED
  BY <1>1 DEF OpsInv, OpsTypeOK, TypeOK, HostTypes, CacheTypes, OpTypes, TasksOK

\* The scheduler's tick and its next record.
LEMMA SchedulerKeepsInv ==
    ASSUME OpsInv, SchedulerStep
    PROVE  OpsInv'
<1>0. HostTypes /\ CacheTypes /\ OpTypes /\ MonitorFit /\ UNCHANGED monVars
  BY OpsInvParts DEF SchedulerStep
<1>1. MonitorFit'
  BY <1>0 DEF MonitorFit, monVars
<1>2. CASE Tick
  <2>1. Kept
    BY <1>2, KeptByTask, KeptByFault DEF Tick
  <2>2. CacheTypes'
    BY <1>0, <2>1 DEF Kept, CacheTypes, monVars
  <2>3. agenda' \in [Ids -> Row \cup {None}]
    BY <1>0, <1>2 DEF Tick, OpTypes, CacheTypes
  <2>4. ticks' \in 0..MaxTicks
    BY <1>0, <1>2, OpsAssumption, SMT DEF Tick, OpTypes
  <2>5. OpTypes' /\ task' = task
    BY <1>0, <1>2, <2>1, <2>3, <2>4 DEF Tick, OpTypes, Kept
  <2> QED BY <1>1, <2>1, <2>2, <2>5, OtherKeepsInv DEF Kept
<1>3. ASSUME NEW i \in Ids, Dispatch(i) PROVE OpsInv'
  <2>1. Kept
    BY <1>3, KeptByTask DEF Dispatch
  <2>2. agenda[i].auto \in BOOLEAN /\ agenda' \in [Ids -> Row \cup {None}]
    <3>1. agenda[i] \in Row
      BY <1>0, <1>3 DEF Dispatch, OpTypes
    <3>2. agenda[i].auto \in BOOLEAN
      BY <3>1 DEF Row
    <3> QED BY <1>0, <1>3, <3>2 DEF Dispatch, OpTypes
  <2>3. Scheduler \in Workers /\ "check" \in OpKinds
    BY DEF Workers, OpKinds
  <2> DEFINE u == [Free EXCEPT !.op = "check", !.pc = "get", !.id = i,
                               !.auto = agenda[i].auto]
  <2>4. u \in Task /\ u.pc = "get" /\ u.op = "check" /\ u.id = i
    BY <2>2, <2>3 DEF Task, Free, TaskPCs, CallPCs
  <2>5. Moved(Scheduler)
    <3>1. Become(Scheduler, u)
      BY <1>3 DEF Dispatch
    <3> HIDE DEF u
    <3> QED BY <2>3, <2>4, <3>1, BeginMoves
  <2> QED BY <1>0, <1>3, <2>1, <2>2, <2>3, <2>5, MoveKeepsInv DEF Dispatch, OpTypes
<1> QED BY <1>2, <1>3 DEF SchedulerStep

\* A request arrives, or a version is pushed.
LEMMA OutsideKeepsInv ==
    ASSUME OpsInv, OutsideStep
    PROVE  OpsInv'
<1>0. HostTypes /\ CacheTypes /\ OpTypes /\ MonitorFit /\ UNCHANGED monVars
  BY OpsInvParts DEF OutsideStep
<1>1. ASSUME NEW w \in Users, NEW op \in Ops, NEW i \in Ids, NEW b \in BOOLEAN,
             Request(w, op, i, b)
      PROVE  OpsInv'
  <2>1. Kept
    BY <1>1, KeptByTask DEF Request
  <2>2. reqs' \in 0..MaxReqs
    BY <1>0, <1>1, OpsAssumption, SMT DEF Request, OpTypes
  <2>3. w \in Workers /\ op \in OpKinds
    BY OpsAssumption DEF Workers
  <2> DEFINE u == [Free EXCEPT !.op = op, !.pc = "get", !.id = i, !.flag = b]
  <2>4. u \in Task /\ u.pc = "get" /\ u.op = op /\ u.id = i
    BY <2>3 DEF Task, Free, TaskPCs, CallPCs
  <2>5. Moved(w)
    <3>1. Become(w, u)
      BY <1>1 DEF Request
    <3> HIDE DEF u
    <3> QED BY <2>3, <2>4, <3>1, BeginMoves
  <2> QED BY <1>0, <1>1, <2>1, <2>2, <2>3, <2>5, MoveKeepsInv DEF Request, OpTypes
<1>2. CASE Push
  <2>1. Kept
    BY <1>2, KeptByTask DEF Push
  <2>2. CacheTypes' /\ MonitorFit'
    BY <1>0, <2>1 DEF Kept, CacheTypes, MonitorFit, monVars
  <2>3. OpTypes' /\ task' = task
    BY <1>0, <1>2, <2>1 DEF Push, OpTypes, Kept
  <2> QED BY <2>1, <2>2, <2>3, OtherKeepsInv DEF Kept
<1> QED BY <1>1, <1>2 DEF OutsideStep

\* A failed call ends one operation, a crash ends all of them.
LEMMA FailureKeepsInv ==
    ASSUME OpsInv, FailureStep
    PROVE  OpsInv'
<1>0. HostTypes /\ CacheTypes /\ OpTypes /\ MonitorFit
  BY OpsInvParts
<1>1. ASSUME NEW w \in Workers, CallFails(w),
             UNCHANGED <<agenda, registry, wanted, reqs, ticks>>, UNCHANGED monVars
      PROVE  OpsInv'
  <2>1. Kept /\ Moved(w)
    BY <1>1, KeptByFault, FinishMoves DEF CallFails
  <2> QED BY <1>0, <1>1, <2>1, MoveKeepsInv DEF OpTypes
<1>2. CASE CrashAll
  <2> USE <1>2 DEF CrashAll, Crash
  <2>1. faults' \in 0..MaxFaults /\ UNCHANGED <<host, used, ext>>
    BY <1>0, FaultSpent
  <2>2. events' \in Seq(Event)
    <3>1. <<>> \in Seq(Event)
      BY SMT
    <3> QED BY <3>1
  <2>3. HostTypes'
    BY <1>0, <2>1, <2>2 DEF HostTypes, LiveUsed
  <2>4. mon' \in [pc : MonitorPCs, id : Ids \cup {None},
                  insp : Container \cup {None}, row : Row \cup {None}]
    BY DEF IdleMonitor, MonitorPCs
  <2>5. sync' \in [pc : SyncPCs, snap : [Ids -> Container \cup {None}], todo : SUBSET Ids]
    BY DEF SyncPCs
  <2>6. CacheTypes'
    BY <1>0, <2>1, <2>4, <2>5 DEF CacheTypes
  <2>7. OpTypes'
    BY <1>0 DEF OpTypes
  <2>8. MonitorFit'
    BY DEF MonitorFit, IdleMonitor
  <2>9. TasksOK'
    <3>1. task' \in [Workers -> Task] /\ \A w \in Workers : task'[w] = Free
      BY FreeTask
    <3>2. \A w \in Workers : Fit(task[w])' /\ Gone(task[w])'
      BY <3>1, FreeTask DEF Fit, Gone, ReplacingPCs
    <3>3. OneSuccessor'
      BY <3>1, FreeTask DEF OneSuccessor, Replacing
    <3> QED BY <3>1, <3>2, <3>3 DEF TasksOK
  <2> QED
    BY <2>3, <2>6, <2>7, <2>8, <2>9
    DEF OpsInv, OpsTypeOK, TypeOK, HostTypes, CacheTypes, OpTypes, TasksOK
<1> QED BY <1>1, <1>2 DEF FailureStep

\* UpsertContainerFromEvent writes a row.
LEMMA UpsertedIsRow ==
    ASSUME NEW row \in Row \cup {None}, NEW c \in Container
    PROVE  Upserted(row, c) \in Row
<1>1. c.name \in Names /\ c.image \in Images /\ c.status \in Statuses
  BY DEF Container
<1>2. row # None => row.auto \in BOOLEAN /\ row.avail \in BOOLEAN
  BY DEF Row
<1> DEFINE a == IF row = None THEN FALSE ELSE row.auto
           v == IF row = None THEN FALSE ELSE row.avail
<1>3. a \in BOOLEAN /\ v \in BOOLEAN
  BY <1>2
<1>4. Upserted(row, c) = [name |-> c.name, image |-> c.image, status |-> c.status,
                          auto |-> a, avail |-> v]
  BY DEF Upserted
<1> HIDE DEF a, v
<1> QED BY <1>1, <1>3, <1>4, SMT DEF Row

\* Operations of other Docker clients.
LEMMA ExternalKeepsHost ==
    ASSUME HostTypes, NEW i \in Ids, ExternalStep(i)
    PROVE  HostTypes' /\ HostMoves
<1>0. Statuses = {"created", "running", "paused", "exited"}
  BY DEF Statuses
<1>1. {"start", "die", "pause", "unpause", "rename"} \subseteq EventKinds
  BY DEF EventKinds
<1>2. CASE ExternalCreate(i)
  <2>1. PICK n \in Names, m \in Images :
          HostCreate(i, [name |-> n, image |-> m, status |-> "created"])
    BY <1>2 DEF ExternalCreate
  <2>2. [name |-> n, image |-> m, status |-> "created"] \in Container
    BY <1>0 DEF Container
  <2> QED BY <2>1, <2>2, CreateHost
<1>3. CASE ExternalStart(i)
  BY <1>0, <1>1, <1>3, SetStatusHost DEF ExternalStart
<1>4. CASE ExternalDie(i)
  BY <1>0, <1>1, <1>4, SetStatusHost DEF ExternalDie
<1>5. CASE ExternalPause(i)
  BY <1>0, <1>1, <1>5, SetStatusHost DEF ExternalPause
<1>6. CASE ExternalRename(i)
  <2>1. PICK n \in Names : host' = [host EXCEPT ![i].name = n]
    BY <1>6 DEF ExternalRename
  <2>2. host[i] # None /\ used' = used /\ Emit("rename", i)
    BY <1>6 DEF ExternalRename
  <2>3. [host[i] EXCEPT !.name = n] \in Container /\ i \in used
    BY <2>2 DEF HostTypes, Container, LiveUsed
  <2>4. events' \in Seq(Event) /\ unseen' \in SUBSET Ids
    BY <1>1, <2>2, EmitTypes
  <2>5. host' \in [Ids -> Container \cup {None}] /\ used' \in SUBSET Ids /\ LiveUsed'
    BY <2>1, <2>2, <2>3 DEF HostTypes, LiveUsed
  <2> QED BY <2>1, <2>2, <2>4, <2>5 DEF HostTypes, HostMoves
<1>7. CASE ExternalRemove(i)
  BY <1>7, RemoveHost DEF ExternalRemove
<1> QED BY <1>2, <1>3, <1>4, <1>5, <1>6, <1>7 DEF ExternalStep

\* The startup synchronisation keeps the types and a complete listing.
LEMMA SyncKeeps ==
    ASSUME HostTypes, CacheTypes, MonitorFit, SyncStep
    PROVE  HostTypes' /\ HostMoves /\ CacheTypes' /\ MonitorFit'
<1>1. CASE SyncList
  <2> USE <1>1 DEF SyncList
  <2>1. HostTypes' /\ HostMoves
    BY DEF HostTypes, HostMoves, LiveUsed
  <2>2. sync' \in [pc : SyncPCs, snap : [Ids -> Container \cup {None}], todo : SUBSET Ids]
    BY DEF SyncPCs, HostTypes, Live
  <2>3. CacheTypes'
    BY <2>2 DEF CacheTypes
  <2>4. MonitorFit'
    BY DEF MonitorFit, HostTypes, Live
  <2> QED BY <2>1, <2>3, <2>4
<1>2. ASSUME NEW i \in Ids, SyncUpsert(i)
      PROVE  HostTypes' /\ HostMoves /\ CacheTypes' /\ MonitorFit'
  <2> USE <1>2 DEF SyncUpsert
  <2>1. HostTypes' /\ HostMoves
    BY SameHost
  <2>2. /\ sync.pc = "upsert" /\ sync.snap[i] \in Container
        /\ table[i] \in Row \cup {None}
    BY DEF MonitorFit, CacheTypes
  <2>3. table' \in [Ids -> Row \cup {None}]
    BY <2>2, UpsertedIsRow DEF CacheTypes
  <2>4. sync' \in [pc : SyncPCs, snap : [Ids -> Container \cup {None}], todo : SUBSET Ids]
    BY DEF CacheTypes
  <2>5. CacheTypes'
    BY <2>3, <2>4 DEF CacheTypes
  <2>6. sync'.snap = sync.snap /\ sync'.todo \subseteq sync.todo /\ sync'.pc = sync.pc
    BY DEF CacheTypes
  <2>7. MonitorFit'
    BY <2>6 DEF MonitorFit
  <2> QED BY <2>1, <2>5, <2>7
<1>3. CASE SyncOrphans
  <2> USE <1>3 DEF SyncOrphans
  <2>1. HostTypes' /\ HostMoves
    BY DEF HostTypes, HostMoves, LiveUsed
  <2>2. table' \in [Ids -> Row \cup {None}]
    BY DEF WithoutOrphans, CacheTypes
  <2>3. sync' \in [pc : SyncPCs, snap : [Ids -> Container \cup {None}], todo : SUBSET Ids]
    BY DEF CacheTypes, SyncPCs
  <2>4. CacheTypes'
    BY <2>2, <2>3 DEF CacheTypes
  <2>5. sync'.pc = "up"
    BY DEF CacheTypes
  <2>6. MonitorFit'
    BY <2>5 DEF MonitorFit
  <2> QED BY <2>1, <2>4, <2>6
<1> QED BY <1>1, <1>2, <1>3 DEF SyncStep

\* A monitor that returns from handleEvent is typed.
LEMMA IdleTyped ==
    /\ IdleMonitor \in [pc : MonitorPCs, id : Ids \cup {None},
                        insp : Container \cup {None}, row : Row \cup {None}]
    /\ IdleMonitor.pc = "idle"
BY DEF IdleMonitor, MonitorPCs

\* A step of the monitor that writes the table or publishes, or does neither.
LEMMA MonitorKeepsRest ==
    ASSUME HostTypes, CacheTypes, MonitorFit,
           UNCHANGED <<host, used, sync, ext>>, faults' \in 0..MaxFaults,
           events' \in Seq(Event), unseen' \in SUBSET Ids, conn' \in BOOLEAN,
           table' \in [Ids -> Row \cup {None}], feed' \in [Ids -> Row \cup {None}],
           mon' \in [pc : MonitorPCs, id : Ids \cup {None},
                     insp : Container \cup {None}, row : Row \cup {None}],
           mon'.pc # "idle" => mon'.id \in Ids,
           mon'.pc = "upsert" => mon'.insp \in Container
    PROVE  HostTypes' /\ HostMoves /\ CacheTypes' /\ MonitorFit'
<1>1. HostTypes' /\ HostMoves
  BY DEF HostTypes, HostMoves, LiveUsed
<1>2. CacheTypes'
  BY DEF CacheTypes
<1>3. MonitorFit'
  BY DEF MonitorFit
<1> QED BY <1>1, <1>2, <1>3

\* Failures of the stream and of the monitor's calls.
LEMMA CacheFaultKeeps ==
    ASSUME HostTypes, CacheTypes, MonitorFit,
           StreamError \/ MonitorError \/ MonitorReadError
    PROVE  HostTypes' /\ HostMoves /\ CacheTypes' /\ MonitorFit'
<1>0. faults' \in 0..MaxFaults /\ UNCHANGED <<host, used, ext>>
  BY FaultSpent DEF StreamError, MonitorError, MonitorReadError
<1>1. CASE StreamError
  <2> USE <1>1 DEF StreamError
  <2>1. <<>> \in Seq(Event)
    BY SMT
  <2>2. \A k \in 1..Len(events) : events[k] \in Event
    BY SMT DEF HostTypes
  <2>3. \A k \in 1..Len(events) : events[k].id \in Ids
    BY <2>2 DEF Event
  <2>4. unseen' \in SUBSET Ids
    BY <2>3 DEF HostTypes
  <2>5. mon' = mon /\ (mon.pc # "idle" => mon.id \in Ids)
        /\ (mon.pc = "upsert" => mon.insp \in Container)
    BY DEF MonitorFit
  <2> QED BY <1>0, <2>1, <2>4, <2>5, MonitorKeepsRest DEF CacheTypes
<1>2. CASE MonitorError
  <2> USE <1>2 DEF MonitorError
  <2>1. mon.id \in Ids
    BY DEF MonitorFit
  <2>2. unseen' \in SUBSET Ids
    BY <2>1 DEF HostTypes
  <2> QED BY <1>0, <2>2, IdleTyped, MonitorKeepsRest DEF CacheTypes, HostTypes
<1>3. CASE MonitorReadError
  <2> USE <1>3 DEF MonitorReadError
  <2> QED BY <1>0, IdleTyped, MonitorKeepsRest DEF CacheTypes, HostTypes
<1> QED BY <1>1, <1>2, <1>3

\* The monitor's handler, beside the operations.
LEMMA MonitorKeeps ==
    ASSUME HostTypes, CacheTypes, MonitorFit, MonitorStep
    PROVE  HostTypes' /\ HostMoves /\ CacheTypes' /\ MonitorFit'
<1> DEFINE Mon == [pc : MonitorPCs, id : Ids \cup {None},
                   insp : Container \cup {None}, row : Row \cup {None}]
<1>0. /\ mon \in Mon
      /\ table \in [Ids -> Row \cup {None}] /\ feed \in [Ids -> Row \cup {None}]
      /\ faults \in 0..MaxFaults /\ conn \in BOOLEAN
      /\ events \in Seq(Event) /\ unseen \in SUBSET Ids
      /\ host \in [Ids -> Container \cup {None}]
      /\ mon.pc # "idle" => mon.id \in Ids
      /\ mon.pc = "upsert" => mon.insp \in Container
  BY DEF HostTypes, CacheTypes, MonitorFit
<1>1. IdleMonitor \in Mon /\ IdleMonitor.pc = "idle"
  BY IdleTyped
<1>2. CASE Subscribe
  BY <1>0, <1>2, MonitorKeepsRest DEF Subscribe
<1>3. CASE MonitorTake
  <2> USE <1>3 DEF MonitorTake
  <2>1. Head(events) \in Event /\ Tail(events) \in Seq(Event)
    BY <1>0, SMT
  <2>2. Head(events).id \in Ids
    BY <2>1 DEF Event
  <2>3. /\ mon' \in Mon
        /\ mon'.pc # "idle" => mon'.id \in Ids
        /\ mon'.pc # "upsert"
    <3>1. ASSUME NEW p \in {"delete", "inspect"},
                 mon' = [IdleMonitor EXCEPT !.pc = p, !.id = Head(events).id]
          PROVE  mon' \in Mon /\ mon'.id \in Ids /\ mon'.pc # "upsert"
      BY <2>2, <3>1 DEF IdleMonitor, MonitorPCs
    <3>2. \/ mon' = IdleMonitor
          \/ \E p \in {"delete", "inspect"} :
               mon' = [IdleMonitor EXCEPT !.pc = p, !.id = Head(events).id]
      OBVIOUS
    <3> HIDE DEF Mon
    <3> QED BY <1>1, <3>1, <3>2
  <2> QED BY <1>0, <2>1, <2>3, MonitorKeepsRest
<1>4. CASE MonitorDelete
  <2> USE <1>4 DEF MonitorDelete
  <2>1. mon' \in Mon /\ mon'.pc = "deleted" /\ mon'.id \in Ids
    BY <1>0 DEF MonitorPCs
  <2>2. table' \in [Ids -> Row \cup {None}] /\ unseen' \in SUBSET Ids
    BY <1>0
  <2> QED BY <1>0, <2>1, <2>2, MonitorKeepsRest
<1>5. CASE MonitorPublishDelete
  <2> USE <1>5 DEF MonitorPublishDelete
  <2>1. feed' \in [Ids -> Row \cup {None}]
    BY <1>0
  <2> QED BY <1>0, <1>1, <2>1, MonitorKeepsRest
<1>6. CASE MonitorInspect
  <2> USE <1>6 DEF MonitorInspect
  <2>0. mon.id \in Ids /\ unseen' \in SUBSET Ids
    BY <1>0
  <2>1. CASE host[mon.id] = None
    <3>1. mon' = IdleMonitor
      BY <2>1
    <3> QED BY <1>0, <1>1, <2>0, <3>1, MonitorKeepsRest
  <2>2. CASE host[mon.id] # None
    <3>1. host[mon.id] \in Container
      BY <1>0, <2>0, <2>2
    <3>2. mon' \in Mon /\ mon'.id \in Ids /\ mon'.insp \in Container
      BY <1>0, <2>0, <2>2, <3>1 DEF MonitorPCs
    <3> QED BY <1>0, <2>0, <3>2, MonitorKeepsRest
  <2> QED BY <2>1, <2>2
<1>7. CASE MonitorUpsert
  <2> USE <1>7 DEF MonitorUpsert
  <2>0. mon.id \in Ids /\ mon.insp \in Container /\ table[mon.id] \in Row \cup {None}
    BY <1>0
  <2>1. table' \in [Ids -> Row \cup {None}]
    BY <1>0, <2>0, UpsertedIsRow
  <2>2. mon' \in Mon /\ mon'.id \in Ids /\ mon'.pc = "read"
    BY <1>0, <2>0 DEF MonitorPCs
  <2> QED BY <1>0, <2>1, <2>2, MonitorKeepsRest
<1>8. CASE MonitorRead
  <2> USE <1>8 DEF MonitorRead
  <2>0. mon.id \in Ids
    BY <1>0
  <2>1. CASE table[mon.id] = None
    <3>1. mon' = IdleMonitor
      BY <2>1
    <3> QED BY <1>0, <1>1, <3>1, MonitorKeepsRest
  <2>2. CASE table[mon.id] # None
    <3>1. mon' \in Mon /\ mon'.id \in Ids /\ mon'.pc = "publish"
      BY <1>0, <2>0, <2>2 DEF MonitorPCs
    <3> QED BY <1>0, <3>1, MonitorKeepsRest
  <2> QED BY <2>1, <2>2
<1>9. CASE MonitorPublish
  <2> USE <1>9 DEF MonitorPublish
  <2>1. feed' \in [Ids -> Row \cup {None}]
    BY <1>0
  <2> QED BY <1>0, <1>1, <2>1, MonitorKeepsRest
<1> QED
  BY <1>2, <1>3, <1>4, <1>5, <1>6, <1>7, <1>8, <1>9 DEF MonitorStep

\* Everything the cache and other Docker clients do beside the operations.
LEMMA CacheKeepsInv ==
    ASSUME OpsInv, CacheStep
    PROVE  OpsInv'
<1>0. HostTypes /\ CacheTypes /\ OpTypes /\ MonitorFit
  BY OpsInvParts
<1>1. OpTypes' /\ task' = task
  BY <1>0 DEF CacheStep, opVars, OpTypes
<1>2. HostTypes' /\ HostMoves /\ CacheTypes' /\ MonitorFit'
  <2>1. ASSUME NEW i \in Ids, ExternalStep(i)
        PROVE  HostTypes' /\ HostMoves /\ CacheTypes' /\ MonitorFit'
    <3>1. HostTypes' /\ HostMoves
      BY <1>0, <2>1, ExternalKeepsHost
    <3>2. External
      BY <2>1 DEF ExternalStep, ExternalCreate, ExternalStart, ExternalDie, ExternalPause,
                  ExternalRename, ExternalRemove
    <3>3. CacheTypes' /\ MonitorFit'
      BY <1>0, <3>2, BoundAssumption, SMT DEF External, CacheTypes, MonitorFit
    <3> QED BY <3>1, <3>3
  <2> QED BY <1>0, <2>1, SyncKeeps, MonitorKeeps, CacheFaultKeeps DEF CacheStep
<1> QED BY <1>1, <1>2, OtherKeepsInv

\* A server that is up beside an agreeing table.
LEMMA OpsInitInv == OpsInit => OpsInv
<1> SUFFICES ASSUME OpsInit PROVE OpsInv
  OBVIOUS
<1>0. /\ used = Live /\ unseen = {} /\ events = <<>>
      /\ sync = [pc |-> "up", snap |-> host, todo |-> {}] /\ mon = IdleMonitor
      /\ conn = TRUE /\ feed = table /\ ext = MaxExternal /\ faults = MaxFaults
      /\ registry \in Images /\ tagged = registry /\ reqs = MaxReqs /\ ticks = MaxTicks
      /\ agenda = [i \in Ids |-> None] /\ task = [w \in Workers |-> Free]
  BY DEF OpsInit
<1>1. host \in [Ids -> Container \cup {None}] /\ wanted \in [Ids -> BOOLEAN]
  BY BootAssumption DEF OpsInit
<1>2. HostTypes
  <2>1. <<>> \in Seq(Event)
    BY SMT
  <2> QED BY <1>0, <1>1, <2>1 DEF HostTypes, LiveUsed, Live
<1>3. table \in [Ids -> Row \cup {None}]
  <2> SUFFICES ASSUME NEW i \in Ids PROVE table[i] \in Row \cup {None}
    BY DEF OpsInit
  <2>1. CASE host[i] = None
    BY <2>1 DEF OpsInit
  <2>2. CASE host[i] # None
    <3>1. /\ host[i].name \in Names /\ host[i].image \in Images
          /\ host[i].status \in Statuses
      BY <1>1, <2>2 DEF Container
    <3>2. wanted[i] \in BOOLEAN
      BY <1>1
    <3>3. table[i] = [name |-> host[i].name, image |-> host[i].image,
                      status |-> host[i].status, auto |-> wanted[i], avail |-> FALSE]
      BY <2>2 DEF OpsInit
    <3> QED BY <3>1, <3>2, <3>3, SMT DEF Row
  <2> QED BY <2>1, <2>2
<1>4. CacheTypes
  <2>1. sync \in [pc : SyncPCs, snap : [Ids -> Container \cup {None}], todo : SUBSET Ids]
    BY <1>0, <1>1 DEF SyncPCs
  <2>2. ext \in 0..MaxExternal /\ faults \in 0..MaxFaults
    BY <1>0, BoundAssumption, SMTT(30)
  <2> QED BY <1>0, <1>3, <2>1, <2>2, IdleTyped DEF CacheTypes
<1>5. OpTypes
  <2>1. reqs \in 0..MaxReqs /\ ticks \in 0..MaxTicks
    BY <1>0, OpsAssumption, SMTT(30)
  <2> QED BY <1>0, <1>1, <2>1 DEF OpTypes
<1>6. MonitorFit
  BY <1>0 DEF MonitorFit, IdleMonitor
<1>7. TasksOK
  <2>1. task \in [Workers -> Task] /\ \A w \in Workers : task[w] = Free
    BY <1>0, FreeTask
  <2>2. \A w \in Workers : Fit(task[w]) /\ Gone(task[w])
    BY <2>1, FreeTask DEF Gone, ReplacingPCs
  <2>3. OneSuccessor
    BY <2>1, FreeTask DEF OneSuccessor, Replacing
  <2> QED BY <2>1, <2>2, <2>3 DEF TasksOK
<1> QED BY <1>2, <1>4, <1>5, <1>6, <1>7, OpsInvParts

\* Every step of the composed system keeps the invariant.
LEMMA OpsNextInv == OpsInv /\ [OpsNext]_allVars => OpsInv'
<1> SUFFICES ASSUME OpsInv, [OpsNext]_allVars PROVE OpsInv'
  OBVIOUS
<1>1. CASE UNCHANGED allVars
  <2>0. HostTypes /\ CacheTypes /\ OpTypes /\ MonitorFit
    BY OpsInvParts
  <2> USE <1>1 DEF allVars, vars, opVars
  <2>1. HostTypes' /\ HostMoves
    BY <2>0, SameHost
  <2>2. CacheTypes' /\ OpTypes' /\ MonitorFit'
    BY <2>0 DEF CacheTypes, OpTypes, MonitorFit
  <2> QED BY <2>1, <2>2, OtherKeepsInv
<1>2. CASE OpsNext
  BY <1>2, WorkerKeepsInv, SchedulerKeepsInv, OutsideKeepsInv, CacheKeepsInv,
     FailureKeepsInv DEF OpsNext
<1> QED BY <1>1, <1>2

-----------------------------------------------------------------------------
(* Theorems.                                                                 *)

\* The invariant holds for any number of workers, containers, requests, ticks,
\* external operations and faults.
THEOREM OpsInvariance == OpsSpec => []OpsInv
BY OpsInitInv, OpsNextInv, PTL DEF OpsSpec

\* Every operation finds the locals it reads set, and all of the state keeps its
\* type, whatever calls of other goroutines, crashes and failures interleave.
THEOREM OpsTypeCorrect == OpsSpec => []OpsTypeOK
<1>1. OpsInv => OpsTypeOK
  BY DEF OpsInv
<1> QED BY <1>1, OpsInvariance, PTL

\* Two upgrades of one container never both get past ContainerRemove, so
\* upgradeContainerInternal never gives a container two successors, although no
\* lock of the code keeps the requests and the scheduler apart.
THEOREM OneSuccessorCorrect == OpsSpec => []OneSuccessor
<1>1. OpsInv => OneSuccessor
  BY DEF OpsInv, TasksOK
<1> QED BY <1>1, OpsInvariance, PTL

-----------------------------------------------------------------------------
(* update_available: checks and upgrades write it from what they read of the *)
(* host and the registry some steps earlier.                                 *)

\* The container i runs, or when it was removed ran, an image older than r.
Behind(i, u, h, r) == i \in u /\ (h[i] # None => h[i].image < r)

\* What an operation has read and will write is true of the container it is about.
Backed(t, u, h, r) ==
    /\ t.pc \in {"before", "act", "after", "save"} =>
         t.id \in u /\ (t.row.avail => Behind(t.id, u, h, r))
    /\ t.pc = "look" => t.id \in u
    /\ t.pc = "registry" => t.id \in u /\ (h[t.id] # None => t.img = h[t.id].image)
    /\ t.pc = "record" => (t.flag => Behind(t.id, u, h, r))
    /\ t.pc \in HasNew => t.new \in u

\* Every row is about a container Docker has made, and is right about its image.
RowsBacked(T, u, h, r) ==
    \A i \in Ids : T[i] # None => i \in u /\ (T[i].avail => Behind(i, u, h, r))

\* No container runs, and no tag names, a version the registry has not had.
Versions(h, g, r) == g <= r /\ \A i \in Ids : h[i] # None => h[i].image <= r

\* The monitor writes rows of containers Docker has made only.
MonBacked == /\ mon.pc = "upsert" => mon.id \in used
             /\ sync.todo \subseteq used

\* The inductive invariant: rows, versions, the monitor and every operation.
AvailInv ==
    /\ RowsBacked(table, used, host, registry)
    /\ Versions(host, tagged, registry)
    /\ MonBacked
    /\ \A w \in Workers : Backed(task[w], used, host, registry)

-----------------------------------------------------------------------------
(* What time does to these facts.                                            *)

\* Ids are only added, versions only grow, and a container keeps its image.
Ages(u, h, r, v, g, s) ==
    /\ u \subseteq v
    /\ r <= s
    /\ \A i \in u : g[i] # None => h[i] # None /\ g[i].image = h[i].image

\* A step lets the host, the ids and the registry age.
Aged == Ages(used, host, registry, used', host', registry')

\* A host that can be read: containers have a version.
Numbered(u, h, r) == r \in Nat /\ \A i \in u : h[i] # None => h[i].image \in Nat

\* An outdated container stays outdated.
LEMMA BehindStays ==
    ASSUME NEW u, NEW h, NEW r, NEW v, NEW g, NEW s, NEW i,
           Ages(u, h, r, v, g, s), Numbered(u, h, r), s \in Nat, Behind(i, u, h, r)
    PROVE  Behind(i, v, g, s)
BY SMTT(30) DEF Ages, Numbered, Behind

\* What an operation has read stays true.
LEMMA BackedStays ==
    ASSUME NEW u, NEW h, NEW r, NEW v, NEW g, NEW s, NEW t,
           Ages(u, h, r, v, g, s), Numbered(u, h, r), s \in Nat, Backed(t, u, h, r)
    PROVE  Backed(t, v, g, s)
<1>1. Behind(t.id, u, h, r) => Behind(t.id, v, g, s)
  BY BehindStays
<1>2. u \subseteq v /\ \A i \in u : g[i] # None => h[i] # None /\ g[i].image = h[i].image
  BY DEF Ages
<1> QED BY <1>1, <1>2 DEF Backed

\* Rows stay true.
LEMMA RowsStay ==
    ASSUME NEW u, NEW h, NEW r, NEW v, NEW g, NEW s, NEW T,
           Ages(u, h, r, v, g, s), Numbered(u, h, r), s \in Nat, RowsBacked(T, u, h, r)
    PROVE  RowsBacked(T, v, g, s)
<1>1. \A i : Behind(i, u, h, r) => Behind(i, v, g, s)
  BY BehindStays
<1>2. u \subseteq v
  BY DEF Ages
<1> QED BY <1>1, <1>2 DEF RowsBacked

\* The types that these facts need.
LEMMA VersionTypes ==
    ASSUME OpsInv
    PROVE  /\ Numbered(used, host, registry)
           /\ \A i \in Ids : host[i] # None => host[i].image \in Nat
           /\ registry \in Nat /\ tagged \in Nat
           /\ used \subseteq Ids
<1>1. HostTypes /\ OpTypes
  BY OpsInvParts
<1>2. registry \in Nat /\ tagged \in Nat /\ used \subseteq Ids
  BY <1>1, VersionAssumption DEF OpTypes, HostTypes
<1>3. \A i \in Ids : host[i] # None => host[i].image \in Nat
  BY <1>1, VersionAssumption DEF HostTypes, Container
<1> QED BY <1>2, <1>3 DEF Numbered

\* A step that leaves the host and the registry alone.
LEMMA AgedSame ==
    ASSUME OpsInv, UNCHANGED <<host, used, registry>>
    PROVE  Aged
BY VersionTypes, SMT DEF Aged, Ages

\* ContainerStart and ContainerStop.
LEMMA AgedStatus ==
    ASSUME OpsInv, NEW i \in Ids, host[i] # None, NEW kind, NEW st,
           HostSetStatus(i, kind, st), UNCHANGED registry,
           Versions(host, tagged, registry)
    PROVE  Aged /\ \A j \in Ids : host'[j] # None => host'[j].image <= registry'
<1>1. HostTypes
  BY OpsInvParts
<1>2. host' = [host EXCEPT ![i] = [host[i] EXCEPT !.status = st]] /\ used' = used
  BY DEF HostSetStatus
<1>3. host[i] \in Container /\ host \in [Ids -> Container \cup {None}]
  BY <1>1 DEF HostTypes
<1>4. [host[i] EXCEPT !.status = st].image = host[i].image
  BY <1>3 DEF Container
<1>5. \A j \in Ids : host'[j] # None => host[j] # None /\ host'[j].image = host[j].image
  BY <1>2, <1>3, <1>4
<1> QED BY <1>2, <1>5, VersionTypes, SMT DEF Aged, Ages, Versions

\* ContainerRemove.
LEMMA AgedRemove ==
    ASSUME OpsInv, NEW i \in Ids, HostRemove(i), UNCHANGED registry,
           Versions(host, tagged, registry)
    PROVE  Aged /\ \A j \in Ids : host'[j] # None => host'[j].image <= registry'
<1>1. HostTypes
  BY OpsInvParts
<1>2. host' = [host EXCEPT ![i] = None] /\ used' = used
  BY DEF HostRemove
<1>3. \A j \in Ids : host'[j] # None => host'[j] = host[j]
  BY <1>1, <1>2 DEF HostTypes
<1> QED BY <1>2, <1>3, VersionTypes, SMT DEF Aged, Ages, Versions

\* ContainerCreate, of an image the registry has had.
LEMMA AgedCreate ==
    ASSUME OpsInv, NEW i \in Ids, NEW c \in Container, HostCreate(i, c), UNCHANGED registry,
           Versions(host, tagged, registry), c.image <= registry
    PROVE  Aged /\ \A j \in Ids : host'[j] # None => host'[j].image <= registry'
<1>1. HostTypes
  BY OpsInvParts
<1>2. host' = [host EXCEPT ![i] = c] /\ used' = used \cup {i} /\ i \notin used
  BY DEF HostCreate
<1>3. \A j \in Ids : host'[j] # None => host'[j] = IF j = i THEN c ELSE host[j]
  BY <1>1, <1>2 DEF HostTypes
<1> QED BY <1>2, <1>3, VersionTypes, SMT DEF Aged, Ages, Versions

-----------------------------------------------------------------------------
(* A step of a worker: what is shared stays true, and so does what it read.  *)

\* A step that leaves the shared state true.
Calm ==
    /\ Aged
    /\ Versions(host', tagged', registry')
    /\ RowsBacked(table', used', host', registry')

\* A step after which what the worker w has read is true.
Backs(w) ==
    \E t : task' = [task EXCEPT ![w] = t] /\ Backed(t, used', host', registry')

\* Steps of start and stop that hold on to the row they read.
Holding == {"before", "act", "after", "save"}

\* A step at which an operation holds nothing that has to be true.
LEMMA NothingBacked ==
    ASSUME NEW t, t.pc \notin Holding \cup HasNew \cup {"look", "registry", "record"},
           NEW u, NEW h, NEW r
    PROVE  Backed(t, u, h, r)
BY DEF Backed, Holding

\* A step that leaves the host and the registry alone.
LEMMA CalmSame ==
    ASSUME OpsInv, AvailInv, UNCHANGED <<host, used, registry, tagged>>,
           RowsBacked(table', used, host, registry)
    PROVE  Calm
BY AgedSame DEF Calm, AvailInv

\* A step that only moves a task on.
LEMMA CalmByTask ==
    ASSUME OpsInv, AvailInv, UNCHANGED registry, OnlyTask
    PROVE  Calm
BY CalmSame DEF OnlyTask, AvailInv

\* A call that fails.
LEMMA CalmByFault ==
    ASSUME OpsInv, AvailInv, UNCHANGED registry, NEW kind, Fault(kind), OnlyFault
    PROVE  Calm
BY CalmSame DEF OnlyFault, Fault, AvailInv

\* A publication to the subscribers.
LEMMA CalmByFeed ==
    ASSUME OpsInv, AvailInv, UNCHANGED registry, OnlyFeed
    PROVE  Calm
BY CalmSame DEF OnlyFeed, AvailInv

\* A write of the table, with true rows.
LEMMA CalmByTable ==
    ASSUME OpsInv, AvailInv, UNCHANGED registry, OnlyTable,
           RowsBacked(table', used, host, registry)
    PROVE  Calm
BY CalmSame DEF OnlyTable

\* A call that changes the host.
LEMMA CalmByHost ==
    ASSUME OpsInv, AvailInv, UNCHANGED registry, OnlyHost, Aged,
           \A j \in Ids : host'[j] # None => host'[j].image <= registry'
    PROVE  Calm
<1>1. Numbered(used, host, registry) /\ registry' \in Nat
  BY VersionTypes
<1>2. RowsBacked(table, used, host, registry)
  BY DEF AvailInv
<1>3. RowsBacked(table, used', host', registry')
  BY <1>1, <1>2, RowsStay DEF Aged
<1>4. table' = table /\ tagged' = tagged
  BY DEF OnlyHost
<1>5. Versions(host', tagged', registry')
  BY <1>4 DEF AvailInv, Versions
<1> QED BY <1>3, <1>4, <1>5 DEF Calm

\* An operation that goes on with what is true.
LEMMA BecomeBacks ==
    ASSUME NEW w \in Workers, NEW u, Become(w, u), Backed(u, used', host', registry')
    PROVE  Backs(w)
BY DEF Backs, Become

\* An operation that ends.
LEMMA FinishBacks ==
    ASSUME NEW w \in Workers, Finish(w)
    PROVE  Backs(w)
<1>1. Free.pc = "free"
  BY FreeTask
<1>2. Backed(Free, used', host', registry')
  BY <1>1, NothingBacked DEF Holding, HasNew, ReplacingPCs
<1> QED BY <1>2, BecomeBacks DEF Finish

\* What a worker read is still true after the step.
LEMMA StillBacked ==
    ASSUME OpsInv, AvailInv, registry' \in Nat, Aged, NEW w \in Workers
    PROVE  Backed(task[w], used', host', registry')
<1>1. Numbered(used, host, registry) /\ registry' \in Nat
  BY VersionTypes
<1>2. Backed(task[w], used, host, registry)
  BY DEF AvailInv
<1> QED BY <1>1, <1>2, BackedStays DEF Aged

\* The next step of an operation relies on nothing the last one did not have.
LEMMA GotoBacks ==
    ASSUME OpsInv, AvailInv, registry' \in Nat, Aged, NEW w \in Workers, NEW p \in TaskPCs, Goto(w, p),
           p \notin {"look", "registry", "record"},
           p \in Holding => task[w].pc \in Holding,
           p \in HasNew => task[w].pc \in HasNew
    PROVE  Backs(w)
<1> DEFINE u == [task[w] EXCEPT !.pc = p]
<1>1. task[w] \in Task
  BY Busy
<1>2. /\ u.pc = p /\ u.id = task[w].id /\ u.row = task[w].row /\ u.new = task[w].new
  BY <1>1, GotoTask
<1>3. Become(w, u)
  BY DEF Goto
<1> HIDE DEF u
<1>4. Backed(u, used', host', registry')
  BY <1>2, StillBacked DEF Backed, Holding
<1> QED BY <1>3, <1>4, BecomeBacks

\* Docker calls of a worker on one container.
LEMMA DockerBacks ==
    ASSUME OpsInv, AvailInv, UNCHANGED registry, NEW w \in Workers, NEW i \in Ids,
           NEW p \in TaskPCs, DockerStart(w, i, p) \/ DockerStop(w, i, p),
           Aged /\ Goto(w, p) => Backs(w)
    PROVE  Calm /\ Backs(w)
<1>1. CASE Finish(w) /\ OnlyTask
  BY <1>1, CalmByTask, FinishBacks
<1>2. CASE Goto(w, p) /\ OnlyTask
  BY <1>2, CalmByTask DEF Calm
<1>3. ASSUME host[i] # None, NEW kind, NEW st, HostSetStatus(i, kind, st), Goto(w, p), OnlyHost
      PROVE  Calm /\ Backs(w)
  <2>1. Aged /\ \A j \in Ids : host'[j] # None => host'[j].image <= registry'
    BY <1>3, AgedStatus DEF AvailInv
  <2> QED BY <1>3, <2>1, CalmByHost
<1> QED BY <1>1, <1>2, <1>3 DEF DockerStart, DockerStop, NotFound

-----------------------------------------------------------------------------
(* The steps of the operations.                                              *)

\* No inspection fails: of the container, so that a check compares its image and
\* not the row's, nor of the image, so that its digests are compared. The fault
\* "call" stands for every Docker call of an operation.
ReliableChecks == "call" \notin FaultKinds /\ "image" \notin FaultKinds

\* GetContainer reads a true row; nothing is held after the write.
LEMMA CommonBacks ==
    ASSUME OpsInv, AvailInv, UNCHANGED registry, NEW w \in Workers, CommonStep(w)
    PROVE  Calm /\ Backs(w)
<1> USE DEF At
<1>0. /\ task[w] \in Task /\ Fit(task[w])
      /\ task[w].pc # "free" => task[w].id \in Ids
      /\ registry' \in Nat
  BY Busy, VersionTypes
<1>1. CASE Get(w)
  <2>1. Calm
    BY <1>1, CalmByTask DEF Get
  <2>2. CASE table[task[w].id] = None
    <3>1. Finish(w)
      BY <1>1, <2>2 DEF Get
    <3> QED BY <2>1, <3>1, FinishBacks
  <2>3. CASE table[task[w].id] # None
    <3>0. task[w].pc = "get" /\ task[w].op \in OpKinds /\ task[w].id \in Ids
      BY <1>0, <1>1 DEF Get, Fit
    <3>1. PICK p \in {"before", "set", "look", "inspect"} :
            Become(w, [task[w] EXCEPT !.row = table[task[w].id], !.pc = p])
      BY <1>1, <2>3, <3>0 DEF Get, OpKinds
    <3> DEFINE u == [task[w] EXCEPT !.row = table[task[w].id], !.pc = p]
    <3>2. u.pc = p /\ u.id = task[w].id /\ u.row = table[task[w].id]
      BY <1>0 DEF Task
    <3>3. Become(w, u)
      BY <3>1
    <3> HIDE DEF u
    <3>4. u.id \in used /\ (u.row.avail => Behind(u.id, used, host, registry))
      BY <2>3, <3>0, <3>2 DEF AvailInv, RowsBacked
    <3>5. UNCHANGED <<host, used, registry>>
      BY <1>1 DEF Get, OnlyTask
    <3>6. Backed(u, used, host, registry)
      BY <3>2, <3>4 DEF Backed, HasNew, ReplacingPCs
    <3> QED BY <2>1, <3>3, <3>5, <3>6, BecomeBacks
  <2> QED BY <2>2, <2>3
<1>2. CASE ReadBack(w)
  <2>0. "end" \in TaskPCs /\ "end" \notin Holding /\ "end" \notin HasNew
    BY DEF TaskPCs, Holding, HasNew, ReplacingPCs
  <2>1. Calm
    BY <1>2, CalmByTask, CalmByFault DEF ReadBack
  <2>2. CASE Goto(w, "end")
    BY <1>0, <2>0, <2>1, <2>2, GotoBacks DEF Calm
  <2>3. CASE Become(w, [task[w] EXCEPT !.pc = "publish", !.row = table[task[w].id]])
    <3> DEFINE u == [task[w] EXCEPT !.pc = "publish", !.row = table[task[w].id]]
    <3>1. u.pc = "publish"
      BY <1>0 DEF Task
    <3> HIDE DEF u
    <3>2. Backed(u, used', host', registry')
      BY <3>1, NothingBacked DEF Holding, HasNew, ReplacingPCs
    <3> QED BY <2>1, <2>3, <3>2, BecomeBacks DEF u
  <2> QED BY <1>2, <2>2, <2>3 DEF ReadBack
<1>3. CASE Publish(w)
  <2>0. "end" \in TaskPCs /\ "end" \notin Holding /\ "end" \notin HasNew
    BY DEF TaskPCs, Holding, HasNew, ReplacingPCs
  <2>1. Calm /\ Goto(w, "end")
    BY <1>3, CalmByFeed DEF Publish
  <2> QED BY <1>0, <2>0, <2>1, GotoBacks DEF Calm
<1>4. CASE EndOfOperation(w)
  <2>1. Calm
    BY <1>4, CalmByTask DEF EndOfOperation
  <2> DEFINE u == [Free EXCEPT !.op = "upgrade", !.pc = "get", !.id = task[w].id]
  <2>2. Finish(w) \/ Become(w, u)
    BY <1>4 DEF EndOfOperation
  <2>3. u.pc = "get"
    BY DEF Free
  <2> HIDE DEF u
  <2>4. Backed(u, used', host', registry')
    BY <2>3, NothingBacked DEF Holding, HasNew, ReplacingPCs
  <2> QED BY <2>1, <2>2, <2>4, FinishBacks, BecomeBacks
<1> QED BY <1>1, <1>2, <1>3, <1>4 DEF CommonStep

\* StartContainer and StopContainer write back the flag of the row they read,
\* which no later upgrade of the container can have made false: it is gone then.
LEMMA StartStopBacks ==
    ASSUME OpsInv, AvailInv, UNCHANGED registry, NEW w \in Workers, StartStopStep(w)
    PROVE  Calm /\ Backs(w)
<1> USE DEF At
<1>0. /\ task[w] \in Task /\ Fit(task[w])
      /\ task[w].pc # "free" => task[w].id \in Ids
      /\ registry' \in Nat
  BY Busy, VersionTypes
<1>1. \A p \in {"act", "after"} : p \in TaskPCs /\ p \in Holding /\ p \notin HasNew
  BY DEF TaskPCs, CallPCs, Holding, HasNew, ReplacingPCs
<1>2. CASE InspectBefore(w)
  <2>1. task[w].pc \in Holding
    BY <1>2 DEF InspectBefore, Holding
  <2>2. Calm
    BY <1>2, CalmByTask DEF InspectBefore, NotFound
  <2>3. Finish(w) \/ Goto(w, "act")
    BY <1>2 DEF InspectBefore, NotFound
  <2> QED BY <1>0, <1>1, <2>1, <2>2, <2>3, FinishBacks, GotoBacks DEF Calm
<1>3. CASE Act(w)
  <2>1. task[w].pc \in Holding /\ task[w].id \in Ids
    BY <1>0, <1>3 DEF Act, Holding
  <2>2. Aged /\ Goto(w, "after") => Backs(w)
    BY <1>0, <1>1, <2>1, GotoBacks
  <2>3. DockerStart(w, task[w].id, "after") \/ DockerStop(w, task[w].id, "after")
    BY <1>3 DEF Act
  <2> QED BY <1>1, <2>1, <2>2, <2>3, DockerBacks
<1>4. CASE InspectAfter(w)
  <2>1. Calm
    BY <1>4, CalmByTask DEF InspectAfter, NotFound
  <2>2. CASE Finish(w)
    BY <2>1, <2>2, FinishBacks
  <2>3. CASE Become(w, [task[w] EXCEPT !.pc = "save", !.seen = host[task[w].id]])
    <3> DEFINE u == [task[w] EXCEPT !.pc = "save", !.seen = host[task[w].id]]
    <3>1. task[w].pc = "after"
      BY <1>4 DEF InspectAfter
    <3>2. u.pc = "save" /\ u.id = task[w].id /\ u.row = task[w].row
      BY <1>0 DEF Task
    <3> HIDE DEF u
    <3>3. Backed(u, used', host', registry')
      BY <1>0, <2>1, <3>1, <3>2, StillBacked DEF Calm, Backed, HasNew, ReplacingPCs
    <3> QED BY <2>1, <2>3, <3>3, BecomeBacks DEF u
  <2> QED BY <1>4, <2>2, <2>3 DEF InspectAfter, NotFound
<1>5. CASE Save(w)
  <2>0. "read" \in TaskPCs /\ "read" \notin Holding /\ "read" \notin HasNew
    BY DEF TaskPCs, Holding, HasNew, ReplacingPCs
  <2>1. task[w].pc = "save" /\ task[w].id \in Ids /\ task[w].row \in Row
    BY <1>0, <1>5 DEF Save, Fit, HasRow, HasSeen
  <2>2. /\ task[w].id \in used
        /\ task[w].row.avail => Behind(task[w].id, used, host, registry)
    BY <2>1 DEF AvailInv, Backed
  <2> DEFINE row == [task[w].row EXCEPT !.status = task[w].seen.status]
  <2>3. row.avail = task[w].row.avail
    BY <2>1 DEF Row
  <2>4. table' = [table EXCEPT ![task[w].id] = row]
    BY <1>5 DEF Save
  <2> HIDE DEF row
  <2>5. table \in [Ids -> Row \cup {None}]
    BY DEF OpsInv, OpsTypeOK, TypeOK
  <2>6. table'[task[w].id] = row /\ \A j \in Ids \ {task[w].id} : table'[j] = table[j]
    BY <2>1, <2>4, <2>5
  <2>7. RowsBacked(table', used, host, registry)
    BY <2>2, <2>3, <2>6 DEF AvailInv, RowsBacked
  <2>8. Calm /\ Goto(w, "read")
    BY <1>5, <2>7, CalmByTable DEF Save
  <2> QED BY <1>0, <2>0, <2>8, GotoBacks DEF Calm
<1> QED BY <1>2, <1>3, <1>4, <1>5 DEF StartStopStep

\* A check compares the image the container has with the registry's, and an
\* image that differs is older; an answer of FALSE or a missing row is always true.
LEMMA FlagBacks ==
    ASSUME OpsInv, AvailInv, ReliableChecks, UNCHANGED registry, NEW w \in Workers,
           FlagStep(w)
    PROVE  Calm /\ Backs(w)
<1> USE DEF At
<1>0. /\ task[w] \in Task /\ Fit(task[w])
      /\ task[w].pc # "free" => task[w].id \in Ids
      /\ registry' \in Nat
  BY Busy, VersionTypes
<1>1. "read" \in TaskPCs /\ "read" \notin Holding /\ "read" \notin HasNew
  BY DEF TaskPCs, Holding, HasNew, ReplacingPCs
<1>2. table \in [Ids -> Row \cup {None}]
  BY DEF OpsInv, OpsTypeOK, TypeOK
<1>3. RowsBacked(table, used, host, registry)
  BY DEF AvailInv
<1>4. ASSUME Goto(w, "read"), OnlyTable, RowsBacked(table', used, host, registry)
      PROVE  Calm /\ Backs(w)
  <2>1. Calm
    BY <1>4, CalmByTable
  <2> QED BY <1>0, <1>1, <1>4, <2>1, GotoBacks DEF Calm
<1>5. CASE SetAuto(w)
  <2>1. task[w].pc = "set" /\ task[w].id \in Ids
    BY <1>0, <1>5 DEF SetAuto
  <2>2. RowsBacked(table', used, host, registry)
    <3>1. CASE table[task[w].id] = None
      BY <1>3, <1>5, <3>1 DEF SetAuto
    <3>2. CASE table[task[w].id] # None
      <4> DEFINE row == [table[task[w].id] EXCEPT !.auto = task[w].flag]
      <4>1. row.avail = table[task[w].id].avail
        BY <1>2, <2>1, <3>2 DEF Row
      <4>2. table' = [table EXCEPT ![task[w].id] = row]
        BY <1>5, <3>2 DEF SetAuto
      <4> HIDE DEF row
      <4>3. table'[task[w].id] = row /\ \A j \in Ids \ {task[w].id} : table'[j] = table[j]
        BY <1>2, <2>1, <4>2
      <4> QED BY <1>3, <3>2, <4>1, <4>3 DEF RowsBacked
    <3> QED BY <3>1, <3>2
  <2> QED BY <1>4, <1>5, <2>2 DEF SetAuto
<1>6. CASE Look(w)
  <2>1. task[w].pc = "look" /\ OnlyTask
    BY <1>6 DEF Look, ReliableChecks, Fault
  <2>2. Calm
    BY <2>1, CalmByTask
  <2>3. PICK m : /\ Become(w, [task[w] EXCEPT !.pc = "registry", !.img = m])
                 /\ host[task[w].id] # None => m = host[task[w].id].image
    BY <1>6 DEF Look, ReliableChecks, Fault
  <2> DEFINE u == [task[w] EXCEPT !.pc = "registry", !.img = m]
  <2>4. u.pc = "registry" /\ u.id = task[w].id /\ u.img = m
    BY <1>0 DEF Task
  <2>5. Become(w, u)
    BY <2>3
  <2> HIDE DEF u
  <2>6. task[w].id \in used
    BY <2>1 DEF AvailInv, Backed
  <2>7. Backed(u, used, host, registry)
    BY <2>3, <2>4, <2>6 DEF Backed, HasNew, ReplacingPCs
  <2>8. UNCHANGED <<host, used, registry>>
    BY <2>1 DEF OnlyTask
  <2> QED BY <2>2, <2>5, <2>7, <2>8, BecomeBacks
<1>7. CASE AskRegistry(w)
  <2>1. /\ task[w].pc = "registry" /\ OnlyTask
        /\ Become(w, [task[w] EXCEPT !.pc = "record", !.flag = task[w].img # registry])
    BY <1>7 DEF AskRegistry, ReliableChecks, Fault
  <2>2. Calm
    BY <2>1, CalmByTask
  <2> DEFINE b == (task[w].img # registry)
             u == [task[w] EXCEPT !.pc = "record", !.flag = b]
  <2>3. u.pc = "record" /\ u.id = task[w].id /\ u.flag = b
    BY <1>0 DEF Task
  <2>4. Become(w, u)
    BY <2>1
  <2> HIDE DEF u
  <2>5. /\ task[w].id \in used
        /\ host[task[w].id] # None => task[w].img = host[task[w].id].image
    BY <2>1 DEF AvailInv, Backed
  <2>6. ASSUME u.flag PROVE Behind(u.id, used, host, registry)
    <3>1. task[w].img # registry
      BY <2>3, <2>6
    <3>2. task[w].id \in Ids
      BY <1>0, <2>1
    <3>3. host[task[w].id] # None => host[task[w].id].image <= registry
      BY <3>2 DEF AvailInv, Versions
    <3>4. host[task[w].id] # None => host[task[w].id].image < registry
      BY <2>5, <3>1, <3>2, <3>3, VersionTypes, SMTT(30)
    <3> QED BY <2>3, <2>5, <3>4 DEF Behind
  <2> HIDE DEF b
  <2>7. Backed(u, used, host, registry)
    BY <2>3, <2>6 DEF Backed, HasNew, ReplacingPCs
  <2>8. UNCHANGED <<host, used, registry>>
    BY <2>1 DEF OnlyTask
  <2> QED BY <2>2, <2>4, <2>7, <2>8, BecomeBacks
<1>8. CASE Record(w)
  <2>1. task[w].pc = "record" /\ task[w].id \in Ids
    BY <1>0, <1>8 DEF Record
  <2>2. task[w].flag => Behind(task[w].id, used, host, registry)
    BY <2>1 DEF AvailInv, Backed
  <2>3. RowsBacked(table', used, host, registry)
    <3>1. CASE table[task[w].id] = None
      BY <1>3, <1>8, <3>1 DEF Record
    <3>2. CASE table[task[w].id] # None
      <4> DEFINE row == [table[task[w].id] EXCEPT !.avail = task[w].flag]
      <4>1. row.avail = task[w].flag
        BY <1>2, <2>1, <3>2 DEF Row
      <4>2. table' = [table EXCEPT ![task[w].id] = row]
        BY <1>8, <3>2 DEF Record
      <4> HIDE DEF row
      <4>3. table'[task[w].id] = row /\ \A j \in Ids \ {task[w].id} : table'[j] = table[j]
        BY <1>2, <2>1, <4>2
      <4> QED BY <1>3, <2>2, <3>2, <4>1, <4>3 DEF RowsBacked
    <3> QED BY <3>1, <3>2
  <2> QED BY <1>4, <1>8, <2>3 DEF Record
<1> QED BY <1>5, <1>6, <1>7, <1>8 DEF FlagStep

\* Until the new container is there, an upgrade writes no row and relies on none.
LEMMA PrepareBacks ==
    ASSUME OpsInv, AvailInv, UNCHANGED registry, NEW w \in Workers,
           Inspect(w) \/ Pull(w) \/ InspectImage(w) \/ Halt(w) \/ Remove(w) \/ Create(w)
    PROVE  Calm /\ Backs(w)
<1> USE DEF At
<1>0. /\ task[w] \in Task /\ Fit(task[w])
      /\ task[w].pc # "free" => task[w].id \in Ids
      /\ registry' \in Nat
  BY Busy, VersionTypes
<1>1. \A p \in {"pull", "image", "halt", "remove", "create"} :
        p \in TaskPCs /\ p \notin Holding \cup HasNew \cup {"look", "registry", "record"}
  BY DEF TaskPCs, CallPCs, Holding, HasNew, ReplacingPCs
<1>2. ASSUME NEW p \in {"pull", "image", "halt", "remove", "create"}, Goto(w, p)
      PROVE  Backs(w)
  <2> DEFINE u == [task[w] EXCEPT !.pc = p]
  <2>1. u.pc = p /\ Become(w, u)
    BY <1>0, <1>1, <1>2, GotoTask DEF Goto
  <2> HIDE DEF u
  <2>2. Backed(u, used', host', registry')
    BY <1>1, <2>1, NothingBacked
  <2> QED BY <2>1, <2>2, BecomeBacks
<1>3. CASE Inspect(w)
  <2>1. Calm
    BY <1>3, CalmByTask DEF Inspect, NotFound
  <2>2. CASE Finish(w)
    BY <2>1, <2>2, FinishBacks
  <2>3. CASE Become(w, [task[w] EXCEPT !.pc = "pull", !.seen = host[task[w].id]])
    <3> DEFINE u == [task[w] EXCEPT !.pc = "pull", !.seen = host[task[w].id]]
    <3>1. u.pc = "pull"
      BY <1>0 DEF Task
    <3> HIDE DEF u
    <3>2. Backed(u, used', host', registry')
      BY <1>1, <3>1, NothingBacked
    <3> QED BY <2>1, <2>3, <3>2, BecomeBacks DEF u
  <2> QED BY <1>3, <2>2, <2>3 DEF Inspect, NotFound
<1>4. CASE Pull(w)
  <2>1. UNCHANGED <<host, used, registry, table>> /\ (tagged' = registry \/ tagged' = tagged)
    BY <1>4 DEF Pull, Fault
  <2>2. Versions(host', tagged', registry')
    BY <1>0, <2>1, SMTT(30) DEF AvailInv, Versions
  <2>3. Calm
    BY <2>1, <2>2, AgedSame DEF Calm, AvailInv
  <2>4. Goto(w, "image")
    BY <1>4 DEF Pull
  <2> QED BY <1>2, <2>3, <2>4
<1>5. CASE InspectImage(w)
  <2>1. Calm
    BY <1>5, CalmByTask DEF InspectImage
  <2>2. PICK p \in {"halt", "remove"} : Become(w, [task[w] EXCEPT !.img = tagged, !.pc = p])
    BY <1>5 DEF InspectImage
  <2> DEFINE u == [task[w] EXCEPT !.img = tagged, !.pc = p]
  <2>3. u.pc = p
    BY <1>0 DEF Task
  <2> HIDE DEF u
  <2>4. Backed(u, used', host', registry')
    BY <1>1, <2>3, NothingBacked
  <2> QED BY <2>1, <2>2, <2>4, BecomeBacks DEF u
<1>6. CASE Halt(w)
  <2>1. DockerStop(w, task[w].id, "remove") /\ task[w].id \in Ids
    BY <1>0, <1>6 DEF Halt
  <2> QED BY <1>1, <1>2, <2>1, DockerBacks
<1>7. CASE Remove(w)
  <2>1. CASE Finish(w) /\ OnlyTask
    BY <2>1, CalmByTask, FinishBacks
  <2>2. CASE HostRemove(task[w].id) /\ Goto(w, "create") /\ OnlyHost
    <3>1. task[w].id \in Ids
      BY <1>0, <1>7 DEF Remove
    <3>2. Aged /\ \A j \in Ids : host'[j] # None => host'[j].image <= registry'
      BY <2>2, <3>1, AgedRemove DEF AvailInv
    <3> QED BY <1>2, <2>2, <3>2, CalmByHost
  <2> QED BY <1>7, <2>1, <2>2 DEF Remove, NotFound
<1>8. CASE Create(w)
  <2>1. CASE Finish(w) /\ OnlyTask
    BY <2>1, CalmByTask, FinishBacks
  <2>2. ASSUME NEW i \in Ids,
               HostCreate(i, [name |-> task[w].seen.name, image |-> tagged,
                              status |-> "created"]),
               Become(w, [task[w] EXCEPT !.pc = "connect", !.new = i]),
               OnlyHost
        PROVE  Calm /\ Backs(w)
    <3> DEFINE c == [name |-> task[w].seen.name, image |-> tagged, status |-> "created"]
               u == [task[w] EXCEPT !.pc = "connect", !.new = i]
    <3>1. OpTypes /\ task[w].seen \in Container
      BY <1>0, <1>8, OpsInvParts DEF Create, Fit, HasSeen, HasImage, ReplacingPCs
    <3>2. c \in Container /\ c.image = tagged
      BY <3>1 DEF OpTypes, Container, Statuses
    <3>3. u.pc = "connect" /\ u.new = i
      BY <1>0 DEF Task
    <3> HIDE DEF c, u
    <3>4. HostCreate(i, c) /\ Become(w, u)
      BY <2>2 DEF c, u
    <3>5. Aged /\ \A j \in Ids : host'[j] # None => host'[j].image <= registry'
      BY <3>2, <3>4, AgedCreate DEF AvailInv, Versions
    <3>6. i \in used'
      BY <3>4 DEF HostCreate
    <3>7. Backed(u, used', host', registry')
      BY <3>3, <3>6 DEF Backed
    <3> QED BY <2>2, <3>4, <3>5, <3>7, CalmByHost, BecomeBacks
  <2> QED BY <1>8, <2>1, <2>2 DEF Create
<1> QED BY <1>3, <1>4, <1>5, <1>6, <1>7, <1>8

\* The row an upgrade writes says that no update is available.
LEMMA ReplaceBacks ==
    ASSUME OpsInv, AvailInv, UNCHANGED registry, NEW w \in Workers,
           \/ Connect(w) \/ Rollback(w) \/ Launch(w) \/ Verify(w)
           \/ Swap(w) \/ Fallback(w) \/ Retire(w)
    PROVE  Calm /\ Backs(w)
<1> USE DEF At
<1>0. /\ task[w] \in Task /\ Fit(task[w]) /\ registry' \in Nat
  BY Busy, VersionTypes
<1>1. /\ task[w].pc \in HasNew /\ task[w].new \in Ids /\ task[w].id \in Ids
      /\ task[w].new \in used
  <2>1. task[w].pc \in HasNew
    BY DEF Connect, Rollback, Launch, Verify, Swap, Fallback, Retire, HasNew, ReplacingPCs
  <2>2. task[w].pc # "free"
    BY <2>1 DEF HasNew, ReplacingPCs
  <2> QED BY <1>0, <2>1, <2>2 DEF Fit, AvailInv, Backed
<1>2. \A p \in {"launch", "rollback", "verify", "fallback", "retire"} :
        p \in TaskPCs /\ p \notin Holding
  BY DEF TaskPCs, CallPCs, Holding
<1>3. ASSUME NEW p \in {"launch", "rollback", "verify", "fallback", "retire"}, Aged, Goto(w, p)
      PROVE  Backs(w)
  BY <1>0, <1>1, <1>2, <1>3, GotoBacks
<1>4. table \in [Ids -> Row \cup {None}]
  BY DEF OpsInv, OpsTypeOK, TypeOK
<1>5. \A b : Upgraded(task[w], b).avail = FALSE
  BY DEF Upgraded
<1>6. CASE Connect(w)
  BY <1>3, <1>6, CalmByTask, CalmByFault DEF Connect, Calm
<1>7. CASE Rollback(w)
  <2>1. CASE HostRemove(task[w].new) /\ OnlyHost
    <3>1. Aged /\ \A j \in Ids : host'[j] # None => host'[j].image <= registry'
      BY <1>1, <2>1, AgedRemove DEF AvailInv
    <3> QED BY <1>7, <2>1, <3>1, CalmByHost, FinishBacks DEF Rollback
  <2>2. CASE OnlyTask
    BY <1>7, <2>2, CalmByTask, FinishBacks DEF Rollback
  <2> QED BY <1>7, <2>1, <2>2 DEF Rollback
<1>8. CASE Launch(w)
  BY <1>1, <1>2, <1>3, <1>8, DockerBacks DEF Launch
<1>9. CASE Verify(w)
  <2>1. Calm
    BY <1>9, CalmByTask, CalmByFault DEF Verify
  <2>2. PICK st : Become(w, [task[w] EXCEPT !.pc = "swap", !.seen.status = st])
    BY <1>9 DEF Verify
  <2> DEFINE u == [task[w] EXCEPT !.pc = "swap", !.seen.status = st]
  <2>3. u.pc = "swap" /\ u.new = task[w].new
    BY <1>0 DEF Task
  <2> HIDE DEF u
  <2>4. task[w].new \in used'
    BY <1>1, <2>1 DEF Calm, Aged, Ages
  <2>5. Backed(u, used', host', registry')
    BY <2>3, <2>4 DEF Backed
  <2> QED BY <2>1, <2>2, <2>5, BecomeBacks DEF u
<1>10. CASE Swap(w)
  <2>1. CASE Goto(w, "fallback") /\ OnlyTask
    BY <1>3, <2>1, CalmByTask DEF Calm
  <2>2. CASE Finish(w) /\ OnlyTask
    BY <2>2, CalmByTask, FinishBacks
  <2>3. CASE /\ table' = [table EXCEPT ![task[w].id] = None,
                            ![task[w].new] = Upgraded(task[w], table[task[w].id].auto)]
             /\ Goto(w, "retire") /\ OnlyTable
    <3>1. PICK row : row = Upgraded(task[w], table[task[w].id].auto)
      OBVIOUS
    <3>2. row.avail = FALSE
      BY <1>5, <3>1
    <3>3. table' = [table EXCEPT ![task[w].id] = None, ![task[w].new] = row]
      BY <2>3, <3>1
    <3>4. /\ table'[task[w].new] = row
          /\ \A j \in Ids \ {task[w].new} : table'[j] = None \/ table'[j] = table[j]
      BY <1>1, <1>4, <3>3
    <3>5. RowsBacked(table', used, host, registry)
      BY <1>1, <3>2, <3>4 DEF AvailInv, RowsBacked
    <3>6. Calm
      BY <2>3, <3>5, CalmByTable
    <3> QED BY <1>3, <2>3, <3>6 DEF Calm
  <2> QED BY <1>10, <2>1, <2>2, <2>3 DEF Swap
<1>11. CASE Fallback(w)
  <2>1. PICK row : row = Upgraded(task[w], task[w].row.auto)
    OBVIOUS
  <2>2. row.avail = FALSE
    BY <1>5, <2>1
  <2>3. table' = [table EXCEPT ![task[w].new] = row]
    BY <1>11, <2>1 DEF Fallback
  <2>4. table'[task[w].new] = row /\ \A j \in Ids \ {task[w].new} : table'[j] = table[j]
    BY <1>1, <1>4, <2>3
  <2>5. RowsBacked(table', used, host, registry)
    BY <1>1, <2>2, <2>4 DEF AvailInv, RowsBacked
  <2>6. Calm
    BY <1>11, <2>5, CalmByTable DEF Fallback
  <2> QED BY <1>3, <1>11, <2>6 DEF Calm, Fallback
<1>12. CASE Retire(w)
  <2> DEFINE u == [task[w] EXCEPT !.pc = "read", !.id = task[w].new]
  <2>1. Calm /\ Become(w, u)
    BY <1>12, CalmByFeed DEF Retire
  <2>2. u.pc = "read"
    BY <1>0 DEF Task
  <2> HIDE DEF u
  <2>3. Backed(u, used', host', registry')
    BY <2>2, NothingBacked DEF Holding, HasNew, ReplacingPCs
  <2> QED BY <2>1, <2>3, BecomeBacks
<1> QED BY <1>6, <1>7, <1>8, <1>9, <1>10, <1>11, <1>12

-----------------------------------------------------------------------------
(* The cache, other Docker clients, the scheduler, requests and failures.    *)

\* The invariant after a step of one worker.
LEMMA WorkerKeepsAvail ==
    ASSUME OpsInv, AvailInv, registry' \in Nat, NEW w \in Workers, Calm, Backs(w),
           UNCHANGED <<mon, sync>>
    PROVE  AvailInv'
<1>1. PICK t : task' = [task EXCEPT ![w] = t] /\ Backed(t, used', host', registry')
  BY DEF Backs
<1>2. task \in [Workers -> Task]
  BY DEF OpsInv, TasksOK
<1>3. ASSUME NEW v \in Workers PROVE Backed(task'[v], used', host', registry')
  <2>1. CASE v = w
    BY <1>1, <1>2, <2>1
  <2>2. CASE v # w
    <3>1. task'[v] = task[v]
      BY <1>1, <1>2, <2>2
    <3>2. Backed(task[v], used', host', registry')
      BY StillBacked DEF Calm
    <3> QED BY <3>1, <3>2
  <2> QED BY <2>1, <2>2
<1>4. MonBacked'
  BY DEF AvailInv, MonBacked, Calm, Aged, Ages
<1> QED BY <1>3, <1>4 DEF AvailInv, Calm

\* The invariant after a step without a worker.
LEMMA OtherKeepsAvail ==
    ASSUME OpsInv, AvailInv, registry' \in Nat, Calm, MonBacked', task' = task
    PROVE  AvailInv'
<1>1. \A v \in Workers : Backed(task[v], used', host', registry')
  BY StillBacked DEF Calm
<1> QED BY <1>1 DEF AvailInv, Calm

\* UpsertContainerFromEvent leaves the flag of an existing row, and a new row's
\* is FALSE.
LEMMA UpsertBacked ==
    ASSUME NEW T, NEW u, NEW h, NEW r, RowsBacked(T, u, h, r),
           T \in [Ids -> Row \cup {None}], NEW i \in Ids, i \in u, NEW c, NEW S,
           S = [T EXCEPT ![i] = Upserted(T[i], c)]
    PROVE  RowsBacked(S, u, h, r)
<1>1. PICK row : row = Upserted(T[i], c)
  OBVIOUS
<1>2. S[i] = row /\ \A j \in Ids \ {i} : S[j] = T[j]
  BY <1>1
<1>3. row.avail => T[i] # None /\ T[i].avail
  BY <1>1 DEF Upserted
<1> QED BY <1>2, <1>3 DEF RowsBacked

\* Operations of other Docker clients, who run what the registry has had.
LEMMA ExternalAged ==
    ASSUME OpsInv, AvailInv, UNCHANGED registry, NEW i \in Ids, ExternalStep(i), Published
    PROVE  Aged /\ \A j \in Ids : host'[j] # None => host'[j].image <= registry'
<1>0. Versions(host, tagged, registry) /\ HostTypes
  BY OpsInvParts DEF AvailInv
<1>1. CASE ExternalCreate(i)
  <2>1. PICK n \in Names, m \in Images :
          HostCreate(i, [name |-> n, image |-> m, status |-> "created"])
    BY <1>1 DEF ExternalCreate
  <2>2. PICK c : c = [name |-> n, image |-> m, status |-> "created"]
    OBVIOUS
  <2>3. c \in Container /\ HostCreate(i, c)
    BY <2>1, <2>2 DEF Container, Statuses
  <2>4. host'[i] = c
    BY <1>0, <2>3 DEF HostCreate, HostTypes
  <2>5. c.image <= registry
    BY <2>3, <2>4, NoneAssumption DEF Published
  <2> QED BY <1>0, <2>3, <2>5, AgedCreate
<1>2. CASE ExternalStart(i)
  BY <1>0, <1>2, AgedStatus DEF ExternalStart
<1>3. CASE ExternalDie(i)
  BY <1>0, <1>3, AgedStatus DEF ExternalDie
<1>4. CASE ExternalPause(i)
  BY <1>0, <1>4, AgedStatus DEF ExternalPause
<1>5. CASE ExternalRename(i)
  <2>1. PICK n \in Names : host' = [host EXCEPT ![i].name = n]
    BY <1>5 DEF ExternalRename
  <2>2. host[i] \in Container /\ used' = used
    BY <1>0, <1>5 DEF ExternalRename, HostTypes
  <2>3. [host[i] EXCEPT !.name = n].image = host[i].image
    BY <2>2 DEF Container
  <2>4. \A j \in Ids : host'[j] # None => host[j] # None /\ host'[j].image = host[j].image
    BY <1>0, <1>5, <2>1, <2>2, <2>3 DEF ExternalRename, HostTypes
  <2> QED BY <1>0, <2>2, <2>4, VersionTypes, SMT DEF Aged, Ages, Versions
<1>6. CASE ExternalRemove(i)
  BY <1>0, <1>6, AgedRemove DEF ExternalRemove
<1> QED BY <1>1, <1>2, <1>3, <1>4, <1>5, <1>6 DEF ExternalStep

\* The cache's own writes.
LEMMA CacheCalm ==
    ASSUME OpsInv, AvailInv, CacheStep
    PROVE  Calm /\ MonBacked'
<1>0. /\ HostTypes /\ CacheTypes /\ MonitorFit /\ UNCHANGED opVars
      /\ UNCHANGED registry /\ tagged' = tagged
  BY OpsInvParts DEF CacheStep, opVars
<1>1. /\ RowsBacked(table, used, host, registry) /\ Versions(host, tagged, registry)
      /\ MonBacked /\ table \in [Ids -> Row \cup {None}]
      /\ mon \in [pc : MonitorPCs, id : Ids \cup {None},
                  insp : Container \cup {None}, row : Row \cup {None}]
      /\ sync \in [pc : SyncPCs, snap : [Ids -> Container \cup {None}], todo : SUBSET Ids]
  BY <1>0 DEF AvailInv, CacheTypes
<1>2. ASSUME UNCHANGED <<host, used>>, RowsBacked(table', used, host, registry)
      PROVE  Calm
  BY <1>0, <1>2, CalmSame
<1>3. ASSUME NEW i \in Ids, ExternalStep(i), Published
      PROVE  Calm /\ MonBacked'
  <2>1. Aged /\ \A j \in Ids : host'[j] # None => host'[j].image <= registry'
    BY <1>0, <1>3, ExternalAged
  <2>2. External
    BY <1>3 DEF ExternalStep, ExternalCreate, ExternalStart, ExternalDie, ExternalPause,
                ExternalRename, ExternalRemove
  <2>3. OnlyHost /\ UNCHANGED <<mon, sync>>
    BY <1>0, <2>2 DEF External, OnlyHost
  <2>4. Calm
    BY <1>0, <2>1, <2>3, CalmByHost
  <2> QED BY <1>1, <2>3, <2>4 DEF Calm, Aged, Ages, MonBacked
<1>4. CASE SyncList
  <2>1. Calm
    BY <1>1, <1>2, <1>4 DEF SyncList
  <2>2. sync'.todo = Live /\ mon' = mon /\ used' = used
    BY <1>4 DEF SyncList
  <2> QED BY <1>0, <1>1, <2>1, <2>2 DEF MonBacked, HostTypes, LiveUsed, Live
<1>5. ASSUME NEW i \in Ids, SyncUpsert(i)
      PROVE  Calm /\ MonBacked'
  <2>1. /\ table' = [table EXCEPT ![i] = Upserted(table[i], sync.snap[i])]
        /\ i \in sync.todo /\ UNCHANGED <<host, used, mon>>
    BY <1>5 DEF SyncUpsert
  <2>2. RowsBacked(table', used, host, registry)
    BY <1>1, <2>1, UpsertBacked DEF MonBacked
  <2>3. sync'.todo \subseteq sync.todo
    BY <1>1, <1>5 DEF SyncUpsert
  <2> QED BY <1>1, <1>2, <2>1, <2>2, <2>3 DEF MonBacked
<1>6. CASE SyncOrphans
  <2>1. UNCHANGED <<host, used, mon>> /\ sync'.todo = sync.todo
    BY <1>1, <1>6 DEF SyncOrphans
  <2>2. \A j \in Ids : table'[j] = None \/ table'[j] = table[j]
    BY <1>1, <1>6 DEF SyncOrphans, WithoutOrphans
  <2>3. RowsBacked(table', used, host, registry)
    BY <1>1, <2>2 DEF RowsBacked
  <2> QED BY <1>1, <1>2, <2>1, <2>3 DEF MonBacked
<1>7. CASE MonitorDelete
  <2>1. UNCHANGED <<host, used, sync>> /\ mon'.pc # "upsert"
    BY <1>1, <1>7 DEF MonitorDelete
  <2>2. \A j \in Ids : table'[j] = None \/ table'[j] = table[j]
    BY <1>1, <1>7 DEF MonitorDelete
  <2>3. RowsBacked(table', used, host, registry)
    BY <1>1, <2>2 DEF RowsBacked
  <2> QED BY <1>1, <1>2, <2>1, <2>3 DEF MonBacked
<1>8. CASE MonitorUpsert
  <2>1. /\ table' = [table EXCEPT ![mon.id] = Upserted(table[mon.id], mon.insp)]
        /\ mon.pc = "upsert" /\ UNCHANGED <<host, used, sync>> /\ mon'.pc # "upsert"
    BY <1>1, <1>8 DEF MonitorUpsert
  <2>2. mon.id \in Ids /\ mon.id \in used
    BY <1>0, <1>1, <2>1 DEF MonitorFit, MonBacked
  <2>3. RowsBacked(table', used, host, registry)
    BY <1>1, <2>1, <2>2, UpsertBacked
  <2> QED BY <1>1, <1>2, <2>1, <2>3 DEF MonBacked
<1>9. CASE MonitorInspect
  <2>1. Calm /\ UNCHANGED <<used, sync>>
    BY <1>1, <1>2, <1>9 DEF MonitorInspect
  <2>2. CASE host[mon.id] = None
    <3>1. mon'.pc = "idle"
      BY <1>9, <2>2 DEF MonitorInspect, IdleMonitor
    <3> QED BY <1>1, <2>1, <3>1 DEF MonBacked
  <2>3. CASE host[mon.id] # None
    <3>1. mon.id \in used
      BY <1>0, <1>9, <2>3 DEF MonitorInspect, MonitorFit, HostTypes, LiveUsed
    <3>2. mon'.id = mon.id
      BY <1>1, <1>9, <2>3 DEF MonitorInspect
    <3> QED BY <1>1, <2>1, <3>1, <3>2 DEF MonBacked
  <2> QED BY <2>2, <2>3
<1>10. IdleMonitor.pc = "idle"
  BY DEF IdleMonitor
<1>11. CASE MonitorTake
  <2>1. Calm /\ UNCHANGED <<used, sync>>
    BY <1>1, <1>2, <1>11 DEF MonitorTake
  <2>2. mon'.pc # "upsert"
    BY <1>11 DEF MonitorTake, IdleMonitor
  <2> QED BY <1>1, <2>1, <2>2 DEF MonBacked
<1>12. CASE MonitorRead
  <2>1. Calm /\ UNCHANGED <<used, sync>>
    BY <1>1, <1>2, <1>12 DEF MonitorRead
  <2>2. mon'.pc # "upsert"
    BY <1>1, <1>12 DEF MonitorRead, IdleMonitor
  <2> QED BY <1>1, <2>1, <2>2 DEF MonBacked
<1>13. CASE Subscribe \/ MonitorPublishDelete \/ MonitorPublish
  <2>1. UNCHANGED <<host, used, sync, table>> /\ (mon' = mon \/ mon' = IdleMonitor)
    BY <1>13 DEF Subscribe, MonitorPublishDelete, MonitorPublish
  <2> QED BY <1>1, <1>2, <1>10, <2>1 DEF MonBacked
<1>14. CASE StreamError \/ MonitorError \/ MonitorReadError
  <2>1. UNCHANGED <<host, used, sync, table>> /\ (mon' = mon \/ mon' = IdleMonitor)
    BY <1>14 DEF StreamError, MonitorError, MonitorReadError, Fault
  <2> QED BY <1>1, <1>2, <1>10, <2>1 DEF MonBacked
<1> QED
  BY <1>3, <1>4, <1>5, <1>6, <1>7, <1>8, <1>9, <1>11, <1>12, <1>13, <1>14, SMTT(30)
  DEF CacheStep, SyncStep, MonitorStep

\* Every step of the composed system keeps update_available true.
LEMMA NextAvail ==
    ASSUME OpsInv, AvailInv, ReliableChecks, [OpsNext]_allVars
    PROVE  AvailInv'
<1>1. registry \in Nat /\ tagged \in Nat /\ RowsBacked(table, used, host, registry)
  BY VersionTypes DEF AvailInv
<1>2. ASSUME NEW w \in Workers, WorkerStep(w) PROVE AvailInv'
  <2>1. UNCHANGED registry /\ UNCHANGED <<mon, sync>>
    BY <1>2 DEF WorkerStep, monVars
  <2>2. Calm /\ Backs(w)
    <3>1. CASE UpgradeStep(w)
      BY <2>1, <3>1, PrepareBacks, ReplaceBacks DEF UpgradeStep
    <3> QED
      BY <1>2, <2>1, <3>1, CommonBacks, StartStopBacks, FlagBacks DEF WorkerStep
  <2> QED BY <1>1, <2>1, <2>2, WorkerKeepsAvail
<1>3. ASSUME NEW w \in Workers, NEW u, Become(w, u), u.pc = "get", OnlyTask,
             UNCHANGED registry, UNCHANGED monVars
      PROVE  AvailInv'
  <2>1. Backed(u, used', host', registry')
    BY <1>3, NothingBacked DEF Holding, HasNew, ReplacingPCs
  <2>2. Calm /\ Backs(w)
    BY <1>3, <2>1, CalmByTask, BecomeBacks
  <2> QED BY <1>1, <1>3, <2>2, WorkerKeepsAvail DEF monVars
<1>4. CASE SchedulerStep
  <2>1. CASE Tick
    <3>1. UNCHANGED <<registry, task, mon, sync, used>>
      BY <1>4, <2>1 DEF SchedulerStep, Tick, monVars, OnlyTask, OnlyFault, Fault
    <3>2. Calm
      BY <2>1, <3>1, CalmByTask, CalmByFault DEF Tick
    <3>3. MonBacked'
      BY <3>1 DEF AvailInv, MonBacked
    <3> QED BY <1>1, <3>1, <3>2, <3>3, OtherKeepsAvail
  <2>2. ASSUME NEW i \in Ids, Dispatch(i) PROVE AvailInv'
    <3> DEFINE u == [Free EXCEPT !.op = "check", !.pc = "get", !.id = i,
                                 !.auto = agenda[i].auto]
    <3>1. u.pc = "get" /\ Become(Scheduler, u) /\ Scheduler \in Workers
      BY <2>2 DEF Dispatch, Free, Workers
    <3> HIDE DEF u
    <3> QED BY <1>3, <1>4, <2>2, <3>1 DEF Dispatch, SchedulerStep
  <2> QED BY <1>4, <2>1, <2>2 DEF SchedulerStep
<1>5. CASE OutsideStep
  <2>1. ASSUME NEW w \in Users, NEW op \in Ops, NEW i \in Ids, NEW b \in BOOLEAN,
               Request(w, op, i, b)
        PROVE  AvailInv'
    <3> DEFINE u == [Free EXCEPT !.op = op, !.pc = "get", !.id = i, !.flag = b]
    <3>1. u.pc = "get" /\ Become(w, u) /\ w \in Workers
      BY <2>1 DEF Request, Free, Workers
    <3> HIDE DEF u
    <3> QED BY <1>3, <1>5, <2>1, <3>1 DEF Request, OutsideStep
  <2>2. CASE Push
    <3>1. UNCHANGED <<host, used, table, tagged, task, mon, sync>>
      BY <1>5, <2>2 DEF OutsideStep, Push, OnlyTask, monVars
    <3>2. registry < registry' /\ registry' \in Nat
      BY <2>2, VersionAssumption DEF Push
    <3>3. Aged
      BY <1>1, <3>1, <3>2, SMTT(30) DEF Aged, Ages
    <3>4. RowsBacked(table, used', host', registry')
      BY <1>1, <3>2, <3>3, RowsStay, VersionTypes DEF Aged
    <3>5. Versions(host', tagged', registry')
      BY <1>1, <3>1, <3>2, VersionTypes, SMTT(30) DEF AvailInv, Versions
    <3>6. Calm
      BY <3>1, <3>3, <3>4, <3>5 DEF Calm
    <3>7. MonBacked'
      BY <3>1 DEF AvailInv, MonBacked
    <3> QED BY <3>1, <3>2, <3>6, <3>7, OtherKeepsAvail
  <2> QED BY <1>5, <2>1, <2>2 DEF OutsideStep
<1>6. CASE CacheStep
  <2>1. UNCHANGED <<registry, task>>
    BY <1>6 DEF CacheStep, opVars
  <2> QED BY <1>1, <1>6, <2>1, CacheCalm, OtherKeepsAvail
<1>7. CASE FailureStep
  <2>1. CASE CrashAll
    <3>1. /\ UNCHANGED <<host, used, table, tagged, registry>>
          /\ sync'.todo = {} /\ mon' = IdleMonitor /\ task' = [w \in Workers |-> Free]
      BY <2>1 DEF CrashAll, Crash, Fault
    <3>2. Calm
      BY <1>1, <3>1, CalmSame
    <3>3. MonBacked'
      BY <3>1 DEF MonBacked, IdleMonitor
    <3>4. Backed(Free, used', host', registry')
      BY FreeTask, NothingBacked DEF Holding, HasNew, ReplacingPCs
    <3>5. \A w \in Workers : Backed(task'[w], used', host', registry')
      BY <3>1, <3>4
    <3> QED BY <3>2, <3>3, <3>5 DEF AvailInv, Calm
  <2> QED BY <1>7, <2>1 DEF FailureStep, CallFails, Fault, ReliableChecks
<1>8. CASE UNCHANGED allVars
  <2>1. UNCHANGED <<host, used, table, tagged, registry, task, mon, sync>>
    BY <1>8 DEF allVars, vars, opVars
  <2>2. Calm
    BY <1>1, <2>1, CalmSame
  <2>3. MonBacked'
    BY <2>1 DEF AvailInv, MonBacked
  <2> QED BY <1>1, <2>1, <2>2, <2>3, OtherKeepsAvail
<1> QED BY <1>2, <1>4, <1>5, <1>6, <1>7, <1>8 DEF OpsNext

\* No row says an update is available when the server comes up.
LEMMA InitAvail == OpsInit => AvailInv
<1> SUFFICES ASSUME OpsInit PROVE AvailInv
  OBVIOUS
<1>0. /\ used = Live /\ sync = [pc |-> "up", snap |-> host, todo |-> {}]
      /\ mon = IdleMonitor /\ tagged = registry /\ registry \in Images
      /\ \A i \in Live : host[i].image <= registry
      /\ task = [w \in Workers |-> Free]
      /\ table = [i \in Ids |-> IF host[i] = None THEN None
                                ELSE [name |-> host[i].name, image |-> host[i].image,
                                      status |-> host[i].status,
                                      auto |-> wanted[i], avail |-> FALSE]]
  BY DEF OpsInit
<1>1. RowsBacked(table, used, host, registry)
  <2>1. \A i \in Ids : table[i] # None => host[i] # None /\ table[i].avail = FALSE
    BY <1>0
  <2> QED BY <1>0, <2>1 DEF RowsBacked, Live
<1>2. Versions(host, tagged, registry)
  BY <1>0, VersionAssumption, SMTT(30) DEF Versions, Live
<1>3. MonBacked
  BY <1>0 DEF MonBacked, IdleMonitor
<1>4. \A w \in Workers : Backed(task[w], used, host, registry)
  BY <1>0, FreeTask, NothingBacked DEF Holding, HasNew, ReplacingPCs
<1> QED BY <1>1, <1>2, <1>3, <1>4 DEF AvailInv

\* When Docker calls and image inspections succeed, update_available is never set for a
\* container that runs the newest image: checkContainerUpdatesInternal, the saves of
\* StartContainer and StopContainer (actions.go), the rows upgradeContainerInternal
\* writes and the monitor's upserts may interleave as they like.
THEOREM AvailCorrect == ReliableChecks => (OpsSpec => []AvailIsTrue)
<1> SUFFICES ASSUME ReliableChecks PROVE OpsSpec => []AvailIsTrue
  OBVIOUS
<1>1. OpsInit => AvailInv
  BY InitAvail
<1>2. OpsInv /\ AvailInv /\ [OpsNext]_allVars => AvailInv'
  BY NextAvail
<1>3. AvailInv => AvailIsTrue
  BY DEF AvailInv, RowsBacked, Behind, AvailIsTrue, Live
<1> QED BY <1>1, <1>2, <1>3, OpsInvariance, PTL DEF OpsSpec
=============================================================================
