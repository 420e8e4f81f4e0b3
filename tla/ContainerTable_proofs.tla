----------------------- MODULE ContainerTable_proofs ------------------------
(***************************************************************************)
(* Proofs about the containers table. Of EventMonitor: type correctness,   *)
(* the agreement of an idle monitor's table with the host, of the          *)
(* subscribers with the table, and the survival of the flags of a          *)
(* container that still exists. Of the monitor beside the operations of    *)
(* ContainerOps: the same agreement beside toggles and update checks, and  *)
(* the survival of auto_update through the scheduler's upgrades.           *)
(***************************************************************************)
EXTENDS ContainerOps_proofs, TLAPS

\* Zenon proves the steps that do not name another prover.
USE Zenon

\* A queued event that makes the monitor look at i again, to the right effect:
\* only a destroy event removes the row of a container that is gone.
Informs(kind, i) ==
    IF host[i] = None THEN kind = "destroy" ELSE kind \in ChangeActions

\* Such an event for i waits in the stream.
Queued(i) ==
    \E k \in 1..Len(events) : events[k].id = i /\ Informs(events[k].kind, i)

\* The monitor is about to bring the row of i up to date.
InHand(i) ==
    /\ mon.id = i
    /\ \/ mon.pc = "inspect" /\ host[i] # None
       \/ mon.pc = "upsert" /\ mon.insp = host[i]
       \/ mon.pc = "delete"

\* The monitor does not hold an observation of i that it still has to write.
NotHeld(i) == ~(mon.pc = "upsert" /\ mon.id = i)

\* Rows, containers and events are of ids Docker has given.
UsedInv ==
    /\ \A i \in Ids : host[i] # None \/ table[i] # None => i \in used
    /\ \A k \in 1..Len(events) : events[k].id \in used

\* A destroy event tells of a container that is gone, and ids are not used again.
DestroyInv ==
    /\ \A k \in 1..Len(events) : events[k].kind = "destroy" => host[events[k].id] = None
    /\ mon.pc = "delete" => host[mon.id] = None

\* What the monitor relies on at each step of a handler.
MonitorInv ==
    /\ mon.pc # "idle" => mon.id \in used /\ sync.pc = "up"
    /\ mon.pc = "upsert" => mon.insp # None
    /\ mon.pc = "read" => table[mon.id] # None
    /\ mon.pc = "deleted" => table[mon.id] = None
    /\ conn => sync.pc = "up"
    /\ ~conn => events = <<>>

\* What SyncContainers has written so far says what its snapshot says.
SyncInv ==
    sync.pc = "upsert" =>
      /\ sync.todo \subseteq Listed
      /\ Listed \subseteq used
      /\ \A i \in Ids \ unseen : sync.snap[i] = host[i]
      /\ \A i \in Listed \ sync.todo :
           /\ table[i] # None
           /\ table[i].name = sync.snap[i].name
           /\ table[i].image = sync.snap[i].image
           /\ table[i].status = sync.snap[i].status
      /\ \A i \in Ids : sync.snap[i] = None /\ host[i] # None => table[i] = None

\* Why an idle monitor's table agrees: whatever does not agree yet is either in
\* the monitor's hands or announced by an event it still has to read.
CacheInv ==
    sync.pc = "up" =>
      \A i \in Ids \ unseen : InHand(i) \/ Queued(i) \/ (Agree(i) /\ NotHeld(i))

\* What keeps the table right, whoever publishes.
CoreInv == TypeOK /\ UsedInv /\ DestroyInv /\ MonitorInv /\ SyncInv /\ CacheInv

\* What keeps the subscribers right, when the monitor alone writes.
FeedInv ==
    /\ mon.pc = "publish" => mon.row = table[mon.id]
    /\ sync.pc = "up" /\ faults = MaxFaults =>
         \A i \in Ids : feed[i] # table[i] =>
                          mon.id = i /\ mon.pc \in {"deleted", "read", "publish"}

\* The inductive invariant of EventMonitor.
IInv == CoreInv /\ FeedInv

-----------------------------------------------------------------------------
(* What every operation of another Docker client does to the state.          *)

\* The container i becomes c, announced as kind.
HostChange(i, c, kind) ==
    /\ i \in Ids
    /\ c \in Container \cup {None}
    /\ kind \in EventKinds
    /\ host' = [host EXCEPT ![i] = c]
    /\ used' = used \cup {i}
    /\ Emit(kind, i)
    /\ c = None <=> kind = "destroy"
    /\ c = None => host[i] # None
    /\ host[i] = None => i \notin used

\* Each external operation changes one container, gives no used id to another
\* one and announces a removal, and nothing else, as a destroy event.
LEMMA ExternalIsHostChange ==
    ASSUME TypeOK, UsedInv, NEW i \in Ids, ExternalStep(i)
    PROVE  /\ \E c, kind : HostChange(i, c, kind)
           /\ ext > 0 /\ ext' = ext - 1
           /\ UNCHANGED <<table, sync, conn, mon, feed, faults>>
<1>0. host[i] # None => host[i] \in Container /\ i \in used
  BY DEF TypeOK, UsedInv
<1>1. CASE ExternalCreate(i)
  <2>1. PICK n \in Names, m \in Images :
          HostCreate(i, [name |-> n, image |-> m, status |-> "created"])
    BY <1>1 DEF ExternalCreate
  <2>2. [name |-> n, image |-> m, status |-> "created"] \in Container
    BY DEF Container, Statuses
  <2>3. HostChange(i, [name |-> n, image |-> m, status |-> "created"], "create")
    BY <2>1, <2>2, NoneAssumption DEF HostChange, HostCreate, EventKinds
  <2> QED BY <1>1, <2>3 DEF ExternalCreate, External
<1>2. ASSUME NEW kind \in EventKinds \ {"destroy"}, NEW st \in Statuses,
             host[i] # None, HostSetStatus(i, kind, st)
      PROVE  HostChange(i, [host[i] EXCEPT !.status = st], kind)
  <2>1. [host[i] EXCEPT !.status = st] \in Container
    BY <1>0, <1>2 DEF Container
  <2> QED BY <1>0, <1>2, <2>1, NoneAssumption DEF HostChange, HostSetStatus
<1>3. CASE ExternalStart(i)
  BY <1>2, <1>3 DEF ExternalStart, External, EventKinds, Statuses
<1>4. CASE ExternalDie(i)
  BY <1>2, <1>4 DEF ExternalDie, External, EventKinds, Statuses
<1>5. CASE ExternalPause(i)
  BY <1>2, <1>5 DEF ExternalPause, External, EventKinds, Statuses
<1>6. CASE ExternalRename(i)
  <2>1. PICK n \in Names : host' = [host EXCEPT ![i].name = n]
    BY <1>6 DEF ExternalRename
  <2>2. [host[i] EXCEPT !.name = n] \in Container
    BY <1>0, <1>6 DEF Container, ExternalRename
  <2>3. HostChange(i, [host[i] EXCEPT !.name = n], "rename")
    BY <1>0, <1>6, <2>1, <2>2, NoneAssumption DEF HostChange, ExternalRename, EventKinds
  <2> QED BY <1>6, <2>3 DEF ExternalRename, External
<1>7. CASE ExternalRemove(i)
  <2>1. HostChange(i, None, "destroy")
    BY <1>0, <1>7 DEF HostChange, ExternalRemove, HostRemove, EventKinds
  <2> QED BY <1>7, <2>1 DEF ExternalRemove, External
<1> QED BY <1>1, <1>3, <1>4, <1>5, <1>6, <1>7 DEF ExternalStep

-----------------------------------------------------------------------------
(* The inductive invariant holds initially and is preserved by every action. *)

\* The states serve can boot in satisfy IInv.
LEMMA InitInv == Init => IInv
<1> SUFFICES ASSUME Init PROVE IInv
  OBVIOUS
<1>1. TypeOK
  <2>1. host \in [Ids -> Container \cup {None}]
    BY BootAssumption DEF Init
  <2>2. table \in [Ids -> Row \cup {None}]
    BY BootAssumption DEF Init
  <2>3. sync \in [pc : SyncPCs, snap : [Ids -> Container \cup {None}], todo : SUBSET Ids]
    BY DEF Init, SyncPCs
  <2>4. mon \in [pc : MonitorPCs, id : Ids \cup {None},
                 insp : Container \cup {None}, row : Row \cup {None}]
    BY DEF Init, IdleMonitor, MonitorPCs
  <2>5. ext \in 0..MaxExternal /\ faults \in 0..MaxFaults /\ events \in Seq(Event)
    BY BoundAssumption, SMT DEF Init
  <2> QED BY <2>1, <2>2, <2>3, <2>4, <2>5 DEF Init, TypeOK
<1>2. UsedInv /\ DestroyInv /\ MonitorInv /\ SyncInv /\ CacheInv /\ FeedInv
  BY SMT DEF Init, UsedInv, DestroyInv, MonitorInv, SyncInv, CacheInv, FeedInv, IdleMonitor
<1> QED BY <1>1, <1>2 DEF IInv, CoreInv

\* Appending an event keeps the queued ones.
LEMMA AppendEvent ==
    ASSUME events \in Seq(Event), NEW e \in Event, events' = Append(events, e)
    PROVE  /\ events' \in Seq(Event)
           /\ Len(events') = Len(events) + 1
           /\ \A k \in 1..Len(events) : k \in 1..Len(events') /\ events'[k] = events[k]
           /\ events'[Len(events')] = e
           /\ \A k \in 1..Len(events') : k \in 1..Len(events) \/ events'[k] = e
  BY SMT

\* A change of the host by anyone who announces it preserves the invariant.
LEMMA HostChangeInv ==
    ASSUME CoreInv, NEW i, NEW c, NEW kind, HostChange(i, c, kind),
           UNCHANGED <<table, sync, conn, mon, feed, faults>>,
           ext' \in 0..MaxExternal
    PROVE  CoreInv'
<1> DEFINE e == [kind |-> kind, id |-> i]
<1> USE DEF CoreInv
<1>0. /\ i \in Ids /\ c \in Container \cup {None} /\ e \in Event
      /\ host' = [host EXCEPT ![i] = c]
      /\ host'[i] = c
      /\ \A j \in Ids \ {i} : host'[j] = host[j]
      /\ used' = used \cup {i}
  BY DEF HostChange, Event, TypeOK
<1>1. \/ conn /\ events' = Append(events, e)
      \/ ~conn /\ events' = events /\ events = <<>>
  BY DEF HostChange, Emit, MonitorInv
<1>1a. events' \in Seq(Event)
  BY <1>0, <1>1, AppendEvent DEF TypeOK
<1>2. \A k \in 1..Len(events) : k \in 1..Len(events') /\ events'[k] = events[k]
  <2>1. CASE conn /\ events' = Append(events, e)
    BY <1>0, <2>1, AppendEvent DEF TypeOK
  <2> QED BY <1>1, <2>1
<1>3. \A k \in 1..Len(events') : k \in 1..Len(events) \/ events'[k] = e
  <2>1. CASE conn /\ events' = Append(events, e)
    BY <1>0, <2>1, AppendEvent DEF TypeOK
  <2> QED BY <1>1, <2>1
<1>4. i \notin unseen' => /\ conn /\ kind \in PromisedKinds
                          /\ \E k \in 1..Len(events') : events'[k] = e
  <2>1. i \notin unseen' => conn /\ kind \in PromisedKinds
    BY DEF HostChange, Emit
  <2>2. CASE conn /\ events' = Append(events, e)
    <3>1. Len(events') \in 1..Len(events') /\ events'[Len(events')] = e
      BY <1>0, <2>2, AppendEvent, SMT DEF TypeOK
    <3> QED BY <2>1, <3>1
  <2> QED BY <1>1, <2>1, <2>2
<1>5. unseen \subseteq unseen' /\ unseen' \subseteq unseen \cup {i} /\ unseen' \in SUBSET Ids
  BY <1>0 DEF HostChange, Emit, TypeOK
<1>6. TypeOK'
  BY <1>0, <1>1a, <1>5 DEF TypeOK
<1>7. UsedInv'
  <2>1. \A k \in 1..Len(events') : events'[k].id \in used'
    BY <1>0, <1>2, <1>3, SMT DEF UsedInv
  <2> QED BY <1>0, <2>1 DEF UsedInv
<1>8. DestroyInv'
  <2>1. ASSUME NEW j \in used, host[j] = None PROVE host'[j] = None
    BY <1>0, <2>1 DEF HostChange, TypeOK
  <2>2. \A k \in 1..Len(events') :
          events'[k].kind = "destroy" => host'[events'[k].id] = None
    <3> TAKE k \in 1..Len(events')
    <3>1. CASE events'[k] = e
      BY <1>0, <3>1, SMT DEF HostChange
    <3>2. CASE k \in 1..Len(events)
      BY <1>2, <2>1, <3>2 DEF DestroyInv, UsedInv
    <3> QED BY <1>3, <3>1, <3>2
  <2>3. mon'.pc = "delete" => host'[mon'.id] = None
    BY <2>1 DEF DestroyInv, MonitorInv
  <2> QED BY <2>2, <2>3 DEF DestroyInv
<1>9. MonitorInv'
  BY <1>0, <1>1 DEF MonitorInv
<1>10. SyncInv'
  <2> SUFFICES ASSUME sync.pc = "upsert" PROVE SyncInv'
    BY DEF SyncInv
  <2>1. ~conn
    BY DEF MonitorInv
  <2>2. unseen' = unseen \cup {i}
    BY <2>1 DEF HostChange, Emit
  <2>3. \A j \in Ids \ unseen' : sync'.snap[j] = host'[j]
    BY <1>0, <2>2 DEF SyncInv
  <2>4. \A j \in Ids : sync'.snap[j] = None /\ host'[j] # None => table'[j] = None
    <3> TAKE j \in Ids
    <3>1. CASE j # i
      BY <1>0, <3>1 DEF SyncInv
    <3>2. CASE j = i
      BY <1>0, <3>2 DEF SyncInv, HostChange, UsedInv
    <3> QED BY <3>1, <3>2
  <2>5. Listed' = Listed
    BY DEF Listed
  <2> QED BY <1>0, <2>3, <2>4, <2>5 DEF SyncInv
<1>11. CacheInv'
  <2> SUFFICES ASSUME sync.pc = "up", NEW j \in Ids \ unseen'
               PROVE  InHand(j)' \/ Queued(j)' \/ (Agree(j)' /\ NotHeld(j)')
    BY DEF CacheInv
  <2>1. CASE j = i
    <3>1. PICK k \in 1..Len(events') : events'[k] = e
      BY <1>4, <2>1
    <3>2. kind \in PromisedKinds
      BY <1>4, <2>1
    <3>3. IF host'[i] = None THEN kind = "destroy" ELSE kind \in ChangeActions
      BY <1>0, <3>2 DEF HostChange, PromisedKinds, ChangeActions
    <3>4. Queued(j)'
      BY <2>1, <3>1, <3>3, SMT DEF Queued, Informs
    <3> QED BY <3>4
  <2>2. CASE j # i
    <3>1. j \in Ids \ unseen /\ host'[j] = host[j]
      BY <1>0, <1>5, <2>2
    <3>2. CASE InHand(j)
      BY <3>1, <3>2 DEF InHand
    <3>3. CASE Queued(j)
      <4>1. PICK k \in 1..Len(events) : events[k].id = j /\ Informs(events[k].kind, j)
        BY <3>3 DEF Queued
      <4>2. k \in 1..Len(events') /\ events'[k] = events[k]
        BY <1>2
      <4> QED BY <3>1, <4>1, <4>2 DEF Queued, Informs
    <3>4. CASE Agree(j) /\ NotHeld(j)
      BY <3>1, <3>4 DEF Agree, NotHeld
    <3> QED BY <3>1, <3>2, <3>3, <3>4 DEF CacheInv
  <2> QED BY <2>1, <2>2
<1> QED BY <1>6, <1>7, <1>8, <1>9, <1>10, <1>11, ZenonT(30)

\* The operations of other Docker clients preserve CoreInv.
LEMMA ExternalInvariant ==
    ASSUME CoreInv, NEW i \in Ids, ExternalStep(i)
    PROVE  CoreInv'
<1>1. PICK c, kind : HostChange(i, c, kind)
  BY ExternalIsHostChange DEF CoreInv
<1>2. ext > 0 /\ ext' = ext - 1 /\ UNCHANGED <<table, sync, conn, mon, feed, faults>>
  BY ExternalIsHostChange DEF CoreInv
<1>3. ext' \in 0..MaxExternal
  BY <1>2, BoundAssumption, SMT DEF CoreInv, TypeOK
<1> QED BY <1>1, <1>2, <1>3, HostChangeInv

-----------------------------------------------------------------------------
\* UpsertContainerFromEvent writes what was observed and keeps the flags.
LEMMA UpsertedFields ==
    ASSUME NEW row, NEW c
    PROVE  /\ Upserted(row, c).name = c.name
           /\ Upserted(row, c).image = c.image
           /\ Upserted(row, c).status = c.status
           /\ row # None => /\ Upserted(row, c).auto = row.auto
                            /\ Upserted(row, c).avail = row.avail
<1>1. Upserted(row, c).name = c.name
  BY DEF Upserted
<1>2. Upserted(row, c).image = c.image
  BY DEF Upserted
<1>3. Upserted(row, c).status = c.status
  BY DEF Upserted
<1>4. ASSUME row # None
      PROVE  /\ Upserted(row, c).auto = row.auto
             /\ Upserted(row, c).avail = row.avail
  BY <1>4 DEF Upserted
<1> QED BY <1>1, <1>2, <1>3, <1>4

\* The startup listing, its upserts and the orphan deletion preserve CoreInv.
LEMMA SyncInvariant ==
    ASSUME CoreInv, SyncStep
    PROVE  CoreInv'
<1> USE DEF CoreInv
<1>1. CASE SyncList
  <2> USE <1>1 DEF SyncList
  <2>0. mon.pc = "idle" /\ ~conn
    BY DEF MonitorInv, TypeOK, MonitorPCs
  <2>1. sync' \in [pc : SyncPCs, snap : [Ids -> Container \cup {None}], todo : SUBSET Ids]
    BY DEF TypeOK, SyncPCs, Live
  <2>2. TypeOK'
    BY <2>1 DEF TypeOK
  <2>3. UsedInv' /\ DestroyInv' /\ MonitorInv' /\ CacheInv'
    BY <2>0 DEF UsedInv, DestroyInv, MonitorInv, CacheInv
  <2>4. SyncInv'
    BY DEF SyncInv, Listed, Live, UsedInv
  <2> QED BY <2>2, <2>3, <2>4
<1>2. ASSUME NEW i \in Ids, SyncUpsert(i)
      PROVE  CoreInv'
  <2> USE <1>2 DEF SyncUpsert
  <2>0. mon.pc = "idle" /\ ~conn /\ i \in Listed /\ i \in used /\ host[i] \in Container \cup {None}
        /\ sync.snap[i] \in Container
    BY DEF MonitorInv, TypeOK, SyncInv, Listed
  <2>1. Upserted(table[i], sync.snap[i]) \in Row
    BY <2>0 DEF Upserted, TypeOK, Row, Container
  <2>2. TypeOK'
    BY <2>1 DEF TypeOK
  <2>3. \A j \in Ids : table'[j] = IF j = i THEN Upserted(table[i], sync.snap[i]) ELSE table[j]
    BY DEF TypeOK
  <2>4. UsedInv' /\ DestroyInv' /\ MonitorInv' /\ CacheInv'
    BY <2>0, <2>3, SMT DEF UsedInv, DestroyInv, MonitorInv, CacheInv
  <2>5. SyncInv'
    <3>1. Listed' = Listed /\ sync'.snap = sync.snap /\ sync'.todo = sync.todo \ {i}
      BY DEF Listed, TypeOK
    <3>2. \A j \in Listed' \ sync'.todo :
            /\ table'[j] # None
            /\ table'[j].name = sync'.snap[j].name
            /\ table'[j].image = sync'.snap[j].image
            /\ table'[j].status = sync'.snap[j].status
      <4> TAKE j \in Listed' \ sync'.todo
      <4>1. CASE j = i
        <5>1. table'[j] = Upserted(table[i], sync.snap[i]) /\ sync'.snap[j] = sync.snap[i]
          BY <2>3, <3>1, <4>1
        <5>2. table'[j] # None
          BY <2>1, <5>1, NoneAssumption
        <5> QED BY <5>1, <5>2, UpsertedFields, SMT
      <4>2. CASE j # i
        BY <2>3, <3>1, <4>2, SMT DEF SyncInv, Listed
      <4> QED BY <4>1, <4>2
    <3>3. \A j \in Ids : sync'.snap[j] = None /\ host'[j] # None => table'[j] = None
      BY <2>0, <2>3, <3>1, NoneAssumption, SMT DEF SyncInv
    <3> QED BY <3>1, <3>2, <3>3, ZenonT(30) DEF SyncInv
  <2> QED BY <2>2, <2>4, <2>5
<1>3. CASE SyncOrphans
  <2> USE <1>3 DEF SyncOrphans
  <2>0. mon.pc = "idle" /\ ~conn /\ sync'.pc = "up" /\ sync'.snap = sync.snap
    BY DEF MonitorInv, TypeOK
  <2>1. \A j \in Ids : table'[j] = IF Listed = {} \/ j \in Listed THEN table[j] ELSE None
    BY DEF WithoutOrphans, TypeOK
  <2>2. table' \in [Ids -> Row \cup {None}]
    BY DEF WithoutOrphans, TypeOK
  <2>3. TypeOK'
    BY <2>2 DEF TypeOK, SyncPCs
  <2>4. UsedInv' /\ DestroyInv' /\ MonitorInv' /\ SyncInv'
    BY <2>0, <2>1 DEF UsedInv, DestroyInv, MonitorInv, SyncInv
  <2>5. CacheInv'
    <3> SUFFICES ASSUME NEW j \in Ids \ unseen' PROVE Agree(j)' /\ NotHeld(j)'
      BY DEF CacheInv
    <3>1. j \notin unseen /\ sync.snap[j] = host[j]
      BY DEF SyncInv
    <3>2. CASE host[j] = None
      BY <2>0, <2>1, <3>1, <3>2 DEF Agree, NotHeld, Listed
    <3>3. CASE host[j] # None
      BY <2>0, <2>1, <3>1, <3>3, SMT DEF Agree, NotHeld, Listed, SyncInv
    <3> QED BY <3>2, <3>3
  <2> QED BY <2>3, <2>4, <2>5
<1> QED BY <1>1, <1>2, <1>3 DEF SyncStep

\* A lost stream, a failed call of the monitor and a crash preserve CoreInv: what
\* they leave untold is added to unseen.
LEMMA FaultInvariant ==
    ASSUME CoreInv, FaultStep
    PROVE  CoreInv'
<1> USE DEF CoreInv
<1>0. faults' \in 0..MaxFaults /\ faults' # MaxFaults /\ UNCHANGED <<host, used, ext, feed>>
  BY BoundAssumption, SMT DEF FaultStep, StreamError, MonitorError, MonitorReadError, Crash,
     Fault, TypeOK
<1>2. IdleMonitor \in [pc : MonitorPCs, id : Ids \cup {None},
                       insp : Container \cup {None}, row : Row \cup {None}]
  BY DEF IdleMonitor, MonitorPCs
<1>3. CASE StreamError
  <2> USE <1>3 DEF StreamError
  <2>1. \A k \in 1..Len(events) : events[k] \in Event
    BY SMT DEF TypeOK
  <2>2. TypeOK'
    <3>1. unseen' \in SUBSET Ids
      BY SMTT(30), <2>1 DEF TypeOK, Event
    <3>2. <<>> \in Seq(Event)
      BY SMT
    <3> QED BY <1>0, <3>1, <3>2 DEF TypeOK
  <2>3. UsedInv' /\ DestroyInv' /\ MonitorInv' /\ SyncInv'
    BY <1>0, SMT DEF UsedInv, DestroyInv, MonitorInv, SyncInv, Listed
  <2>4. CacheInv'
    <3> SUFFICES ASSUME sync.pc = "up", NEW j \in Ids \ unseen'
                 PROVE  InHand(j)' \/ (Agree(j)' /\ NotHeld(j)')
      BY DEF CacheInv
    <3>1. j \notin unseen /\ ~Queued(j)
      BY DEF Queued
    <3> QED BY <1>0, <3>1 DEF CacheInv, InHand, Agree, NotHeld
  <2> QED BY <2>2, <2>3, <2>4
<1>4. CASE MonitorError
  <2> USE <1>4 DEF MonitorError
  <2>0. mon.pc # "idle" /\ mon.id \in Ids /\ sync.pc = "up"
    BY DEF MonitorInv, TypeOK
  <2>1. TypeOK'
    BY <1>0, <1>2, <2>0 DEF TypeOK
  <2>2. UsedInv' /\ DestroyInv' /\ MonitorInv' /\ SyncInv'
    BY <1>0, <2>0 DEF UsedInv, DestroyInv, MonitorInv, SyncInv, IdleMonitor
  <2>3. CacheInv'
    <3> SUFFICES ASSUME NEW j \in Ids \ unseen'
                 PROVE  Queued(j)' \/ (Agree(j)' /\ NotHeld(j)')
      BY <2>0 DEF CacheInv
    <3>1. j \notin unseen /\ j # mon.id
      OBVIOUS
    <3> QED BY <1>0, <2>0, <3>1 DEF CacheInv, InHand, Queued, Informs, Agree, NotHeld, IdleMonitor
  <2> QED BY <2>1, <2>2, <2>3
<1>5. CASE MonitorReadError
  <2> USE <1>5 DEF MonitorReadError
  <2>1. TypeOK'
    BY <1>0, <1>2 DEF TypeOK
  <2>2. UsedInv' /\ DestroyInv' /\ MonitorInv' /\ SyncInv'
    BY <1>0 DEF UsedInv, DestroyInv, MonitorInv, SyncInv, IdleMonitor, Listed
  <2>3. CacheInv'
    BY <1>0, ZenonT(30) DEF CacheInv, InHand, Queued, Informs, Agree, NotHeld, IdleMonitor
  <2> QED BY <2>1, <2>2, <2>3
<1>6. CASE Crash
  <2> USE <1>6 DEF Crash
  <2>1. TypeOK'
    <3>1. sync' \in [pc : SyncPCs, snap : [Ids -> Container \cup {None}], todo : SUBSET Ids]
      BY DEF SyncPCs
    <3>2. <<>> \in Seq(Event)
      BY SMT
    <3> QED BY <1>0, <1>2, <3>1, <3>2 DEF TypeOK
  <2>2. UsedInv' /\ DestroyInv' /\ MonitorInv' /\ SyncInv' /\ CacheInv'
    BY SMTT(30), <1>0 DEF UsedInv, DestroyInv, MonitorInv, SyncInv, CacheInv, IdleMonitor
  <2> QED BY <2>1, <2>2
<1> QED BY <1>3, <1>4, <1>5, <1>6 DEF FaultStep

\* Every step of the monitor goroutine preserves CoreInv.
LEMMA MonitorInvariant ==
    ASSUME CoreInv, MonitorStep
    PROVE  CoreInv'
<1> USE DEF CoreInv
<1>0. IdleMonitor \in [pc : MonitorPCs, id : Ids \cup {None},
                       insp : Container \cup {None}, row : Row \cup {None}]
  BY DEF IdleMonitor, MonitorPCs
<1>1. CASE Subscribe
  <2> USE <1>1 DEF Subscribe
  <2>1. TypeOK'
    BY DEF TypeOK
  <2>2. UsedInv' /\ DestroyInv' /\ MonitorInv' /\ SyncInv'
    BY DEF UsedInv, DestroyInv, MonitorInv, SyncInv
  <2>3. CacheInv'
    BY ZenonT(30) DEF CacheInv, InHand, Queued, Informs, Agree, NotHeld
  <2> QED BY <2>1, <2>2, <2>3
<1>2. CASE MonitorTake
  <2> USE <1>2 DEF MonitorTake
  <2> DEFINE e == Head(events)
  <2>0. /\ e = events[1] /\ e \in Event /\ e.id \in Ids /\ e.id \in used
        /\ events' = Tail(events) /\ events' \in Seq(Event)
        /\ Len(events) \in Nat \ {0} /\ Len(events') = Len(events) - 1
        /\ \A k \in 1..Len(events') : k + 1 \in 1..Len(events) /\ events'[k] = events[k + 1]
    <3>1. events \in Seq(Event) /\ events # <<>>
      BY DEF TypeOK
    <3>2. e = events[1] /\ e \in Event /\ Len(events) \in Nat \ {0} /\ 1 \in 1..Len(events)
      BY <3>1, SMT
    <3>3. e.id \in Ids /\ e.id \in used
      BY <3>2 DEF UsedInv, Event
    <3>4. /\ events' = Tail(events) /\ events' \in Seq(Event)
          /\ Len(events') = Len(events) - 1
      BY <3>1, SMT
    <3>5. \A k \in 1..Len(events') : k + 1 \in 1..Len(events) /\ events'[k] = events[k + 1]
      BY <3>1, <3>4, SMT
    <3> QED BY <3>2, <3>3, <3>4, <3>5
  <2> HIDE DEF e
  <2>1. mon' \in [pc : MonitorPCs, id : Ids \cup {None},
                  insp : Container \cup {None}, row : Row \cup {None}]
    BY <1>0, <2>0 DEF IdleMonitor, MonitorPCs, e
  <2>2. TypeOK'
    BY <2>0, <2>1 DEF TypeOK
  <2>3. \/ mon'.pc = "idle" /\ e.kind \notin DeleteActions /\ e.kind \notin ChangeActions
        \/ mon'.pc = "delete" /\ mon'.id = e.id /\ e.kind \in DeleteActions
        \/ mon'.pc = "inspect" /\ mon'.id = e.id /\ e.kind \in ChangeActions
    BY DEF IdleMonitor, e
  <2>4. e.kind \in DeleteActions => e.kind = "destroy" /\ host[e.id] = None
    BY <2>0, SMT DEF DeleteActions, Event, EventKinds, DestroyInv
  <2>5. UsedInv'
    BY <2>0 DEF UsedInv
  <2>6. DestroyInv'
    BY <2>0, <2>3, <2>4 DEF DestroyInv
  <2>7. MonitorInv' /\ SyncInv'
    BY <2>0, <2>3, SMT DEF MonitorInv, SyncInv
  <2>8. CacheInv'
    <3> SUFFICES ASSUME NEW i \in Ids \ unseen
                 PROVE  InHand(i)' \/ Queued(i)' \/ (Agree(i)' /\ NotHeld(i)')
      BY DEF CacheInv
    <3>1. NotHeld(i)' /\ ~InHand(i)
      BY <2>3 DEF NotHeld, InHand
    <3>2. CASE Agree(i)
      BY <3>1, <3>2 DEF Agree
    <3>3. CASE Queued(i)
      <4>1. PICK k \in 1..Len(events) : events[k].id = i /\ Informs(events[k].kind, i)
        BY <3>3 DEF Queued
      <4>2. CASE k = 1
        BY <2>0, <2>3, <4>1, <4>2 DEF InHand, Informs, DeleteActions, ChangeActions
      <4>3. CASE k # 1
        <5>1. k - 1 \in 1..Len(events') /\ events'[k - 1] = events[k]
          BY <2>0, <4>3, SMT
        <5> QED BY <4>1, <5>1 DEF Queued, Informs
      <4> QED BY <4>2, <4>3
    <3> QED BY <3>1, <3>2, <3>3 DEF CacheInv
  <2> QED BY <2>2, <2>5, <2>6, <2>7, <2>8
<1>3. CASE MonitorDelete
  <2> USE <1>3 DEF MonitorDelete
  <2>0. mon.id \in Ids /\ mon.id \in used /\ sync.pc = "up" /\ host[mon.id] = None
        /\ mon'.pc = "deleted" /\ mon'.id = mon.id
        /\ \A j \in Ids : table'[j] = IF j = mon.id THEN None ELSE table[j]
    BY DEF MonitorInv, TypeOK, DestroyInv
  <2>1. TypeOK'
    BY <2>0 DEF TypeOK, MonitorPCs
  <2>2. UsedInv' /\ DestroyInv' /\ MonitorInv' /\ SyncInv'
    BY <2>0, SMT DEF UsedInv, DestroyInv, MonitorInv, SyncInv
  <2>3. CacheInv'
    <3> SUFFICES ASSUME NEW i \in Ids \ unseen'
                 PROVE  Queued(i)' \/ (Agree(i)' /\ NotHeld(i)')
      BY DEF CacheInv
    <3>1. NotHeld(i)'
      BY <2>0 DEF NotHeld
    <3>2. CASE i = mon.id
      BY <2>0, <3>1, <3>2 DEF Agree
    <3>3. CASE i # mon.id
      BY <2>0, <3>1, <3>3, SMT DEF CacheInv, InHand, Queued, Informs, Agree
    <3> QED BY <3>2, <3>3
  <2> QED BY <2>1, <2>2, <2>3
<1>4. CASE MonitorPublishDelete
  <2> USE <1>4 DEF MonitorPublishDelete
  <2>0. mon.id \in Ids /\ sync.pc = "up" /\ mon'.pc = "idle"
    BY DEF MonitorInv, TypeOK, IdleMonitor
  <2>1. TypeOK'
    BY <1>0 DEF TypeOK
  <2>2. UsedInv' /\ DestroyInv' /\ MonitorInv' /\ SyncInv'
    BY <2>0 DEF UsedInv, DestroyInv, MonitorInv, SyncInv
  <2>3. CacheInv'
    BY <2>0 DEF CacheInv, InHand, Queued, Informs, Agree, NotHeld
  <2> QED BY <2>1, <2>2, <2>3
<1>5. CASE MonitorInspect
  <2> USE <1>5 DEF MonitorInspect
  <2>0. mon.id \in Ids /\ mon.id \in used /\ sync.pc = "up"
        /\ host[mon.id] \in Container \cup {None}
    BY DEF MonitorInv, TypeOK
  <2>1. \/ host[mon.id] = None /\ mon' = IdleMonitor /\ mon'.pc = "idle" /\ unseen' = unseen
        \/ /\ host[mon.id] # None /\ unseen' = unseen \ {mon.id}
           /\ mon'.pc = "upsert" /\ mon'.id = mon.id /\ mon'.insp = host[mon.id]
           /\ mon' = [mon EXCEPT !.pc = "upsert", !.insp = host[mon.id]]
    BY DEF IdleMonitor, TypeOK
  <2>2. TypeOK'
    BY <1>0, <2>0, <2>1 DEF TypeOK, MonitorPCs
  <2>3. UsedInv' /\ DestroyInv' /\ MonitorInv' /\ SyncInv'
    BY <2>0, <2>1, SMT DEF UsedInv, DestroyInv, MonitorInv, SyncInv
  <2>4. CacheInv'
    <3> SUFFICES ASSUME NEW i \in Ids \ unseen'
                 PROVE  InHand(i)' \/ Queued(i)' \/ (Agree(i)' /\ NotHeld(i)')
      BY DEF CacheInv
    <3>1. CASE i = mon.id /\ host[i] # None
      BY <2>1, <3>1 DEF InHand
    <3>2. CASE ~(i = mon.id /\ host[i] # None)
      BY <2>0, <2>1, <3>2, ZenonT(30) DEF CacheInv, InHand, Queued, Informs, Agree, NotHeld
    <3> QED BY <3>1, <3>2
  <2> QED BY <2>2, <2>3, <2>4
<1>6. CASE MonitorUpsert
  <2> USE <1>6 DEF MonitorUpsert
  <2>0. mon.id \in Ids /\ mon.id \in used /\ sync.pc = "up" /\ mon.insp \in Container
        /\ mon'.pc = "read" /\ mon'.id = mon.id
        /\ \A j \in Ids : table'[j] = IF j = mon.id THEN Upserted(table[j], mon.insp)
                                      ELSE table[j]
    BY DEF MonitorInv, TypeOK
  <2>1. Upserted(table[mon.id], mon.insp) \in Row
    BY <2>0, ZenonT(30) DEF Upserted, TypeOK, Row, Container
  <2>2. TypeOK'
    BY <2>0, <2>1 DEF TypeOK, MonitorPCs
  <2>3. UsedInv' /\ DestroyInv' /\ MonitorInv' /\ SyncInv'
    BY <2>0, <2>1, NoneAssumption, SMT DEF UsedInv, DestroyInv, MonitorInv, SyncInv
  <2>4. CacheInv'
    <3> SUFFICES ASSUME NEW i \in Ids \ unseen'
                 PROVE  InHand(i)' \/ Queued(i)' \/ (Agree(i)' /\ NotHeld(i)')
      BY DEF CacheInv
    <3>1. CASE i = mon.id /\ mon.insp = host[i]
      <4>1. table'[i] = Upserted(table[i], host[i]) /\ table'[i] # None /\ host[i] # None
        BY <2>0, <2>1, <3>1, NoneAssumption, ZenonT(30)
      <4>2. Agree(i)'
        BY <4>1, UpsertedFields, SMT DEF Agree
      <4> QED BY <2>0, <4>2 DEF NotHeld
    <3>2. CASE i = mon.id /\ mon.insp # host[i]
      BY <2>0, <3>2 DEF CacheInv, InHand, Queued, Informs, NotHeld
    <3>3. CASE i # mon.id
      BY <2>0, <3>3, SMT DEF CacheInv, InHand, Queued, Informs, Agree, NotHeld
    <3> QED BY <3>1, <3>2, <3>3
  <2> QED BY <2>2, <2>3, <2>4
<1>7. CASE MonitorRead
  <2> USE <1>7 DEF MonitorRead
  <2>0. mon.id \in Ids /\ mon.id \in used /\ sync.pc = "up" /\ table[mon.id] \in Row \cup {None}
    BY DEF MonitorInv, TypeOK
  <2>1. \/ table[mon.id] = None /\ mon' = IdleMonitor /\ mon'.pc = "idle"
        \/ /\ table[mon.id] # None
           /\ mon'.pc = "publish" /\ mon'.id = mon.id /\ mon'.row = table[mon.id]
           /\ mon' = [mon EXCEPT !.pc = "publish", !.row = table[mon.id]]
    BY DEF IdleMonitor, TypeOK
  <2>2. TypeOK'
    BY <1>0, <2>0, <2>1 DEF TypeOK, MonitorPCs
  <2>3. UsedInv' /\ DestroyInv' /\ MonitorInv' /\ SyncInv'
    BY <2>0, <2>1, ZenonT(30) DEF UsedInv, DestroyInv, MonitorInv, SyncInv
  <2>4. CacheInv'
    BY <2>0, <2>1, ZenonT(30) DEF CacheInv, InHand, Queued, Informs, Agree, NotHeld
  <2> QED BY <2>2, <2>3, <2>4
<1>8. CASE MonitorPublish
  <2> USE <1>8 DEF MonitorPublish
  <2>0. mon.id \in Ids /\ sync.pc = "up" /\ mon'.pc = "idle"
    BY DEF MonitorInv, TypeOK, IdleMonitor
  <2>1. TypeOK'
    BY <1>0 DEF TypeOK
  <2>2. UsedInv' /\ DestroyInv' /\ MonitorInv' /\ SyncInv'
    BY <2>0 DEF UsedInv, DestroyInv, MonitorInv, SyncInv
  <2>3. CacheInv'
    BY <2>0 DEF CacheInv, InHand, Queued, Informs, Agree, NotHeld
  <2> QED BY <2>1, <2>2, <2>3
<1> QED BY <1>1, <1>2, <1>3, <1>4, <1>5, <1>6, <1>7, <1>8, ZenonT(30) DEF MonitorStep

-----------------------------------------------------------------------------
(* The theorems.                                                             *)

\* Every step of the system, stuttering included, preserves CoreInv.
LEMMA NextInvariant == CoreInv /\ [Next]_vars => CoreInv'
<1> SUFFICES ASSUME CoreInv, [Next]_vars PROVE CoreInv'
  OBVIOUS
<1>1. CASE UNCHANGED vars
  BY <1>1, SMT DEF vars, CoreInv, TypeOK, UsedInv, DestroyInv, MonitorInv, SyncInv, Listed,
     CacheInv, InHand, Queued, Informs, Agree, NotHeld
<1>2. ASSUME NEW i \in Ids, ExternalStep(i) PROVE CoreInv'
  BY <1>2, ExternalInvariant
<1> QED BY <1>1, <1>2, SyncInvariant, MonitorInvariant, FaultInvariant DEF Next

\* Every write of the monitor is followed by its publication.
LEMMA NextFeed == IInv /\ [Next]_vars => FeedInv'
<1> SUFFICES ASSUME CoreInv, FeedInv, [Next]_vars PROVE FeedInv'
  BY DEF IInv
<1> USE DEF CoreInv
<1>0. IdleMonitor.pc = "idle"
  BY DEF IdleMonitor
<1>1. CASE UNCHANGED <<mon, table, sync, faults, feed>>
  BY <1>1 DEF FeedInv
<1>2. ASSUME NEW i \in Ids, ExternalStep(i) PROVE FeedInv'
  BY <1>1, <1>2 DEF ExternalStep, External, ExternalCreate, ExternalStart, ExternalDie,
     ExternalPause, ExternalRename, ExternalRemove
<1>3. CASE SyncStep
  <2>1. mon.pc = "idle" /\ mon' = mon
    BY <1>3 DEF SyncStep, SyncList, SyncUpsert, SyncOrphans, MonitorInv
  <2>2. CASE SyncList \/ \E i \in Ids : SyncUpsert(i)
    <3>1. sync'.pc # "up"
      BY <2>2, SMT DEF SyncList, SyncUpsert, TypeOK
    <3> QED BY <2>1, <3>1 DEF FeedInv
  <2>3. CASE SyncOrphans
    BY <2>1, <2>3 DEF SyncOrphans, FeedInv
  <2> QED BY <1>3, <2>2, <2>3 DEF SyncStep
<1>4. CASE FaultStep
  <2>1. faults' # MaxFaults
    BY <1>4, SMT DEF FaultStep, StreamError, MonitorError, MonitorReadError, Crash, Fault, TypeOK
  <2>2. table' = table /\ (mon' = mon \/ mon' = IdleMonitor)
    BY <1>4 DEF FaultStep, StreamError, MonitorError, MonitorReadError, Crash
  <2> QED BY <1>0, <2>1, <2>2 DEF FeedInv
<1>5. CASE Subscribe
  BY <1>1, <1>5 DEF Subscribe
<1>6. CASE MonitorTake
  <2>1. mon'.pc # "publish" /\ mon.pc = "idle"
    BY <1>6 DEF MonitorTake, IdleMonitor
  <2> QED BY <1>6, <2>1 DEF MonitorTake, FeedInv
<1>7. CASE MonitorDelete
  <2>1. /\ mon'.pc = "deleted" /\ mon'.id = mon.id /\ mon.pc = "delete"
        /\ UNCHANGED <<sync, faults, feed>>
        /\ \A j \in Ids : table'[j] = IF j = mon.id THEN None ELSE table[j]
    BY <1>7 DEF MonitorDelete, TypeOK
  <2> QED BY <2>1 DEF FeedInv
<1>8. CASE MonitorPublishDelete
  <2>1. /\ mon'.pc = "idle" /\ table[mon.id] = None /\ UNCHANGED <<table, sync, faults>>
        /\ \A j \in Ids : feed'[j] = IF j = mon.id THEN None ELSE feed[j]
    BY <1>0, <1>8 DEF MonitorPublishDelete, TypeOK, MonitorInv
  <2> QED BY <2>1 DEF FeedInv
<1>9. CASE MonitorInspect
  <2>1. mon.pc = "inspect" /\ mon'.pc # "publish" /\ UNCHANGED <<table, sync, faults, feed>>
    BY <1>0, <1>9 DEF MonitorInspect, TypeOK
  <2> QED BY <2>1 DEF FeedInv
<1>10. CASE MonitorUpsert
  <2>1. /\ mon.pc = "upsert" /\ mon'.pc = "read" /\ mon'.id = mon.id
        /\ UNCHANGED <<sync, faults, feed>>
        /\ \A j \in Ids : j # mon.id => table'[j] = table[j]
    BY <1>10 DEF MonitorUpsert, TypeOK
  <2> QED BY <2>1 DEF FeedInv
<1>11. CASE MonitorRead
  <2>1. /\ mon.pc = "read" /\ table[mon.id] # None
        /\ mon'.pc = "publish" /\ mon'.id = mon.id /\ mon'.row = table[mon.id]
        /\ UNCHANGED <<table, sync, faults, feed>>
    BY <1>11 DEF MonitorRead, TypeOK, MonitorInv
  <2> QED BY <2>1 DEF FeedInv
<1>12. CASE MonitorPublish
  <2>1. /\ mon'.pc = "idle" /\ mon.row = table[mon.id] /\ UNCHANGED <<table, sync, faults>>
        /\ \A j \in Ids : feed'[j] = IF j = mon.id THEN table[j] ELSE feed[j]
    BY <1>0, <1>12 DEF MonitorPublish, TypeOK, FeedInv
  <2> QED BY <2>1 DEF FeedInv
<1> QED
  BY <1>1, <1>2, <1>3, <1>4, <1>5, <1>6, <1>7, <1>8, <1>9, <1>10, <1>11, <1>12
  DEF Next, MonitorStep, vars

\* IInv is an invariant of the specification.
THEOREM Invariance == Spec => []IInv
<1>1. IInv /\ [Next]_vars => IInv'
  BY NextInvariant, NextFeed DEF IInv
<1> QED BY <1>1, InitInv, PTL DEF Spec

\* The variables of the cache keep their types, for any number of containers
\* and any number of external operations and faults.
THEOREM TypeCorrect == Spec => []TypeOK
<1>1. IInv => TypeOK
  BY DEF IInv, CoreInv
<1> QED BY <1>1, Invariance, PTL

\* Whenever the monitor of internal/docker/monitor.go is idle on a subscribed
\* stream, each row agrees with the host unless the container's last change was
\* never delivered to it.
THEOREM CacheCorrect == Spec => []CacheAgrees
<1>1. IInv => CacheAgrees
  <2> SUFFICES ASSUME IInv, Quiet, NEW i \in Ids \ unseen PROVE Agree(i)
    BY DEF CacheAgrees
  <2>1. ~InHand(i) /\ ~Queued(i)
    BY SMT DEF Quiet, InHand, Queued
  <2> QED BY <2>1 DEF IInv, CoreInv, CacheInv, Quiet
<1> QED BY <1>1, Invariance, PTL

\* Without faults, the onEvent callback of cmd/serve.go has told subscribers of
\* every write the monitor made, once the monitor is idle.
THEOREM FeedCorrect == Spec => []FeedAgrees
<1>1. IInv => FeedAgrees
  <2> SUFFICES ASSUME IInv, Quiet, faults = MaxFaults PROVE feed = table
    BY DEF FeedAgrees
  <2>1. \A i \in Ids : feed[i] = table[i]
    BY DEF IInv, FeedInv, Quiet
  <2> QED BY <2>1, SMT DEF IInv, CoreInv, TypeOK
<1> QED BY <1>1, Invariance, PTL

\* No step of the startup synchronisation or of the monitor deletes the row of
\* a container that exists, or changes its auto_update or update_available flag.
THEOREM FlagsCorrect == Spec => FlagsSurvive
<1> DEFINE Same == \A i \in Ids : table[i] # None /\ host[i] # None =>
                     /\ table'[i] # None
                     /\ table'[i].auto = table[i].auto
                     /\ table'[i].avail = table[i].avail
<1>1. IInv /\ [Next]_vars => Same
  <2> SUFFICES ASSUME IInv, [Next]_vars, NEW i \in Ids, table[i] # None, host[i] # None
               PROVE  /\ table'[i] # None
                      /\ table'[i].auto = table[i].auto
                      /\ table'[i].avail = table[i].avail
    OBVIOUS
  <2> USE DEF IInv, CoreInv
  <2>1. CASE table' = table
    BY <2>1
  <2>2. ASSUME NEW j \in Ids, NEW c \in Container, table' = [table EXCEPT ![j] = Upserted(@, c)]
        PROVE  /\ table'[i] # None
               /\ table'[i].auto = table[i].auto
               /\ table'[i].avail = table[i].avail
    <3>1. CASE i = j
      <4>1. table'[i] = Upserted(table[i], c)
        BY <2>2, <3>1 DEF TypeOK
      <4>2. Upserted(table[i], c) \in Row
        BY <2>2 DEF Upserted, TypeOK, Row, Container
      <4> QED BY <4>1, <4>2, UpsertedFields, NoneAssumption, SMT
    <3>2. CASE i # j
      BY <2>2, <3>2 DEF TypeOK
    <3> QED BY <3>1, <3>2
  <2>3. ASSUME NEW j \in Ids, SyncUpsert(j)
        PROVE  /\ table'[i] # None
               /\ table'[i].auto = table[i].auto
               /\ table'[i].avail = table[i].avail
    <3>1. sync.snap[j] \in Container
      BY <2>3, ZenonT(30) DEF SyncUpsert, SyncInv, Listed, TypeOK
    <3> QED BY <2>2, <2>3, <3>1 DEF SyncUpsert
  <2>4. CASE SyncOrphans
    <3>1. Listed # {} => i \in Listed
      BY <2>4 DEF SyncOrphans, SyncInv, Listed
    <3> QED BY <2>4, <3>1 DEF SyncOrphans, WithoutOrphans
  <2>5. CASE MonitorDelete
    BY <2>5 DEF MonitorDelete, DestroyInv, TypeOK
  <2>6. CASE MonitorUpsert
    <3>1. mon.insp \in Container /\ mon.id \in Ids
      BY <2>6 DEF MonitorUpsert, MonitorInv, TypeOK
    <3> QED BY <2>2, <2>6, <3>1 DEF MonitorUpsert
  <2>7. ASSUME ~SyncOrphans, ~MonitorDelete, ~MonitorUpsert, ~\E j \in Ids : SyncUpsert(j)
        PROVE  table' = table
    BY <2>7 DEF Next, ExternalStep, External, ExternalCreate, ExternalStart, ExternalDie,
       ExternalPause, ExternalRename, ExternalRemove, SyncStep, SyncList, MonitorStep,
       Subscribe, MonitorTake, MonitorPublishDelete, MonitorInspect, MonitorRead,
       MonitorPublish, FaultStep, StreamError, MonitorError, MonitorReadError, Crash, vars
  <2> QED BY <2>1, <2>3, <2>4, <2>5, <2>6, <2>7
<1>2. IInv /\ [Next]_vars => [Same]_vars
  BY <1>1
<1> QED BY <1>2, Invariance, PTL DEF Spec, FlagsSurvive

-----------------------------------------------------------------------------
(* The steps of toggles and update checks, and those all operations share.   *)

\* Where such an operation can be.
FlagPCs == {"free", "get", "set", "look", "registry", "record", "read", "publish", "end"}

\* The task u that follows t at one of these steps, with the table T.
Follows(t, u, T) ==
    \/ u = Free
    \/ t.auto /\ u = [Free EXCEPT !.op = "upgrade", !.pc = "get", !.id = t.id]
    \/ /\ u.op = t.op /\ u.id = t.id /\ u.new = t.new /\ u.auto = t.auto
       /\ \/ u.pc \in {"registry", "record", "read", "publish", "end"}
          \/ /\ t.pc = "get" /\ u.row = T[t.id] /\ T[t.id] # None
             /\ \/ t.op \in {"start", "stop"} /\ u.pc = "before"
                \/ t.op = "set" /\ u.pc = "set"
                \/ t.op = "check" /\ u.pc = "look"
                \/ t.op = "upgrade" /\ u.pc = "inspect"

\* The same rows exist, and are the same but for their flags.
SameRows(T, S) ==
    \A i \in Ids : /\ S[i] = None <=> T[i] = None
                   /\ T[i] # None => /\ S[i].name = T[i].name
                                     /\ S[i].image = T[i].image
                                     /\ S[i].status = T[i].status

\* The same rows exist, with the same auto_update.
SameAuto(T, S) ==
    \A i \in Ids : /\ S[i] = None <=> T[i] = None
                   /\ T[i] # None => S[i].auto = T[i].auto

\* Replacing one row by one that differs in a flag.
LEMMA OneRowSame ==
    ASSUME NEW T \in [Ids -> Row \cup {None}], NEW i \in Ids, NEW row \in Row, T[i] # None
    PROVE  LET S == [T EXCEPT ![i] = row]
           IN  /\ row.name = T[i].name /\ row.image = T[i].image /\ row.status = T[i].status
                    => SameRows(T, S)
               /\ row.auto = T[i].auto => SameAuto(T, S)
BY NoneAssumption DEF SameRows, SameAuto

\* A task that goes to one of the last steps of its operation.
LEMMA GotoFollows ==
    ASSUME OpsInv, NEW w \in Workers, NEW p \in {"read", "end"}, Goto(w, p)
    PROVE  \E u : task' = [task EXCEPT ![w] = u] /\ Follows(task[w], u, table)
<1> DEFINE u == [task[w] EXCEPT !.pc = p]
<1>1. task[w] \in Task
  BY Busy
<1>2. /\ u.pc = p /\ u.op = task[w].op /\ u.id = task[w].id /\ u.new = task[w].new
      /\ u.auto = task[w].auto
  BY <1>1 DEF Task
<1>3. task' = [task EXCEPT ![w] = u]
  BY DEF Goto, Become
<1> HIDE DEF u
<1>4. Follows(task[w], u, table)
  BY <1>2 DEF Follows
<1> QED BY <1>3, <1>4

\* These steps write flags of one row and nothing else, auto_update only for a toggle.
LEMMA FlagWorker ==
    ASSUME OpsInv, NEW w \in Workers, WorkerStep(w), task[w].pc \in FlagPCs
    PROVE  /\ \E u : task' = [task EXCEPT ![w] = u] /\ Follows(task[w], u, table)
           /\ SameRows(table, table')
           /\ task[w].pc # "set" => SameAuto(table, table')
           /\ UNCHANGED <<host, used, events, unseen>>
<1> USE DEF At
<1> DEFINE Next1 == \E u : task' = [task EXCEPT ![w] = u] /\ Follows(task[w], u, table)
<1>0. /\ task[w] \in Task /\ Fit(task[w])
      /\ task[w].pc # "free" => task[w].id \in Ids
      /\ table \in [Ids -> Row \cup {None}]
  BY Busy DEF OpsInv, OpsTypeOK, TypeOK
<1>1. \/ Get(w) \/ ReadBack(w) \/ Publish(w) \/ EndOfOperation(w)
      \/ SetAuto(w) \/ Look(w) \/ AskRegistry(w) \/ Record(w)
  <2>1. ~StartStopStep(w)
    BY DEF StartStopStep, InspectBefore, Act, InspectAfter, Save, FlagPCs
  <2>2. ~UpgradeStep(w)
    BY DEF UpgradeStep, Inspect, Pull, InspectImage, Halt, Remove, Create, Connect,
           Rollback, Launch, Verify, Swap, Fallback, Retire, FlagPCs
  <2> QED BY <2>1, <2>2 DEF WorkerStep, CommonStep, FlagStep
<1>2. SameRows(table, table) /\ SameAuto(table, table)
  BY DEF SameRows, SameAuto
<1>3. Finish(w) => Next1
  BY DEF Finish, Become, Follows
<1>4. CASE Get(w)
  <2>1. Next1
    <3>1. CASE table[task[w].id] = None
      BY <1>3, <1>4, <3>1 DEF Get
    <3>2. CASE table[task[w].id] # None
      <4>1. task[w].op \in OpKinds
        BY <1>0, <1>4 DEF Get, Fit
      <4>2. PICK p : /\ \/ task[w].op \in {"start", "stop"} /\ p = "before"
                        \/ task[w].op = "set" /\ p = "set"
                        \/ task[w].op = "check" /\ p = "look"
                        \/ task[w].op = "upgrade" /\ p = "inspect"
                     /\ task' = [task EXCEPT ![w] =
                                   [task[w] EXCEPT !.row = table[task[w].id], !.pc = p]]
        BY <1>4, <3>2, <4>1 DEF Get, Become, OpKinds
      <4> DEFINE u == [task[w] EXCEPT !.row = table[task[w].id], !.pc = p]
      <4>3. /\ u.pc = p /\ u.op = task[w].op /\ u.id = task[w].id /\ u.new = task[w].new
            /\ u.auto = task[w].auto /\ u.row = table[task[w].id]
        BY <1>0 DEF Task
      <4>4. task' = [task EXCEPT ![w] = u]
        BY <4>2
      <4> HIDE DEF u
      <4>5. Follows(task[w], u, table)
        BY <1>4, <3>2, <4>2, <4>3 DEF Follows, Get
      <4> QED BY <4>4, <4>5
    <3> QED BY <3>1, <3>2
  <2> HIDE DEF Next1
  <2> QED BY <1>2, <1>4, <2>1 DEF Get, OnlyTask, Next1
<1>5. CASE ReadBack(w)
  <2>1. UNCHANGED <<host, used, events, unseen, table>>
    BY <1>5 DEF ReadBack, OnlyTask, OnlyFault, Fault
  <2>2. CASE Goto(w, "end")
    BY <1>2, <2>1, <2>2, GotoFollows
  <2>3. CASE Become(w, [task[w] EXCEPT !.pc = "publish", !.row = table[task[w].id]])
    <3> DEFINE u == [task[w] EXCEPT !.pc = "publish", !.row = table[task[w].id]]
    <3>1. /\ u.pc = "publish" /\ u.op = task[w].op /\ u.id = task[w].id
          /\ u.new = task[w].new /\ u.auto = task[w].auto
      BY <1>0 DEF Task
    <3>2. task' = [task EXCEPT ![w] = u]
      BY <2>3 DEF Become
    <3> HIDE DEF u
    <3>3. Follows(task[w], u, table)
      BY <3>1 DEF Follows
    <3> QED BY <1>2, <2>1, <3>2, <3>3
  <2> QED BY <1>5, <2>2, <2>3 DEF ReadBack
<1>6. CASE Publish(w)
  BY <1>2, <1>6, GotoFollows DEF Publish, OnlyFeed
<1>7. CASE EndOfOperation(w)
  <2>1. CASE Finish(w)
    BY <1>2, <1>3, <1>7, <2>1 DEF EndOfOperation, OnlyTask
  <2>2. CASE /\ task[w].auto
             /\ Become(w, [Free EXCEPT !.op = "upgrade", !.pc = "get", !.id = task[w].id])
    <3> DEFINE u == [Free EXCEPT !.op = "upgrade", !.pc = "get", !.id = task[w].id]
    <3>1. task' = [task EXCEPT ![w] = u] /\ Follows(task[w], u, table)
      BY <2>2 DEF Become, Follows
    <3> HIDE DEF u
    <3> QED BY <1>2, <1>7, <3>1 DEF EndOfOperation, OnlyTask
  <2> QED BY <1>7, <2>1, <2>2 DEF EndOfOperation
<1>8. CASE SetAuto(w)
  <2>1. SameRows(table, table')
    <3>1. CASE table[task[w].id] = None
      BY <1>2, <1>8, <3>1 DEF SetAuto
    <3>2. CASE table[task[w].id] # None
      <4> DEFINE row == [table[task[w].id] EXCEPT !.auto = task[w].flag]
      <4>1. task[w].id \in Ids /\ table[task[w].id] \in Row /\ task[w].flag \in BOOLEAN
        BY <1>0, <1>8, <3>2 DEF SetAuto, Task
      <4>2. /\ row \in Row
            /\ row.name = table[task[w].id].name /\ row.image = table[task[w].id].image
            /\ row.status = table[task[w].id].status
        BY <4>1 DEF Row
      <4>3. table' = [table EXCEPT ![task[w].id] = row]
        BY <1>8, <3>2 DEF SetAuto
      <4> HIDE DEF row
      <4> QED BY <1>0, <3>2, <4>1, <4>2, <4>3, OneRowSame
    <3> QED BY <3>1, <3>2
  <2> QED BY <1>8, <2>1, GotoFollows DEF SetAuto, OnlyTable
<1>9. CASE Record(w)
  <2>1. SameRows(table, table') /\ SameAuto(table, table')
    <3>1. CASE table[task[w].id] = None
      BY <1>2, <1>9, <3>1 DEF Record
    <3>2. CASE table[task[w].id] # None
      <4> DEFINE row == [table[task[w].id] EXCEPT !.avail = task[w].flag]
      <4>1. task[w].id \in Ids /\ table[task[w].id] \in Row /\ task[w].flag \in BOOLEAN
        BY <1>0, <1>9, <3>2 DEF Record, Task
      <4>2. /\ row \in Row
            /\ row.name = table[task[w].id].name /\ row.image = table[task[w].id].image
            /\ row.status = table[task[w].id].status /\ row.auto = table[task[w].id].auto
        BY <4>1 DEF Row
      <4>3. table' = [table EXCEPT ![task[w].id] = row]
        BY <1>9, <3>2, ZenonT(30) DEF Record
      <4> HIDE DEF row
      <4> QED BY <1>0, <3>2, <4>1, <4>2, <4>3, OneRowSame, ZenonT(30)
    <3> QED BY <3>1, <3>2
  <2> QED BY <1>9, <2>1, GotoFollows DEF Record, OnlyTable
<1>10. CASE Look(w)
  <2>1. UNCHANGED <<host, used, events, unseen, table>>
    BY <1>10 DEF Look, OnlyTask, OnlyFault, Fault
  <2>2. PICK m : Become(w, [task[w] EXCEPT !.pc = "registry", !.img = m])
    BY <1>10 DEF Look
  <2> DEFINE u == [task[w] EXCEPT !.pc = "registry", !.img = m]
  <2>3. /\ u.pc = "registry" /\ u.op = task[w].op /\ u.id = task[w].id
        /\ u.new = task[w].new /\ u.auto = task[w].auto
    BY <1>0 DEF Task
  <2>4. task' = [task EXCEPT ![w] = u]
    BY <2>2 DEF Become
  <2> HIDE DEF u
  <2>5. Follows(task[w], u, table)
    BY <2>3, ZenonT(30) DEF Follows
  <2> QED BY <1>2, <2>1, <2>4, <2>5
<1>11. CASE AskRegistry(w)
  <2>1. UNCHANGED <<host, used, events, unseen, table>>
    BY <1>11 DEF AskRegistry, OnlyTask, OnlyFault, Fault
  <2>2. PICK b : Become(w, [task[w] EXCEPT !.pc = "record", !.flag = b])
    BY <1>11 DEF AskRegistry
  <2> DEFINE u == [task[w] EXCEPT !.pc = "record", !.flag = b]
  <2>3. /\ u.pc = "record" /\ u.op = task[w].op /\ u.id = task[w].id
        /\ u.new = task[w].new /\ u.auto = task[w].auto
    BY <1>0 DEF Task
  <2>4. task' = [task EXCEPT ![w] = u]
    BY <2>2 DEF Become
  <2> HIDE DEF u
  <2>5. Follows(task[w], u, table)
    BY <2>3 DEF Follows
  <2> QED BY <1>2, <2>1, <2>4, <2>5
<1> QED BY <1>1, <1>4, <1>5, <1>6, <1>7, <1>8, <1>9, <1>10, <1>11, ZenonT(30)

-----------------------------------------------------------------------------
(* The monitor beside the toggles and update checks of the users.            *)

\* The server only serves toggles and update checks.
FlagOpsOnly == Ops \subseteq {"set", "check"} /\ MaxTicks = 0

\* No operation but these is under way, and no check leads to an upgrade.
FlagTask(t) ==
    /\ t.pc \in FlagPCs
    /\ t.pc = "get" => t.op \in {"set", "check"}
    /\ ~t.auto

\* So it is for every worker, and the scheduler has nothing to do.
FlagTasks ==
    /\ ticks = 0
    /\ \A i \in Ids : agenda[i] = None
    /\ \A w \in Workers : FlagTask(task[w])

\* An UPDATE of flags disturbs nothing of what keeps the table right.
LEMMA FlagsKeepCore ==
    ASSUME CoreInv, TypeOK', SameRows(table, table'),
           UNCHANGED <<host, used, sync, conn, events, mon, unseen>>
    PROVE  CoreInv'
<1> USE DEF CoreInv
<1>1. \A i \in Ids : Agree(i)' <=> Agree(i)
  BY DEF SameRows, Agree
<1>2. \A i \in Ids : /\ InHand(i)' <=> InHand(i)
                     /\ Queued(i)' <=> Queued(i)
                     /\ NotHeld(i)' <=> NotHeld(i)
  BY DEF InHand, Queued, Informs, NotHeld
<1>3. CacheInv'
  BY <1>1, <1>2 DEF CacheInv
<1>4. SyncInv'
  <2>1. Listed' = Listed
    BY DEF Listed
  <2>2. Listed \subseteq Ids
    BY DEF Listed
  <2> QED BY <2>1, <2>2, ZenonT(30) DEF SyncInv, SameRows
<1>5. UsedInv' /\ DestroyInv'
  BY DEF UsedInv, DestroyInv, SameRows
<1>6. MonitorInv'
  <2>1. mon.pc # "idle" => mon.id \in Ids
    BY DEF MonitorInv, TypeOK
  <2> QED BY <2>1 DEF MonitorInv, SameRows
<1> QED BY <1>3, <1>4, <1>5, <1>6

\* The step after a flag operation's is a flag operation's.
LEMMA FlagFollows ==
    ASSUME NEW t, NEW u, NEW T, FlagTask(t), Follows(t, u, T)
    PROVE  FlagTask(u)
<1>1. FlagTask(Free)
  BY DEF FlagTask, Free, FlagPCs
<1> QED BY <1>1 DEF FlagTask, FlagPCs, Follows

\* One worker's flag operation leaves only flag operations.
LEMMA FlagTasksStep ==
    ASSUME OpsInv, FlagTasks, NEW w \in Workers, NEW t, task' = [task EXCEPT ![w] = t],
           FlagTask(t), UNCHANGED <<agenda, ticks>>
    PROVE  FlagTasks'
<1>2. task \in [Workers -> Task]
  BY DEF OpsInv, TasksOK
<1>3. \A v \in Workers : task'[v] = t \/ task'[v] = task[v]
  BY <1>2
<1>4. \A v \in Workers : FlagTask(task'[v])
  BY <1>3 DEF FlagTasks
<1> QED BY <1>4 DEF FlagTasks, FlagTask

\* Every step keeps the table right, when only flags are written beside the monitor.
LEMMA NextCore ==
    ASSUME FlagOpsOnly, OpsInv, OpsInv', FlagTasks, CoreInv, [OpsNext]_allVars
    PROVE  FlagTasks' /\ CoreInv'
<1>0. TypeOK' /\ SameRows(table, table)
  BY DEF OpsInv, OpsTypeOK, SameRows
<1>1. ASSUME NEW w \in Workers, WorkerStep(w) PROVE FlagTasks' /\ CoreInv'
  <2>1. UNCHANGED <<agenda, ticks, sync, conn, mon>>
    BY <1>1 DEF WorkerStep, monVars
  <2>2. FlagTask(task[w])
    BY DEF FlagTasks
  <2>3. /\ SameRows(table, table')
        /\ UNCHANGED <<host, used, events, unseen>>
    BY <1>1, <2>2, FlagWorker DEF FlagTask
  <2>4. PICK u : task' = [task EXCEPT ![w] = u] /\ Follows(task[w], u, table)
    BY <1>1, <2>2, FlagWorker DEF FlagTask
  <2>5. FlagTask(u)
    BY <2>2, <2>4, FlagFollows
  <2> QED BY <1>0, <2>1, <2>3, <2>4, <2>5, FlagTasksStep, FlagsKeepCore, ZenonT(30)
<1>2. ~SchedulerStep
  <2>1. ~Tick
    BY SMT DEF Tick, FlagTasks
  <2>2. \A i \in Ids : ~Dispatch(i)
    BY DEF Dispatch, FlagTasks
  <2> QED BY <2>1, <2>2 DEF SchedulerStep
<1>3. CASE OutsideStep
  <2>1. ASSUME NEW w \in Users, NEW op \in Ops, NEW i \in Ids, NEW b \in BOOLEAN,
               Request(w, op, i, b)
        PROVE  FlagTasks' /\ CoreInv'
    <3> DEFINE u == [Free EXCEPT !.op = op, !.pc = "get", !.id = i, !.flag = b]
    <3>1. u.pc = "get" /\ u.op = op /\ u.auto = FALSE /\ w \in Workers
      BY DEF Free, Workers
    <3>2. task' = [task EXCEPT ![w] = u]
      BY <2>1 DEF Request, Become
    <3> HIDE DEF u
    <3>3. FlagTask(u)
      BY <3>1 DEF FlagTask, FlagPCs, FlagOpsOnly
    <3>4. UNCHANGED <<agenda, ticks>>
      BY <2>1 DEF Request
    <3>5. UNCHANGED <<host, used, sync, conn, events, mon, unseen, table>>
      BY <1>3, <2>1 DEF OutsideStep, Request, OnlyTask, monVars
    <3> QED BY <1>0, <3>1, <3>2, <3>3, <3>4, <3>5, FlagTasksStep, FlagsKeepCore, ZenonT(30)
  <2>2. CASE Push
    <3>1. UNCHANGED <<host, used, sync, conn, events, mon, unseen, table, task, agenda, ticks>>
      BY <1>3, <2>2 DEF OutsideStep, Push, OnlyTask, monVars
    <3>2. FlagTasks'
      BY <3>1 DEF FlagTasks, FlagTask
    <3> QED BY <1>0, <3>1, <3>2, FlagsKeepCore
  <2> QED BY <1>3, <2>1, <2>2 DEF OutsideStep
<1>4. CASE CacheStep
  <2>1. FlagTasks'
    BY <1>4 DEF CacheStep, opVars, FlagTasks, FlagTask
  <2>2. CoreInv'
    BY <1>4, ExternalInvariant, SyncInvariant, MonitorInvariant, FaultInvariant
    DEF CacheStep, FaultStep
  <2> QED BY <2>1, <2>2
<1>5. CASE FailureStep
  <2>1. ASSUME NEW w \in Workers, CallFails(w),
               UNCHANGED <<agenda, registry, wanted, reqs, ticks>>, UNCHANGED monVars
        PROVE  FlagTasks' /\ CoreInv'
    <3>1. UNCHANGED <<host, used, sync, conn, events, mon, unseen, table>>
      BY <2>1 DEF CallFails, OnlyFault, Fault, monVars
    <3>2. task' = [task EXCEPT ![w] = Free] /\ FlagTask(Free)
      BY <2>1 DEF CallFails, Finish, Become, FlagTask, Free, FlagPCs
    <3> QED BY <1>0, <2>1, <3>1, <3>2, FlagTasksStep, FlagsKeepCore, ZenonT(30)
  <2>2. CASE CrashAll
    <3>1. CoreInv'
      BY <2>2, FaultInvariant DEF CrashAll, FaultStep
    <3>2. /\ task' = [w \in Workers |-> Free] /\ agenda' = [i \in Ids |-> None]
          /\ ticks' = ticks
      BY <2>2 DEF CrashAll
    <3>3. \A w \in Workers : FlagTask(task'[w])
      BY <3>2 DEF FlagTask, Free, FlagPCs
    <3>4. FlagTasks'
      BY <3>2, <3>3, ZenonT(30) DEF FlagTasks, FlagTask
    <3> QED BY <3>1, <3>4
  <2> QED BY <1>5, <2>1, <2>2 DEF FailureStep
<1>6. CASE UNCHANGED allVars
  <2>1. UNCHANGED <<host, used, sync, conn, events, mon, unseen, table, task, agenda, ticks>>
    BY <1>6 DEF allVars, vars, opVars
  <2>2. FlagTasks'
    BY <2>1 DEF FlagTasks, FlagTask
  <2> QED BY <1>0, <2>1, <2>2, FlagsKeepCore
<1> QED BY <1>1, <1>2, <1>3, <1>4, <1>5, <1>6, ZenonT(30) DEF OpsNext

\* A server that is up beside an agreeing table and has nothing to do.
LEMMA InitCore ==
    ASSUME FlagOpsOnly, OpsInit, OpsInv
    PROVE  FlagTasks /\ CoreInv
<1>0. /\ used = Live /\ unseen = {} /\ events = <<>>
      /\ sync = [pc |-> "up", snap |-> host, todo |-> {}] /\ mon = IdleMonitor
      /\ conn = TRUE /\ ticks = MaxTicks
      /\ agenda = [i \in Ids |-> None] /\ task = [w \in Workers |-> Free]
      /\ table = [i \in Ids |-> IF host[i] = None THEN None
                                ELSE [name |-> host[i].name, image |-> host[i].image,
                                      status |-> host[i].status,
                                      auto |-> wanted[i], avail |-> FALSE]]
  BY DEF OpsInit
<1>1. FlagTasks
  BY <1>0 DEF FlagTasks, FlagTask, FlagOpsOnly, Free, FlagPCs
<1>2. TypeOK
  BY DEF OpsInv, OpsTypeOK
<1>3. \A i \in Ids : table[i] # None => host[i] # None
  BY <1>0
<1>4. ASSUME NEW i \in Ids PROVE Agree(i)
  <2>1. CASE host[i] = None
    BY <1>0, <2>1 DEF Agree
  <2>2. CASE host[i] # None
    <3>1. table[i] = [name |-> host[i].name, image |-> host[i].image,
                      status |-> host[i].status, auto |-> wanted[i], avail |-> FALSE]
      BY <1>0, <2>2
    <3>2. table[i] \in Row
      <4>1. table[i] \in Row \cup {None}
        BY <1>2 DEF TypeOK
      <4>2. wanted[i] \in BOOLEAN /\ host[i] \in Container
        BY <1>2, <2>2 DEF TypeOK, OpsInv, OpsTypeOK
      <4> QED BY <3>1, <4>2, SMT DEF Row, Container
    <3>3. table[i] # None
      BY <3>2, NoneAssumption
    <3> QED BY <2>2, <3>1, <3>3, SMT DEF Agree
  <2> QED BY <2>1, <2>2
<1>5. UsedInv /\ DestroyInv
  BY <1>0, <1>3, SMT DEF UsedInv, DestroyInv, IdleMonitor, Live
<1>6. MonitorInv /\ SyncInv
  BY <1>0 DEF MonitorInv, SyncInv, IdleMonitor
<1>7. CacheInv
  BY <1>0, <1>4 DEF CacheInv, NotHeld, IdleMonitor
<1> QED BY <1>1, <1>2, <1>5, <1>6, <1>7 DEF CoreInv

\* An idle, connected monitor's table still says what the host says while users
\* call SetContainerAutoUpdate and CheckContainerUpdates (actions.go) in any
\* interleaving with the monitor's handlers: those UPDATEs write flags only.
THEOREM OpsCacheCorrect == FlagOpsOnly => (OpsSpec => []OpsCacheAgrees)
<1> SUFFICES ASSUME FlagOpsOnly PROVE OpsSpec => []OpsCacheAgrees
  OBVIOUS
<1>1. OpsInit /\ OpsInv => FlagTasks /\ CoreInv
  BY InitCore
<1>2. OpsInv /\ OpsInv' /\ FlagTasks /\ CoreInv /\ [OpsNext]_allVars => FlagTasks' /\ CoreInv'
  BY NextCore
<1>3. CoreInv => OpsCacheAgrees
  <2> SUFFICES ASSUME CoreInv, Quiet, NEW i \in Ids \ unseen PROVE Agree(i)
    BY DEF OpsCacheAgrees, OpsQuiet
  <2>1. ~InHand(i) /\ ~Queued(i)
    BY SMT DEF Quiet, InHand, Queued
  <2> QED BY <2>1 DEF CoreInv, CacheInv, Quiet
<1> QED BY <1>1, <1>2, <1>3, OpsInvariance, PTL DEF OpsSpec

-----------------------------------------------------------------------------
(* The monitor beside the upgrades of the scheduler: auto_update moves from  *)
(* the row of the old container to the row of the new one.                   *)

\* Nothing but the scheduler upgrades, toggles or changes containers, and neither
\* the server nor its event stream nor the writes of the monitor fail.
SchedulerAlone ==
    /\ Ops \subseteq {"check"}
    /\ MaxExternal = 0
    /\ FaultKinds \cap {"call", "stream", "db", "crash"} = {}

\* UpgradeContainer before ContainerCreate, from there to the write of the new row,
\* the steps at which the old row moves or is moved, and the steps of a check.
PreparePCs == {"inspect", "pull", "image", "halt", "remove"}
MakingPCs == {"connect", "rollback", "launch", "verify", "swap", "fallback"}
MovingPCs == {"create", "connect", "rollback", "launch", "verify", "swap"}
CheckPCs == {"free", "get", "look", "registry", "record", "read", "publish", "end"}

\* The container with id i was made by t, which has yet to write its row.
Making(t, i) == t.pc \in MakingPCs /\ t.new = i

\* Every other container has a row, with the auto_update wanted of it.
RowsKept(t, T, h, W) ==
    \A i \in Ids : h[i] # None /\ ~Making(t, i) => T[i] # None /\ T[i].auto = W[i]

\* What the upgrade t read or made is what was wanted of the container it upgrades.
TaskKept(t, h, W) ==
    /\ t.pc \in PreparePCs /\ h[t.id] # None => t.row.auto = W[t.id]
    /\ t.pc \in MakingPCs \cup {"create"} => t.row.auto = W[t.id]
    /\ t.pc \in MakingPCs => W[t.new] = W[t.id] /\ h[t.new] # None
    /\ t.pc \in {"connect", "launch"} => h[t.new].status = "created"

\* The monitor is to delete the old row, before it hears of the new container.
Announced(t, q, m) ==
    \/ m.pc = "delete" /\ m.id = t.id
    \/ /\ t.pc # "create" /\ m.pc # "idle" => m.id # t.new
       /\ \E k \in 1..Len(q) : /\ q[k].kind = "destroy" /\ q[k].id = t.id
                               /\ t.pc # "create" => \A l \in 1..k : q[l].id # t.new

\* So the new row is there only once the old one is gone: UpdateContainerForUpgrade
\* never meets both.
RowMoves(t, T, W, q, m) ==
    t.pc \in MovingPCs =>
      \/ /\ T[t.id] # None /\ T[t.id].auto = W[t.id]
         /\ t.pc # "create" => T[t.new] = None
         /\ Announced(t, q, m)
      \/ T[t.id] = None /\ ~(m.pc = "upsert" /\ m.id = t.id)

\* A request's goroutine checks for updates, the scheduler's upgrades as well.
CheckTask(t) == t.pc \in CheckPCs /\ (t.pc = "get" => t.op = "check") /\ ~t.auto
\* What the scheduler's goroutine is doing; it names no new container before it has one.
UpgradeTask(t) ==
    /\ t.pc \notin {"before", "act", "after", "save", "set"}
    /\ t.pc = "get" => t.op \in {"check", "upgrade"}
    /\ t.pc \in PreparePCs \cup {"get", "create"} => t.new = None

\* The monitor is subscribed and knows every id Docker has given.
Steady ==
    /\ conn /\ sync.pc = "up" /\ ext = 0
    /\ UsedInv /\ DestroyInv
    /\ mon.pc # "idle" => mon.id \in used

\* All of it about the upgrade t.
Keeps(t, T, h, W, q, m) ==
    RowsKept(t, T, h, W) /\ TaskKept(t, h, W) /\ RowMoves(t, T, W, q, m)

\* The inductive invariant.
KeptInv ==
    /\ Steady
    /\ \A w \in Users : CheckTask(task[w])
    /\ UpgradeTask(task[Scheduler])
    /\ Keeps(task[Scheduler], table, host, wanted, events, mon)

\* A write of update_available, or none.
LEMMA KeepsSameAuto ==
    ASSUME NEW t, NEW T, NEW S, NEW h, NEW W, NEW q, NEW m,
           Fit(t), Keeps(t, T, h, W, q, m), SameAuto(T, S)
    PROVE  Keeps(t, S, h, W, q, m)
<1>1. RowsKept(t, S, h, W)
  BY DEF Keeps, RowsKept, SameAuto
<1>2. t.pc \in MovingPCs => t.id \in Ids /\ (t.pc # "create" => t.new \in Ids)
  BY DEF MovingPCs, Fit, HasNew, ReplacingPCs
<1>3. RowMoves(t, S, W, q, m)
  BY <1>2 DEF Keeps, RowMoves, SameAuto
<1> QED BY <1>1, <1>3 DEF Keeps

\* A task that is not in an upgrade, or past the write of the new row.
LEMMA KeepsElsewhere ==
    ASSUME NEW t, NEW u, NEW T, NEW h, NEW W, NEW q, NEW m,
           Keeps(t, T, h, W, q, m), t.pc \notin MakingPCs,
           u.pc \notin MakingPCs \cup PreparePCs \cup {"create"}
    PROVE  Keeps(u, T, h, W, q, m)
BY DEF Keeps, RowsKept, TaskKept, RowMoves, Making, MakingPCs, MovingPCs, PreparePCs

\* An upgrade that has yet to remove the old container.
LEMMA KeepsPreparing ==
    ASSUME NEW t, NEW u, NEW T, NEW h, NEW W, NEW q, NEW m,
           Keeps(t, T, h, W, q, m), t.pc \in PreparePCs, u.pc \in PreparePCs,
           u.id = t.id, u.row = t.row
    PROVE  Keeps(u, T, h, W, q, m)
BY DEF Keeps, RowsKept, TaskKept, RowMoves, Making, MakingPCs, MovingPCs, PreparePCs

\* An upgrade that has made the new container and has yet to write its row.
LEMMA KeepsMaking ==
    ASSUME NEW t, NEW u, NEW T, NEW h, NEW W, NEW q, NEW m,
           Keeps(t, T, h, W, q, m), t.pc \in MakingPCs \ {"fallback"}, u.pc \in MakingPCs,
           u.id = t.id, u.row = t.row, u.new = t.new,
           u.pc \in {"connect", "launch"} => t.pc = "connect"
    PROVE  Keeps(u, T, h, W, q, m)
<1>1. RowsKept(u, T, h, W)
  BY DEF Keeps, RowsKept, Making
<1>2. TaskKept(u, h, W)
  BY DEF Keeps, TaskKept, MakingPCs, PreparePCs
<1>3. RowMoves(u, T, W, q, m)
  BY ZenonT(30) DEF Keeps, RowMoves, Announced, MakingPCs, MovingPCs
<1> QED BY <1>1, <1>2, <1>3 DEF Keeps

\* A stop or start of a container, announced at the end of the queue.
LEMMA KeepsStatus ==
    ASSUME NEW t, NEW T, NEW h, NEW g, NEW W, NEW q \in Seq(Event), NEW e \in Event, NEW m,
           Fit(t), Keeps(t, T, h, W, q, m), t.pc \notin {"connect", "launch"},
           \A i \in Ids : g[i] # None <=> h[i] # None
    PROVE  Keeps(t, T, g, W, Append(q, e), m)
<1>1. RowsKept(t, T, g, W)
  BY DEF Keeps, RowsKept
<1>2. /\ t.pc \in PreparePCs => t.id \in Ids
      /\ t.pc \in MakingPCs => t.new \in Ids
  BY DEF Fit, HasNew, ReplacingPCs, PreparePCs, MakingPCs
<1>3. TaskKept(t, g, W)
  BY <1>2 DEF Keeps, TaskKept
<1>4. Announced(t, q, m) => Announced(t, Append(q, e), m)
  <2>1. /\ Len(Append(q, e)) = Len(q) + 1
        /\ \A k \in 1..Len(q) : Append(q, e)[k] = q[k] /\ k \in 1..Len(Append(q, e))
    BY SMT
  <2>2. \A k \in 1..Len(q) : \A l \in 1..k : Append(q, e)[l] = q[l]
    BY <2>1, SMT
  <2> QED BY <2>1, <2>2, ZenonT(30) DEF Announced
<1>5. RowMoves(t, T, W, Append(q, e), m)
  BY <1>4 DEF Keeps, RowMoves
<1> QED BY <1>1, <1>3, <1>5 DEF Keeps

\* ContainerRemove: the old row is still there, and its deletion is announced.
LEMMA KeepsRemove ==
    ASSUME NEW t, NEW u, NEW T, NEW h \in [Ids -> Container \cup {None}], NEW W,
           NEW q \in Seq(Event), NEW m, t.id \in Ids, h[t.id] # None,
           Keeps(t, T, h, W, q, m), t.pc = "remove", u.pc = "create",
           u.id = t.id, u.row = t.row
    PROVE  Keeps(u, T, [h EXCEPT ![t.id] = None], W,
                 Append(q, [kind |-> "destroy", id |-> t.id]), m)
<1> DEFINE g == [h EXCEPT ![t.id] = None]
           p == Append(q, [kind |-> "destroy", id |-> t.id])
<1>1. \A i \in Ids : g[i] # None => h[i] # None
  OBVIOUS
<1>2. \A i \in Ids : ~Making(t, i)
  BY DEF Making, MakingPCs
<1>3. RowsKept(u, T, g, W)
  BY <1>1, <1>2 DEF Keeps, RowsKept
<1>4. TaskKept(u, g, W)
  BY DEF Keeps, TaskKept, MakingPCs, PreparePCs
<1>5. Len(q) + 1 \in 1..Len(p) /\ p[Len(q) + 1] = [kind |-> "destroy", id |-> t.id]
  BY SMT
<1> HIDE DEF g, p
<1>6. Announced(u, p, m)
  BY <1>5, SMT DEF Announced
<1>7. T[t.id] # None /\ T[t.id].auto = W[t.id]
  BY <1>2 DEF Keeps, RowsKept
<1>8. RowMoves(u, T, W, p, m)
  BY <1>6, <1>7 DEF RowMoves
<1>9. Keeps(u, T, g, W, p, m)
  BY <1>3, <1>4, <1>8 DEF Keeps
<1> QED BY <1>9 DEF g, p

\* ContainerCreate: nothing is known of the new id yet.
LEMMA KeepsCreate ==
    ASSUME NEW t, NEW u, NEW T, NEW h \in [Ids -> Container \cup {None}], NEW W \in [Ids -> BOOLEAN],
           NEW q \in Seq(Event), NEW m, NEW i \in Ids, NEW c \in Container, NEW V,
           t.id \in Ids, t.id # i, T[i] = None, m.pc # "idle" => m.id # i,
           \A k \in 1..Len(q) : q[k].id # i,
           c.status = "created", V = [W EXCEPT ![i] = W[t.id]],
           Keeps(t, T, h, W, q, m), t.pc = "create", u.pc = "connect",
           u.id = t.id, u.row = t.row, u.new = i
    PROVE  Keeps(u, T, [h EXCEPT ![i] = c], V, Append(q, [kind |-> "create", id |-> i]), m)
<1> DEFINE g == [h EXCEPT ![i] = c]
           p == Append(q, [kind |-> "create", id |-> i])
<1>1. /\ \A j \in Ids \ {i} : g[j] = h[j] /\ V[j] = W[j]
      /\ g[i] = c /\ c # None /\ V[i] = W[t.id] /\ V[t.id] = W[t.id]
  BY NoneAssumption
<1>2. /\ Len(p) = Len(q) + 1
      /\ \A k \in 1..Len(q) : p[k] = q[k] /\ k \in 1..Len(p)
  BY SMT
<1> HIDE DEF g, p
<1>3. RowsKept(u, T, g, V)
  <2>1. \A j \in Ids : ~Making(t, j)
    BY DEF Making, MakingPCs
  <2>2. Making(u, i)
    BY DEF Making, MakingPCs
  <2> QED BY <1>1, <2>1, <2>2, ZenonT(30) DEF Keeps, RowsKept
<1>4. TaskKept(u, g, V)
  BY <1>1 DEF Keeps, TaskKept, MakingPCs, PreparePCs
<1>5. Announced(t, q, m) => Announced(u, p, m)
  <2>1. CASE m.pc = "delete" /\ m.id = t.id
    BY <2>1 DEF Announced
  <2>2. ASSUME NEW k \in 1..Len(q), q[k].kind = "destroy", q[k].id = t.id
        PROVE  Announced(u, p, m)
    <3>1. \A l \in 1..k : l \in 1..Len(q) /\ p[l] = q[l]
      BY <1>2, SMT
    <3>2. \A l \in 1..k : p[l].id # i
      BY <3>1
    <3>3. k \in 1..Len(p) /\ p[k].kind = "destroy" /\ p[k].id = u.id
      BY <1>2, <2>2
    <3> QED BY <3>2, <3>3 DEF Announced
  <2> QED BY <2>1, <2>2 DEF Announced
<1>6. RowMoves(u, T, V, p, m)
  BY <1>1, <1>5 DEF Keeps, RowMoves, MovingPCs
<1>7. Keeps(u, T, g, V, p, m)
  BY <1>3, <1>4, <1>6 DEF Keeps
<1> QED BY <1>7 DEF g, p

\* The rollback removes the container that has no row of its own yet.
LEMMA KeepsRollback ==
    ASSUME NEW t, NEW T, NEW h \in [Ids -> Container \cup {None}], NEW W, NEW q, NEW p, NEW m,
           t.new \in Ids, Keeps(t, T, h, W, q, m)
    PROVE  Keeps(Free, T, [h EXCEPT ![t.new] = None], W, p, m)
<1> DEFINE g == [h EXCEPT ![t.new] = None]
<1>1. Free.pc = "free"
  BY DEF Free
<1>2. \A i \in Ids : g[i] # None => h[i] # None /\ i # t.new
  OBVIOUS
<1> HIDE DEF g
<1>3. RowsKept(Free, T, g, W)
  BY <1>2 DEF Keeps, RowsKept, Making
<1>4. TaskKept(Free, g, W) /\ RowMoves(Free, T, W, p, m)
  BY <1>1 DEF TaskKept, RowMoves, MakingPCs, MovingPCs, PreparePCs
<1>5. Keeps(Free, T, g, W, p, m)
  BY <1>3, <1>4 DEF Keeps
<1> QED BY <1>5 DEF g

\* Either statement that writes the new row keeps auto_update.
LEMMA KeepsWrite ==
    ASSUME NEW t, NEW u, NEW T, NEW S, NEW h, NEW W, NEW q, NEW m,
           Keeps(t, T, h, W, q, m), t.pc \in MakingPCs, u.pc = "retire",
           h[t.id] = None, S[t.new] # None, S[t.new].auto = W[t.id],
           \A i \in Ids \ {t.id, t.new} : S[i] = T[i]
    PROVE  Keeps(u, S, h, W, q, m)
<1>1. RowsKept(u, S, h, W)
  <2> SUFFICES ASSUME NEW i \in Ids, h[i] # None
               PROVE  S[i] # None /\ S[i].auto = W[i]
    BY DEF RowsKept
  <2>1. CASE i = t.new
    BY <2>1 DEF Keeps, TaskKept
  <2>2. CASE i # t.new
    BY <2>2 DEF Keeps, RowsKept, Making
  <2> QED BY <2>1, <2>2
<1>2. TaskKept(u, h, W) /\ RowMoves(u, S, W, q, m)
  BY DEF TaskKept, RowMoves, MakingPCs, MovingPCs, PreparePCs
<1> QED BY <1>1, <1>2 DEF Keeps

\* The monitor reads its next event: it comes to the new container's events only
\* after the old one's deletion.
LEMMA KeepsTake ==
    ASSUME NEW t, NEW T, NEW h, NEW W, NEW q \in Seq(Event), NEW m, NEW n,
           Keeps(t, T, h, W, q, m), q # <<>>, m.pc = "idle", n.pc # "upsert",
           n.pc # "idle" => n.id = Head(q).id,
           Head(q).kind = "destroy" => n.pc = "delete"
    PROVE  Keeps(t, T, h, W, Tail(q), n)
<1>1. Announced(t, q, m) => Announced(t, Tail(q), n)
  <2> SUFFICES ASSUME NEW k \in 1..Len(q), q[k].kind = "destroy", q[k].id = t.id,
                      t.pc # "create" => \A l \in 1..k : q[l].id # t.new
               PROVE  Announced(t, Tail(q), n)
    BY DEF Announced
  <2>1. Head(q) = q[1]
    BY SMT
  <2>2. CASE k = 1
    BY <2>1, <2>2 DEF Announced
  <2>3. CASE k # 1
    <3>1. k - 1 \in 1..Len(Tail(q)) /\ Tail(q)[k - 1] = q[k]
      BY <2>3, SMT
    <3>2. \A l \in 1..(k - 1) : Tail(q)[l] = q[l + 1] /\ l + 1 \in 1..k
      BY SMT
    <3>3. t.pc # "create" => \A l \in 1..(k - 1) : Tail(q)[l].id # t.new
      BY <3>2
    <3>4. t.pc # "create" => q[1].id # t.new
      BY SMT
    <3> QED BY <2>1, <3>1, <3>3, <3>4, ZenonT(30) DEF Announced
  <2> QED BY <2>2, <2>3
<1> QED BY <1>1 DEF Keeps, RowMoves

\* The monitor inspects, reads back, publishes or drops an event.
LEMMA KeepsHandling ==
    ASSUME NEW t, NEW T, NEW h, NEW W, NEW q, NEW m, NEW n,
           Keeps(t, T, h, W, q, m), m.pc # "delete",
           n.pc # "idle" => m.pc # "idle" /\ n.id = m.id,
           n.pc = "upsert" => h[n.id] # None,
           t.pc \in MovingPCs => h[t.id] = None
    PROVE  Keeps(t, T, h, W, q, n)
<1>1. Announced(t, q, m) => Announced(t, q, n)
  BY DEF Announced
<1> QED BY <1>1 DEF Keeps, RowMoves

\* The monitor deletes the row of a container that is gone.
LEMMA KeepsDelete ==
    ASSUME NEW t, NEW T \in [Ids -> Row \cup {None}], NEW h, NEW W, NEW q, NEW m, NEW n,
           Keeps(t, T, h, W, q, m), Fit(t), m.pc = "delete", m.id \in Ids, h[m.id] = None,
           n.pc = "deleted", n.id = m.id
    PROVE  Keeps(t, [T EXCEPT ![m.id] = None], h, W, q, n)
<1> DEFINE S == [T EXCEPT ![m.id] = None]
<1>1. S[m.id] = None /\ \A i \in Ids \ {m.id} : S[i] = T[i]
  OBVIOUS
<1> HIDE DEF S
<1>2. RowsKept(t, S, h, W)
  BY <1>1 DEF Keeps, RowsKept
<1>3. t.pc \in MovingPCs => t.id \in Ids /\ (t.pc # "create" => t.new \in Ids)
  BY DEF MovingPCs, Fit, HasNew, ReplacingPCs
<1>4. m.id # t.id /\ Announced(t, q, m) => Announced(t, q, n)
  BY DEF Announced
<1>5. t.pc \in MovingPCs /\ t.pc # "create" => (T[t.new] = None => S[t.new] = None)
  BY <1>1, <1>3
<1>6. RowMoves(t, S, W, q, n)
  BY <1>1, <1>3, <1>4, <1>5 DEF Keeps, RowMoves
<1>7. Keeps(t, S, h, W, q, n)
  BY <1>2, <1>6 DEF Keeps
<1> QED BY <1>7 DEF S

\* The monitor writes what it inspected: a row that is there keeps its flags.
LEMMA KeepsUpsert ==
    ASSUME NEW t, NEW T \in [Ids -> Row \cup {None}], NEW h, NEW W, NEW q, NEW m, NEW n,
           NEW c \in Container,
           Keeps(t, T, h, W, q, m), Fit(t), m.pc = "upsert", m.id \in Ids,
           n.pc = "read", n.id = m.id
    PROVE  Keeps(t, [T EXCEPT ![m.id] = Upserted(T[m.id], c)], h, W, q, n)
<1> DEFINE S == [T EXCEPT ![m.id] = Upserted(T[m.id], c)]
<1>1. S[m.id] = Upserted(T[m.id], c) /\ \A i \in Ids \ {m.id} : S[i] = T[i]
  OBVIOUS
<1>2. Upserted(T[m.id], c) \in Row
  BY UpsertedIsRow
<1>3. S[m.id] # None /\ (T[m.id] # None => S[m.id].auto = T[m.id].auto)
  BY <1>1, <1>2, NoneAssumption DEF Upserted
<1> HIDE DEF S
<1>4. RowsKept(t, S, h, W)
  BY <1>1, <1>3 DEF Keeps, RowsKept
<1>5. t.pc \in MovingPCs => t.id \in Ids /\ (t.pc # "create" => t.new \in Ids)
  BY DEF MovingPCs, Fit, HasNew, ReplacingPCs
<1>6. Announced(t, q, m) => Announced(t, q, n) /\ (t.pc # "create" => m.id # t.new)
  BY DEF Announced
<1>7. RowMoves(t, S, W, q, n)
  BY <1>1, <1>3, <1>5, <1>6, ZenonT(30) DEF Keeps, RowMoves
<1>8. Keeps(t, S, h, W, q, n)
  BY <1>4, <1>7 DEF Keeps
<1> QED BY <1>8 DEF S

\* A write of the table, or a step that leaves what Steady speaks of alone.
LEMMA SteadyTable ==
    ASSUME Steady, UNCHANGED <<host, used, events, sync, conn, mon, ext>>,
           \A i \in Ids : table'[i] # None => i \in used
    PROVE  Steady'
BY DEF Steady, UsedInv, DestroyInv

\* A change of the host by the scheduler, announced to the subscribed monitor.
LEMMA SteadyHost ==
    ASSUME Steady, OpsInv, NEW i \in Ids, NEW kind \in EventKinds, Emit(kind, i),
           HostMoves, i \in used', LiveUsed', kind = "destroy" => host'[i] = None,
           UNCHANGED <<table, sync, conn, mon, ext>>
    PROVE  Steady' /\ events' = Append(events, [kind |-> kind, id |-> i])
<1> DEFINE e == [kind |-> kind, id |-> i]
<1>1. e \in Event /\ e.kind = kind /\ e.id = i
  BY DEF Event
<1>2. events' = Append(events, e)
  BY DEF Emit, Steady
<1> HIDE DEF e
<1>3. events \in Seq(Event)
  BY DEF OpsInv, OpsTypeOK, TypeOK
<1>4. \A k \in 1..Len(events') : (k \in 1..Len(events) /\ events'[k] = events[k]) \/ events'[k] = e
  BY <1>1, <1>2, <1>3, AppendEvent, ZenonT(30)
<1>6. UsedInv'
  BY <1>1, <1>4 DEF Steady, UsedInv, HostMoves, LiveUsed
<1>7. DestroyInv'
  BY <1>1, <1>4 DEF Steady, UsedInv, DestroyInv, HostMoves
<1>8. mon'.pc # "idle" => mon'.id \in used'
  BY DEF Steady, HostMoves
<1> QED BY <1>2, <1>6, <1>7, <1>8 DEF Steady, e

\* What is wanted only changes with a toggle or with the creation of a container.
LEMMA WantedSame ==
    ASSUME OpsInv, NEW w \in Workers, NEW u, task' = [task EXCEPT ![w] = u],
           task[w].pc # "set", u.new = task[w].new \/ u.new = None, wanted' = Wanted(w)
    PROVE  wanted' = wanted
<1>1. task'[w] = u
  BY DEF OpsInv, TasksOK
<1>2. wanted \in [Ids -> BOOLEAN]
  BY DEF OpsInv, OpsTypeOK
<1>3. \A i \in Ids : Wanted(w)[i] = wanted[i]
  BY <1>1, NoneAssumption DEF Wanted, At
<1> QED BY <1>2, <1>3 DEF Wanted

\* The scheduler's next step in an upgrade, with what is kept.
Upgrades ==
    \E u : /\ task' = [task EXCEPT ![Scheduler] = u]
           /\ UpgradeTask(u)
           /\ u.new = task[Scheduler].new \/ u.new = None
           /\ Keeps(u, table', host', wanted, events', mon)

\* The scheduler's upgrade ends, before it made a container.
LEMMA FinishUpgrades ==
    ASSUME KeptInv, Finish(Scheduler), task[Scheduler].pc \notin MakingPCs,
           UNCHANGED <<table, host, events>>
    PROVE  Upgrades
<1>1. Free.pc = "free" /\ Free.new = None
  BY DEF Free
<1>2. Keeps(Free, table, host, wanted, events, mon)
  BY <1>1, KeepsElsewhere DEF KeptInv, MakingPCs, PreparePCs
<1>3. UpgradeTask(Free)
  BY <1>1 DEF UpgradeTask, PreparePCs
<1> QED BY <1>1, <1>2, <1>3 DEF Upgrades, Finish, Become

\* The steps of an upgrade before the removal.
LEMMA PrepareKept ==
    ASSUME OpsInv, KeptInv, UNCHANGED <<sync, conn, mon, ext>>,
           \/ Inspect(Scheduler) \/ Pull(Scheduler) \/ InspectImage(Scheduler)
           \/ Halt(Scheduler) \/ Remove(Scheduler)
    PROVE  Steady' /\ Upgrades
<1> USE DEF At
<1> DEFINE t == task[Scheduler]
<1>0. /\ Scheduler \in Workers /\ t \in Task /\ Fit(t)
      /\ t.pc # "free" => t.id \in Ids
      /\ t.pc # "free" => host[t.id] \in Container \cup {None}
      /\ Keeps(t, table, host, wanted, events, mon)
      /\ Steady /\ UpgradeTask(t)
  BY Busy DEF Workers, KeptInv
<1>1. /\ table \in [Ids -> Row \cup {None}] /\ host \in [Ids -> Container \cup {None}]
      /\ events \in Seq(Event) /\ HostTypes
  BY OpsInvParts DEF OpsInv, OpsTypeOK, TypeOK
<1>2. UNCHANGED <<table, host, used, events>> => Steady'
  BY <1>0, SteadyTable DEF Steady, UsedInv
<1>3. ASSUME NEW u, task' = [task EXCEPT ![Scheduler] = u], u.pc \in PreparePCs,
             t.pc \in PreparePCs, u.id = t.id, u.row = t.row, u.new = t.new,
             UNCHANGED <<table, host, used, events>>
      PROVE  Steady' /\ Upgrades
  <2>1. Keeps(u, table, host, wanted, events, mon)
    BY <1>0, <1>3, KeepsPreparing
  <2>2. UpgradeTask(u)
    BY <1>0, <1>3 DEF UpgradeTask, PreparePCs
  <2> QED BY <1>2, <1>3, <2>1, <2>2 DEF Upgrades
<1>4. CASE Inspect(Scheduler)
  <2>0. UNCHANGED <<table, host, used, events>>
    BY <1>4 DEF Inspect, NotFound, OnlyTask
  <2>1. CASE Finish(Scheduler)
    BY <1>2, <1>4, <2>0, <2>1, FinishUpgrades, ZenonT(30) DEF Inspect, MakingPCs
  <2>2. CASE Become(Scheduler, [t EXCEPT !.pc = "pull", !.seen = host[t.id]])
    <3> DEFINE u == [t EXCEPT !.pc = "pull", !.seen = host[t.id]]
    <3>1. u.pc = "pull" /\ u.id = t.id /\ u.row = t.row /\ u.new = t.new
      BY <1>0 DEF Task
    <3>2. task' = [task EXCEPT ![Scheduler] = u]
      BY <2>2 DEF Become
    <3> HIDE DEF u
    <3> QED BY <1>3, <1>4, <2>0, <3>1, <3>2, ZenonT(30) DEF Inspect, PreparePCs
  <2> QED BY <1>4, <2>1, <2>2 DEF Inspect, NotFound
<1>5. CASE Pull(Scheduler)
  <2> DEFINE u == [t EXCEPT !.pc = "image"]
  <2>1. u.pc = "image" /\ u.id = t.id /\ u.row = t.row /\ u.new = t.new
    BY <1>0, GotoTask DEF TaskPCs, CallPCs
  <2>2. task' = [task EXCEPT ![Scheduler] = u] /\ UNCHANGED <<table, host, used, events>>
    BY <1>5 DEF Pull, Goto, Become, Fault
  <2> HIDE DEF u
  <2> QED BY <1>3, <1>5, <2>1, <2>2, ZenonT(30) DEF Pull, PreparePCs
<1>6. CASE InspectImage(Scheduler)
  <2>1. PICK p \in {"halt", "remove"} :
          task' = [task EXCEPT ![Scheduler] = [t EXCEPT !.img = tagged, !.pc = p]]
    BY <1>6 DEF InspectImage, Become
  <2> DEFINE u == [t EXCEPT !.img = tagged, !.pc = p]
  <2>2. u.pc = p /\ u.id = t.id /\ u.row = t.row /\ u.new = t.new
    BY <1>0 DEF Task
  <2>3. task' = [task EXCEPT ![Scheduler] = u] /\ UNCHANGED <<table, host, used, events>>
    BY <1>6, <2>1 DEF InspectImage, OnlyTask
  <2> HIDE DEF u
  <2> QED BY <1>3, <1>6, <2>2, <2>3, ZenonT(30) DEF InspectImage, PreparePCs
<1>7. CASE Halt(Scheduler)
  <2>1. t.pc = "halt" /\ DockerStop(Scheduler, t.id, "remove")
    BY <1>7 DEF Halt
  <2> DEFINE u == [t EXCEPT !.pc = "remove"]
  <2>2. u.pc = "remove" /\ u.id = t.id /\ u.row = t.row /\ u.new = t.new
    BY <1>0, GotoTask DEF TaskPCs, CallPCs
  <2>3. Goto(Scheduler, "remove") => task' = [task EXCEPT ![Scheduler] = u]
    BY DEF Goto, Become
  <2> HIDE DEF u
  <2>4. CASE NotFound(Scheduler, t.id)
    BY <1>2, <2>1, <2>4, FinishUpgrades, ZenonT(30) DEF NotFound, OnlyTask, MakingPCs
  <2>5. CASE Goto(Scheduler, "remove") /\ OnlyTask
    BY <1>3, <2>1, <2>2, <2>3, <2>5, ZenonT(30) DEF OnlyTask, PreparePCs
  <2>6. CASE /\ host[t.id] # None /\ HostSetStatus(t.id, "stop", "exited")
             /\ Goto(Scheduler, "remove") /\ OnlyHost
    <3>0. t.id \in Ids
      BY <1>0, <2>1
    <3>1. HostTypes' /\ HostMoves
      BY <1>1, <2>6, <3>0, SetStatusHost DEF EventKinds, Statuses
    <3>2. Emit("stop", t.id) /\ host' = [host EXCEPT ![t.id].status = "exited"] /\ used' = used
      BY <2>6 DEF HostSetStatus
    <3>3. t.id \in used' /\ LiveUsed'
      BY <2>6, <3>0, <3>1, <3>2, ZenonT(30) DEF OpsInv, LiveUsed, HostTypes
    <3>4. Steady' /\ events' = Append(events, [kind |-> "stop", id |-> t.id])
      BY <1>0, <2>6, <3>0, <3>1, <3>2, <3>3, SteadyHost, ZenonT(30) DEF OnlyHost, EventKinds
    <3>5. \A i \in Ids : host'[i] # None <=> host[i] # None
      <4>1. \A i \in Ids \ {t.id} : host'[i] = host[i]
        BY <1>1, <3>2
      <4>2. host[t.id] \in Container
        BY <1>0, <2>1, <2>6
      <4>3. host'[t.id] # None
        <5>1. host'[t.id] = [host[t.id] EXCEPT !.status = "exited"]
          BY <1>1, <3>0, <3>2
        <5>2. host'[t.id] \in Container
          BY <4>2, <5>1 DEF Container, Statuses
        <5> QED BY <5>2, NoneAssumption
      <4> QED BY <2>6, <4>1, <4>3
    <3>6. Keeps(u, table, host, wanted, events, mon)
      BY <1>0, <2>1, <2>2, KeepsPreparing, ZenonT(30) DEF PreparePCs
    <3>7. Fit(u)
      <4>1. t.row \in Row /\ t.seen \in Container /\ t.img \in Images
        BY <1>0, <2>1, ZenonT(30) DEF Fit, HasRow, HasSeen, HasImage
      <4>2. u.seen = t.seen /\ u.img = t.img
        BY <1>0, GotoTask DEF u, TaskPCs, CallPCs
      <4> QED BY <2>2, <3>0, <4>1, <4>2, ZenonT(30) DEF Fit, HasNew, ReplacingPCs
    <3>8. [kind |-> "stop", id |-> t.id] \in Event
      BY <3>0 DEF Event, EventKinds
    <3>9. Keeps(u, table, host', wanted, events', mon)
      BY <1>1, <2>2, <3>4, <3>5, <3>6, <3>7, <3>8, KeepsStatus, ZenonT(30)
    <3>10. UpgradeTask(u)
      BY <1>0, <2>1, <2>2 DEF UpgradeTask, PreparePCs
    <3> QED BY <2>2, <2>3, <2>6, <3>4, <3>9, <3>10, ZenonT(30) DEF Upgrades, OnlyHost
  <2> QED BY <2>1, <2>4, <2>5, <2>6, ZenonT(30) DEF DockerStop
<1>8. CASE Remove(Scheduler)
  <2>1. CASE NotFound(Scheduler, t.id)
    BY <1>2, <1>8, <2>1, FinishUpgrades, ZenonT(30) DEF Remove, NotFound, OnlyTask, MakingPCs
  <2>2. CASE HostRemove(t.id) /\ Goto(Scheduler, "create") /\ OnlyHost
    <3> DEFINE u == [t EXCEPT !.pc = "create"]
    <3>1. u.pc = "create" /\ u.id = t.id /\ u.row = t.row /\ u.new = t.new
      BY <1>0, GotoTask DEF TaskPCs, CallPCs
    <3>2. task' = [task EXCEPT ![Scheduler] = u]
      BY <2>2 DEF Goto, Become
    <3> HIDE DEF u
    <3>3. t.id \in Ids /\ t.pc = "remove"
      BY <1>0, <1>8 DEF Remove
    <3>4. HostTypes' /\ HostMoves /\ host[t.id] # None /\ host'[t.id] = None /\ t.id \in used'
      BY <1>1, <2>2, <3>3, RemoveHost, ZenonT(30)
    <3>5. host' = [host EXCEPT ![t.id] = None] /\ Emit("destroy", t.id)
      BY <2>2 DEF HostRemove
    <3>6. Steady' /\ events' = Append(events, [kind |-> "destroy", id |-> t.id])
      BY <1>0, <2>2, <3>3, <3>4, <3>5, SteadyHost, ZenonT(30) DEF OnlyHost, EventKinds, HostTypes
    <3>7. Keeps(u, table, host', wanted, events', mon)
      <4>1. Keeps(u, table, [host EXCEPT ![t.id] = None], wanted,
                  Append(events, [kind |-> "destroy", id |-> t.id]), mon)
        BY <1>0, <1>1, <3>1, <3>3, <3>4, KeepsRemove, ZenonT(30)
      <4> QED BY <3>5, <3>6, <4>1, ZenonT(30)
    <3>8. UpgradeTask(u)
      BY <1>0, <3>1, <3>3 DEF UpgradeTask, PreparePCs
    <3> QED BY <2>2, <3>1, <3>2, <3>6, <3>7, <3>8, ZenonT(30) DEF Upgrades, OnlyHost
  <2> QED BY <1>8, <2>1, <2>2, ZenonT(30) DEF Remove
<1> QED BY <1>4, <1>5, <1>6, <1>7, <1>8, ZenonT(30)

\* The creation: the new container has an id nothing has heard of, and is wanted
\* as the one it replaces.
LEMMA CreateKept ==
    ASSUME OpsInv, KeptInv, UNCHANGED <<sync, conn, mon, ext>>, Create(Scheduler),
           wanted' = Wanted(Scheduler)
    PROVE  /\ Steady'
           /\ \E u : /\ task' = [task EXCEPT ![Scheduler] = u]
                     /\ UpgradeTask(u)
                     /\ Keeps(u, table', host', wanted', events', mon)
<1> USE DEF At
<1> DEFINE t == task[Scheduler]
<1>0. /\ Scheduler \in Workers /\ t \in Task /\ Fit(t) /\ Gone(t) /\ t.pc = "create"
      /\ t.id \in Ids
      /\ Keeps(t, table, host, wanted, events, mon)
      /\ Steady
  BY Busy DEF Workers, KeptInv, Create
<1>1. /\ host \in [Ids -> Container \cup {None}] /\ wanted \in [Ids -> BOOLEAN]
      /\ events \in Seq(Event) /\ HostTypes /\ tagged \in Images
  BY OpsInvParts DEF OpsInv, OpsTypeOK, TypeOK
<1>2. CASE Finish(Scheduler) /\ OnlyTask
  <2>1. Steady'
    BY <1>0, <1>2, SteadyTable, ZenonT(30) DEF Steady, UsedInv, OnlyTask
  <2>2. PICK u : /\ task' = [task EXCEPT ![Scheduler] = u]
                 /\ UpgradeTask(u)
                 /\ u.new = t.new \/ u.new = None
                 /\ Keeps(u, table', host', wanted, events', mon)
    BY <1>0, <1>2, FinishUpgrades DEF OnlyTask, MakingPCs, Upgrades
  <2>3. wanted' = wanted
    BY <1>0, <2>2, WantedSame
  <2> QED BY <2>1, <2>2, <2>3, ZenonT(30)
<1>3. ASSUME NEW i \in Ids,
             HostCreate(i, [name |-> t.seen.name, image |-> tagged, status |-> "created"]),
             Become(Scheduler, [t EXCEPT !.pc = "connect", !.new = i]), OnlyHost
      PROVE  /\ Steady'
             /\ \E u : /\ task' = [task EXCEPT ![Scheduler] = u]
                       /\ UpgradeTask(u)
                       /\ Keeps(u, table', host', wanted', events', mon)
  <2> DEFINE c == [name |-> t.seen.name, image |-> tagged, status |-> "created"]
             u == [t EXCEPT !.pc = "connect", !.new = i]
  <2>1. c \in Container /\ c.status = "created"
    <3>1. t.seen \in Container
      BY <1>0 DEF Fit, HasSeen, HasImage, ReplacingPCs
    <3>2. t.seen.name \in Names
      BY <3>1 DEF Container
    <3> QED BY <1>1, <3>2 DEF Container, Statuses
  <2>2. u.pc = "connect" /\ u.id = t.id /\ u.row = t.row /\ u.new = i
    BY <1>0 DEF Task
  <2>3. task' = [task EXCEPT ![Scheduler] = u]
    BY <1>3 DEF Become
  <2>4. /\ host' = [host EXCEPT ![i] = c] /\ used' = used \cup {i} /\ i \notin used
        /\ Emit("create", i) /\ HostCreate(i, c)
    BY <1>3 DEF HostCreate
  <2> HIDE DEF c, u
  <2>5. HostTypes' /\ HostMoves
    BY <1>1, <2>1, <2>4, CreateHost, ZenonT(30)
  <2>6. Steady' /\ events' = Append(events, [kind |-> "create", id |-> i])
    BY <1>0, <1>3, <2>4, <2>5, SteadyHost, ZenonT(30) DEF OnlyHost, EventKinds, HostTypes
  <2>7. /\ t.id # i /\ table[i] = None /\ (mon.pc # "idle" => mon.id # i)
        /\ \A k \in 1..Len(events) : events[k].id # i
    BY <1>0, <2>4 DEF Gone, ReplacingPCs, Steady, UsedInv
  <2>8. wanted' = [wanted EXCEPT ![i] = wanted[t.id]]
    <3>1. task'[Scheduler] = u
      BY <1>0, <2>3 DEF OpsInv, TasksOK
    <3>2. t.pc # "set"
      BY <1>0
    <3>3. \A j \in Ids \ {i} : wanted'[j] = wanted[j]
      BY <2>2, <3>1, <3>2 DEF Wanted
    <3>4. wanted'[i] = wanted[t.id]
      <4>1. t.new # i
        BY <1>0, NoneAssumption DEF KeptInv, UpgradeTask
      <4> QED BY <2>2, <3>1, <3>2, <4>1, ZenonT(30) DEF Wanted
    <3>5. wanted' \in [Ids -> BOOLEAN]
      BY <1>1, <1>0, <3>3, <3>4, ZenonT(30) DEF Wanted
    <3> QED BY <1>1, <3>3, <3>4, <3>5, ZenonT(30)
  <2>9. Keeps(u, table, host', wanted', events', mon)
    <3>1. Keeps(u, table, [host EXCEPT ![i] = c], wanted',
                Append(events, [kind |-> "create", id |-> i]), mon)
      BY ZenonT(60), <1>0, <1>1, <2>1, <2>2, <2>7, <2>8, KeepsCreate
    <3> QED BY <2>4, <2>6, <3>1, ZenonT(30)
  <2>10. UpgradeTask(u)
    BY <2>2 DEF UpgradeTask, PreparePCs
  <2> QED BY <1>3, <2>3, <2>6, <2>9, <2>10, ZenonT(30) DEF OnlyHost
<1> QED BY <1>2, <1>3 DEF Create

\* The steps of an upgrade after the creation.
LEMMA ReplaceKept ==
    ASSUME OpsInv, KeptInv, UNCHANGED <<sync, conn, mon, ext>>,
           \/ Connect(Scheduler) \/ Rollback(Scheduler) \/ Launch(Scheduler)
           \/ Verify(Scheduler) \/ Swap(Scheduler) \/ Fallback(Scheduler)
           \/ Retire(Scheduler)
    PROVE  Steady' /\ Upgrades
<1> USE DEF At
<1> DEFINE t == task[Scheduler]
<1>0. /\ Scheduler \in Workers /\ t \in Task /\ Fit(t) /\ Gone(t)
      /\ Keeps(t, table, host, wanted, events, mon)
      /\ Steady /\ UpgradeTask(t)
  BY Busy DEF Workers, KeptInv
<1>1. /\ table \in [Ids -> Row \cup {None}] /\ host \in [Ids -> Container \cup {None}]
      /\ events \in Seq(Event) /\ HostTypes
  BY OpsInvParts DEF OpsInv, OpsTypeOK, TypeOK
<1>2. /\ t.id \in Ids /\ t.new \in Ids /\ t.row \in Row /\ t.seen \in Container
      /\ t.img \in Images /\ t.pc \in HasNew
      /\ host[t.id] = None
  <2>1. t.pc \in HasNew
    BY DEF Connect, Rollback, Launch, Verify, Swap, Fallback, Retire, HasNew, ReplacingPCs
  <2> QED BY <1>0, <2>1 DEF Fit, Gone, HasRow, HasSeen, HasImage, HasNew, ReplacingPCs
<1>3. t.pc # "retire" => host[t.new] \in Container /\ t.new \in used
  BY <1>0, <1>1, <1>2 DEF Keeps, TaskKept, MakingPCs, HasNew, ReplacingPCs, OpsInv, LiveUsed
<1>4. UNCHANGED <<table, host, used, events>> => Steady'
  BY <1>0, SteadyTable DEF Steady, UsedInv
<1>5. ASSUME NEW u, task' = [task EXCEPT ![Scheduler] = u], u.pc \in MakingPCs,
             t.pc \in MakingPCs \ {"fallback"}, u.id = t.id, u.row = t.row, u.new = t.new,
             u.pc \in {"connect", "launch"} => t.pc = "connect",
             UNCHANGED <<table, host, used, events>>
      PROVE  Steady' /\ Upgrades
  <2>1. Keeps(u, table, host, wanted, events, mon)
    BY <1>0, <1>5, KeepsMaking
  <2>2. UpgradeTask(u)
    BY <1>5 DEF UpgradeTask, PreparePCs, MakingPCs
  <2> QED BY <1>4, <1>5, <2>1, <2>2, ZenonT(30) DEF Upgrades
<1>6. ASSUME NEW p \in MakingPCs \cup {"retire"}, Goto(Scheduler, p)
      PROVE  \E u : /\ task' = [task EXCEPT ![Scheduler] = u]
                    /\ u.pc = p /\ u.id = t.id /\ u.row = t.row /\ u.new = t.new
                    /\ u.seen = t.seen /\ u.img = t.img
  <2>1. p \in TaskPCs
    BY DEF TaskPCs, CallPCs, MakingPCs
  <2> DEFINE u == [t EXCEPT !.pc = p]
  <2>2. /\ u.pc = p /\ u.id = t.id /\ u.row = t.row /\ u.new = t.new
        /\ u.seen = t.seen /\ u.img = t.img
    BY <1>0, <2>1, GotoTask, ZenonT(30)
  <2>3. task' = [task EXCEPT ![Scheduler] = u]
    BY <1>6 DEF Goto, Become
  <2> HIDE DEF u
  <2> QED BY <2>2, <2>3
<1>7. CASE Connect(Scheduler)
  <2>1. PICK p \in {"launch", "rollback"} : Goto(Scheduler, p)
    BY <1>7 DEF Connect
  <2>2. UNCHANGED <<table, host, used, events>>
    BY <1>7 DEF Connect, OnlyTask, OnlyFault, Fault
  <2>3. PICK u : /\ task' = [task EXCEPT ![Scheduler] = u]
                 /\ u.pc = p /\ u.id = t.id /\ u.row = t.row /\ u.new = t.new
    BY <1>6, <2>1, SMT DEF MakingPCs
  <2> QED BY <1>5, <1>7, <2>2, <2>3, ZenonT(30) DEF Connect, MakingPCs
<1>8. CASE Rollback(Scheduler)
  <2>1. task' = [task EXCEPT ![Scheduler] = Free]
    BY <1>8 DEF Rollback, Finish, Become
  <2>2. UpgradeTask(Free) /\ Free.new = None
    BY DEF UpgradeTask, Free, PreparePCs
  <2>3. t.pc = "rollback" /\ HostRemove(t.new) /\ OnlyHost
    BY <1>3, <1>8, NoneAssumption DEF Rollback
  <2>4. host' = [host EXCEPT ![t.new] = None] /\ Emit("destroy", t.new)
    BY <2>3 DEF HostRemove
  <2>5. HostTypes' /\ HostMoves /\ host'[t.new] = None /\ t.new \in used'
    BY <1>1, <1>2, <2>3, RemoveHost
  <2>6. Steady'
    BY <1>0, <1>2, <2>3, <2>4, <2>5, SteadyHost DEF OnlyHost, EventKinds, HostTypes
  <2>7. Keeps(Free, table, host', wanted, events', mon)
    BY <1>0, <1>1, <1>2, <2>4, KeepsRollback, ZenonT(30)
  <2> QED BY <2>1, <2>2, <2>3, <2>6, <2>7 DEF Upgrades, OnlyHost
<1>9. CASE Launch(Scheduler)
  <2>1. /\ t.pc = "launch" /\ DockerStart(Scheduler, t.new, "verify")
        /\ host[t.new].status = "created" /\ host[t.new] # None
    BY <1>0, <1>3, <1>9, NoneAssumption, ZenonT(30) DEF Launch, Keeps, TaskKept
  <2>2. /\ HostSetStatus(t.new, "start", "running")
        /\ Goto(Scheduler, "verify") /\ OnlyHost
    BY <2>1 DEF DockerStart, NotFound
  <2>3. PICK u : /\ task' = [task EXCEPT ![Scheduler] = u]
                 /\ u.pc = "verify" /\ u.id = t.id /\ u.row = t.row /\ u.new = t.new
                 /\ u.seen = t.seen /\ u.img = t.img
    BY <1>6, <2>2 DEF MakingPCs
  <2>4. HostTypes' /\ HostMoves
    BY <1>1, <1>2, <2>1, <2>2, SetStatusHost, ZenonT(30) DEF EventKinds, Statuses
  <2>5. /\ Emit("start", t.new) /\ used' = used
        /\ host' = [host EXCEPT ![t.new].status = "running"]
    BY <2>2 DEF HostSetStatus
  <2>6. Steady' /\ events' = Append(events, [kind |-> "start", id |-> t.new])
    BY <1>0, <1>2, <1>3, <2>1, <2>2, <2>4, <2>5, SteadyHost, ZenonT(30) DEF OnlyHost, EventKinds, HostTypes
  <2>7. \A i \in Ids : host'[i] # None <=> host[i] # None
    <3>1. \A i \in Ids \ {t.new} : host'[i] = host[i]
      BY <1>1, <2>5
    <3>2. host'[t.new] = [host[t.new] EXCEPT !.status = "running"]
      BY <1>1, <1>2, <2>5, ZenonT(30)
    <3>3. host'[t.new] \in Container
      BY <1>3, <2>1, <3>2, ZenonT(30) DEF Container, Statuses
    <3> QED BY <2>1, <3>1, <3>3, NoneAssumption, ZenonT(30)
  <2>8. Keeps(u, table, host, wanted, events, mon)
    BY <1>0, <2>1, <2>3, KeepsMaking, ZenonT(30) DEF MakingPCs
  <2>9. Fit(u)
    BY <1>2, <2>3, ZenonT(30) DEF Fit
  <2>10. [kind |-> "start", id |-> t.new] \in Event
    BY <1>2 DEF Event, EventKinds
  <2>11. Keeps(u, table, host', wanted, events', mon)
    BY <1>1, <2>3, <2>6, <2>7, <2>8, <2>9, <2>10, KeepsStatus, ZenonT(30)
  <2>12. UpgradeTask(u)
    BY <2>3 DEF UpgradeTask, PreparePCs
  <2> QED BY <2>2, <2>3, <2>6, <2>11, <2>12, ZenonT(30) DEF Upgrades, OnlyHost
<1>10. CASE Verify(Scheduler)
  <2>1. PICK st : Become(Scheduler, [t EXCEPT !.pc = "swap", !.seen.status = st])
    BY <1>10 DEF Verify
  <2> DEFINE u == [t EXCEPT !.pc = "swap", !.seen.status = st]
  <2>2. u.pc = "swap" /\ u.id = t.id /\ u.row = t.row /\ u.new = t.new
    BY <1>0 DEF Task
  <2>3. task' = [task EXCEPT ![Scheduler] = u]
    BY <2>1 DEF Become
  <2> HIDE DEF u
  <2>4. UNCHANGED <<table, host, used, events>>
    BY <1>10 DEF Verify, OnlyTask, OnlyFault, Fault
  <2> QED BY <1>5, <1>10, <2>2, <2>3, <2>4, ZenonT(30) DEF Verify, MakingPCs
<1>11. ASSUME table'[t.new] = Upgraded(t, wanted[t.id]),
              \A i \in Ids \ {t.id, t.new} : table'[i] = table[i],
              table'[t.id] # None => table[t.id] # None,
              t.pc \in {"swap", "fallback"}, Goto(Scheduler, "retire"), OnlyTable
       PROVE  Steady' /\ Upgrades
  <2>1. wanted[t.id] \in BOOLEAN
    BY <1>2 DEF OpsInv, OpsTypeOK
  <2>2. Upgraded(t, wanted[t.id]) \in Row /\ Upgraded(t, wanted[t.id]).auto = wanted[t.id]
    BY <1>2, <2>1, UpgradedRow, ZenonT(30) DEF Upgraded
  <2>3. table'[t.new] # None /\ table'[t.new].auto = wanted[t.id]
    BY <1>11, <2>2, NoneAssumption, ZenonT(30)
  <2>4. PICK u : task' = [task EXCEPT ![Scheduler] = u] /\ u.pc = "retire" /\ u.new = t.new
    BY <1>6, <1>11, SMT
  <2>5. Keeps(u, table', host, wanted, events, mon)
    BY <1>0, <1>2, <1>11, <2>3, <2>4, KeepsWrite DEF MakingPCs
  <2>6. \A i \in Ids : table'[i] # None => i \in used
    BY <1>0, <1>3, <1>11, <2>3 DEF Steady, UsedInv
  <2>7. Steady'
    BY <1>0, <1>11, <2>6, SteadyTable DEF OnlyTable
  <2>8. UpgradeTask(u)
    BY <2>4 DEF UpgradeTask, PreparePCs
  <2> QED BY <1>11, <2>4, <2>5, <2>7, <2>8, ZenonT(30) DEF Upgrades, OnlyTable
<1>12. CASE Swap(Scheduler)
  <2>0. t.pc = "swap"
    BY <1>12 DEF Swap
  <2>1. CASE table[t.id] = None /\ Goto(Scheduler, "fallback") /\ OnlyTask
    <3>1. PICK u : /\ task' = [task EXCEPT ![Scheduler] = u]
                   /\ u.pc = "fallback" /\ u.id = t.id /\ u.row = t.row /\ u.new = t.new
      BY <1>6, <2>1, SMT DEF MakingPCs
    <3> QED BY <1>5, <2>0, <2>1, <3>1, ZenonT(30) DEF OnlyTask, MakingPCs
  <2>2. table[t.id] # None => table[t.id].auto = wanted[t.id] /\ table[t.new] = None
    BY <1>0, <2>0 DEF Keeps, RowMoves, MovingPCs
  <2>3. CASE /\ table[t.id] # None
             /\ table' = [table EXCEPT ![t.id] = None, ![t.new] = Upgraded(t, table[t.id].auto)]
             /\ Goto(Scheduler, "retire") /\ OnlyTable
    <3>1. t.id # t.new
      BY <1>2, <1>3, <2>0, NoneAssumption
    <3>2. /\ table'[t.new] = Upgraded(t, wanted[t.id]) /\ table'[t.id] = None
          /\ \A i \in Ids \ {t.id, t.new} : table'[i] = table[i]
      BY <1>1, <1>2, <2>2, <2>3, <3>1
    <3> QED BY <1>11, <2>0, <2>3, <3>2
  <2> QED BY <1>12, <2>1, <2>2, <2>3 DEF Swap
<1>13. CASE Fallback(Scheduler)
  <2>1. t.pc = "fallback"
    BY <1>13 DEF Fallback
  <2>2. t.row.auto = wanted[t.id]
    BY <1>0, <2>1 DEF Keeps, TaskKept, MakingPCs
  <2>3. t.id # t.new
    BY <1>2, <1>3, <2>1, NoneAssumption
  <2>4. /\ table'[t.new] = Upgraded(t, wanted[t.id]) /\ table'[t.id] = table[t.id]
        /\ \A i \in Ids \ {t.id, t.new} : table'[i] = table[i]
    BY <1>1, <1>2, <1>13, <2>2, <2>3, ZenonT(30) DEF Fallback
  <2> QED BY <1>11, <1>13, <2>1, <2>4 DEF Fallback
<1>14. CASE Retire(Scheduler)
  <2> DEFINE u == [t EXCEPT !.pc = "read", !.id = t.new]
  <2>1. u.pc = "read" /\ u.new = t.new
    BY <1>0 DEF Task
  <2>2. task' = [task EXCEPT ![Scheduler] = u] /\ t.pc = "retire"
    BY <1>14 DEF Retire, Become
  <2> HIDE DEF u
  <2>3. UNCHANGED <<table, host, used, events>>
    BY <1>14 DEF Retire, OnlyFeed
  <2>4. Keeps(u, table, host, wanted, events, mon)
    BY <1>0, <2>1, <2>2, KeepsElsewhere, ZenonT(30) DEF MakingPCs, PreparePCs
  <2>5. UpgradeTask(u)
    BY <2>1 DEF UpgradeTask, PreparePCs
  <2> QED BY <1>4, <2>1, <2>2, <2>3, <2>4, <2>5, ZenonT(30) DEF Upgrades
<1> QED BY <1>7, <1>8, <1>9, <1>10, <1>12, <1>13, <1>14

\* None of these steps makes a container.
LEMMA NewFollows ==
    ASSUME NEW t, NEW u, NEW T, Follows(t, u, T)
    PROVE  u.new = t.new \/ u.new = None
<1>1. Free.new = None /\ \A i : [Free EXCEPT !.op = "upgrade", !.pc = "get", !.id = i].new = None
  BY DEF Free
<1> QED BY <1>1 DEF Follows

\* A step of a request's goroutine, which only checks for updates.
LEMMA CheckFollows ==
    ASSUME NEW t, NEW u, NEW T, CheckTask(t), Follows(t, u, T)
    PROVE  CheckTask(u)
<1>1. CheckTask(Free)
  BY DEF CheckTask, Free, CheckPCs
<1> QED BY <1>1 DEF CheckTask, CheckPCs, Follows

\* The scheduler's check, and the first step of its upgrade.
LEMMA SchedulerFollows ==
    ASSUME OpsInv, KeptInv, NEW u, task[Scheduler].pc \in CheckPCs,
           Follows(task[Scheduler], u, table)
    PROVE  /\ UpgradeTask(u) /\ Keeps(u, table, host, wanted, events, mon)
           /\ u.new = task[Scheduler].new \/ u.new = None
<1> DEFINE t == task[Scheduler]
<1>0. UpgradeTask(t) /\ Keeps(t, table, host, wanted, events, mon)
  BY DEF KeptInv
<1>1. CASE t.pc = "get" /\ t.op = "upgrade" /\ u.pc = "inspect" /\ u.id = t.id
           /\ u.new = t.new /\ u.row = table[t.id]
  <2>1. t.id \in Ids
    BY <1>1, Busy DEF Workers
  <2>2. RowsKept(u, table, host, wanted) /\ RowMoves(u, table, wanted, events, mon)
    BY <1>0, <1>1 DEF Keeps, RowsKept, RowMoves, Making, MakingPCs, MovingPCs
  <2>3. host[t.id] # None => u.row.auto = wanted[t.id]
    BY <1>0, <1>1, <2>1 DEF Keeps, RowsKept, Making, MakingPCs
  <2>4. TaskKept(u, host, wanted)
    BY <1>1, <2>3 DEF TaskKept, MakingPCs
  <2>5. UpgradeTask(u)
    BY <1>0, <1>1 DEF UpgradeTask
  <2> QED BY <1>1, <2>2, <2>4, <2>5 DEF Keeps
<1>2. CASE u.pc \in CheckPCs /\ UpgradeTask(u) /\ (u.new = t.new \/ u.new = None)
  <2>1. u.pc \notin MakingPCs \cup PreparePCs \cup {"create"} /\ t.pc \notin MakingPCs
    BY <1>2 DEF CheckPCs, MakingPCs, PreparePCs
  <2> QED BY <1>0, <1>2, <2>1, KeepsElsewhere
<1>3. Free.pc = "free" /\ Free.new = None
  BY DEF Free
<1>4. CASE u = Free
  BY <1>2, <1>3, <1>4 DEF UpgradeTask, CheckPCs, PreparePCs
<1>5. CASE u = [Free EXCEPT !.op = "upgrade", !.pc = "get", !.id = t.id]
  <2>1. u.pc = "get" /\ u.op = "upgrade" /\ u.new = None
    BY <1>5 DEF Free
  <2> QED BY <1>2, <2>1 DEF UpgradeTask, CheckPCs
<1>6. CASE u.pc \in {"registry", "record", "read", "publish", "end"} /\ u.new = t.new
  BY <1>2, <1>6 DEF UpgradeTask, CheckPCs, PreparePCs
<1>7. CASE t.pc = "get" /\ t.op = "check" /\ u.pc = "look" /\ u.new = t.new
  BY <1>2, <1>7 DEF UpgradeTask, CheckPCs, PreparePCs
<1>8. t.pc = "get" => t.op \in {"check", "upgrade"}
  BY <1>0 DEF UpgradeTask
<1> QED BY <1>1, <1>4, <1>5, <1>6, <1>7, <1>8, ZenonT(30) DEF Follows

\* Any step of a worker.
LEMMA WorkerKept ==
    ASSUME OpsInv, KeptInv, NEW w \in Workers, WorkerStep(w)
    PROVE  KeptInv'
<1>0. /\ UNCHANGED <<sync, conn, mon, ext>> /\ wanted' = Wanted(w)
      /\ Scheduler \in Workers /\ Users \subseteq Workers
      /\ task \in [Workers -> Task]
      /\ Steady /\ UpgradeTask(task[Scheduler])
      /\ Keeps(task[Scheduler], table, host, wanted, events, mon)
      /\ \A v \in Users : CheckTask(task[v])
  BY DEF WorkerStep, monVars, Workers, OpsInv, TasksOK, KeptInv
<1>1. UNCHANGED <<host, used, events>> /\ SameAuto(table, table') => Steady'
  BY <1>0, SteadyTable DEF Steady, UsedInv, SameAuto
<1>2. CASE w # Scheduler
  <2>1. w \in Users /\ CheckTask(task[w])
    BY <1>0, <1>2 DEF Workers
  <2>2. task[w].pc \in FlagPCs /\ task[w].pc # "set"
    BY <2>1 DEF CheckTask, CheckPCs, FlagPCs
  <2>3. SameAuto(table, table') /\ UNCHANGED <<host, used, events>>
    BY <2>2, FlagWorker
  <2>4. PICK u : task' = [task EXCEPT ![w] = u] /\ Follows(task[w], u, table)
    BY <2>2, FlagWorker
  <2>5. CheckTask(u)
    BY <2>1, <2>4, CheckFollows
  <2>6. /\ task'[Scheduler] = task[Scheduler]
        /\ \A v \in Users : task'[v] = u \/ task'[v] = task[v]
    BY <1>0, <1>2, <2>4
  <2>7. \A v \in Users : CheckTask(task'[v])
    BY <1>0, <2>5, <2>6, ZenonT(30)
  <2>8. wanted' = wanted
    <3>1. u.new = task[w].new \/ u.new = None
      BY <2>4, NewFollows
    <3> QED BY <1>0, <2>2, <2>4, <3>1, WantedSame, ZenonT(30)
  <2>9. Keeps(task[Scheduler], table', host, wanted, events, mon)
    BY <1>0, <2>3, Busy, KeepsSameAuto, ZenonT(30)
  <2>10. Steady'
    BY <1>1, <2>3
  <2> QED BY <1>0, <2>3, <2>6, <2>7, <2>8, <2>9, <2>10, ZenonT(30) DEF KeptInv, CheckTask, UpgradeTask
<1>3. CASE w = Scheduler
  <2>0. \A u : task' = [task EXCEPT ![Scheduler] = u] =>
                 task'[Scheduler] = u /\ \A v \in Users : task'[v] = task[v]
    BY <1>0, WorkerAssumption
  <2>1. ASSUME NEW u, task' = [task EXCEPT ![Scheduler] = u], Steady', UpgradeTask(u),
               Keeps(u, table', host', wanted', events', mon)
        PROVE  KeptInv'
    <3>1. task'[Scheduler] = u /\ \A v \in Users : task'[v] = task[v]
      BY <2>0, <2>1
    <3>2. UpgradeTask(task[Scheduler])'
      BY <2>1, <3>1 DEF UpgradeTask
    <3>3. \A v \in Users : CheckTask(task[v])'
      BY <1>0, <3>1 DEF CheckTask
    <3> QED BY <1>0, <2>1, <3>1, <3>2, <3>3, ZenonT(30) DEF KeptInv
  <2>2. CASE task[Scheduler].pc \in CheckPCs
    <3>1. task[Scheduler].pc \in FlagPCs /\ task[Scheduler].pc # "set"
      BY <2>2 DEF CheckPCs, FlagPCs
    <3>2. SameAuto(table, table') /\ UNCHANGED <<host, used, events>>
      BY <1>3, <3>1, FlagWorker
    <3>3. PICK u : task' = [task EXCEPT ![Scheduler] = u] /\ Follows(task[Scheduler], u, table)
      BY <1>3, <3>1, FlagWorker
    <3>4. /\ UpgradeTask(u) /\ Keeps(u, table, host, wanted, events, mon)
          /\ u.new = task[Scheduler].new \/ u.new = None
      BY <2>2, <3>3, SchedulerFollows
    <3>5. wanted' = wanted
      BY <1>0, <1>3, <3>1, <3>3, <3>4, WantedSame, ZenonT(30)
    <3>6. Fit(u)
      <4>1. OpsInv'
        BY <1>0, WorkerKeepsInv
      <4>2. Fit(task[Scheduler])'
        BY <1>0, <4>1 DEF OpsInv, TasksOK
      <4> QED BY <2>0, <3>3, <4>2 DEF Fit
    <3>7. Keeps(u, table', host, wanted, events, mon)
      BY <3>2, <3>4, <3>6, KeepsSameAuto, ZenonT(30)
    <3>8. Steady'
      BY <1>1, <3>2
    <3> QED BY <2>1, <3>2, <3>3, <3>4, <3>5, <3>7, <3>8, ZenonT(30)
  <2>3. CASE Create(Scheduler)
    BY <1>0, <1>3, <2>1, <2>3, CreateKept, ZenonT(30)
  <2>4. CASE Upgrades /\ Steady' /\ task[Scheduler].pc # "set"
    <3>1. PICK u : /\ task' = [task EXCEPT ![Scheduler] = u]
                   /\ UpgradeTask(u)
                   /\ u.new = task[Scheduler].new \/ u.new = None
                   /\ Keeps(u, table', host', wanted, events', mon)
      BY <2>4 DEF Upgrades
    <3>2. wanted' = wanted
      BY <1>0, <1>3, <2>4, <3>1, WantedSame, ZenonT(30)
    <3> QED BY <2>1, <2>4, <3>1, <3>2
  <2>5. CASE task[Scheduler].pc \notin CheckPCs /\ ~Create(Scheduler)
    <3>1. ~CommonStep(Scheduler) /\ ~FlagStep(Scheduler)
      BY <1>0, <2>5 DEF CommonStep, FlagStep, Get, ReadBack, Publish, EndOfOperation,
         SetAuto, Look, AskRegistry, Record, At, CheckPCs, UpgradeTask
    <3>2. ~StartStopStep(Scheduler) /\ task[Scheduler].pc # "set"
      BY <1>0 DEF StartStopStep, InspectBefore, Act, InspectAfter, Save, At, UpgradeTask
    <3>3. UpgradeStep(Scheduler)
      BY <1>3, <3>1, <3>2 DEF WorkerStep
    <3>4. Steady' /\ Upgrades
      BY <1>0, <2>5, <3>3, PrepareKept, ReplaceKept DEF UpgradeStep
    <3> QED BY <2>4, <3>2, <3>4
  <2> QED BY <2>2, <2>3, <2>5
<1> QED BY <1>2, <1>3

\* A step of the monitor, or an event it drops because the inspection failed.
LEMMA MonitorKept ==
    ASSUME SchedulerAlone, OpsInv, KeptInv, MonitorStep \/ MonitorError,
           UNCHANGED <<task, wanted>>
    PROVE  KeptInv'
<1> DEFINE t == task[Scheduler]
<1>0. /\ Steady /\ conn /\ sync.pc = "up" /\ ext = 0 /\ UsedInv /\ DestroyInv
      /\ mon.pc # "idle" => mon.id \in used
      /\ Keeps(t, table, host, wanted, events, mon)
  BY DEF KeptInv, Steady
<1>1. /\ table \in [Ids -> Row \cup {None}] /\ events \in Seq(Event)
      /\ mon.pc # "idle" => mon.id \in Ids
      /\ mon.pc = "upsert" => mon.insp \in Container
      /\ mon \in [pc : MonitorPCs, id : Ids \cup {None},
                  insp : Container \cup {None}, row : Row \cup {None}]
  BY DEF OpsInv, OpsTypeOK, TypeOK, MonitorFit
<1>2. Fit(t) /\ (t.pc \in MovingPCs => host[t.id] = None)
  <2>1. Fit(t) /\ Gone(t)
    BY Busy DEF Workers
  <2> QED BY <2>1 DEF Gone, MovingPCs, ReplacingPCs
<1>3. /\ IdleMonitor.pc = "idle"
      /\ \A p, i : /\ [IdleMonitor EXCEPT !.pc = p, !.id = i].pc = p
                   /\ [IdleMonitor EXCEPT !.pc = p, !.id = i].id = i
  BY DEF IdleMonitor
<1>4. UNCHANGED <<host, used, sync, conn, ext>>
  BY <1>0 DEF MonitorStep, Subscribe, MonitorTake, MonitorDelete, MonitorPublishDelete,
     MonitorInspect, MonitorUpsert, MonitorRead, MonitorPublish, MonitorError, Fault
<1>5. ASSUME Steady', Keeps(t, table', host, wanted, events', mon')
      PROVE  KeptInv'
  BY <1>4, <1>5 DEF KeptInv, CheckTask, UpgradeTask
<1>6. ASSUME UNCHANGED <<table, events>>, mon.pc # "delete",
             mon'.pc # "idle" => mon.pc # "idle" /\ mon'.id = mon.id,
             mon'.pc = "upsert" => host[mon'.id] # None,
             mon'.pc # "delete"
      PROVE  KeptInv'
  <2>1. Keeps(t, table, host, wanted, events, mon')
    BY <1>0, <1>2, <1>6, KeepsHandling, ZenonT(30)
  <2>2. Steady'
    BY <1>0, <1>4, <1>6 DEF Steady, UsedInv, DestroyInv
  <2> QED BY <1>5, <1>6, <2>1, <2>2, ZenonT(30)
<1>7. CASE MonitorTake
  <2>1. /\ events # <<>> /\ mon.pc = "idle" /\ events' = Tail(events) /\ table' = table
    BY <1>7 DEF MonitorTake
  <2>2. Head(events) = events[1] /\ 1 \in 1..Len(events) /\ Head(events) \in Event
    BY <1>1, <2>1, SMT
  <2>3. \A k \in 1..Len(Tail(events)) : Tail(events)[k] = events[k + 1] /\ k + 1 \in 1..Len(events)
    BY <1>1, <2>1, SMT
  <2>4. /\ mon'.pc \in {"idle", "delete", "inspect"}
        /\ mon'.pc # "idle" => mon'.id = Head(events).id
        /\ Head(events).kind = "destroy" => mon'.pc = "delete"
        /\ mon'.pc = "delete" => Head(events).kind = "destroy"
    BY <1>3, <1>7, <2>2, SMT DEF MonitorTake, DeleteActions, ChangeActions, Event, EventKinds
  <2>5. Keeps(t, table, host, wanted, Tail(events), mon')
    BY <1>0, <1>1, <2>1, <2>4, KeepsTake
  <2>6. UsedInv' /\ DestroyInv' /\ (mon'.pc # "idle" => mon'.id \in used')
    BY <1>0, <1>4, <2>1, <2>2, <2>3, <2>4 DEF UsedInv, DestroyInv
  <2> QED BY <1>0, <1>4, <1>5, <2>1, <2>5, <2>6, ZenonT(30) DEF Steady
<1>8. CASE MonitorDelete
  <2>1. /\ mon.pc = "delete" /\ table' = [table EXCEPT ![mon.id] = None] /\ events' = events
        /\ mon'.pc = "deleted" /\ mon'.id = mon.id
    BY <1>1, <1>8 DEF MonitorDelete
  <2>2. Keeps(t, table', host, wanted, events, mon')
    BY <1>0, <1>1, <1>2, <2>1, KeepsDelete DEF DestroyInv
  <2>3. UsedInv' /\ DestroyInv' /\ mon'.id \in used'
    BY <1>0, <1>1, <1>4, <2>1 DEF UsedInv, DestroyInv
  <2> QED BY <1>0, <1>4, <1>5, <2>1, <2>2, <2>3 DEF Steady
<1>9. CASE MonitorUpsert
  <2>1. /\ mon.pc = "upsert" /\ table' = [table EXCEPT ![mon.id] = Upserted(table[mon.id], mon.insp)]
        /\ events' = events /\ mon'.pc = "read" /\ mon'.id = mon.id
    BY <1>1, <1>9 DEF MonitorUpsert
  <2>2. Keeps(t, table', host, wanted, events, mon')
    BY <1>0, <1>1, <1>2, <2>1, KeepsUpsert, ZenonT(30)
  <2>3. UsedInv' /\ DestroyInv' /\ mon'.id \in used'
    BY <1>0, <1>1, <1>4, <2>1, ZenonT(30) DEF UsedInv, DestroyInv
  <2> QED BY <1>0, <1>4, <1>5, <2>1, <2>2, <2>3, ZenonT(30) DEF Steady
<1>10. CASE MonitorInspect
  <2>1. /\ mon.pc = "inspect" /\ UNCHANGED <<table, events>>
        /\ \/ mon'.pc = "idle"
           \/ mon'.pc = "upsert" /\ mon'.id = mon.id /\ host[mon.id] # None
    BY <1>1, <1>3, <1>10 DEF MonitorInspect
  <2> QED BY <1>6, <2>1
<1>11. CASE MonitorRead
  <2>1. /\ mon.pc = "read" /\ UNCHANGED <<table, events>>
        /\ mon'.pc = "idle" \/ (mon'.pc = "publish" /\ mon'.id = mon.id)
    BY <1>1, <1>3, <1>11 DEF MonitorRead
  <2> QED BY <1>6, <2>1
<1>12. CASE MonitorPublishDelete \/ MonitorPublish
  <2>1. mon.pc \in {"deleted", "publish"} /\ UNCHANGED <<table, events>> /\ mon'.pc = "idle"
    BY <1>3, <1>12 DEF MonitorPublishDelete, MonitorPublish
  <2> QED BY <1>6, <2>1
<1>13. CASE MonitorError
  <2>1. mon.pc = "inspect" /\ UNCHANGED <<table, events>> /\ mon'.pc = "idle"
    BY <1>3, <1>13 DEF MonitorError, Fault, SchedulerAlone
  <2> QED BY <1>6, <2>1
<1>14. ~Subscribe
  BY <1>0 DEF Subscribe
<1> QED BY <1>7, <1>8, <1>9, <1>10, <1>11, <1>12, <1>13, <1>14, ZenonT(30) DEF MonitorStep

\* Every step of the server.
LEMMA NextKept ==
    ASSUME SchedulerAlone, OpsInv, KeptInv, [OpsNext]_allVars
    PROVE  KeptInv'
<1>0. /\ Steady /\ conn /\ sync.pc = "up" /\ ext = 0 /\ UpgradeTask(task[Scheduler])
      /\ Keeps(task[Scheduler], table, host, wanted, events, mon)
      /\ \A v \in Users : CheckTask(task[v])
      /\ task \in [Workers -> Task] /\ Scheduler \in Workers /\ Users \subseteq Workers
  BY DEF KeptInv, Steady, OpsInv, TasksOK, Workers
<1>1. ASSUME UNCHANGED <<host, used, events, sync, conn, mon, ext, table, wanted, task>>
      PROVE  KeptInv'
  BY <1>0, <1>1 DEF KeptInv, Steady, UsedInv, DestroyInv, CheckTask, UpgradeTask
<1>2. ASSUME UNCHANGED <<host, used, events, sync, conn, mon, ext, table, wanted>>,
             NEW w \in Workers, NEW u, task' = [task EXCEPT ![w] = u],
             u.pc = "get", u.op = "check", ~u.auto \/ w = Scheduler, u.new = None,
             task[w].pc = "free"
      PROVE  KeptInv'
  <2>1. Steady'
    BY <1>0, <1>2, SteadyTable DEF Steady, UsedInv
  <2>2. CASE w = Scheduler
    <3>1. task'[Scheduler] = u /\ \A v \in Users : task'[v] = task[v]
      BY <1>0, <1>2, <2>2, WorkerAssumption
    <3>2. UpgradeTask(task[Scheduler])'
      BY <1>2, <3>1 DEF UpgradeTask
    <3>3. Keeps(u, table, host, wanted, events, mon)
      BY <1>0, <1>2, <2>2, KeepsElsewhere, ZenonT(30) DEF MakingPCs, PreparePCs
    <3>4. \A v \in Users : CheckTask(task[v])'
      BY <1>0, <3>1 DEF CheckTask
    <3> QED BY <1>2, <2>1, <3>1, <3>2, <3>3, <3>4, ZenonT(30) DEF KeptInv
  <2>3. CASE w # Scheduler
    <3>1. /\ task'[Scheduler] = task[Scheduler]
          /\ \A v \in Users : task'[v] = task[v] \/ task'[v] = u
      BY <1>0, <1>2, <2>3
    <3>2. CheckTask(u)
      BY <1>2, <2>3 DEF CheckTask, CheckPCs
    <3>3. \A v \in Users : CheckTask(task'[v])
      BY <1>0, <3>1, <3>2
    <3> QED BY <1>0, <1>2, <2>1, <3>1, <3>3, ZenonT(30) DEF KeptInv, CheckTask, UpgradeTask
  <2> QED BY <2>2, <2>3
<1>3. ASSUME NEW w \in Workers, WorkerStep(w) PROVE KeptInv'
  BY <1>3, WorkerKept
<1>4. CASE SchedulerStep
  <2>1. CASE Tick
    BY <1>1, <1>4, <2>1 DEF SchedulerStep, Tick, OnlyTask, OnlyFault, Fault, monVars,
       SchedulerAlone
  <2>2. ASSUME NEW i \in Ids, Dispatch(i) PROVE KeptInv'
    <3> DEFINE u == [Free EXCEPT !.op = "check", !.pc = "get", !.id = i, !.auto = agenda[i].auto]
    <3>1. u.pc = "get" /\ u.op = "check" /\ u.new = None
      BY DEF Free
    <3>2. task' = [task EXCEPT ![Scheduler] = u] /\ task[Scheduler].pc = "free"
      BY <2>2 DEF Dispatch, Become, At
    <3> HIDE DEF u
    <3>3. UNCHANGED <<host, used, events, sync, conn, mon, ext, table, wanted>>
      BY <1>4, <2>2 DEF SchedulerStep, Dispatch, OnlyTask, monVars
    <3> QED BY <1>0, <1>2, <3>1, <3>2, <3>3, ZenonT(30)
  <2> QED BY <1>4, <2>1, <2>2 DEF SchedulerStep
<1>5. CASE OutsideStep
  <2>1. ASSUME NEW w \in Users, NEW op \in Ops, NEW i \in Ids, NEW b \in BOOLEAN,
               Request(w, op, i, b)
        PROVE  KeptInv'
    <3> DEFINE u == [Free EXCEPT !.op = op, !.pc = "get", !.id = i, !.flag = b]
    <3>1. u.pc = "get" /\ u.op = op /\ u.new = None /\ u.auto = FALSE
      BY DEF Free
    <3>2. task' = [task EXCEPT ![w] = u] /\ task[w].pc = "free"
      BY <2>1 DEF Request, Become, At
    <3> HIDE DEF u
    <3>3. UNCHANGED <<host, used, events, sync, conn, mon, ext, table, wanted>>
      BY <1>5, <2>1 DEF OutsideStep, Request, OnlyTask, monVars
    <3>4. op = "check"
      BY DEF SchedulerAlone
    <3> QED BY <1>0, <1>2, <3>1, <3>2, <3>3, <3>4, ZenonT(30)
  <2>2. CASE Push
    BY <1>1, <1>5, <2>2 DEF OutsideStep, Push, OnlyTask, monVars
  <2> QED BY <1>5, <2>1, <2>2 DEF OutsideStep
<1>6. CASE CacheStep
  <2>0. UNCHANGED <<task, wanted>>
    BY <1>6 DEF CacheStep, opVars
  <2>1. \A i \in Ids : ~ExternalStep(i)
    BY <1>0, SMT DEF ExternalStep, ExternalCreate, ExternalStart, ExternalDie, ExternalPause,
       ExternalRename, ExternalRemove, External
  <2>2. ~SyncStep
    BY <1>0 DEF SyncStep, SyncList, SyncUpsert, SyncOrphans
  <2>3. ~StreamError /\ ~MonitorReadError
    BY DEF StreamError, MonitorReadError, Fault, SchedulerAlone
  <2> QED BY <1>6, <2>0, <2>1, <2>2, <2>3, MonitorKept, ZenonT(30) DEF CacheStep
<1>7. ~FailureStep
  BY DEF FailureStep, CallFails, CrashAll, Crash, Fault, SchedulerAlone
<1>8. CASE UNCHANGED allVars
  BY <1>1, <1>8 DEF allVars, vars, opVars
<1> QED BY <1>3, <1>4, <1>5, <1>6, <1>7, <1>8, ZenonT(30) DEF OpsNext

\* A server that is up, with the rows as the users left them.
LEMMA InitKept ==
    ASSUME SchedulerAlone, OpsInit, OpsInv
    PROVE  KeptInv
<1>0. /\ used = Live /\ events = <<>> /\ sync = [pc |-> "up", snap |-> host, todo |-> {}]
      /\ mon = IdleMonitor /\ conn = TRUE /\ ext = MaxExternal
      /\ task = [w \in Workers |-> Free]
      /\ table = [i \in Ids |-> IF host[i] = None THEN None
                                ELSE [name |-> host[i].name, image |-> host[i].image,
                                      status |-> host[i].status,
                                      auto |-> wanted[i], avail |-> FALSE]]
  BY DEF OpsInit
<1>1. Steady
  BY <1>0, SMT DEF Steady, UsedInv, DestroyInv, IdleMonitor, Live, SchedulerAlone
<1>2. \A w \in Workers : task[w] = Free
  BY <1>0
<1>3. Free.pc = "free" /\ Free.auto = FALSE /\ Scheduler \in Workers /\ Users \subseteq Workers
  BY DEF Free, Workers
<1>4. CheckTask(Free) /\ UpgradeTask(Free)
  BY <1>3 DEF CheckTask, UpgradeTask, CheckPCs, PreparePCs
<1>5. RowsKept(Free, table, host, wanted)
  <2> SUFFICES ASSUME NEW i \in Ids, host[i] # None
               PROVE  table[i] # None /\ table[i].auto = wanted[i]
    BY DEF RowsKept
  <2>1. table[i] = [name |-> host[i].name, image |-> host[i].image,
                    status |-> host[i].status, auto |-> wanted[i], avail |-> FALSE]
    BY <1>0
  <2>2. wanted[i] \in BOOLEAN /\ host[i] \in Container
    BY DEF OpsInv, OpsTypeOK, TypeOK
  <2>3. table[i] \in Row
    BY <2>1, <2>2, SMT DEF Row, Container
  <2>4. table[i].auto = wanted[i]
    BY <2>1, <2>2, SMT
  <2> QED BY <2>3, <2>4, NoneAssumption
<1>6. TaskKept(Free, host, wanted) /\ RowMoves(Free, table, wanted, events, mon)
  BY <1>3 DEF TaskKept, RowMoves, MakingPCs, MovingPCs, PreparePCs
<1> QED BY <1>1, <1>2, <1>3, <1>4, <1>5, <1>6, ZenonT(30) DEF KeptInv, Keeps

\* When only the scheduler upgrades, and the monitor misses nothing, every container
\* has a row with the auto_update wanted of it once its upgrade has written the new
\* row: UpdateContainerForUpgrade finds the old row, or the write that follows its
\* failure (upgrade.go) restores the flag read at the start, however the monitor's
\* delete and upsert of the two rows fall between the steps of the upgrade.
THEOREM AutoUpdateCorrect == SchedulerAlone => (OpsSpec => []AutoUpdateKept)
<1> SUFFICES ASSUME SchedulerAlone PROVE OpsSpec => []AutoUpdateKept
  OBVIOUS
<1>1. OpsInit /\ OpsInv => KeptInv
  BY InitKept
<1>2. OpsInv /\ KeptInv /\ [OpsNext]_allVars => KeptInv'
  BY NextKept
<1>3. KeptInv => AutoUpdateKept
  <2> SUFFICES ASSUME KeptInv, At(Scheduler, "free"), NEW i \in Live, table[i] # None
               PROVE  table[i].auto = wanted[i]
    BY DEF AutoUpdateKept, OpsQuiet, Workers
  <2>1. i \in Ids /\ host[i] # None
    BY DEF Live
  <2>2. ~Making(task[Scheduler], i)
    BY DEF Making, MakingPCs, At
  <2>3. RowsKept(task[Scheduler], table, host, wanted)
    BY DEF KeptInv, Keeps
  <2> QED BY <2>1, <2>2, <2>3 DEF RowsKept
<1> QED BY <1>1, <1>2, <1>3, OpsInvariance, PTL DEF OpsSpec
=============================================================================
