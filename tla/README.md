# A TLA+ verification of dmanager

dmanager manages the containers of one Docker host: a Go server (ConnectRPC,
SQLite, the Docker API) and a React frontend. This directory models its
concurrent core, on the server and in the browser, in TLA+, checks it with TLC on
small instances, and proves the central invariants with TLAPS for every instance.

## The system

| Part | State | Operations | Talks to |
|---|---|---|---|
| Startup synchronisation (`internal/container/sync.go`) | `containers` table | list, upsert each, delete orphans | Docker, SQLite |
| Event monitor (`internal/docker/monitor.go`, callback in `cmd/serve.go`) | stream, event in hand | subscribe, delete, inspect, upsert, read back, publish | Docker, SQLite, broker |
| Container operations (`internal/container/actions.go`, `upgrade.go`) | locals of each request | start, stop, toggle, check, upgrade | Docker, registry, SQLite, broker |
| Scheduler (`internal/container/scheduler.go`) | the listed rows | tick, check each, upgrade when enabled | the operations |
| Broker and stream (`broker.go`, `stream.go`) | channels of 100 | subscribe, publish, drop | monitor, operations, container page |
| Container page (`useContainers.ts`, `ContainerGrid`, `ContainerTable`) | cards, busy markers, pending removals | list, follow the stream, act | broker, operations |
| Administration page (`useAdminResources.ts`, `Administration`, tables) | listed resources, busy slices, dialog | list, delete, prune, measure | `internal/admin`, Docker |
| Sign-in (`useAuth`, `router`, `App`, `Login`, `Setup`, `DashboardLayout`) | user, storage, route | load, set up, sign in and out, guard | `internal/auth` |
| Settings page (`Settings.tsx`) | form, passkeys, sessions, events | save, test, register, rename, delete, revoke | `internal/settings`, `internal/auth` |
| Client logs (`logger.ts`, `syncer.ts`) | IndexedDB queue | capture, send, prune, clear | `internal/logging` |
| Log tables, logs drawer, status polls, toasts | fetched entries, streams, timers | filter, page, follow, poll, expire | the API |
| Authentication, access control, audit, settings, Tailscale, mail (`internal/...`) | users, sessions, settings | one handler per request | SQLite |

What makes it hard: the table is a cache that the monitor, every request and
the scheduler write without a lock or a transaction. The database has one
connection, so one statement is atomic and nothing larger is. Docker changes
underneath, its event stream can break, calls fail half-way through an upgrade,
and the process can end at any point. In the browser every answer may come late,
in another order or not at all; effects are cleaned up while their requests are
still out, timers race messages, and the tabs share a cookie, a local storage and
a database.

## Modules

On the server:

**EventMonitor** is the table as a cache of the host. `host` is Docker (external),
`table` the containers table, `sync` the startup code, `conn`/`events` the stream,
`mon` the handler of the event in hand and `feed` what a subscriber that misses no
message believes. Each Docker call, SQL statement and publication is one action.
`unseen` is a history variable: containers with a change the table was never told
of. Docker announces one event per change; the extra `kill` and `die` events of a
stop only repeat an inspection and are left out.

**ContainerOps** extends it with the workers: request goroutines and the scheduler.
`task[w]` holds a goroutine's program counter and locals, `agenda` the rows a sweep
has yet to handle, `registry` and `tagged` the versions behind the tag remotely
and locally. All containers share one image reference and an image is its version.
`wanted` is a history variable, the auto_update last set, carried to a successor.
A failed call leaves the host as it was; a call that took effect and whose answer
was lost is not modelled. Authorisation, audit entries, notifications and
registry credentials are left out.

In the browser, with the server as far as the page can see it:

**ContainersView** is the container page as a copy of the table: `table` and `ver`
are the server's rows and how often each changed, `chan` the subscriber's channel in
the broker (`Publish` skips a full one), `conn` the stream loop of `useContainers.ts`,
`view` the cards, `timers` the removals delayed by 300 ms and keyed by name, `fetch`
the listings in flight, `busy` and `ops` the markers and the operations behind them.
The server changes its table in any order; how it does so is EventMonitor and
ContainerOps. `reports` are the changes whose handler has yet to publish them: writing a
row, reading it back and publishing it are steps of their own, as in `actions.go` and
the callback of `serve.go`, so that messages overtake one another. `seen` (the change of a container the page applied last) and `merged`
(containers that shared a name with another's card when a message came) are history
variables. `CardsAgree` exempts both: the code matches cards by name on purpose, and
a card whose last message was dropped or overtaken is behind until the next one.

**AdminPage** is `useAdminResources.ts` under `Administration.tsx` and its tables. `gets`
are the requests of the two effects with their cancelled flag, `jobs` the deletions,
prunes and measurements, `dialog` the confirmation that is open. `docker` is external.
A handler of `internal/admin` is one call of the daemon and one step, except
`ListNetworks`, which lists and then inspects one network after the other. `Freeable` is
what a prune dialog promises to free: computed from the list on screen and, for volumes,
from `volumeUsage`, the last measurement. (For the build cache the dialog also gives the
number of all records, those in use included; that number is no promise of space and
left out.) `was` is a history field, what was free when the daemon reported; `calm` says
that no volume prune was confirmed during a measurement and no measurement failed.

**AuthFlow** is the life of a sign-in in several tabs. `op[t]` is the operation a tab
runs and where it stands, `cookie`, `storage` and `sessions` are shared, `page[t]`
holds the provider's state, the route, and `due`: App has yet to run the guards again.
`trusted[t]` is a history variable: nothing happened behind the tab's back since it
last asked. A handler of `internal/auth` is one step.

**SettingsPage** is `Settings.tsx`: `stored` and `account` are the server's, `form` and
`shown` the page's, `calls` the requests in flight, `pendingDestructive` the dialog.
`faithful` and `quiet` are history variables: nothing was typed, changed by others or
lost since form or list last agreed.

**LogQueue** is the log queue of the browser: `db` the IndexedDB table, `page[p]` the sync
loop of a page, `handler[h]` a request on the server, `stored` the server's log in the
order written, `ring` its ring buffer with the wrap-around of `buffer.go`. `dropped`
and `calm` are history variables. `SyncLogs` writes one entry per step.

**LogTables** (system and audit log), **LogsDrawer**, **StatusPoll** (the engine pill and
the Tailscale card) and **Toasts** are the views that only read. They share no state.
`ListAuditLogs` lists a page (`ListRows`) and counts the result (`CountRows`) in two
queries without a transaction, between which entries are recorded and deleted; an answer
has the rows of the one and the total of the other.
**Views** composes them: a behaviour follows one of them from its mounting, and the
fairness of each is stated over its own variables.

Two abstract specifications say what such components promise:

- **LatestWins**: a slice that loads and shows only ever turns to the answer of its
  newest request. StatusPoll refines it by its ticket counter (`NewestStatusOnly`),
  AdminPage by the cancelled flag of its effect (`NewestListOnly`). The log tables and
  the settings page have no such guard and do not refine it; what they keep is
  `FreshIsCurrent` and `ListsAgree`.
- **LogTransfer**: captured entries are delivered at least once or given up as a whole.
  LogQueue refines it (`AtLeastOnce`), `kept` being the set of entries in `stored`.

The modules **MC...** give the constants their values for TLC. **..._proofs** hold the
proofs. **Views_proofs** has those of all four views, **ContainerTable_proofs** those of
EventMonitor and of what EventMonitor and ContainerOps together do to the table.

## Runs

| Run | Shows |
|---|---|
| `monitor` | An idle monitor's table agrees with the host except on changes never delivered, and gets there; subscribers agree with the table; flags survive startup and events |
| `update_cycle` | Two sweeps with upgrades beside a user's check: update flags are true, auto_update reaches the successor |
| `all_ops` | A user's start, stop or upgrade races a sweep, with failing calls and a crash: no container gets two successors |
| `flag_ops` | Two users check and toggle under all faults: a toggle is not undone by a check that read the row before it, and the table still agrees with the host |
| `sweep_live` | A sweep over two rows takes up each of them and ends, also when a check or an automatic upgrade fails on the way and a container goes |
| `containers_view` | A card the page was told everything about shows its row; no container has two cards; busy markers match the operations in flight; removed cards leave |
| `admin` | The list is the tab's and of the newest request; what was removed is not offered again; one request per slice; prune dialogs never overstate what they free; sizes are measured again after a prune; the page settles |
| `auth` | A settled tab is on a page its guards allow; a tab that was just told shows the user of the cookie's session; no tab loads for ever |
| `settings` | Form and lists agree with the server unless something was lost or overlapped; one form request and one destructive request at a time; the page becomes usable again |
| `log_queue` | Entries arrive in order; duplicates need a fault or a second page; the ring holds the newest entries; the queue drains; LogTransfer is implemented, so that no entry vanishes |
| `views` | Tables show what is selected once the newest answer is in, and their pager covers the rows and exceeds them by no more than what was recorded between list and count; the drawer shows the selected container only; one polling interval; the newest status; toasts know their timers; nothing transient stays for ever |
| `upgrade_failure` | Expected violation: a call that fails after the removal leaves no container, where the documentation promises one (`findings` in `PROJECT.json`) |

Each module also states the types of its variables (`TypeOK`, `TablesTypeOK`, ...). They
hold on the same instances and are part of the proofs, not of the runs.

The passing runs of ContainerOps are restricted where the code is known not to keep
their property, and the restriction is part of what they show:

- `AutoUpdateKept` holds in `update_cycle`, where only the scheduler upgrades, nobody
  starts or stops, and no event is lost, and in `flag_ops`, where nobody upgrades. It fails with two upgrading users (the
  second reads the row the monitor has just inserted for the first one's container)
  and with a lost stream (the in-place update collides with the monitor's row).
- `OpsCacheAgrees` holds in `flag_ops`, without starts and stops. It fails with a stop
  and one external change: the save overwrites what the monitor recorded later.
- `AvailIsTrue` needs image inspections (`FalseUpdate.cfg`) and container inspections that
  do not fail, and is checked in `update_cycle` only. A failing container inspection
  breaks it with a check, two concurrent upgrades and a push.
- `CacheAgrees` exempts pauses and renames, whose events the monitor ignores.

**Known deviations.** Further configurations show where the code departs from a sentence of
its documentation, a comment or a test. Each checks one property and ends in a
violation, by `tlc -config <configuration> <module>`.

| Configuration | Module | What happens |
|---|---|---|
| `SyncOrphans.cfg` | MCEventMonitor | An empty host listing deletes no orphan |
| `MonitorGap.cfg` | MCEventMonitor | A container created while no stream is open is never discovered |
| `LostToggle.cfg` | MCContainerOps | A start overwrites a toggle made meanwhile |
| `StaleFeed.cfg` | MCContainerOps | Two read-backs are published in the opposite order |
| `ToggleIgnored.cfg` | MCContainerOps | The scheduler upgrades a container disabled during its sweep |
| `FalseUpdate.cfg` | MCContainerOps | An image that cannot be inspected is redeployed |
| `LoginError.cfg` | MCAuthFlow | The loading screen unmounts the form, so the error of a failed sign-in ("displays API error banner if login fails", `Login.test.tsx:112`) is gone when it returns |
| `RetentionRides.cfg` | MCSettingsPage | A retention change also stores notification settings that were typed and not saved ("the loaded Gotify values ride along unchanged", `Settings.tsx:288`) |

**Bounds.** On the server two ids let events of one container queue behind another's, and
give an upgraded container a successor; a third gives that one a successor of its own.
Two versions make an update available once. `MaxExternal`, `MaxFaults`, `MaxReqs` and
`MaxTicks` bound how often the environment acts, never how the code reacts. In the
browser:

- `containers_view`: two containers and two names (a successor with the same name, a
  renamed container), two rows, a channel of 2 instead of 100 so that it overflows, three
  changes whose publications may cross, and three events: the page is opened, left and
  opened again, refreshed, an operation is started, a stream or a listing fails.
- `admin`: a tagged image whose use is not counted and a dangling one, a volume, a record,
  a network others start or stop using and a predefined one; four listings, so that two
  are overtaken; two clicks, so that sizes are measured before a prune and again after
  it; one mishap.
- `auth`: two tabs, a fresh installation or one with an administrator and a viewer; two
  submissions or sign-outs, one page load beyond the first, one lost answer or
  ended session.
- `settings`: two values of each kind, three clicks, one refused or lost call.
- `log_queue`: two pages, three handlers, three entries in batches of 2 (instead of 50),
  a ring of 2 (instead of 1000), one fault, one new sign-in.
- `views`: pages of 2 entries with results of 0 to 4, two inputs, one background refresh,
  one entry recorded or deleted or one failure; two containers with two options and three
  streams, four checks, two toasts with four timers.

Deadlock is not checked: once the budget of outside events is used up, a server or a
page has nothing left to do.

**Fairness.** Weak fairness of the startup code, the monitor and every worker: each is a
goroutine whose calls return. In the browser, weak fairness of handling and answering the
requests that are out (a transport that fails answers with an error), of a tab's own
continuation after an answer, of running timers and of aborts. Docker, users, the
registry, page loads and the choice between success and failure owe nothing. `Drains`
assumes in its statement that some page stays open. In AdminPage the fairness is of
answering and handling as a whole, since finitely many requests are out. That the engine
pill decides (part of `ViewsSettle`) rests on the bound on checks: were every check
overtaken by the next, no answer would count. In the code `CheckEngine` gives up after
5 s and the interval is 30 s, so only a user who keeps changing focus could do that.

## Proofs

`ContainerTable_proofs` proves of EventMonitor, for every set of ids, names and images,
every boot state and any bounds: `TypeCorrect`, `CacheCorrect` (`CacheAgrees`), `FeedCorrect`
(`FeedAgrees`) and `FlagsCorrect` (`FlagsSurvive`).

`CacheAgrees` speaks of idle states only and is not inductive. `CacheInv` says what
holds in between: a container the table was told of either agrees, or is in the
monitor's hands, or has an event queued that will make the monitor look again to the
right effect. `DestroyInv` (a destroy event is about a container that is gone),
`UsedInv` (ids are not reused), `SyncInv` (the snapshot is the host's but for
unannounced changes) and `MonitorInv` support it. Together they are `CoreInv`, which
holds whoever publishes; `FeedInv`, about the subscribers, needs the monitor to be the
only writer. The assumptions are that `None`
is none of the values, the boot states are typed and the bounds are natural numbers.

`ContainerOps_proofs` proves, for any workers, containers, requests, ticks, other Docker
clients' operations and faults: `OpsTypeCorrect` (`OpsTypeOK`, the type invariant) and
`OneSuccessorCorrect` (`OneSuccessor`). `OneSuccessor` is not inductive: it must be
known why a second upgrade cannot follow the first past `ContainerRemove`. `Gone`
says it: an upgrade in that part has an id that was used and has no container, and
since ids are not reused (`LiveUsed`) no step gives it one again (`HostMoves`), so
a second removal finds nothing. Types need `Fit` (the locals an operation reads at a
step were set by an earlier one) and `MonitorFit`, the same for the monitor. Each
group of actions has a lemma that a worker's new task is in order (`Moved`) and the
shared state is kept (`Kept`); `TaskStep` turns those into the invariant for all
workers. Further assumptions: the scheduler is not one of the users, versions are
natural numbers, and requests are of the modelled kinds.

Three properties of ContainerOps are not invariants of `OpsSpec`: under *Runs* it says
what breaks them. Each is proved from a hypothesis on the constants that leaves out
what breaks it. `update_cycle` satisfies the first and the third, `flag_ops` the second.

- `AvailCorrect` (`AvailIsTrue`, in `ContainerOps_proofs`) under `ReliableChecks`: no fault
  of kind `image` or `call` (pulls, networks, the event stream, the database and the
  process may still fail). An image that cannot be inspected counts as outdated. When the
  container cannot be inspected the check compares the row's image, which is older than
  the container's if another upgrade pulled between `InspectImage` and `Create`.
  `AvailInv` follows a claim from where it is read to where it is written: every
  operation holding a row or a result to be saved holds one that is true of its
  container (`Backed`). It stays true until the write because containers keep their
  image, ids are not reused and the registry only moves on (`Ages`).
- `OpsCacheCorrect` (`OpsCacheAgrees`, in `ContainerTable_proofs`) under `FlagOpsOnly`:
  users toggle and check, no sweep starts. Any fault, crash or change by another client
  may happen. The UPDATEs of these operations change flags only and insert no row
  (`FlagWorker`), and `CoreInv` does not mention flags (`FlagsKeepCore`).
- `AutoUpdateCorrect` (`AutoUpdateKept`, in `ContainerTable_proofs`) under `SchedulerAlone`:
  users only check, no other client changes containers, and no fault of kind `call`,
  `stream`, `db` or `crash` happens; pulls, networks, image inspections and the monitor's
  inspections may fail. An
  upgrade deletes the old container and creates the new one while the monitor deletes
  and inserts their rows. `RowMoves` says how the two meet: Docker announces the
  removal before the creation and the monitor handles events in order, so the row of
  the new container appears only after the old row is gone (`Announced`).
  `UpdateContainerForUpgrade` thus never collides with the monitor's row: either it
  carries the flag over, or it finds no old row and the write after it restores the flag
  that was read at the start, which is the one wanted (`TaskKept`). Without the hypothesis
  the old row can outlive the new one's insertion (a lost event or a failed delete), or a
  second upgrade can start from the row that the monitor has just inserted.

`LogQueue_proofs` proves, for any pages, handlers, batch size, ring size, entries and
faults: `QueueNothingVanishes`, `QueueArrivesInOrder`, `QueueAtLeastOnce` (LogQueue
implements LogTransfer), `QueueOnceWhenCalm` and `QueueRingReadsTail`.

- A page deletes what it remembers as sent, so `NothingVanishes` needs to know that an
  acknowledged batch was stored, and that needs the handler. `Linked` ties a page
  waiting for an answer to the handler that has its batch (what it no longer has to
  write is stored), `OwnHandler` says that no two pages wait for one handler, and
  `Working` that whatever precedes a key a handler has yet to write is stored, given
  up or its own to write; with `Types` and the two properties they are `QueueInv`. The
  refinement follows: a step of a page or handler is one of `Capture`, `Keep`, `Prune`,
  `GiveUp` or changes none of the mapped variables.
- `OnceWhenCalm` needs `OneLoop`: the one open page waits for every handler that has
  something to write, nothing of which is stored, and whatever is both stored and
  still queued is in that page's batch and will be pruned before the next is read.
- `RingInv` places every entry of the ring: from the cursor on, wrapping once, it holds
  the last `Fill` entries of the log. `RingReadsTail` follows, that `RingAll` unrolls
  into the newest entries in the order written, for every capacity. `RingIsTail`, what
  `RingGet` answers, adds the level filter and the limit; what `SelectSeq` returns is an
  induction over data and stays with TLC.

`LogAssumption` makes the sizes positive and the set of handlers non-empty.

`Views_proofs` proves the views that only read:

- `PollOneInterval` and `PollNewestStatusOnly` (StatusPoll implements LatestWins).
  `PollInv` adds that an unmounted hook has no interval to stop; the refinement needs of
  it only that tickets are numbers, because an answer is compared with the newest
  ticket when it lands.
- `DrawerOnlySelectedLines` and `DrawerBadgeTells`. `Subscribed` is the heart: the one
  stream still subscribed is that of the selected container and options, since every
  change of either runs the cleanup first. `ClosedIsEmpty` covers the closed drawer.
- `ToastsTimersKnown`. `ToastsInv` adds that identifiers are not reused, so that the timer
  that fires removes its own toast and no other.
- `TablesFreshIsCurrent`, for every page size and total. `NewestAsks`: the newest request
  and the refresh interval ask for what is selected. `PagerInRange`: while answers come
  in order and totals do not shrink, the page selected exists in the newest answer and
  in what the server holds now, so a page that is turned to exists when it is served; a
  request between the two queries has the rows of the earlier total (`Listed`), and its
  count is no smaller than that total and no larger than what is there now (`Complete`).
- `ViewsCorrect`: the composition that the run checks is a behaviour of each view
  (`ViewsAreEach`) and inherits all of this.

`ContainersView_proofs` proves `ViewOneCardEach` from `CardsInv` (listings in flight hold
one card per container too, because rows are keyed by id), `ViewBusyTracksOps` from
`OpsInv` and `ViewCardsAgree` from `AgreeInv` and `ReportInv`, for any containers, names,
rows and channel capacity. `ReportInv` says that what a handler has read back is true of
its row until the row changes, in whatever order the handlers publish. `AgreeInv` says that messages and listings under way are true of every row that
did not change since, that removals are pending only for containers that are gone, and
(`ShownAsTold`, stronger than `CardsAgree`) that a card shown in spite of its removal has
that removal pending under its own name. A save cancels the removal pending under
its name, and only because of this is the card left standing known to carry that name
and to be one of those `merged` records.
`ViewAssumption` makes `None` none of the values and gives every row a name.

`AdminPage_proofs` proves every safety property of the administration page, for any
resources, requests and mishaps: `AdminTypeCorrect`, `AdminLoadedMatchesTab`,
`AdminRemovedNotListed`, `AdminOneAtATime`, `AdminNeverOverstates`,
`AdminRemovedNotMeasured` and the refinement `AdminNewestListOnly`. In its invariant `IInv`, `NewestForTab` says that the
newest list request, the only one not cancelled, asks for the tab; `RemovedGone` that what a
finished request reports as removed is gone from the daemon and in no list that may
still land, which is why the bumped refresh key matters; `Slots` that a slice has one
request when its flag is set and none otherwise, also across the measurement that a
prune of volumes starts; `AllHonest` carries what was free when a list was served, or a
network inspected, along with the list. A second invariant, `MInv`, is about the
measurements: each is honest in the same way, and while `calm` holds a volume prune in
flight was confirmed with no measurement running and will measure again if sizes were
known (`Corrected`), so no measurement taken before a prune arrives after it. `AdminAssumption` keeps the kinds of items apart as Docker does.

`AuthFlow_proofs` proves `AuthRouteAllowed` and `AuthShowsSessionUser`, for any tabs, users
and faults. `Guarded` says that a tab running an operation is loading and that a tab
which settled stands where its guards leave it: guards are idempotent
(`GuardIdempotent`), so one redirect is enough. `OneSessionEach` makes the session an
operation will open new: no cookie, session or other operation has its number.
`Trusting` says for every operation and step what a tab that nothing happened behind
already knows of the cookie's session, before the answer has reached its page.
`AuthAssumption` restricts the addresses typed to known routes and the boot states to
sets of users.

`SettingsPage_proofs` proves every safety property of the settings page, for any settings,
passkeys, names, sessions, clicks and faults: `SettingsTypeCorrect`,
`SettingsFormAgrees`, `SettingsSingleFlight` and `SettingsListsAgree`.

- `TypeInv` adds to the types that requests and the dialog name the passkey or session
  their kind is about (`CallFits`, `DialogFits`), and that finitely many requests are in
  flight, so that a new one finds a number of its own (`FreshFits`).
- `FormInv`: the general tab has at most one request, the one its flags tell of, and
  `Promise` says what it will do to the form. The answer to a load is what the server
  stores; a write carries the form; until it is accepted the server has what
  the form showed before, for a retention preset the value that is put back on refusal.
- `FlightInv`: a destructive request, or the listing that completes one, runs alone behind
  the locked dialog whose item and kind it has, so an answer that closes the dialog
  closes its own.
- `ListInv`: `Due` says for each list how screen and server differ while the one change of
  it is in flight, also between the optimistic removal of a session and its answer; a
  listing that nothing overlapped (`clean`) has the server's list.

`SettingsAssumption` types the initial states, keeps `None` apart from the kinds of
destructive requests and makes the bounds natural numbers.

Only model-checked:

- liveness (`CatchesUp`, `SweepEnds`, `RemovedCardsLeave`, `Settles`, `Drains`,
  `ViewsSettle`), which is out of the prover's reach;
- `RingIsTail`, as far as it says more than `RingReadsTail`;
- `AutoUpdateKept` on the instance of `flag_ops`, where users toggle.

## Not modelled

- The inside of the handlers of `internal/auth` and `internal/settings`: the pages'
  modules take each as one step, the three UPDATEs of `UpdateSettings` included. What two requests do
  to each other between the statements of one handler (the count and the insertion of
  `SetupAdmin`, the sliding of a session beside its revocation, the one-time use of a
  passkey challenge) is therefore not covered, nor are the login limiter and the
  expiry of sessions, which depend on the clock.
- What a page leaves to its libraries: lines xterm has queued and not drawn when the
  terminal is cleared, and toasts React mounts anew.
- The Tailscale node's lifecycle, which is an external library's.
- Container logs, audit writes, mail, notifications: input and output without state that
  another part reads back.
- In `Settings.tsx` the registry list and the relying-party line, which are loaded and
  shown; in `SystemLogs.tsx` the expanded rows; `Dialog.tsx` (focus and scrolling),
  sorting, statistics, formatting and layout.
- Generated clients, configuration parsing, the password policy: no state that changes.
