# A TLA+ development of learn_pg

learn_pg shows what happens inside PostgreSQL: a collector (Rust) observes WAL
records and kernel probes and sends events over a WebSocket to a backend (Go),
whose hub forwards them to browsers (React).  The backend also keeps a
workspace of projects, clusters, nodes and hosts in a JSON file, connects to
PostgreSQL nodes, provisions instances with docker, pg_ctl and docker-compose,
and has a rate limiter, a telemetry store, an audit log and an error reporter.
The page edits the workspace, follows provisioning tasks, and draws what the
events and the backend's answers tell.

Every definition that models code is listed in `PROJECT.json` under `map` with
the lines it stands for.  Definitions introduced by a comment that begins with
"Slip:" are plausible mistakes in the definition that follows them; replacing
the one by the other makes a property fail, which shows that the property
depends on that code (`mutants` in `PROJECT.json`).  Nothing else uses them.

## Inventory

### Backend and collector

| Part | State | Operations | Talks to | What is hard | Module |
|---|---|---|---|---|---|
| Hub (`backend/internal/ws/hub.go`) | map of clients, a buffered channel and two goroutines per client | register, unregister, broadcast, forward, evict, stop | collector and browsers by WebSocket; handlers by `Broadcast` | sends racing with closes, lock upgrade in the broadcast loop, ending of goroutines | `Hub` |
| Workspace store (`api/workspace_store.go`, `secrets.go`) and CRUD handlers | the JSON file, the encryption key | create, change and delete projects, clusters, nodes, hosts; node status | all handlers | reads and writes in separate critical sections, kill while writing, key changes | `Workspace` |
| Connection manager (`connection/manager.go`) | configurations, clients, the active node | Register, Unregister, Activate, Deactivate, Close, GetActive | PostgreSQL; all inspection handlers | the active node read outside the lock | `ConnManager` |
| Node lifecycle (`api/node_handler.go`, parts of `handler.go`, `provision_discovery.go`, `discovery.go`) | persisted status, connection manager | activate, deactivate, register, connect, import, overview | workspace store, connection manager | several writes per request, restarts | `NodeLifecycle` |
| Provisioning (`api/provision.go`, `internal/provision`, `task_crud.go`, `cluster_handler.go`) | tasks in memory and on disk, instances outside the process | provision single and replica, delete task, teardown, delete cluster | docker, pg_ctl, docker-compose, workspace | partial failure, cancelled clients, restarts | `Provision` |
| Rate limiter (`ratelimit/ratelimit.go`) | token buckets | take | every request | times read before the lock | `RateLimit` |
| Telemetry store (`telemetrystore/store.go`) | map of events, file | Record, purge, cap, flush, Close | browsers' error reports | flush without the lock, two flushers at Close | `TelemetryStore` |
| Audit log (`auditlog/auditlog.go`), error reporter (`reporter/reporter.go`), `Recover`, shutdown order of `main.go` | two bounded queues, a worker each | log, close; capture, send, shutdown; signal, stop one part after the other | every handler | handlers that outlive the server's shutdown, a drain against late reports | `Shutdown` |
| Collector (`collector/src/main.rs`, `wal_file.rs`) | set of seen LSNs, bounded channel, connection | poll, push, send, reconnect | hub | events lost with a connection, the set at its limit, restarts | `Collector` |
| WAL and CLOG parsers | none | parse | collector, handlers | page boundaries | not modelled |
| Inspection handlers, other middlewares, configuration, metrics, packaging | none of their own | - | - | - | not modelled |

### The page (`frontend/src`)

| Part | State | Operations | Talks to | What is hard | Module |
|---|---|---|---|---|---|
| Workspace state and saves (`App.tsx`, the three home views) | projects, selection, save timer | every edit, delayed save, loads, creation from a template | workspace handlers | overlapping saves, stale loads, other writers, leaving the page | `AppWorkspace` |
| Task banner and toast (`App.tsx`, `ToastNotification.tsx`) | the task shown, its copy in localStorage, timers | create, poll, refresh, dismiss, resume | task handlers | answers about another task, answers after a dismissal | `AppTask` |
| Recent tasks (`App.tsx`) | open or not, filter, list | open, close, filter, interval | task handlers | an interval with an old filter, late lists | `RecentTasks` |
| HTTP client (`lib/api.ts`) | the loop of one call | send, time out, retry, abort | all handlers | retries of what was already done, abort in a pause | `ApiClient` |
| Error reporter, web vitals, boundary (`lib/errorReporter.ts`, `lib/webVitals.ts`, `ErrorBoundary.tsx`) | two queues, timers, breadcrumbs | capture, flush, post, reset | telemetry handler | forced flush against a timer, queue without a timer | `BrowserTelemetry` |
| Host page (`HostManagementView.tsx`) | list, one form for add and edit | add, edit, delete, scan, import | host handlers | overlapping operations on one form | `HostView` |
| Cluster page (`ClusterHomeView.tsx`) | overview, topology, alerts | overview effect with its interval | cluster handlers | answers of the cluster shown before | `ClusterOverview` |
| Import on the cluster page | scan, log, highlight | scan, import an instance or a DSN | discovery handlers | overlapping imports, failed reloads | `NodeImport` |
| Node activation, node page (`NodeHomeView.tsx`, `pgStore.ts`) | view, selection, active node, edit form | activate, select, edit, save | node handlers | three names for "the node", crossed activations | `NodeActivation` |
| SQL, WAL, CLOG pages | the last answer | ask | inspection handlers | crossed answers | `NodePages` |
| Event store, visualization hook | last events | addEvent, derived views | hook of the socket | the window against what is derived | `EventView` |
| Snapshot of locks and transactions (`App.tsx`) | snapshot | effect with interval | inspection handlers | late and failed answers | `SnapshotView` |
| Template dialog (`TemplateDialog.tsx`, `types/template.ts`) | choice, parameters, mode | choose, change, confirm | `App.tsx` | parameters of another template | `TemplateChoice` |
| WebSocket hook (`hooks/useWebSocket.ts`) | references, timers, sockets | connect, disconnect, socket events, timers | hub | events of old sockets, timers racing with calls | `UseWebSocket` |

## The modules

**`Hub`** has one process for `Run`, a read pump and a write pump per
connection, and callers of `Broadcast` and `Stop`.  `runPc`, `readPc`, `writePc`
and `servePc` are their positions.  A step under `h.mu.Lock` is one action,
enabled when nobody holds the read lock (`Unlocked`); a loop under `RLock` takes
one action per client, in any order, because other holders of the read lock run
in between.  The eviction of a slow client, which gives up the read lock, is
therefore split in the two places where the code gives others a chance to run
(`BroadcastTo`, `EvictLocked`).  Channels are sequences with a capacity and a
closed flag; a send on a closed one sets `panicked`.  `got` and `sent` are
histories.  The upgrade of the HTTP connection and the origin check are left out.

**`Workspace`** is the file, the temporary file, the mutex and the requests.
`SplitRead`/`SplitWrite` are the operations that read in one critical section and
write in another (`upsert`, `deleteByID`, `appendCluster`, `appendNode`, and `PUT`
of a snapshot); `LockedUpdate` and `HostUpdate` are the ones that do both in one.  Every write
is `StartWrite`, then `Rename` or `WriteError`; `Restart` may come at any point
and may bring another key or none.  A password is its text and the stack of keys
it is encrypted with.  Passwords are not empty (an empty one is never
encrypted), and projects and clusters are created without nested nodes except by
the snapshot.  `fresh` and `writeKey` are histories.

**`AtomicStore`** is what the store promises the handlers: a list of projects and
one of hosts, a request that asks and sees them as they are, and one step in
which its change is made or given up; no keys, files, locks or half writes.
`Workspace` implements it (`StoreAtomic`): what is stored is the file as a reader
who knows the keys sees it, the change is made by `Rename`, and a kill or a failed
write gives it up.  A split operation is promised only that it is made on what
its request saw, which is what the code does, and that is why two of them can
undo each other.

**`ConnManager`** numbers connections; a connection is open or closed and belongs
to a node.  `GetActive` is two actions, the atomic load and the lookup.

**`NodeLifecycle`** instantiates `ConnManager`'s state and puts the handlers
above it: every handler is a sequence of actions at the points where it reads
the workspace, writes a status or calls the manager.  A status write may fail: the
handlers end on the error of "connecting" and ignore that of the outcome
(`node_handler.go:80,86,172`).  `WriteBack` is what `PUT` of the projects and the
split writers of the store do to a node: its settings and status become what
they were at some earlier time.  `settled` and `spoilt` are histories: the last
activation or deactivation of the node ran alone, wrote its statuses, and
nothing changed it since; the last outcome was not recorded, or was overwritten.

**`RateLimit`** counts time in ticks and tokens in parts, so that every refill is
a whole number; rounding of floating-point numbers is left out.

**`TelemetryStore`** keeps the map, the file, and two writers, the flusher and
`Close`.  What a flush reads of a map that changes under it is a
nondeterministic mixture (`SeenKeys`, `SeenEvent`), and the runtime may detect the race and
end the process (`crashed`).

**`Provision`** follows the handlers step by step; a command may fail, may fail
half way (`faulty`), and does not run under a cancelled context.  Instances and
files survive a restart.  A write of the task file may fail, which the code
ignores; `unsaved` are the tasks whose last change is not in the file for that
reason, `stale` those of them at the end of a process, `gone` the ones deleted
after their request had ended.

**`UseWebSocket`** has the references of the hook, its timers, and the sockets it
made, whether referred to or not.  A timer that was overwritten without being
cleared becomes an orphan that still fires.  Delays are left out.

**`Shutdown`** has the handlers, `main` after the signal, the worker of the audit
log, the sender of the reporter and the goroutines `Recover` starts.  A handler
makes one audit record and perhaps one report, known by the handler; it may dial
a database before, holding the lock of the connection manager until the dial has
an answer.  What `main` closes besides (hub, connections, telemetry store) are
modules of their own and one step here, which waits for that lock.  `early` and `late` are histories: the reports that were queued when
`Shutdown` was called, the handlers that met a closed sink.

**`Collector`** is the polling of the last two segments with the set of seen
LSNs, the bounded channel, and the sender with its connection, which may break
without the sender noticing.  A record is its LSN.  `delivered`, `lost` (with a
connection or a restart) and `cut` (passed over at the limit of a poll) say what
became of a record; `forgotten` are the records that have dropped out of the set,
`restarted` and `unread` say that the collector was started again and that a segment
could not be read.

**`AppWorkspace`** is the list of projects in the page, the list in the backend,
the saves (`puts`) and loads (`gets`) that are on their way, the save timer, and
the creation of a project from a template with its undo (`flow`): how far the page
is, and what has become of the request it sent.  The backend adds the cluster to
the stored list in a step of its own (`appendCluster`), before it answers and
whether or not the page still waits; the answer of a save or of that request may
be lost after the backend has done its part (`PutFails`, `provisionRefused`).  Each
edit of the three home views is an action; the effects that follow a render
(repair of the selection, start of the timer) are part of it.  `exposed` records
that one of the named ways to lose data has occurred; nothing is claimed of what
follows.

**`AppTask`**, **`RecentTasks`**, **`HostView`**, **`ClusterOverview`**,
**`NodeImport`**, **`NodeActivation`**, **`SnapshotView`** and **`NodePages`** follow one pattern:
requests under way are a set, each with the answer read or still to be read,
effects and intervals are actions, and the page's state is what the handlers of
the answers assign.  Where two requests may cross, a history variable (`mixed`,
`overlap`, `actsCrossed`, `queriesCrossed`, ...) says that they did.  `HostView` has
`emptied` and `blanked` for the two ways in which the form of an edit loses its
fields, and the hosts that were saved so; opening, saving and closing the edit
form of `ClusterOverview` are actions, between which the cluster may change.  **`EventView`** computes what the
visualization hook computes from the events in the store and compares it with
what all received events give.  **`TemplateChoice`** is the dialog and the project
a template builds.

**`ApiClient`** is the loop over the attempts of one call; an attempt that was
sent may be carried out by the backend at any later time, also when the client
has given up waiting for it.

**`BrowserTelemetry`** has the queues of errors and of web vitals with their
timers and posts, the settings, the breadcrumbs and the error boundary.

### Compositions

**`NodeLifecycle`** runs the handlers over the connection manager they share, and
**`AppWorkspace`** runs the page against the stored workspace and its other
writers. **`Frontend`** holds the thirteen other parts of the page, which share
no state, in one instance: a behaviour is one of one part, chosen in the first
state, and the others stay as they start, so that the state space is the sum and
not the product of the parts. **`MCServices`** does the same for `ConnManager`,
`RateLimit`, `Shutdown` and `Collector`.

**`MCBackend`** does it for `Hub` and `Provision`. **`MCHub`** starts the hub
late, in two states `Hub` reaches, for its liveness. `MCWorkspace` adds a
symmetry set. **`Lists`** has the searches and filters of lists of records that
the store and the page share, and the order of a set of LSNs; `ListLemmas`
proves what they return. `BackendProofs` (`Hub`, `Provision`),
`WorkspaceProofs`, `AppWorkspaceProofs`, `NodeLifecycleProofs`,
`TelemetryProofs`, `ServicesProofs` (`RateLimit`, `Shutdown`, `Collector`,
`ConnManager`) and `FrontendProofs` hold the theorems.

## The runs

| Run | Checks | Bounds and why they suffice |
|---|---|---|
| `backend` | `TypeOK`, `NoPanic`, `PerSourceOrder`; `FailedCleansUp`, `ClusterRuns`, `DeletedStaysDeleted`, `TaskHonest` | hub: two connections, buffers of one message, two messages per peer, one broadcast, so that full buffers, evictions, double unregisters and stop all happen.  Provisioning: two requests, one of each kind (they meet in the task file only), any providers, one restart |
| `hub_live` | `StopReturns`, `DeadPeerLeaves`, `DroppedPumpsExit` | a sender's connection after another has come and gone, two messages, three broadcasts: the buffer fills and the client is evicted; and two connections after the broadcasts, two messages forwarded from one to the other |
| `hub_stop` | `StopLetsPumpsExit`, violated | one connection |
| `workspace` | `FileWhole`, `PasswordsSealed`, `CommitsExactly`, `StoreAtomic` | two requests, one of each kind of object, two keys and none, five updates: creation of the whole hierarchy and two further updates that overlap |
| `workspace_hosts` | `HostsPersist`, violated | two updates |
| `services` | `ClientsOpen`, `ResultConsistent`, `WindowBound`, `NoDebt`, `AuditKept`, `ReportsAccounted`, `CollectorSound`, `ServicesProgress` | manager: two nodes, four connections, one reader; limiter: three requests at a time, a bucket of two tokens, times 0 to 3 (both also proved without bounds).  Logs: two handlers and queues of one, so that a queue is full, closed and drained while the other handler is late or dials.  Collector: four records in segments of two, a poll of two, a set of three, a channel of two, two breaks or restarts: a poll passes records over, the set is cleared, the channel is full, a segment cannot be read |
| `services_stop` | `ShutdownEnds`, violated | two handlers, everything else at its least |
| `node_lifecycle` | `ReadyIsConnected`, `ConnectingSettles` | one node and the direct connection, two settings, two requests at a time, three in all, three connections, one change from outside (an edit, a register, or an old list written back), one restart |
| `telemetry` | `CountsHonest`, `CloseDurable`, `EventuallyWritten` | two hashes for one place, three reports, one restart |
| `telemetry_race` | `ConcurrentUse`, violated | as above |
| `app_workspace` | `ShownIsStored`, `FailedCreateGone`, `SelectionHolds`, `NoLossAlone`, `SyncTerminates` | two operations of the user, who moves between views and selections before the last of them only, seven ids, two saves and one load under way, one failure: an edit during a save, an edit during a load, a failed save that landed and one that did not, an overtaken one, a creation that fails half way and one that is carried out although the page has given up |
| `frontend` | `TypeOK`, `ShownHonest`, `DrawnRight`, `ChannelsSafe`, `SavedWell`, `StepsSafe`, `ComesToRest`, `CatchesUp` | per part two or three requests, so that any two answers cross, and one failure; three retries; the edit form opened for one node of each cluster (`EditedNodes`), while an edit is left; an event window of three with four events; three sockets, four calls, a limit of two attempts |

`PasswordsSealed` joins two claims about passwords in the file: at most one layer
of encryption, and none in the clear after a write with a key.  `CountsHonest`
includes that the telemetry store keeps its limit.  The properties of `frontend`
are conjunctions of the parts' own properties, each with its own comment in the
module of the part:

* `ShownHonest`: what a page shows is, or was, the backend's answer for the thing
  it shows, in every order of answers for overviews, snapshots and events, and for
  the rest as long as none of the histories below has occurred (`BannerHonest`, `SuccessReloads`, `HostListFresh`, `OverviewOfShown`, `HighlightShown`,
  `ActiveAgrees`, `NodeViewNeedsNode`, `NodeShownIsActive`, `SnapshotKept`, `EventsRecent`,
  `AnswerIsLast`).
* `DrawnRight`: what the pages compute from it says the same (`TopologyAgrees`,
  `LockGraphFaithful`, `CellsExact`, `StagesAgree`).
* `ChannelsSafe`: a call that must not be retried is carried out at most once, a
  refusal ends a call, a value answers the last attempt (`CallSafe`); reports are
  posted once and none is stranded (`PostedOnce`, `NoneStranded`, `ReportedOnce`); no timer
  that connects is left by a disconnect, if the url is valid (`CancelHolds`); one
  socket at a time, if `connect` was not called while one was closing (`OneSocket`);
  `GivesUpAtCap`.
* `SavedWell`: no host is added blank, and one loses its fields in two ways only; no
  project is built from the parameters of another template.
* `StepsSafe`, an action property: a closed banner stays closed, nothing is sent
  after an abort, breadcrumbs stay within their limit, an edit is saved to the node
  that is selected, which is the one it was opened for unless a reload has moved
  the selection.
* `ComesToRest` and `CatchesUp`, liveness: tasks, calls, reports, spinners and imports
  end; lists, overview and snapshot come to show the present; the event stream
  comes back.

Where the code does not keep a promise in every case, the property says in which
it does, and a variable of the module that nothing else reads says that the other
case has occurred.  A pass shows that there is no further way to break the
promise; of what follows one of these it shows nothing:

| Property | Nothing is claimed once |
|---|---|
| `CommitsExactly` | another writer came between the read and the write of a split update |
| `ReadyIsConnected`, `ConnectingSettles` | requests on the node overlapped, a status write failed, the node was edited, or an old list was written over it; the process restarted |
| `FailedCleansUp` | the client has gone, or a command failed half way; the replica's project is not spoken of |
| `DeletedStaysDeleted`, `TaskHonest` | the process ended with the task's last change unsaved (a failed write); a task deleted while its request runs comes back |
| `CollectorSound` | (order) a record dropped out of the set, or a segment could not be read |
| `NoLossAlone`, `ShownIsStored`, `FailedCreateGone` | one of the ways of losing data listed under the deviations (`exposed`) |
| `BannerHonest` | an answer was put on another task (`mixed`) |
| `HostListFresh` | operations overlapped (`overlap`) or an error was taken away by cancelling an edit (`dismissed`) |
| `HighlightShown` | a reload after an import failed or overlapped another (`reloadLost`) |
| `ActiveAgrees`, `NodeShownIsActive` | activations overlapped (`actsCrossed`), failed or went to a node that was not selected (`strayed`) |
| `AnswerIsLast` | queries of one page overlapped (`queriesCrossed`) |
| `CancelHolds` | the url is not valid |
| `OneSocket`, the half-open part of `CatchesUp` | `connect` was called while a socket was closing (`overlapped`) |

`NoBlankHost`, `EditLands` and `CollectorSound` name the bad case and bound it: a
host is blank only by `emptied` edits, an edit goes astray only after a reload
(`editMoved`), a record is unaccounted for never and repeated only when it dropped
out of the set.

Deadlock is not checked where the system may come to rest: the hub after Stop,
handlers when all requests are served, a page the user leaves alone.  It is
checked in `workspace` and `services`, where a request can always arrive or a
process can always be restarted.

### Fairness

* `Hub`: goroutines that can run are scheduled; Go's `select` chooses among its
  ready cases at random, hence strong fairness on what `Run` receives; a pending
  `Lock` holds off new readers, hence strong fairness on the locked sections.  A
  peer need not send, and a write to a peer that is gone need not return while
  the connection is open: the code sets no write deadline.
* `NodeLifecycle`: a call of a request that is not a dial returns once it gets the
  locks it needs.  Nothing is assumed of a dial (`client.go:24-38` sets no limit to
  it): `ConnectingSettles` is stated for behaviours in which no dial goes on for
  ever.
* `TelemetryStore`: the ticker fires, and a write tried again and again succeeds
  at some time.
* `Shutdown`: `main`, the worker and the sender run; a post and the drain have a
  timeout.  Handlers need not end, and a dial need not either: `ServicesProgress` has
  the end of the process under the condition that no dial hangs, and
  `services_stop` shows that without it there is none.
* `Collector`: the thread polls and pushes, the backend can be reached at some
  time, a send ends; and not every send on a broken connection seems to succeed
  (strong fairness on `SendFails`: TCP reports the loss sooner or later).
* The page: timers and intervals fire, every request ends (`api.ts` has a
  timeout), tasks of the backend end, and failures are bounded, which is what
  "in spite of failures" means.  `Poll` of a task is strongly fair, as the interval
  goes on whatever answers arrive.  The user need do nothing.
* `UseWebSocket`: timers fire, connection attempts and closes end, the stale timer
  fires when nothing arrives.

## The proofs

TLAPS checks the theorems for every value of the constants: any number of
connections, requests, handlers and records, any capacity, limit or number of
failures.  Each safety property is proved from an inductive invariant: it holds
at the start, every step keeps it, and it implies the property.

* `BackendProofs`, for `Hub`: `HubTypeOK`, `HubChannelInv`, `HubNoPanic`, `HubPerSourceOrder`.  `NoPanic` is not
  inductive: one must know why the channel a loop is about to send on is open.
  `ChannelInv` says it: a registered client's channel is open; a loop under the read
  lock visits only clients that are registered; the client being evicted is
  registered and not in the rest of the loop; a client not yet registered has not
  been closed.  It is inductive together with `TypeOK`, and `NoPanic` is one of its
  parts.  For `PerSourceOrder`, `OrderInv` adds that the broadcasts that wait, and the
  one Run has taken, carry successive numbers (`Queued`), that a read pump forwards
  the last message it has read, and not to its own client (`Forwards`), and that
  what a client has been or is to be given of one source is no younger than the
  last message of the source, and older while a loop has still to offer that one
  (`Lines`): so what a loop appends is above all there is of its source.
  Assumptions: capacities are positive, senders are connections, the server is
  not a connection.
* `WorkspaceProofs`: `WorkspaceFileWhole`, `WorkspacePasswordsSealed`, `WorkspaceCommitsExactly`,
  `WorkspaceStoreAtomic`.
  The invariant: a request writes exactly when it holds the mutex (`Exclusive`); what
  was or will be written by a process with a key is encrypted (`Sealing`); what a request is about to rename is, for a reader, the file with the
  request's update applied, as long as nobody renamed in between (`Prepared`).  The
  last one needs that every update commutes with `View` (passwords without their
  layers), which is lemma `ApplyView`, one case per operation; the lemmas about
  searching, replacing, appending and removing in nested lists are in `ListLemmas`.
  The refinement adds `Made`: the file a request is about to rename is, for a reader,
  its operation made on what it saw (a split one) or on what is stored (a locked
  one, or one on hosts), whichever key is there by then.  With it every step of
  `Workspace` is one of `AtomicStore` or changes none of its variables (`StoreStep`).
  Assumption: `NoRequest` is not a request.
* `BackendProofs`, for `Provision`: `ProvisionFailedCleansUp`, `ProvisionClusterRuns`,
  `ProvisionDeletedStaysDeleted`, `ProvisionTaskHonest`.  The invariant ties the position of a request to its instances
  (`Instances`: none before it starts one, its primary from then until the cluster is
  saved, its replica once it is past it) and to the workspace (`Saved`), and the
  tasks in memory and in the file to the outcome of the request (`Told`, `Deleted`).
  That an outcome in the *file* is true, too, and that what is not `unsaved` is in the
  file as it is in memory, is what a restart needs.
* `ServicesProofs`:
  `RateLimitTypeOK`, `RateLimitWindowBound`, `RateLimitNoDebt`.  `WindowBound`
  speaks of grants and must be tied to the tokens.  `tokens - Rate * last` is what
  a bucket would hold at time 0; a take at any time, early or late, leaves it as
  it is or lowers it (when the refill is capped), and a grant lowers it by a token.
  So what a window was granted was in the bucket when the window began (`Spent`),
  and, as a bucket is not in debt right after a grant, the bound follows.  `Past`
  (stored times are not in the future) and `Unused` (a bucket that does not exist
  has granted nothing) complete the invariant.  Assumptions: capacity and rate are
  natural numbers, a token has at least one part.
  `ShutdownAuditKept`, `ShutdownReportsAccounted`: a record that Log took is in the sink,
  at the worker or in the log, and the worker ends with an empty sink that is
  closed (`Kept`); handlers are left after `srv.Shutdown` only if it timed out (`Waited`);
  a report queued before the stop is in the queue, at the sender or accounted
  for, and the sender ends only after the stop (`Drained`).
  `CollectorIsSound`: what waits or was sent is in the set of LSNs or has dropped out
  of it (`Known`), and what was found is reported or passed over (`Settled`); as long
  as none dropped out and every segment was read, what waits is ascending and above
  what was sent (`Ordered`), and the set holds, up to some record, all of the last two
  segments (`Covered`), so that a poll finds only later records.  Assumption: the limit of a poll and the size of a segment are positive.
  `ConnManagerTypeOK`, `ConnManagerClientsOpen`, `ConnManagerResultConsistent`:
  `Numbered` adds that the numbers in the map and in the results are below the next
  one, so that a new connection is none of them and opening it changes the owner of
  no other.  Assumptions: `NoNode` is not a node,
  `MaxClients` is a natural number.
* `NodeLifecycleProofs`: `NodeReadyIsConnected`, `NodesClientsOpen`.  `ReadyIsConnected` speaks of a node without
  requests; the invariant (`Steady`) says what leads there.  As long as a node is
  settled (its last activation or deactivation ran alone and wrote its statuses), one request at most is on it, and what that request has done so far
  still holds (`Stage`): the settings it has read are the workspace's, then the
  manager's, and it is about to record "ready" only if it has dialled with them; a
  request that opens a connection without recording it does so only while the node
  is not "ready".  `Numbered` says that a new client takes the number of none that is
  held, so that requests on other nodes and direct connections change nothing.
  `NodesClientsOpen` carries the manager's promise (`ClientsOpen`, proved of
  `ConnManager` alone in `ServicesProofs`) to the composition, where the manager's
  calls come from interleaved requests, clients are also opened that no entry holds
  (`Probe`), and the process restarts: `Held` is that promise with the types of the
  owners and of the active node, inductive together with `Types` and `Numbered`.
  Assumptions: "__direct__" is no node, `MaxClients` is a natural number.
* `TelemetryProofs`: `TelemetryCountsHonest`, `TelemetryCloseDurable`.  No map that a writer
  has read, as it was or half-way, counts more than was reported (`Counted`); Close
  writes only when the flusher has exited (`Alone`); and what it is writing agrees
  with the map on every event that was not touched since (`Agreed`).  Assumptions: the
  limit of events is positive, retention and times are natural numbers.
* `AppWorkspaceProofs`: `AppShownIsStored`, `AppFailedCreateGone`, `AppSelectionHolds`,
  `AppNoLossAlone` (an action property).  Every list, on the page, stored, in a save or in
  an answer, has projects of different ids that were given out, and clusters with
  nodes (`ListOK`): so an id that is new is none of a list's, and a replacement
  replaces one project.  Rendering repairs the selection (`Selected`).  The rest holds
  as long as nothing has exposed an edit: before the list is loaded nothing is on
  the page or on its way (`Blank`); one save at most is on its way, and unless the
  timer runs it carries what is shown, so that with no save pending and no error
  the page shows what is stored (`Current`); what is stored is, but for what was
  removed, in the save and on the page (`Kept`), so that a save that lands loses
  nothing; and a project whose creation failed is gone (`Undone`).  A load that is
  applied then brings what is already shown, or comes first.  All edits follow from
  one lemma (`EditInv`) about what they make of the list (`Change`).  The proof does
  not need the bounds.
* `FrontendProofs`: `FrontendTypeOK`, `FrontendShownHonest`, `FrontendDrawnRight`,
  `FrontendChannelsSafe`, `FrontendSavedWell`, `FrontendStepsSafe`.  One section per part with an inductive invariant
  of its own; a step of the page is a step of one part in which the others stay
  (`PartSteps`), so their conjunction `FrontInv` is inductive.  The arguments that are
  not plain: for `ApiClient`, the counter of the loop bounds what was sent (`Counted`), a
  pause is entered only by a call that may be retried and has attempts left
  (`Asleep`), a refusal leaves no way back (`Refused`); for `UseWebSocket`, a url that is
  valid never orphans a timer and any other never has a socket (`Url`), and before
  an overlap heartbeat and stale timer run only for a socket that has been open
  (`Single`); for `BrowserTelemetry`, reports are in one place only (`Apart`); for
  `HostView`, an operation that has yet to reload is why the list may be old
  (`Fresh`), and the form of an edit lacks fields only when the user or an addition
  emptied it, or the host was saved so (`Filled`); for
  `NodeActivation`, the node being activated is the one selected as long as nothing
  parted them (`Steady`).  `DrawnRight` is about what loops over lists compute: the
  cells after the first n events are those of a count over them (`CellRight`), the
  lock graph after the first n rows that of these rows (`GraphRight`), and both are
  carried to the whole list by induction on n, which `ListLemmas` has in two forms
  without operators as parameters: a set of numbers that contains 0 and with each
  number the next contains all (`UpTo`, by the least one it lacks), and a loop has
  its values (`LoopExists`).  The two ends of the replication pair differ because
  they are two places of a list whose ids are its own (`OwnIds`).  Assumptions: the bounds are natural numbers, some of them
  positive; the window holds at least two events.

Every safety property the passing runs check is proved.  Only model-checked,
because fairness is outside the prover's reach, are the liveness properties.

## Deviations met while modelling

Four are shown by runs:

* `hub_stop`: the read pump sends on `unregister` (`hub.go:201`) after `Run` has
  returned; nobody receives, and the goroutine stays.
* `workspace_hosts`: `writeAll` (`workspace_store.go:216`) writes projects only, and
  every host is lost when a project, cluster or node is created.
* `telemetry_race`: `flush` (`store.go:296`) encodes the live map after it has
  released the lock.
* `services_stop`: `connMgr.Close` (`main.go:188`) waits for the lock that `Activate`
  (`manager.go:77-90`) holds while it connects and pings without a timeout
  (`client.go:24-38`), so that a dial that hangs keeps a process alive that was told
  to stop, against `main.go:184` "Each step has its own bounded timeout so a stuck
  dependency can't pin the process forever".

Others are visible in the modules, which follow the code; the properties are
stated so that they do not claim what the code does not do:

* `Activate` replaces the client of a node that is connected already without
  closing it (`manager.go:92`): `Close` leaves that connection open, against the
  comment at `manager.go:98`.
* `Middleware` reads the time before the bucket is created (`ratelimit.go:161,189`):
  the first take may compute a negative elapsed time and lose tokens, so that a
  first burst within `Capacity` can be refused.  `NoDebt` shows that the tokens
  come back.
* `enforceCapLocked` (`store.go:238`) may drop the event just recorded when another
  has the same or a later `LastSeen`, against the comment at `store.go:179`.
* A failed provisioning undoes nothing when its client has gone
  (`provision.go:169`), and a failed `docker-compose up` is not undone
  (`replica.go:60`), where `docs/apply.md:93` asks for a rollback.
* Teardown (`cluster_handler.go:59`) takes a local instance for a docker container
  and never takes a compose project down, and removes the cluster all the same.
* After a restart a task stays `running` (`provision_discovery.go:100`) and a node
  stays `ready` or `connecting`.
* In `useWebSocket.ts` the close event of an old socket drops the reference to a
  newer one (line 254).  StrictMode's mount, unmount, mount reaches this: the hook
  then has two sockets, delivers events twice, and an unmount closes only one,
  against "Clean cancellation when the consumer unmounts".  `connect` does not
  reset the backoff counter, against its comment on line 71, "Resets the backoff
  counter".  With a url that
  is not valid, a timer survives `disconnect`.
* A handler that outlives the ten seconds of `srv.Shutdown` logs to the closed
  audit channel and panics; `Recover` catches it (`auditlog.go:132`).  A report that
  `Recover` starts (`recover.go:35`) after the drain is in no count.
  `Config.FlushTimeout` (`reporter.go:39`) is not used by `Shutdown`.
* Two split updates of the workspace may undo each other (`workspace_store.go:241`),
  and `PUT` of the projects or a split update puts back the `connectionStatus` it has
  read earlier, so that a node is "ready" after it was deactivated, or
  "connecting" with no request on it.  The same comes of a failed status write,
  which the handlers ignore (`node_handler.go:80,86,172`).
* A failed write of the task file is ignored (`provision_discovery.go:117-130`): after
  a restart a task that had ended is `running` again, and a deleted one is back.
  A task deleted while its request runs is written back by the next report.
* The collector loses the event it has taken when the send fails
  (`main.rs:115`); it does not act on what it reads (`main.rs:122`), so that a broken
  connection is noticed by a send only; records beyond the limit of one poll are
  marked as seen and never reported; when the set of LSNs is cleared
  (`wal_file.rs:45`), or after a restart, records are reported again.

In the page:

* Data is lost when the list cannot be loaded at the start and the empty one is
  saved; when an edit is made before the list arrives; when two saves arrive in
  the other order; when a load older than an edit is applied; when provisioning
  or an import writes between the page's load and its save, also when the page has
  given the creation up because its answer was lost; when the page is left within
  250 ms of an edit or after a failed save.  `NoLossAlone` says these are all the
  ways.
* "Preview" of a template stores the project: `TemplateDialog.tsx:155` says it does
  not call the backend and does not write to the workspace ("不调用后端，不写入
  workspace"), but `App.tsx:352-365` adds it to the list, which the save effect
  (lines 270-279) writes.
* The interval of the recent tasks keeps the filter of the time the panel was
  opened.  A late poll answer may be put on the banner of another task.
* `api.ts` notices an abort during a pause only when the pause is over.  A POST
  that timed out may have been carried out when it is sent again.
* Telemetry batches that fail to post are dropped.
* `alertThresholdSec` is compared with the lag in MiB; `pickChannel` matches names by
  substring; the replication pair may be one node twice.
* The buttons of a node's card activate it without selecting it; a failed
  activation navigates all the same; overlapping activations may end with the
  page and the backend on different nodes.  The edit form of the node page is
  filled from the store's default configuration and saved to whichever node is
  selected then.  `connected` of `App.tsx` is never reset.
* Adding and editing a host share one form: an addition that ends under an edit
  clears its fields, and `handleUpdateHost` (`HostManagementView.tsx:96`) does not check
  them, so that a host is saved without name or address, as it is when the user
  empties them.  No code that runs navigates to the host page.
* The edit form of a node on the cluster page stays open, out of sight, when
  another cluster is selected.
* The import button of a found instance is not disabled while it runs; a failed
  reload after an import is logged as a success.
* The slider of the single template goes to eight nodes; one is built.
* Ctrl+Enter in the SQL console does what the disabled button would not.
* The CLOG page counts under `in_progress` and shows `in-progress`: the figure is
  always 0 (`CLOGViewer.tsx:44`).
* The lock graph has edges from backends to locks only, so its search for a cycle
  finds none, where `docs/planning.md:67` names deadlock detection ("死锁检测").

## Not modelled

* Drawing components: layout and animation of what `EventView` and `SnapshotView`
  compute.  `ConnectionManager.tsx`, `Sidebar.tsx` and `ClusterView.tsx` are never mounted.
* The byte parsers of WAL and CLOG, in the collector and in the backend, and the
  eBPF probes and threads: data without protocol.
* Inspection handlers, the other middlewares, configuration, metrics, OpenAPI,
  packaging: no state of their own.
* The SSH provider and the batch scan of provisioning; `Flush` and `CapturePanic` of
  the reporter and `clearEvents`, `setEvents` of the event store, which nothing but
  tests calls.
* React's StrictMode, which runs effects twice in development; it is discussed
  for the WebSocket hook only.

## Plan

1. The collector composed with the hub, for the path of an event to the browser.
2. The WAL segment parser and the CLOG reader as operators, checked against a
   reference on small pages.
