# TLA+ models of the openstorage credential manager and REST control plane

This directory holds TLA+ modules for the Go sources under `src/`, checked
with TLC. `PROJECT.json` lists the components, the runs, the mutants (a
plausible bug per checked property, which TLC must catch), the map from each
definition to the source lines it translates, the findings and the hazards.

## 1. The system

| Component | Source | State | Modules |
|---|---|---|---|
| Credential manager | `src/creds/manager.go`, `database.go`, `creds.go` | kvdb key `credentials` (the whole JSON document), one secret per uuid in the secrets backend, kvdb lock `/cred/lock`, the `inst` singleton | `CredStore`, `CredManager` |
| Credential REST handlers | `src/api/server/creds.go` | none; calls `creds.Inst()` | `CredAPI`, `Routes` |
| Driver resolver | `src/api/server/volume.go` (`getVolDriver`) | none; reads the driver registry | `DriverResolver` |
| Volume REST handlers | `src/api/server/volume.go` | none; the driver keeps the volumes | `VolumeSet`, `VolumeAPI`, `Routes` |
| Cloud-backup handlers | `src/api/server/volume.go` | none; the driver keeps the schedules | `CloudSched`, `Routes` |
| Not-supported stand-ins | `src/volume/volume_not_supported.go` | none | stub drivers in `CloudSched`, `VolumeSet` and `VolumeAPI` |
| Cluster REST handlers | `src/api/server/cluster.go` | none; `cluster.Inst()` keeps alerts, members, gossip and configurations | `ClusterAlerts`, `ClusterAPI`, `Routes` |
| Credential client | `src/api/client/creds` | none | `CredAPI` (`ClientReq`), `Routes` |

How the parts interact:
* A REST handler reads its arguments from the body, the query and
  `mux.Vars`, then calls into a manager or a driver and encodes the result.
* gorilla/mux gives a handler only the `{name}` variables of the route
  template that matched. A name the template does not declare reads as `""`.
  `Routes` holds the route tables as data, and every handler model reads its
  path variables through `MuxVar`. Several findings come from this.
* Every credential operation takes `/cred/lock`, reads the whole document,
  changes its copy and writes it back. Requests run concurrently on any node,
  and only that lock orders them.

## 2. Modules

* **`CredStore`** is the abstract store. It has variables `meta` (id to
  metadata) and `secrets` (ids with a stored secret). Each of its actions
  (`AddSecret`, `SetMeta`, `DropMeta`) changes one key atomically.
* **`CredManager`** gives each worker goroutine `pc`, `op`, `uid`, `val`, `db`
  and `ret`. The shared state is:
  * `kv`, the document: absent, corrupt, or a map;
  * `vault`, the uuids whose secret was stored;
  * `lock`, a holder, `NoHolder`, or `Orphaned`;
  * `minted`, the uuids produced so far.

  Each action is one kvdb or secrets call, together with the local code up to
  the next call:
  * `Call` / `Begin` is the call of `List`, `Create`, `Update` or `Delete`;
  * `Acquire` and `LockFail` are `kvdb.Lock`;
  * `Read` and `ReadFail` are `readClusterInfo`;
  * `PutSecret` is `uuid.New` followed by `PutSecret`;
  * `Write` is `writeClusterInfo`, which can succeed, fail, or fail after the
    store applied it;
  * `Unlock` is the deferred unlock, which can fail;
  * `Crash` and `Expire` (TTL) are the environment.

  `Abs == INSTANCE CredStore WITH meta <- Meta(kv), secrets <- vault` is the
  refinement mapping.
* **`CredAPI`** extends `CredManager`. Each goroutine serves one HTTP request:
  `Request` ends in `Reject` (decode failure, or `creds.Inst()` before
  `creds.Init`) or `Dispatch` (a manager `Call`, with the uuid taken from
  `mux.Vars`). The manager steps run as `Worker`. `Respond` is the encoding,
  including the `err.Error()` on a nil error.
  A request is either the one the client library sends for an operation
  (`ClientReq`, with the `v1` version prefix the client adds) or one built
  from the server's own route table (`DirectReqs`). The ghost `named` holds
  the id a dispatched update or delete named, until the response is written.
  mux dispatches it through `Routed`; a request that matches no route gets
  404 or 405 (`noroute`) and no handler runs.
* **`Routes`** holds `VolRoutes`, `CredRoutes` and the full
  `ClusterRoutes`, plus `PathVars` and `MuxVar`. `PathMatches`, `Fill` and
  `Routed` model gorilla/mux matching a verb and a path against a table.
* **`DriverResolver`** models `getVolDriver`'s three registry lookups as
  separate steps, with `ChangeRegistry` between them.
* **`CloudSched`** models one action per handler. The driver is either a
  capable one (schedules kept as spec 4.3 says) or `backupNotSupported`,
  chosen at Init.
  `PassThrough` is the other cloudsnap handlers (backup, restore, catalog,
  metadata, list, delete, change of state): one driver call each, with the
  driver's cloud snapshots left out.
* **`VolumeSet`** models the `volumeSet` request as Set, Attach/Detach,
  Mount/Unmount and then Inspect, with one driver call per step.
  `ProcessErr` is `processErrorForVolSetResponse`. `RemoveVolume` is another
  request deleting the volume. The driver is capable or `blockNotSupported`.
* **`VolumeAPI`** extends `VolumeSet` with the other volume handlers:
  `create`, `inspect`, `delete`, `enumerate`, `snap`, `restore`,
  `snapEnumerate`, `stats`, `usedsize` and `requests`. Each makes at most one
  driver call, so each is one action, interleaved with the `volumeSet`
  steps. `Unresolved` is `getVolDriver` failing (404).
  * Query parameters are abstracted to what the handlers tell apart: a label
    text that decodes or not, a list of ids, and a cumulative flag that is
    `true`, `false` or unparsable.
  * The driver may compose `SnapshotNotSupported` or `StatsNotSupported`,
    chosen at Init (`GroupOutcomes`).
  * `qcall` is the driver call a handler made. The ghost `qdoc` is the call
    the request asks for, or `NoCall` when a parameter is invalid.
* **`ClusterAlerts`** models `EnumerateAlerts`, `ClearAlert` and
  `EraseAlert`, with `HandleResourceType` and `AlertParamsOk`
  (`getAlertParams`).
  * Path texts are abstracted to names, numerals and junk.
  * TLC integers are 32-bit, so the numeral of the 64-bit value
    `hi*2^32 + lo` is the record `[hi, lo]`, and `Int32` keeps its low
    32 bits.
  * The ghost `asked` is the call as the swagger comments document it.
    `DocumentedType` is that reference definition.
* **`ClusterAPI`** extends `ClusterAlerts` with every other routed cluster
  handler, one action each. The manager gains `members`, `gossip`,
  `clusterConf` and `nodeConf`. `Query` is the common shape: `cluster.Inst()`
  (a 500 on failure), one call on the manager, and its error as a 500.
  `DeleteNode` reads the node ids from the query, as the code does, while
  `asked` takes them from the path, as the swagger comment documents.
  Handlers without a swagger comment (gossip) set `asked` to the call made.

## 3. Runs

| Run | Checks | Result and meaning |
|---|---|---|
| `cred_safety` | `TypeOK`, `ListSeesLatest`, `CredsHaveSecrets`, `RefinesCredStore` | pass: the lock makes the read-modify-write atomic, so no update is lost, even with crashes, TTL expiry and ambiguous writes |
| `cred_liveness` | `LockEventuallyFree` (on `CredAPI`) | pass: the lock is always freed again, after every return path, failed unlock and crash |
| `cred_lock_failure_reports_success` | `ReturnedNilApplied` | violation: a `Create`, `Update` or `Delete` may return nil without its change being stored; `Create` does so when `kvdb.Lock` fails (`manager.go:44`, likewise `:77`, `:100`) |
| `cred_client_routes` | `RequestHonoured` | violation: the client's Create, Update and Delete use verbs and paths the server does not route (`client.go:45`), so they get 404/405; and an update or delete that reaches the manager acts on `""`, not on the id it named, because no route declares `{uuid}` (`creds.go:70`) |
| `api_nil_error_panic` | `FailedCreateNotStored` | violation: a create the client sees fail is already stored, because `err.Error()` on nil panics after every successful create (`creds.go:44`); a retry then stores a second credential under a fresh uuid |
| `resolver_precedence` | `ResolvesByPrecedence` | pass: with a stable registry the precedence order holds |
| `sched_not_supported` | `NotSupportedDeclines` | pass: a stub driver keeps no schedules and never answers success |
| `sched_delete_noop` | `DeletedScheduleGone` | violation: the delete route declares no `{uuid}`, so the driver deletes `""` and answers success (`volume.go:818`) |
| `volset_failures_reported` | `FailuresReported` (on `MCVolumeAPI`) | pass: with every other volume handler interleaved, only ErrNotFound is ever rewritten to success |
| `volset_notfound_swallowed` | `AppliedIfOk` | violation: Attach ON on a missing volume, together with Mount OFF, is answered as success (`volume.go:99`) |
| `volume_driver_args` | `DriverAskedAsRequested` | violation: `enumerate` answers 400 for a bad label and still calls the driver (`volume.go:276`); `snapEnumerate` sizes ids by the number of query keys (`volume.go:391`); `stats` takes an unparsable cumulative flag as false (`volume.go:421`) |
| `cluster_alert_request` | `RequestAsNamed` | violation (on `MCClusterAPI`): the resource 2^32+1 is taken as VOLUME (`cluster.go:887`); `timeend` is parsed into `tS` (`cluster.go:705`); the documented `DELETE /cluster/{id}` is answered 400 because `delete` reads the id from the query (`cluster.go:564`) |

## 4. Bounds

* **`MCCredManager`** uses two workers, two mintable uuids, one client-named
  id and two values. Every shared-state change happens under the single
  lock, so two workers are enough to interleave a holder with a contender.
  Workers are symmetric.
* **`MCCredAPI`** uses the empty id `""` as the only client-named id, because
  that is what the handlers pass. The liveness run uses one uuid (`Uuids =
  {u1}`). Liveness depends on the lock and the steps, never on which uuid
  was minted.
* **`MCDriverResolver`** uses two requests, and the names `pxd`, `pxd-sched`
  and `csi`.
* **`MCCloudSched`** uses two schedule ids, which is enough for a create and
  a delete of a different id.
* **`MCVolumeSet`** uses one goroutine and one volume that `RemoveVolume`
  can delete. A call's outcome depends only on whether the volume exists and
  on the driver, so one goroutine reaches every outcome sequence.
* **`MCVolumeAPI`** uses the same goroutine and volume, lists of one and two
  ids (two ids are the case that overruns `snapEnumerate`'s slice), and
  both drivers for each capability group. The pass run uses
  `VIEW HandlerStateView`, which leaves out `qresp`, `qcall` and `qdoc`.
  These are history variables: no action reads them, and
  `FailuresReported` does not read them either, so states that differ
  only in them have the same futures.
* **`MCClusterAPI`** uses two nodes, so that a delete can name one in the path
  and another in the query. It has one configuration, the forceRemove texts
  `true`, `false` and `yes`, a name in another case, a name that is no type,
  1, 5, 2^32+1 and junk. The ids are 7 and junk, and there are two times,
  plus junk.

## 5. Fairness

The liveness run assumes weak fairness of:
* each worker's manager steps: each is a kvdb or secrets call that returns,
  and `kvdb.Lock` gives up after its lock-try timeout;
* `Respond`: a handler whose call returned writes its response;
* TTL expiry: the kvdb frees an orphaned lock.

Client requests and crashes are not fair.

## 6. Not modelled

* **The credential client's handling of responses.** No request it sends
  reaches a handler except List.
* **`volAPI.versions`.** It writes a constant list and changes nothing.
* **The cloud snapshots a driver keeps.** `PassThrough` models only the
  outcome of each call, since the spec puts snapshot mechanics out of scope.
* **`setSize` and `setLoggingURL` in `cluster.go`.** No route reaches them.
* **A property for the resolver while the registry changes.**
  `DriverResolver` does interleave `ChangeRegistry` with the three lookups.
  `ResolvesByPrecedence` judges only requests during which the registry did
  not change, because spec 4.2 says nothing about concurrent registration.
  What happens otherwise is explored but not checked.
* **The drivers, the kvdb, the secrets backend and the cluster manager.**
  They are outside `src/` and are modelled only by what they return.
* **Wire formats, logging and JSON layout.** No property is about them.
