# TLA+ models of the e2b infrastructure fork

These modules model the concurrent and failure-prone parts of the Go code under
`src/packages`. Each module is translated from the source. `PROJECT.json` maps
every definition to the lines it models. It also lists the runs, the mutants
that show each checked property can fail, the findings and the hazards.

Check a run from this directory with `tlc -workers 2 -config <cfg> <MC module>`.

## The system and its parts

| Part | Source | Shared state and concurrency | Module |
|---|---|---|---|
| Orchestrator template cache | `orchestrator/internal/sandbox/template/cache.go`, `mock_template.go` | A `ttlcache` of Templates shared by the request goroutines. A janitor goroutine evicts items, and `OnEviction` calls `Close`. `go Fetch` hydrates a Template after it is inserted. `DiffStore` adds come from `AddSnapshot`. | `TemplateCache` |
| Local template-manager health (API) | `api/internal/template-manager/template_manager.go`, `template_manager_local.go` | `localClientStatus` is guarded by an `RWMutex`. A health goroutine writes it. Request goroutines read it in `getBuilderClient`. | `LocalClientHealth` |
| Build-start handler (API) | `api/internal/handlers/template_start_build.go` and `DeleteBuilds`/`CreateTemplate` | Concurrent HTTP requests share the DB rows (`env_builds.status`) and the builds running on the template manager. | `TemplateBuildStart` |
| Build-start handler with the template-manager client | the two rows above, and `DeleteBuild` | Every `DeleteBuild` and `CreateTemplate` of a request goes through `getBuilderClient` while the health goroutine writes the status. | `TemplateManagerAPI` (composes the two above) |
| Orchestrator process lifecycle | `orchestrator/main.go`, `orchestrator/internal/server/main.go` | Three goroutines under a `WaitGroup`, plus the signal context, `sync.Once` in `Close`, an unsynchronised `shutdown.op`, and `log.Panic` in child goroutines. | `OrchestratorLifecycle` |
| S3 object `ReadAt` | `shared/pkg/storage/s3/object.go` | A ranged `GetObject`, then a read loop over the response body. | `S3ObjectRead`, refining `S3ReadAtContract` |
| S3 `RemoveDir` and template deletion | `shared/pkg/storage/s3/dir.go`, `template-manager/internal/template/main.go`, `storage.go` | A paginated listing with deletes between the pages, then the ECR image. A reader of the same build may run at the same time. | `TemplateDelete`, composed with `S3ObjectRead` in `S3TemplateStorage` |
| Docker reverse proxy: start-up, routing, ECR repository check and token | `docker-reverse-proxy/main.go`, `internal/constants/aws.go`, `internal/handlers/store.go`, `internal/auth/aws.go` | Concurrent token requests check the template's ECR repository and then create it; every AWS call can fail. | `EcrTokenAuth` |
| Proxying, naming, host parsing, header helper, seed script, constants | the rest | Stateless, or run once. | not modelled (see `PROJECT.json`) |

How the parts interact:
- The API's build-start handler calls the template manager through `DeleteBuilds` and `CreateTemplate`. Each call goes through `getBuilderClient`, which reads the local health status. `TemplateManagerAPI` checks this interaction.
- The template manager deletes a build's files with `RemoveDir`, while an orchestrator may still be reading one of them with `ReadAt`. `S3TemplateStorage` checks this interaction.
- The orchestrator's server owns the template cache.
- The cache's storage Templates read their artifacts through `ReadAt`.

`Template`, `Fetch`, `DiffStore` and the block headers are described in `spec.md`, but they are not under `src/`. Only their contact points with the cache are modelled: whether a Template's Fetch was started, and DiffStore membership.

## Modules

### TemplateCache (`cache.go`)

State:
- `entry` and `expiresAt` are the `ttlcache` items.
- `now` is a tick clock.
- `tmpl`, `fetch` and `closes` hold each constructed Template: its key, variant and headers, its Fetch goroutine, and how many times `Close` ran on it.
- `diffStore` holds the `(key, kind)` pairs added by `AddSnapshot`.
- The request goroutines keep their own `pc`, `want`, `held`, `startedAt` and `carry`.
- `cached` is a history variable.

`mock` is `MOCK_SANDBOX == "true"`. The code reads the variable on every call, but nothing in the process changes it, so it is chosen at `Init` from `Modes` and never changes.

Actions:
- `GetTemplate` is storage mode:
  - the constructor runs, then `GetOrSet` executes as one atomic cache operation;
  - `go Fetch` starts only if the key was not found.
- In mock mode, `MockGet` and then `MockSet` run as two separate cache calls, as the code does them. `MockSet` builds the Template with `NewMockTemplate` (`newMockTemplate`: no headers, no Fetch).
- `AddSnapshotDiffs` covers the two `switch` statements.
- `AddSnapshotInsert` and `AddSnapshotInsertFails` cover the constructor and `GetOrSet`, or the error return.
- `Evict` is the janitor calling `OnEviction` → `Close`.
- `StopSandbox` and `Tick` are the environment. No sandbox outlives `MaxLifetime`, which is the assumption stated at `templateExpiration`.
- The Fetch goroutine is recorded only as started. Its end and its outcome are not modelled, because nothing in the cache reads them.

`ttlcache` v3 semantics assumed (the library's documented defaults):
- `Get` and a found `GetOrSet` touch the item: its expiry becomes now + TTL.
- An item is expired once now > expiry and is then invisible to `Get` and `GetOrSet`.
- `Set`, which `GetOrSet` calls after a miss, updates any item still stored under the key in place, expired or not, without an eviction. `OnEviction` runs only when the janitor deletes an expired item.

### TemplateCacheContract and the cache refinement

`TemplateCacheContract` is what the cache promises its callers (spec §4.5 and §5), with no clock and no `ttlcache` items:
- each key has at most one current Template;
- `GetOrCreate` returns the current Template, or inserts a new one when there is none, and never replaces a current one;
- a Template's Fetch starts once, as it enters the cache;
- `Expire` only removes current Templates;
- `Close` closes only Templates that are no longer current, each once.

`TemplateCache` instantiates it as `Contract` with this mapping:
- `current[k]` is the live item's Template, or `None`;
- `made` is `cached`;
- `fetched` is the set of Templates whose Fetch started;
- `closed` is the set closed at least once;
- `served` is `held`.

`CacheRefinesContract` says that in storage mode every step of the detailed module is a step of the contract or a stutter of it. Mock mode is outside the contract: its `Get` then `Set` may build a second Template for a key, but a mock Template has no Fetch and a no-op `Close`.

### LocalClientHealth (`template_manager.go:128-153`, `template_manager_local.go`)

`sync.RWMutex` is modelled as Go implements it: once `Lock` is waiting, new `RLock` calls block.
- The outer `RLock` of `getBuilderClient` is `OuterRLock`.
- Each nested `GetLocalClientStatus` is one step that needs `CanRLock`: `LogStatus`, `PlacementCheck` and `UnhealthyCheck`.
- `PlacementCheck` keeps the `&&` short-circuit, so the status is read only when `placement` is true.
- The health goroutine has three steps: `HealthRPC`, `WriterLock` and `WriterSetUnlock`.

### TemplateBuildStart (`template_start_build.go`)

Each request steps through the handler:
- `LoadBuild` reads the build's status once. Its error returns are 400, 404, 403 and 500.
- `QueryRunning` lists the other builds of the template that are waiting or building.
- `CancelRunning` is `DeleteBuilds`. It returns at the first error, and it leaves the DB rows unchanged.
- `CheckWaiting` tests the status as it was loaded. It also covers the cluster-node 500, a property of the row that is chosen nondeterministically.
- `CreateTemplate` may fail after the template manager accepted the build. On error the handler stores `failed`, and that store may itself fail.
- `SetBuilding` may also fail, in which case the handler returns without answering.
- `BuildEnds` is the template manager finishing a build.

`OneBuildInProgress` states the comment at line 150: the template manager runs at most one build of a template at a time.

### TemplateManagerAPI (composition)

`H == INSTANCE LocalClientHealth` (the callers are the requests, `status` is renamed `tmStatus`) and `B == INSTANCE TemplateBuildStart`. A request's steps that do not call the template manager are `B`'s, each with `UNCHANGED` on `H`'s variables. The steps defined here replace `B`'s free choices with the client's real control flow:
- `CallBuilderClient` starts `getBuilderClient` (`H!Call`) with `placement = false` from `DeleteBuild` and `true` from `CreateTemplate`. `H!CallerStep` then runs the RLock steps.
- `DeleteBuildStep` is one iteration of `DeleteBuilds`. A `getBuilderClient` error or a `TemplateBuildDelete` error ends the handler with 500. Otherwise the build is cancelled and the loop goes on.
- `CreateWithBuilder` is the `TemplateCreate` RPC once the client was returned (`B!CreateTemplate`).
- `CreateNoBuilder` is `CreateTemplate` failing before the RPC: `NewVersionInfo` fails, or `getBuilderClient` returned an error.
- `HealthStep` and `BuildEnds` are the health goroutine and the template manager.

### EcrTokenAuth (`docker-reverse-proxy`)

- `StartupConfig` is `CheckRequired` with `InitAWSConfig` under `sync.Once`. `StartupStore` is `NewStore`. Both end in `log.Fatal` on error. Because the `sync.Once` error is fatal here, every later `GetAWSSession` returns the cached session.
- `Receive` routes a request through `main`'s handler (`Route`, one `CASE` arm per branch, for `CLOUD_PROVIDER=aws`) and parses the token scope. `store.GetToken` is not in this tree. The model takes it to be `HandleAWSECRToken`, the only function it can dispatch to.
- `Describe` and `CreateRepo` are the two AWS calls of `EnsureECRRepositoryExists`. `AuthToken` is `GetAWSECRAuthToken` plus the response.
- `repos` is the shared set of ECR repositories. Each AWS call may fail, and a failure sets the request's `fault` flag.

### S3ReadAtContract and the refinement

`S3ReadAtContract` is what `ReadAt` promises in one atomic `Return` step. The call returns and either:
- reports no error with exactly the in-range byte count, which needs `off < size`; or
- reports an error after at most that many bytes.

`S3ObjectRead` instantiates it with the refinement mapping `returned <- (pc = "done")`, `n <- totalRead` once done, and `failed <- (err # "none")`. It checks `ReadAtImplementsContract == Contract!Spec`. Every internal step of the detailed module is a stuttering step of the contract, and the contract's `WF` makes "every call returns" part of the refinement.

### OrchestratorLifecycle (`orchestrator/main.go`, `server/main.go`)

`local` is `env.IsLocal()`. When it is false, the telemetry goroutine exists.
- `NewServer` either succeeds or ends in `log.Fatalf`.
- `StartDNS`, `Listen` and `SetOp` are the three steps of `Start`, and `ServiceDeferred` is the service goroutine's deferred function.
- `CloseService` is the close goroutine: `Close` runs under `sync.Once`, then `telemetrySignal` is closed.
- `TelemetryShutdown` and `Exit` finish the process.
- `Signal` and `ChildPanic` are the environment. `ChildPanic` is the unrecovered `log.Panic` in the DNS or gRPC goroutine.

`shutdown.op` is written by the service goroutine and read by the close goroutine without synchronisation. The model lets the read happen before or after the write.

### S3ObjectRead (`object.go:137-178`)

Bytes are counted, not stored.
- `GetObject` sends the `Range` header the code formats (`RangeFirst`, `RangeLast`). The object store answers with HTTP range semantics:
  - a range whose last byte comes before its first is invalid and ignored, so the whole object is sent;
  - a range that starts at or after the end of the object gets a 416;
  - any other range is clipped to the object.
- `ReadBody` is one iteration of `readAllFromResponse` against a `net/http` body:
  - a `Read` into an empty slice returns `(0, nil)` while bytes remain;
  - a `Read` may deliver bytes together with `io.EOF`.
- `ReadBodyFails` is a read error.

### TemplateDelete (`dir.go`, `template/main.go`, `template/storage.go`)

Keys under the prefix are numbers in key order.
- `stored` is the bucket.
- `denied` is the set of keys DeleteObjects refuses, which it reports in its `Errors` output.
- `token` is the paginator's continuation token, the last key listed.
- `more` is `HasMorePages`.

Actions:
- `ListPage` is `NextPage`. It lists up to `PageSize` keys after the token. An empty page breaks the loop.
- `ListFails` and `DeleteFails` are the two error returns. Storage.Remove and then Delete return the error at once (`Fail`).
- `DeletePage` is the `DeleteObjects` call. The output is discarded, and the loop goes on while `HasMorePages`.
- `DeleteImage` is `BatchDeleteImage`. It may fail, and its error is only logged, so Delete returns nil either way.

### S3TemplateStorage (composition)

`R == INSTANCE S3ObjectRead` and `D == INSTANCE TemplateDelete` share the bucket. `readKey` is the key `ReadAt` reads.
- `ReadGetObject` lets `GetObject` succeed only while `readKey` is still stored. After that, `NoSuchKey` is an error.
- A body already streaming is served to the end.

## Runs

| Run | Cfg | Expect | What it shows |
|---|---|---|---|
| cache | `MCTemplateCache.cfg` | pass | In both modes (`Modes = {FALSE, TRUE}`), with 2 goroutines, 2 keys (one a snapshot key), TTL 2, lifetime 1, clock 3 and 4 Templates, 929,019 distinct states (about a minute) satisfy four properties. **StorageStampedeSafety:** in storage mode, open Templates of one key are shared, and Fetch starts only for inserted Templates. **NoReadAfterClose:** the TTL policy holds when TTL > lifetime. **SnapshotDiffsResolvable:** a Template published with headers finds its diffs in the DiffStore. **CacheRefinesContract:** in storage mode the cache implements `TemplateCacheContract`; in particular no Template is closed while it is still its key's item. |
| cache_snapshot | `MCTemplateCacheSnapshot.cfg` | violation | `GetTemplate`, then `AddSnapshot` on the same key: `GetOrSet` finds the headerless Template and the headers are dropped. The code does not do what spec §4.5 requires ("inserts (or replaces)"). |
| lifecycle | `MCOrchestratorLifecycle.cfg` | pass | `TerminatesOnSignalOrStartFailure`: after a signal or a failed Start, the process ends. It exits, or it dies by a child panic or `log.Fatalf`. |
| lifecycle_close | `MCOrchestratorLifecycleClose.cfg` | violation | `CloseSkipsOnlyAfterStartupError` fails. A signal before `Start` stores `shutdown.op` makes `Close` skip `GracefulStop` with no startup error, contrary to the comment in `Close`. |
| tm_api | `MCTemplateManagerAPI.cfg` | pass | 2 requests over 2 builds, with the health goroutine: 44,667 distinct states. **BuildingOnlyAfterCreate:** the DB says building only after the template manager accepted the build, including when `getBuilderClient` refused or a `DeleteBuild` failed. **PlacementOnlyWhenHealthy:** `CreateTemplate` gets the local client only while the status is Healthy. |
| tm_api_deadlock | `MCTemplateManagerAPIDeadlock.cfg` | violation | One request is enough. `BuildRequestAnswered` fails when the request's `getBuilderClient`, from `DeleteBuild` or `CreateTemplate`, holds the outer `RLock` while the health goroutine waits in `Lock`. The nested `RLock` then blocks forever. |
| tm_api_one_build | `MCTemplateManagerAPIOneBuild.cfg` | violation | `OneBuildInProgress` fails with 2 requests for different builds of one template. Each request queries for the other's build before that build is marked building, or cancels it before it starts, and then starts its own. Both builds run, against the comment at `template_start_build.go:150`. |
| tm_api_twice | `MCTemplateManagerAPITwice.cfg` | violation | `BuildStartedOnce` fails. Two requests for one build both pass the waiting check on the status they loaded, and the build is started twice. |
| s3_storage | `MCS3TemplateStorage.cfg` | pass | A `ReadAt` of one of 3 keys runs while `Delete` removes the build in pages of 2. Objects are 0–3 bytes, buffers 1–3 bytes, and there are 309,568 distinct states. **ReadAtImplementsContract:** `ReadAt` refines `S3ReadAtContract`. Every call returns, also when the key is deleted under it, and a nil error comes with every in-range byte counted, including bytes delivered with `io.EOF`. **RemoveDirLeavesOnlyRefused:** when `RemoveDir` returns nil, only keys `DeleteObjects` refused are left. **DeleteReturns:** every `Delete` returns. |
| remove_dir | `MCS3TemplateStorageRemoveDir.cfg` | violation | `RemoveDirEmptiesPrefix` fails. One refused key stays, `RemoveDir` returns nil, and `Delete` reports success, contrary to `RemoveDir`'s doc comment. |
| ecr_race | `MCEcrTokenAuth.cfg` | violation | `EnsureFailsOnlyOnAWSError` fails with 2 requests and 1 template. Both requests see the repository missing, the second `CreateRepository` gets `RepositoryAlreadyExistsException`, and the handler answers 500 although no AWS call failed. |
| s3_read_empty | `MCS3ObjectReadEmpty.cfg` | violation | With `len(b) == 0`, the range `bytes=off-(off-1)` is ignored, the whole object comes back, and the loop spins on `(0, nil)` reads. |

Each property checked by a passing run has a mutant in `PROJECT.json`. The mutant is a plausible bug in the mapped definition, and TLC finds the property violated when the mutant replaces it. For example:
- `GetTemplate` with `Set` instead of `GetOrSet`;
- `AddSnapshot` with `Set` instead of `GetOrSet`, which replaces a live Template (breaks the refinement);
- a cache built without touch-on-hit;
- the rootfs `switch` testing the memfile diff;
- `getBuilderClient` without its outer `RLock`;
- a deferred function without `cancel()`;
- `building` stored on the error path;
- the `io.EOF` check before `totalRead += nr`;
- an inclusive `Range` end one byte past the buffer;
- `RemoveDir` stopping after the first page;
- a paginator that sends no continuation token.

Each module also defines `TypeOK`, which gives the domain of each variable as documentation of the state. No run checks it.

## Bounds

Most bugs here need two actors, and often a clock that passes a boundary. The bounds are the smallest that let each interesting case happen.
- **TemplateCache:**
  - two goroutines race on one key;
  - the second key is the snapshot key;
  - TTL 2 with lifetime 1 lets an item expire both while unused and after a touch;
  - clock 3 makes room for an expiry followed by a re-insert;
  - four Template constructions allow two racing inserts plus a replacement.

  Going from 3 to 4 clock ticks took the run from 1.5 to 8 minutes without any new kind of interleaving.
- **TemplateManagerAPI:** two requests over two builds cover the same-build race, the cross-build cancel and two callers in `getBuilderClient` at once. The deadlock needs only one request and the health goroutine.
- **EcrTokenAuth:** two requests on one template are the race. Request inputs range over every routing branch.
- **S3ObjectRead:** 0–3 bytes cover empty objects, offsets at and past the end, and multi-chunk reads.
- **TemplateDelete:** 3 keys in pages of 2 give a full first page, a second page, and a refused key that stays listed before or after the token.

Symmetry is used over interchangeable goroutines, callers and requests (`Permutations`). It is not used for liveness runs.

## Fairness

- **Lifecycle and TemplateManagerAPI:** every goroutine is weakly fair, because the Go scheduler runs every runnable goroutine. For TemplateManagerAPI that means each request goroutine and the health goroutine. Each request's fairness covers its error branches as well. Signals, panics, new requests and build ends are never forced.
- **S3ObjectRead:** weak fairness covers `GetObject` and `ReadBody` (the caller keeps running and the body keeps answering). A failing read is possible but never forced.
- **S3TemplateStorage:** the reader is weakly fair as in S3ObjectRead. The delete goroutine is weakly fair on its non-failing steps (`ListPage`, `DeletePage`, `DeleteImage`); the SDK calls return or fail. There is no deadlock check, because both callers really stop.
- **Cache and EcrTokenAuth:** safety only.

## Not modelled

- Template hydration (`Fetch`), `Close` internals, the DiffStore, header parsing and diff resolution: not under `src/`.
- gRPC handlers and `BuildStatusSync`: not under `src/`.
- The seed script (`shared/scripts/seed-db.go`). It is a one-shot run against a database whose schema (unique keys, cascades) is not in this tree. Its writes are not in a transaction, and its rerun after a partial run is listed as a hazard.
- Template and Docker naming and host parsing (`ParseHost`): string formatting with no state. No property would be about anything but the format, and the run cap leaves no run for one.
- The header helper (`header_helper.go`): a placeholder that reads the stream and returns a fixed header. It has no state and no control flow beyond the read error.
- The S3 client and bucket handles: constructors that only wrap the SDK.
- `Size`, `Delete`, `WriteTo`, `ReadFrom` and `Upload` of the S3 adapter: single SDK calls.
- The docker reverse proxy's `GetToken`, `HealthCheck`, `LoginWithToken` and `Proxy`: not in this tree. `NewStore`'s `ModifyResponse` and `Director` only log.
- Logging, telemetry and analytics.

Observed while modelling, and not checked by a run:
- `ReadAt` returns a short count with a nil error when the range is clipped at the end of the object, which breaks the `io.ReaderAt` contract.
- `AddSnapshot` starts `go Fetch` for the Template it inserts (`cache.go:175-177`), while spec §4.5 says the snapshot path does not fetch later. The model keeps the code's Fetch.
- The header helper never rejects a header with a bad format version, while spec §4.3 says deserialization fails on one.
- A storage Template can leak. If `GetOrSet` runs after the item under its key has expired, but before the janitor has deleted it, ttlcache overwrites the expired item in place and `OnEviction` never closes the old Template. TLC reaches this state in the `cache` model: the invariant "every Template that left the cache was closed once" fails after a `GetTemplate`, TTL expiry and a second `GetTemplate` on the same key. The leak depends on the ttlcache version (v3's in-place `set`), which no `go.mod` in this tree pins, so no run keeps it.
- `StampedeSafety` (mock and storage) fails in mock mode: two concurrent mock misses build two Templates for one key. The effect is nil for a mock Template, so no run keeps it.

## Plan for further work

The project has twelve runs, the most it keeps. A new run has to replace one, or a new property has to join an existing cfg.
1. **The cache's `Fetch`/`Close` race** (`cache.go:115`), once the storage Template's semantics from the spec are modelled (spec-modelled definitions).
2. **A liveness property for the build handler,** that every accepted build either runs or is marked failed, once `BuildStatusSync` is in the tree.
