# Verification of farm.js

TLA+ models of the stateful parts of farm.js, a full-stack TypeScript framework,
checked with TLC on small instances; the safety properties of the data cache (in one
process and shared), the sync store, the production server and the preview names are
also proved with TLAPS for every instance. Each of these components has an abstract
specification, a page of TLA+ that says what it promises, and implements it: TLC checks
that on the instances, TLAPS proves it for all of them. The paths below are relative to the repository
(`src/packages/...` is `packages/...` there); `PROJECT.json` gives, for every
definition, the lines it models.

The reference is always the code. Where a document, a comment and the code
disagree, the model follows the code and a run that ends in a counterexample
records the disagreement.

## 1. The system and its parts

farm.js renders pages on a server, caches data and documents, runs a browser
router and client state on top, and ships plugins. Most of its 4 200 files are
documentation, examples, build and code-generation passes: sequential
transformations with nothing to interleave. The parts with state that several
actors change are these.

| Part | State it keeps | Operations | What is hard | What makes it correct |
|---|---|---|---|---|
| Data cache, one process (`farm/src/cache.ts`, `FarmDataCache` without adapter) | `entries` in LRU order, `entriesByTag`, `invalidatedTagVersions` (marks), `activeGenerations`, `inflight`, `version`, `generation` | `get/getEntry`, `set`, `getOrSet`, `delete`, `revalidateTag/Path`, `updateTag`, `clear/configure` | a producer is awaited in the middle of a fill while everything else goes on; marks are pruned as soon as nothing depends on them; versions restart at a clear | no read is older than an invalidation before it; nothing survives a clear; concurrent misses share a producer; no mark leaks; capacity holds; requests settle |
| Data cache shared through an adapter (`cache.ts` with `farm-cache-redis/src/index.ts`) | in the store: entry, tag counters, leases; per server: marks, active fills, fills in flight | the same operations, each a sequence of awaited store calls; regeneration leases, polling for the holder's entry | servers interleave at every await; leases expire, servers die, calls fail | as above across servers; a lease is released only by its holder; waiting for a dead holder ends |
| Cached page shells and SSG documents (`cache.ts` called from `farm/src/server/renderer.ts` and `nitro/universal-build.ts`) | the same store | look up, render, `setAsync`; `revalidatePathAsync` | a render is long, a revalidation may fall into it | a document served as fresh was not rendered before a completed revalidation |
| Local-first sync (`farm-sync/src/store.ts`, `client.ts`, `server.ts`) | per model: confirmed rows, optimistic layers, cursor, scope, revision, generation; persisted rows; server: rows with stamps | list (full or delta), insert/update/delete with optimistic layers, retries, offline pauses, reload, `clearSyncedRows` | answers arrive in any order or never; deltas race with writes; the session changes under requests in flight | the store converges to the server's rows, drops no confirmed write, never shows another session's rows; a layer lives exactly as long as its mutation |
| Production lifecycle (`farm/src/production-lifecycle.ts`, `nitro/node-server-entry.ts`; its hooks in `nitro/universal-build.ts`, `plugin.ts`, `instrumentation-runtime.ts`) | `state`, `activeRequests`, the promises of start and close, `runtimeDisposers`, the entry's signal and timer state, the exit code | `start`, `beginDrain`, `waitForIdle`, `close`, `forceClose`, `runRequest`; `shutdown(signal)`; `onShutdown`, `closeRuntime` | signals during start, a forced close overtaking a graceful one, plugins that register resources while the runtime closes, hooks that fail or hang, clients that leave | readiness never comes back; no request begins during a drain; cleanup waits for the responses; nothing opened is left behind; success is reported only after a full cleanup; a signal ends the process |
| `after()` queue (`farm/src/after.ts`) | scheduled callbacks, phase | `after`, the drain when the response has finished | callbacks schedule callbacks during the drain, and fail | every accepted callback runs before the queue closes, and none before the response is over |
| Mutation lifecycle (`farm/src/mutation-client.ts`) | latest submission, pending count, outcome | `mutate`, `reset`, retry, reconnection | overlapping submissions settle out of order | only the latest publishes; the count returns to zero |
| Browser query cache (`farm/src/client-cache.ts` with its broadcast) | entries, aliases, requests in flight | fetch, invalidate, broadcast between tabs | an invalidation races with an answer | an answer requested before an invalidation is not fresh after it |
| SPA router (`farm/src/client/spa-router.ts`) | page data cache, prefetches, current navigation | prefetch, navigate, clear | a prefetch answers after the cache was cleared | no page data from before a mutation after it |
| Preview tunnel (`farm-preview-tunnel/src/relay.ts`, with the Redis coordinator of `examples/preview-gateway/lib/redis-coordinator.ts`) | per relay: `agents`, `reservations`, `pendingClaims`, `pending`; in Redis: the claim and the owner of a name, the queues of a session | register, pump, detach, forward a visitor's request, respond, cancel | check, claim and admission of a name are several awaits apart; claims lapse under slow holders; relays crash | a session that serves a name holds its claim; an owner's binding stands while they serve; a pending request is answered or failed when its socket closes |
| Polling preview gateway (`farm-preview-gateway/src/index.ts`) | sessions, the session each name leads to, heartbeats, reservations | create, heartbeat, release, expire | it shares the public names with the relays | the two transports do not both give a name away; an online session keeps its name |
| Server renderer, rate limiting, cron, jobs, build, CLI, integrations | none of their own, or a third party's | | | |

How they interact. The renderer calls the data cache for page shells and
documents; route handlers call it for data; `revalidateTag` and `revalidatePath`
reach all of them through tags. Several servers meet only in the cache adapter.
The sync client talks to the sync routes of the server over HTTP and to
`localStorage`. The production lifecycle counts requests while their responses stream, and `after()`
work runs when they have finished. The relays and the polling gateway serve the same
public hostnames and ask each other before they give one away. Mutations of the browser invalidate the query cache and the
page data cache.

The hazards, each at the line where it bites and with the properties that would
catch it, are the `hazards` list of `PROJECT.json`. Those without a property
say why; the browser's are left to the plan (section 8).

## 2. The modules

| Module | Models | Kind |
|---|---|---|
| `LocalCache` | `FarmDataCache` in one process | component |
| `TagCache` | what a tagged cache promises: one staleness bit per entry and per fill | abstract specification |
| `LocalCacheProofs` | type correctness, freshness, clears | TLAPS proofs |
| `LocalCacheRefinement` | single flight, and `LocalCache` implements `TagCache` | TLAPS proofs |
| `LocalCacheBounds` | no mark leaks, capacity, eviction order | TLAPS proofs |
| `TagStore` | the store behind an adapter, as the Redis adapter implements it | shared by two compositions |
| `SharedCache` | servers running `getOrSet` and `revalidateTagAsync` over `TagStore` | composition |
| `RevalidatedData` | what callers are promised of it: answers no older than the revalidations completed before | abstract specification |
| `SharedCacheProofs` | type correctness, freshness across servers, leases, and `SharedCache` implements `RevalidatedData` | TLAPS proofs |
| `PageShells` | page visits and `revalidatePathAsync` over `TagStore` | composition |
| `SyncStore` | one browser and the sync server | component |
| `OptimisticRows` | what the page is promised of it: mutations settle once, as they showed | abstract specification |
| `SyncStoreProofs` | type correctness, sessions, layers, confirmed writes | TLAPS proofs |
| `SyncConvergeProofs` | lists converge, and `SyncStore` implements `OptimisticRows` | TLAPS proofs |
| `RuntimeHooks` | the start and close hooks: plugin manager, disposers, instrumentation | component |
| `AfterQueue` | the `after()` queue of each request | component |
| `ProductionLifecycle` | `createFarmProductionLifecycle` over these hooks | component, extends the two above |
| `ProductionServer` | the lifecycle under the Node entry or under a host, with clients | composition |
| `GracefulShutdown` | what a process promises about its end | abstract specification |
| `ProductionServerProofs` | type correctness, all safety properties of the shutdown, and `ProductionServer` implements `GracefulShutdown` | TLAPS proofs |
| `PreviewRelay` | registration, claim, pump and detach of one name on the relays, and Redis | component |
| `PreviewVisitors` | requests of visitors, through a socket of the same relay or through Redis | component, extends `PreviewRelay` |
| `PreviewGateway` | the same name on the polling gateway | component |
| `PreviewNames` | both transports and their questions to each other | composition |
| `LeasedName` | what a transport promises about a name, whatever keeps it | abstract specification, implemented twice |
| `PreviewNamesProofs` | type correctness, all safety properties of the passing run, and both transports implement `LeasedName` | TLAPS proofs |
| `MCLocalCache`, `MCSharedCache`, `MCPageShells`, `MCSyncStore`, `MCProductionServer`, `MCPreviewNames` | instances for TLC: symmetry, tag sets, casts | model checking |

### Common conventions

An action is what one actor runs between two awaits: JavaScript is not
preempted, so everything between two awaits happens at once, and anything may
happen at an await. `pc` names the await a request stands at. A definition
whose comment begins with "Mutant" is a plausible bug used to check that a
property can fail; no specification contains it.

### `LocalCache`

`entries` is the `Map`, with `NoEntry` for an absent key; `older` is its insertion
order, which is the LRU order; `entriesByTag` is derived from `entries`
(`Dependent` looks at the entries that have the tag). `marks`, `active`, `inflight`,
`version` and `generation` are the fields of the class. `call`, `fill`, `waits` and
`result` are the locals of `getOrSet` and `fillCacheEntry`.

| Code | Actions |
|---|---|
| `getOrSet`: lookup; join or start | `GetOrSet`; `JoinInflight`, `StartFill` |
| `fillCacheEntry`: producer, write, finally | `CallProducer`; `ProducerReturns`, `ProducerReturnsLate`, `ProducerFails`; `FinishFill` |
| `.finally` of `getOrSet` | `SettleFill` |
| `get`, `getEntry` | `GetEntry` |
| `set` | `Set` |
| `delete` | `Delete` |
| `revalidateTag`, `updateTag`, `revalidatePath` | `InvalidateTag` |
| `clear`, `configure` | `ResetLocal` |
| the `revalidate` period | `Expire` |
| `storeLocalEntry`, `pruneInvalidatedTagVersions` | operators of the same name, used by the actions above |

A value is what its producer saw when it ran: how often each tag had been
invalidated (`epoch`) and how often the cache had been cleared. `epoch` is a
history variable; the code has no such count. That makes freshness a statement
about data, and not about the version numbers whose handling is in question.

A fill stays in `inflight` for two or three microtasks after its `finally` block has
pruned its mark. A reader whose lookup ends exactly there may join it;
`ReadsAreFresh` speaks of joins while the fill is still producing or writing and
leaves that window out. With an adapter the same window holds an awaited network
call, and the run `shared_cache_join` is about it.

`Set` is the synchronous `set`, whose value and version are of one moment. `setAsync`
awaits between them, and an invalidation in that await is absorbed by the version:
`ReadsAreFresh` would not hold of it. That is the subject of `PageShells`.

### `TagCache`

One bit per cached entry and running fill, set by an invalidation of one of its
tags and never reset, and a count of changes. No versions, no marks, no pruning.
`LocalCache!ImplementsTagCache` reads the bits off the versions and marks
(`CachedItems`, `FillingItems`) and maps the count to `version`: the code is right
about staleness exactly when this refinement holds.

### `TagStore` and `SharedCache`

`TagStore` follows one key, one tag and the key's lease: keys do not interact in
the store, and an entry is stale as soon as one of its tags makes it so. `stored`
holds the tag version its writer captured and the data its producer saw; `data`
counts the writes the application makes to what the key caches; `acknowledged` is
the data covered by the revalidations that have completed on any server, so
`call[r].floor` is what a reader is entitled to.

`SharedCache` has one action per awaited store call of `getEntryAsync`
(`ReadEntry`, `CheckEntry`), of `fillCacheEntry` (`AcquireLease` or `LeaseTaken`,
`PollEntry`, `CompareEntry`, `StopPolling`, `PollTimesOut`, `RetryLease`,
`CaptureTagVersions`, `CallProducer`, `ProducerReturns`, `WriteEntry`,
`ReleaseLease`), of the `.finally` of `getOrSet` (`Settle`) and of
`revalidateTagAsync` (`RevalidateTag`, `TagInvalidated`). Every store call may
reject (`LookupFails`, `LeaseFails`, `FillFails`, `ReleaseFails`,
`RevalidationFails`), an entry may vanish (`DropEntry`: expiry, eviction, the delete
of an expired entry), the lease may run out (`ExpireLease`), a server may be
cleared (`ResetLocal`) or die (`Crash`), which loses its requests and leaves its
lease in the store. With an adapter configured a server keeps no entries of its
own, so its local state is one mark, the active fills and the fill in flight.

### `RevalidatedData`

What is left of the shared cache when one looks at it from its callers: a counter of
writes, the data each revalidation in progress covers, the data covered by those that
have completed, and for each request its floor (what had been covered when it was
made) and its answer. No store, versions, marks, leases or fills.
`SharedCache!ImplementsRevalidatedData` maps `StatusOf`: a request is *open* from
`GetOrSet` until it has a result.

| `RevalidatedData` | `SharedCache` |
|---|---|
| `Ask` | `GetOrSet` |
| `Reply(R)` | `CheckEntry` (a hit, `R` is one request); `Settle` (the request of the fill and all that joined it) |
| `Fail(R)` | `LookupFails` (one request); `Settle` of a fill that failed, its own error or its lease's |
| `Write`, `Revalidate`, `Complete`, `Abandon` | `WriteData`, `RevalidateTag`, `TagInvalidated`, `RevalidationFails` |
| `Return`, `Die` | `Return`, `Crash` |
| a stutter | everything else: leases and their errors, polls, captures, producers, evictions, expiries, clears |

An answer shared by several requests of one server is as fresh as *one* of them is
entitled to: a reader that joins a fill in the window of section 5
(`shared_cache_join`) may get less than its own floor, and `RevalidatedData` does not
promise it more. `OwnReadsAreFresh` says of every answer that was not joined at all that it
covers the reader's floor. Of joins there is only `ActiveFillsAreFresh`: a fill that is
still active hands no reader a value older than a revalidation the reader's *own* server
had announced before the call. A revalidation completed on another server leaves no mark
here, so a joined answer may be older than it; the code promises no more.

### `PageShells`

A visit looks a shell up (`ReadShell`, `CheckShell`), and on a miss renders
(`RenderPage`) and stores with `setAsync` (`CaptureTagVersions`, `StoreShell`). The
order is the point: the renderer passes no tag versions, so `setAsync` reads them
when the page has already been rendered. `server/renderer.ts` 1141-1186 and
`nitro/universal-build.ts` 11148 are the callers.

### `SyncStore`

One model with an `updatedAt` cursor and a row filter that gives each account its
own rows. `confirmed`, `committedAt`, `layers`, `cursor`, `scope`, `revision`,
`generation` and `pending` are the fields of the store; `saved` is what
`persistModel` wrote; `table` and `clock` are the server's. A row's content is the
number of the write that produced it.

| Code | Actions |
|---|---|
| `loadModel` before and after its await | `LoadModel`; `ReceiveList`, `DropList` |
| `listRows` of the server: rows, then keys | `ListRows`, `ListKeys` |
| `insertRow`, `updateRow`, `deleteRow` | `ExecuteWrite`, `RefuseWrite` |
| `runMutation`, `dispatchWrite` | `Mutate`, `Send`, `RetryWrite`, `Commit`, `RollBack`, `FinishLate` |
| `clearSyncedRows` when another account signs in | `SwitchSession` |
| a page load | `Reload` |
| another device of the account, or this page before its reload | `OtherWrites` |

Requests carry the session of the moment they are sent. They are executed and
answered in any order, and a write may fail before or after it was executed; the
phase `waiting` is either a retry delay or a paused write while offline. `SwitchSession` is
the call of `clearSyncedRows` together with the change of the account that requests carry:
the cookie is set outside this code, and the documentation has the page do both at once.

### `OptimisticRows`

What the page that shows the rows can rely on. Per key only the account whose row the
store has confirmed, per mutation only its key and whether it deletes the row; no
lists, cursors, revisions, generations or retries. A mutation is *shown* from its start
(`Begin`) until it is confirmed (`Confirm`, the row becomes what the mutation showed)
or undone (`Undo`, the rows stay), or *late* once its session is over, and then ends
without a trace (`EndLate`). `Refresh` and `Replace` are lists; a refresh ends no
mutation and keeps the rows in `own`, those a confirmed mutation left.

| `OptimisticRows` | `SyncStore` |
|---|---|
| `Begin`, `Confirm`, `Undo`, `EndLate` | `Mutate`, `Commit`, `RollBack`, `FinishLate` |
| `Refresh`, `Replace` | `ReceiveList` of a delta, of a full list |
| `Vanish` | `OtherWrites` or `ExecuteWrite` that deletes a row |
| `Switch`, `Restart` | `SwitchSession`, `Reload` |
| a stutter | the clock, the server's reads and refusals, `LoadModel`, `DropList`, `Send`, `RetryWrite` |

`shown` maps to `layers`, `late` to the other running mutations, `own` to the keys of
`mine` the server still holds for the account.

### `RuntimeHooks`, `AfterQueue`, `ProductionLifecycle` and `ProductionServer`

The lifecycle object keeps a start promise and a close promise; both stand for hooks
that the build generates, so the promises are not variables of their own: `starting`
and `closing` say where the hooks are, and a promise is pending, fulfilled or rejected
accordingly. `closeWaits` is the race in `close()` (the start has settled, or
`forceClose` was called). `pc` says where each request is between `runRequest` and the
end of its response.

| Code | Actions |
|---|---|
| start hook: `register()`, plugin setup and ready hooks, roll-back | `StartHook`, `Registered`, `PluginsStarted`, `PluginsFailed`, `RolledBack` |
| `lifecycle.onShutdown` and the function it returns | `OnShutdown`, `Withdraw` |
| close hook: `closeRuntime` (shutdown hooks, drain of the disposers), then the instrumentation | `CloseHook`, `ShutdownHooksRan`, `TakeBatch`, `Disposed`, `Drained`, `Flushed`, `Closed` |
| `start` | `Start`, `StartFulfilled`, `StartRejected` |
| `beginDrain`, `close`, `forceClose` | `BeginDrain`, `Close`, `CloseResources`, `ForceClose`, `ResourcesClosed` |
| `runRequest`, `trackResponseCompletion`, `waitForIdle` | `RunRequest`, `StartAwaited`, `Responds`, `Finish`; `WaitForIdle`, `IdleTimeout` |
| `after()` and its drain | `After`, `BeginTasks`, `NextTask`, `TaskSettles` |
| the entry: startup, with a signal or a failure in it | `CallStart`, `Interrupt`, `StartupEnds`, `StartupFails`, `StartupClose`, `StartupCloseTimeout`, `StartupExit`, `Listens`, `ListenFails`, `FailedExit` |
| the entry: `shutdown(signal)` | `Signal`, `AdapterDrained`, `DrainTimeout`, `ShutdownExit` |
| a host that only calls Nitro's close hook, or waits for idleness | `HostCloses`, `HostWaits` |

Hooks, handlers, streams and callbacks are code of the application: they settle at any
time, fail, or never settle. The adapter is external; it waits for connections, so a
request whose client has left (`gone`) is not waited for. A process ends with
`exit`, and nothing happens afterwards.

### `GracefulShutdown`

A process seen from outside: a phase (`open`, `draining`, `cleaning`, then `clean` or
`dirty`), the requests whose client awaits a handler or a stream, the resources acquired
and not released, whether the start is in progress, whether the patience has run out, and
how it ended. `ProductionServer!ImplementsGracefulShutdown` reads the phase off
the promise of `close()` first and the lifecycle's `state` second
(`PhaseOfShutdown`); a start is in progress from `register()` to the end of its roll-back; a
process under a host is not `patient`, because a host calls the close hook without
waiting for responses.

| `GracefulShutdown` | `ProductionServer` |
|---|---|
| `StartBegins`, `StartEnds` | `CallStart` or the start a first request makes (`RunRequest`); `StartFulfilled`, `StartRejected` |
| `Begin`, `End` | `StartAwaited` that admits; `Finish`, `Disconnects` |
| `Acquire`, `Release` | `OnShutdown` before the runtime is closed; `Withdraw`, `Disposed` |
| `Drain`, `CleanUp`, `Force` | `BeginDrain` wherever it is called; `CallCloseResources`; `ForceClose` |
| `Finish`, `Exit` | `ResourcesClosed`; `StartupExit`, `FailedExit`, `ShutdownExit` |
| a stutter | timers that do not fire, `after()`, hooks in between |

### `PreviewRelay`, `PreviewVisitors`, `PreviewGateway` and `PreviewNames`

One public name. A relay session is identified with the socket of its agent, a polling
session with the request that would create it. `claim` is the Redis key `names:<name>`,
`nameOwner` is `owners:<name>`; every other variable is a map or a local of the relay or
the gateway. `pc[s]` follows the `register` handler from await to await (`reading`,
`cleared`, `claimed`, `asking`, `askingReserved`, `vacant`, `binding`, or `rejecting` and
`withdrawing`), then the pump (`ready`, `touched`, `pumping`), then the detach (`refreshing`,
`reserving`, `releasing`, `gone`). The pump does not look whether its session was detached
while it touched the claim: `refreshing` is its last write of the binding.
The access check, the claim and the announcement in `pendingClaims` are `ClaimSession`
and `AnnounceClaim`; the question to the other transport reads its state in two steps
(`AskGateway`, `AskReservation`) one way and five the other (`AskRelay`,
`AskCoordinator`, `AskOwner`, `AskHeld`, `AskBinding`), because the code awaits between
them. The gateway is one process with its memory store, and asks the relay in that process,
`Home`; sessions on other relays it sees only through Redis.

Calls to Redis may fail: a release or a binding may be lost, a claim may reach Redis and
its answer not. Time is an action: `ClaimExpires` (the holder was slow, and becomes
*lapsed*, a history variable), `NameOwnerExpires`, `ReservationExpires`,
`GrantExpires`, `HeartbeatMissed`, `SessionExpires`. Nothing is assumed of how the times to
live compare: `nameReservationMs` is an option, so a binding may expire before the claim.
`Crash` empties a relay and leaves Redis as it is. One thing is assumed of Redis: it answers
the calls of one relay in the order in which they were made, as it does on one connection.
`AnnounceClaim` says so of a claim and an earlier release of the same relay, and `refreshing`
comes before `reserving` for the same reason.

In the gateway `TouchedByVisitor` is a request queued for a session found earlier, which
gives a name that has become free back to that session. The memory store hands out the
records themselves; a store that copies them lets a visitor's touch write back an older
heartbeat, and is not modelled.

A visitor goes straight to a socket of the relay it reached (`Send`, `Respond`) or
through the session's queue (`PublishRequest`, `TakeRequest`, `PumpSend`, `TakeResponse`);
`GiveUp` is its timer or its departure, with the cancel message.

### `LeasedName`

A name has one holder at a time; a session serves it only after it held it, and only time,
`Lapse`, lets anybody else take the name from it. `PreviewNames` implements it twice:

| `LeasedName` | relays (`RelayLease`) | polling gateway (`GatewayLease`) |
|---|---|---|
| `holder` | `claim`, the key in Redis | the session the name leads to |
| `serving` | the sessions admitted and not detached | the sessions stored in its table |
| `Take` | `ClaimSession` that finds no claim | `StoreSession` of a session that is not refused; `MarkSessionOnline` or `TouchedByVisitor` that finds the name free |
| `Serve` | `Admit` | (a session is stored as it takes the name) |
| `Leave` | `RejectClaim`, `DetachSession` (a closed socket, an expired grant), `ReleaseSession` | `RejectSession`, `ReleaseDeletes`, `SessionExpires` |
| `Die` | `Crash` | |
| `Lapse` | `ClaimExpires` | `HeartbeatMissed` |

A holder that lapsed may go on serving until it notices: `Serve` and `Take` say so, as the
code does (section 7).

## 3. What the runs check

A run marked "counterexample" is expected to fail: section 5 says why.

| Run | Instance | Properties | What it shows |
|---|---|---|---|
| `local_cache` | 3 keys, capacity 2, 2 tags (a key may carry both), 2 requests, 2 versions, symmetry, under `OneFocus` below | `TypeOK`, `ReadsAreFresh`, `MarksHaveDependents`, `CapacityRespected`, `EvictsLeastRecent` | no interleaving of fills, sets, deletes, evictions, expiries and invalidations lets a read see data older than an invalidation, leaks a mark or overfills the map; the victim of a store is the entry least recently written or hit |
| `local_cache_clear` | 1 key, 1 tag, 2 requests, 1 clear, fairness | `NothingSurvivesClear`, `SingleFlight`, `ImplementsTagCache`, `RequestsSettle` | the version counter restarts under running fills, and still nothing from before the clear is cached, misses share one producer, and every request settles |
| `shared_cache` | 2 servers, 2 requests, 1 write, 1 revalidation, failing calls, expiring leases, evictions, symmetry | `TypeOK`, `OwnReadsAreFresh`, `ActiveFillsAreFresh`, `LeaseHeld`, `ImplementsRevalidatedData` | a read that does not join another fill is no older than the revalidations completed before it on any server, and no join of an active fill older than those its own server had announced; nobody releases another fill's lease; callers see `RevalidatedData` |
| `shared_cache_crash` | 2 servers, one reset or crash each, fairness | `RequestsSettle` | the holder of the lease may die, or be cleared, and the lease may never expire, and a request waiting for it settles |
| `shared_cache_join` | 1 server, 2 requests | `InvalidatedFillsAreNotShared` | counterexample |
| `page_shells` | 1 server, 2 visits | `ServedShellsAreFresh` | counterexample |
| `sync_store` | 2 rows, 2 accounts, 2 lists and 2 writes in flight, 2 clock ticks, 1 reload or session change, symmetry, under `OneFocus` below | `TypeOK`, `ConfirmedWritesSurvive`, `ListsConverge`, `OwnRowsOnly`, `LayersAreRunning`, `ImplementsOptimisticRows` | no delta drops a confirmed write; a list sent and answered in silence leaves the store equal to the server's rows; no answer of an earlier session lands in the store; optimistic layers are exactly those of running mutations, and each settles once, as it showed |
| `sync_foreign_write` | 1 row, 2 accounts | `OwnAuthorsOnly` | counterexample |
| `sync_late_answer` | 2 rows, 1 list, 1 write | `Converged` | counterexample |
| `production_server` | 2 requests (one with up to 2 callbacks), 2 resources, entry or host | `TypeOK`, `NothingStranded`, `CountIsExact`, `CloseAwaitsStart`, `CleanupAfterDrain`, `SuccessMeansClean`, `CallbacksAllRun`, `NoHandlerWhileDraining`, `NeverBack`, `ImplementsGracefulShutdown`, `SignalEndsProcess` | signals, failures, timeouts and late registrations in any order: the shutdown is orderly unless its timer expires, complete when it reports success, and always ends |
| `preview_names` | 3 agents of 2 owners on 2 relays, 3 polling sessions, 1 visitor, in the casts below | `TypeOK`, `ServingHoldsClaim`, `TransportsAgree`, `BoundByHolder`, `OnlineSessionKeepsName`, `PendingIsWatched`, `RelaysImplementLease`, `GatewayImplementsLease` | with lapses, failed calls, closing sockets and a crash, the transports give the name to two owners only where Redis had named the other one, and late releases and rejections take it from nobody; only the holder of the claim, or a session that lapsed, binds the name to an owner; each transport leases it as `LeasedName` says |
| `preview_names_exclusive` | 2 agents, 1 polling session, nobody lapsed | `TransportsExclusive` | counterexample |

Every property of a passing run comes with a mutant, a small plausible bug in a
mapped definition (a missing prune, a version taken too late, a comparison off by
one, a generation check dropped) under which the same run fails. The list is in
`PROJECT.json`.

### Bounds, and why they are enough

- *Versions and invalidations.* The danger needs a value produced, an invalidation,
  and a second event (a set, another invalidation or a clear) that prunes or
  overtakes the mark: two versions in `local_cache`; in `local_cache_clear` one
  version on each side of a clear, which makes versions repeat.
- *Two requests.* One stands for the fill, one for the reader or the rival fill of the
  same key.
- *Three keys, capacity two* in `local_cache`: an older entry stays beside the victim, and the
  order decides which one goes. `OneFocus` is a constraint: at any moment two calls are running
  for at most two keys with mixed tags and one entry cached (`TwoKeys`), or for any keys with one
  tag while no period ends, so that stores evict under running fills (`OneTag`), or one call
  at a time is running, with no limit on keys and tags (`OneCall`).
- *Two servers, two requests* in `SharedCache`: a holder and a waiter, on the same or
  on different servers, with a revalidation started from either.
- *`MaxResets`* is 0 where freshness is checked and 1 where settling is: a reset
  changes the generation of a server, which is compared for equality only. The theorems
  of section 6 hold with any number of resets and crashes, freshness and
  `ImplementsRevalidatedData` included.
- *`SyncStore`.* `OneFocus` is a constraint: a behaviour is about one account
  (`OneAccount`: two rows, two lists, one write that is not retried, the clock, a reload)
  or about one row (`OneRow`: two accounts, two writes, one of them retried, one list, a
  change of the session). Two lists make one overtake another, with a write in flight
  they make a delta race a commit. The clock has two ticks, because the cursor compares
  "same millisecond" against "later". `MaxSent` bounds the requests between two
  session changes, `MaxGeneration` the session changes and reloads.
- *`ProductionServer`.* Two requests: one streaming while the other arrives or waits for
  the start. Two resources: one in the batch while the other is registered. Two
  callbacks: one registers the other.
- *`PreviewNames`.* `OneCast` is a constraint on who acts in one behaviour: two agents of
  different owners on two relays against a polling session of the first agent's owner
  (`{a1, a2, g3}`), which meets the second agent only through Redis, or of the second agent's
  (`{a1, a2, g1}`); two polling sessions against an agent (`{a1, g1, g2}`); an owner who
  reconnects to the same relay with a visitor there (`{a2, a3, v}`); a visitor who reaches the
  other relay (`{a1, v}`). As long as two act, either may lapse; where three act, one given agent
  may (`a1` in the first cast, `a2` in the fourth), or nobody. Each hazard needs at most two
  rivals and a third party whose late call interferes; all at once only repeat these.
- The theorems of section 6 hold without any of these bounds, for all the safety
  properties of the passing runs.
- *Deadlock* is checked, except where behaviours end: in the runs of `SyncStore` by the
  bounds on requests and generations, in `production_server` because the process exits,
  in `preview_names` because each agent and client has one session.

## 4. Fairness

`LocalCache!Fairness` is weak fairness of the steps of a request that has begun: the
event loop runs the continuation of a settled promise, and a producer that was
called returns or throws. `SharedCache!Fairness` assumes the same of calls of the
store (they return or reject) and strong fairness of `PollTimesOut`: the deadline
of a poll is an absolute time, which passes however often the poll is in the middle
of a read at the moment one looks. Nothing is assumed of leases (their holder may be
dead and they may outlast the run), of revalidations, of resets or of callers. The
liveness run of `SharedCache` has no revalidations: an unlimited number of them
changes nothing in the wait, which ends by its deadline.

`ProductionServer!Fairness` is weak fairness of the entry's own continuations and timers
(`StartupClose`, `StartupCloseTimeout`, `StartupExit`, `DrainTimeout`, `ShutdownExit`):
`setTimeout` fires in a process that is not blocked. No hook, handler, client or
callback is assumed to settle, so `SignalEndsProcess` holds whatever hangs.

`PreviewNames` states no fairness: its properties are safety properties.

## 5. What the code does that its documentation does not say

- `shared_cache_join`: a comment says "A fill that started before one of its tags was
  invalidated cannot satisfy later readers" (`farm/src/cache.ts:790`). With leases, the
  fill prunes its mark before it awaits `releaseLease` (848, 851) and leaves `inflight`
  afterwards (780); a reader called after the invalidation has completed joins it
  in between.
- `page_shells`: entries are said to carry "Adapter tag versions captured before the
  cached value was produced" (`cache.ts:105`). `setAsync` without tag versions captures
  them afterwards (581), so a page rendered across a `revalidatePath` is served as
  fresh from then on.
- `sync_foreign_write`: `clearSyncedRows()` "drops any load or write still in flight for
  the previous session" (`docs/src/app/docs/plugins/sync/page.md:430`). A write waiting
  for the connection or for a retry is sent afterwards, under the next account
  (`farm-sync/src/client.ts:216`); only its answer is dropped.
- `sync_late_answer`: "Rows refresh on load" (same page, 501). A write's answer applied
  after a newer list replaces a newer row (`farm-sync/src/store.ts:176`), and no later
  delta brings it back, because the cursor has passed it.

- `preview_names_exclusive`: a comment says "two concurrent claims cannot both win"
  (`farm-preview-tunnel/src/relay.ts:608`). A claim found in Redis blocks a polling session
  only if the owner bound there is another one (300, 302), and the binding is written
  after the claim (631). An agent of Bob's finds no owner; an agent of Ann's is admitted on
  another relay and leaves, which binds the name to Ann; Bob's claims it, asks and is admitted;
  before its binding is written a polling session of Ann's asks the other relay, finds Ann's
  binding and passes. Nobody has lapsed, and both serve the name.

`TransportsAgree` says what does hold between the transports: a relay session and a
polling session that serve the name at once are of one owner, unless the relay session
was out of sight of the relay that was asked and Redis named the other owner.
`ListsConverge` is the convergence that does hold: it excuses a store to which an
answer was applied after a list that had been read later (`overtaken`). Two lists
answered out of order are excused along with the late write.

## 6. What is proved

The theorems are about the specifications the runs check, for any sets of keys, tags,
servers, requests, accounts, agents, relays and so on, and any bounds. Every invariant,
every action property and every refinement that a passing run checks is proved. What is assumed of the constants:

| Module | Assumptions |
|---|---|
| `LocalCache` | `TagSetsAssumption` (callers' tag sets are sets of tags), `MaxEntriesAssumption` (`maxEntries` is at least 1, which the code enforces), `BoundsAssumption`, `NoneAssumption` (`None` is a value of its own) |
| `TagStore`, `SharedCache` | `StoreBoundsAssumption`, `StoreNoneAssumption`, `MaxResetsAssumption`: the bounds are numbers, `None` is neither a request nor a number |
| `SyncStore` | `WritesAssumption` (finitely many mutations at a time, so that `pending` can count them), `NoneAssumption` and `RowAssumption` (`None` is no account and no row, as `null` is neither) |
| `AfterQueue`, `ProductionLifecycle` | `MaxTasksAssumption`, `RequestsAssumption` (finitely many requests, so that they can be counted) |
| `PreviewRelay`, `PreviewVisitors`, `PreviewGateway`, `PreviewNames` | `RelayAssumption`, `VisitorAssumption`, `PollerAssumption`, `HomeAssumption`, `OwnerAssumption`: who connects where, and that the markers for nobody are no sessions and no owners |

| Theorem | Statement |
|---|---|
| `LocalCacheProofs!TypeSafe` | `Spec => []TypeOK` |
| `LocalCacheProofs!NeverStale` | `Spec => []ReadsAreFresh` |
| `LocalCacheProofs!ClearForgets` | `Spec => []NothingSurvivesClear` |
| `LocalCacheRefinement!OneFillPerKey` | `Spec => []SingleFlight` |
| `LocalCacheRefinement!Implements` | `Spec => ImplementsTagCache` |
| `LocalCacheBounds!MarksBounded`, `CapacityBounded`, `RecencyRespected` | `Spec => []MarksHaveDependents`, `Spec => []CapacityRespected`, `Spec => EvictsLeastRecent` |
| `SharedCacheProofs!TypeSafe`, `OwnReadsFresh`, `LocalJoinsFresh`, `LeaseSafe` | `Spec => []TypeOK`, `[]OwnReadsAreFresh`, `[]ActiveFillsAreFresh`, `[]LeaseHeld` |
| `SharedCacheProofs!Implements` | `Spec => ImplementsRevalidatedData` |
| `SyncStoreProofs!TypeSafe`, `SessionsIsolated`, `LayersExact`, `WritesSurvive` | `Spec => []TypeOK`, `[]OwnRowsOnly`, `[]LayersAreRunning`, `[]ConfirmedWritesSurvive` |
| `SyncConvergeProofs!Converges`, `Implements` | `Spec => []ListsConverge`, `Spec => ImplementsOptimisticRows` |
| `ProductionServerProofs!TypeSafe`, `ResourcesReleased`, `CountCorrect`, `CloseWaitsForStart`, `OrderlyCleanup`, `HonestExit`, `AllCallbacksRun` | `Spec => []TypeOK`, `[]NothingStranded`, `[]CountIsExact`, `[]CloseAwaitsStart`, `[]CleanupAfterDrain`, `[]SuccessMeansClean`, `[]CallbacksAllRun` |
| `ProductionServerProofs!NoLateHandler`, `ReadinessFalls` | `Spec => NoHandlerWhileDraining`, `Spec => NeverBack` |
| `ProductionServerProofs!Implements` | `Spec => ImplementsGracefulShutdown` |
| `PreviewNamesProofs!TypeSafe`, `ClaimHeld`, `NameHeld`, `NamesAgree`, `PendingWatched` | `Spec => []TypeOK`, `[]ServingHoldsClaim`, `[]OnlineSessionKeepsName`, `[]TransportsAgree`, `[]PendingIsWatched` |
| `PreviewNamesProofs!BindingByHolder` | `Spec => BoundByHolder` |
| `PreviewNamesProofs!RelaysLease`, `GatewayLeases` | `Spec => RelaysImplementLease`, `Spec => GatewayImplementsLease` |

*The argument for `NeverStale`.* `ReadsAreFresh` is not inductive: that a hit is fresh
depends on what the marks say of every entry, including those that will be stored by
fills still running. The inductive invariant is `TypeInv /\ FreshInv`. Its heart,
`EntriesFresh` and `FillsFresh`, says of every cached entry and of every registered
fill, for each of its tags, that either its value has seen all invalidations of that
tag so far, or the tag has a mark newer than its `createdVersion`. In other words:
whatever is not up to date is recognisably stale. A producer sees the current epochs,
so this holds when a value comes into being; an invalidation makes every older
version smaller than the new mark (`VersionInv`: no captured version exceeds
`version`); a store carries the fill's version over to the entry; and a prune deletes a
mark only if no entry and no registered fill is older than it (`PruneKeeps`,
`StoreKeeps`). `ActiveInv` and `InflightInv` tie the registered fills to the current
generation, which is what a clear, restarting `version` under running fills, would
otherwise break; `HistoryInv` and `OwnFresh` relate a value to the call it answers.
There is one lemma per action that touches them.

*The argument for `Implements`.* The same facts give the bits: an entry is stale by
`IsStale` exactly when an invalidation of one of its tags came after its version was
captured, so a step that prunes, evicts or replaces leaves all other bits as they
are. Every action of `LocalCache` is an action of `TagCache` or a stutter; the proof
shows which. `changes` maps to `version`, so the abstract specification also says when
the counter moves.

*The argument for `OneFillPerKey`.* A registered fill that no invalidation overtook is
the one in `inflight` for its key (`FlightInv`), so there are not two; and a fill once
overtaken stays recognisably so as long as it is registered (`OvertakenForGood`),
because no prune removes a mark newer than it.

*The argument for the bounds of `LocalCache`.* `MarksHaveDependents` is kept because
every store, delete, close of a fill and invalidation prunes exactly the tags that may
have lost their last dependent (`DependentKept`). `CapacityInv` adds to the capacity that
the recency order is a strict order on the cached keys; a finite one has an oldest
key, so an eviction finds its victim. `EvictsLeastRecent` is read off the same order, step by
step: whatever a step touches it puts last, and only a store into a full map removes a key
without deleting it, the first of the order.

*The argument for `SharedCache`.* `SharedInv` is `CallInv /\ FreshInv /\ LeaseHeld /\
MarkInv`. An entry whose version is the tag's present one, and a fill that captured
it, cover every acknowledged datum: a writer captures the counter before its producer
runs, and a revalidation increments it after its data is written, so a value produced
too early carries a version that is not the present one any more. `MarkInv` says the
same of fills registered locally: those overtaken by a revalidation their server has
announced have a mark above their `createdVersion`. A lease is taken only when free and released only by
the request in it, which is all `LeaseHeld` needs once `CallInv` says where a holder can
be.

*The argument for `ImplementsRevalidatedData`.* `SharedInv` says how old an answer may be;
two more invariants say whose it is and where it comes from. `JoinInv`: the promise a
server shares, or a reader awaits, is a fill of the same server that has not settled, so
the requests that settle together are of one server and open (`Together`). `SeenInv`: no
entry, nothing a request has read and no fill's value has seen data that was not
written, which bounds answers from above. An answer of several requests is as fresh as
the request that ran the fill is entitled to, which `FreshInv` says of it. The other
actions are seen by no caller (`PromiseKept`).

*The argument for `SyncStore`.* `SyncInv` says that requests of the present generation
belong to the account signed in, that the answer of a write is a row of the session
it was sent under, and that what is saved belongs to the scope saved with it; session
changes increment the generation, so what arrives late is dropped. `MineInv` adds for a
row this client wrote that every list in flight whose delta would drop it was sent
before the commit, which the prune respects. For `ListsConverge` the store has nothing to
compare itself with but a cursor, and `Snapshot` says what the cursor is worth: a row the
server holds was either written before the newest read that was applied, and then the
store has it, or it is stamped at or past the cursor; the same of what is saved, and
of every delta in flight with the rows it will be seeded with. `ListInv` and `AnswerInv`
say what an answer knows of the table, and `FloorInv` that what an answer does not know
is stamped past every saved cursor still in use. A quiet list reads the table of now
in both its reads (`QuietInv`), so it brings every row and drops every other.

*The argument for `ImplementsOptimisticRows`.* `SyncInv` makes `layers` the running
mutations of the present generation, so every end of a mutation is that of one shown or
of one late, and a switch turns all shown ones late. `MineInv`, after the step, is what
`Refresh` demands of a delta. What is new is `AskedInv`: a success brings a row exactly if
its mutation does not delete it, so a confirmed mutation leaves what it showed. It is
about retries: a second attempt may find nothing, and only for a delete is that a success.

*The argument for `ProductionServer`.* `ServerInv` has four parts: what the hooks keep
among themselves (`HookInv`: a drain that is over left neither list with anything in
it), what the queues keep (`AfterInv`), how the lifecycle, the entry and the requests go
together (`EntryInv`), and that `activeRequests` is the number of handlers and streams that
are not over. The two action properties follow from it step by step.

*The argument for `ImplementsGracefulShutdown`.* No further invariant: `HookInv` has
nothing held when the close hook ends, `EntryInv` has the drain and the settled start
before `CloseResources` unless it is forced, and says of the exit code what
`SuccessMeansClean` does. There is a lemma per kind of step (`DrainMaps`, `ForceMaps`, `StartMaps`,
`HookMaps`, `RequestMaps`, ...), and one for the steps the promise does not see
(`ShutdownKept`).

*The argument for `PreviewNames`.* `NamesInv` follows the name through both transports:
the holder of the claim is the session that took it, from the claim to its release,
unless it lapsed (`HoldInv`), which is why only a holder or a lapsed session writes the
binding (`BindingWritten`); a polling session that is online is the one the name leads to
unless its client was silent too long (`PollInv`); the tables of a relay show its sessions
(`TableInv`); a polling session that has passed the relay's questions while an agent holds the name
is of the agent's owner, or found the agent out of sight and its own owner in Redis
(`AskedInv`), which is the argument for `TransportsAgree`; and a visitor's request waits where
the session's socket is (`VisitInv`).

*The argument for the leases.* `HoldInv` has an admitted session hold the claim unless it
has lapsed, so `Admit` is a `Serve`; a release, wherever it comes from, compares sessions, so it
frees at most its own claim (`RelayLeaves`); everything else moves neither claim nor
admission (`RelayLeaseKept`). `PollInv` plays the same part in the gateway.

*Only model-checked:* liveness (`RequestsSettle`, twice, and `SignalEndsProcess`), which
needs fairness and `ENABLED`, and these the prover does not treat. The counterexamples of
section 5 are TLC's as well, `PageShells` among them.

## 7. What is not modelled, and why

- *`LocalCache`*: events and the building of keys from arguments (no
  influence on the state), and the wording of errors.
- *`SharedCache`*: several keys and tags (independent in the store), the
  read-modify-write `storageCacheAdapter` (`cache.ts:245`), `adapter.clear`. Tag counters
  are assumed never to be evicted and `INCR` to be atomic, which is Redis' part.
- *`PageShells`*: rendering, streaming, and the build's HTML file as a second source of
  an SSG page.
- *`SyncStore`*: `runSyncAction`, `hydrateModel`, the failures list, validation, several
  tabs. A stamp is assigned and the write becomes visible in one step; a database that
  separates the two is outside the repository. A write in flight when the page is
  reloaded is one of `OtherWrites`.
- *`ProductionServer`*: request hooks and endpoints of plugins, Farm storage, the wording
  of health answers, `waitUntil`. What the entry does without a timer is modelled as it is:
  after a failed start or a failed listen it awaits `close()`, and no termination is claimed
  of it there. A signal while it closes after a failed start changes nothing; after a failed
  listen the listeners of `shutdown` are installed already (`node-server-entry.ts:437`), so
  `Signal` is possible there and ends the process like any other.
- *`PreviewNames`*: several names (independent), the agent's reconnection, relays
  without a coordinator, the gateway's request queues and random names, gateways of several processes:
  the Redis REST store, whose delete is two calls (`farm-preview-gateway/src/index.ts:810`),
  and stores that copy their records. A session that has
  lapsed (its claim or heartbeat ran out before it noticed) is excused by the properties:
  the code admits a registration whose claim lapsed while it asked
  (`relay.ts:626`), lets a lapsed session overwrite the owner another one bound
  (`relay.ts:497`), and keeps an
  agent whose socket closed during the question in its table (`relay.ts:615`). The
  hazards list has each of them.
- *Other parts*: mutations, the query cache and the router's page data in the browser are
  left to the plan below. The renderer, the build,
  the CLI, code generation and the integrations are sequential or pure I/O; rate
  limiting is one atomic script per request; jobs keep their state in outside services.

## 8. Plan

Done, in this order: the data cache and its abstract specification, their proofs, the
shared cache, page shells, sync, the production server with `after()`, the preview names.
What would come next:

1. `MutationLifecycle`: the latest submission wins, counts return to zero.
2. `ClientCache` and `PageDataCache`: no answer requested before an invalidation is
   fresh after it, across aliases and tabs.
3. Extensions: the storage adapter as a variant of `TagStore`, the file path of SSG
   pages in `PageShells`, relays without a coordinator.
4. With 3., proofs for the storage adapter and for relays without a coordinator.
