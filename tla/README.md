# TLA+ models of rapidrows

rapidrows is a single-process API server. A YAML/JSON configuration
declares PostgreSQL datasources, HTTP endpoints (SQL query, SQL exec,
JavaScript, static JSON), notification streams (websocket or SSE, fed by
PostgreSQL LISTEN/NOTIFY), and cron jobs. This directory holds TLA+
models of the concurrent parts of the server, the TLC configurations that
check them, and `PROJECT.json`, which records the components, the runs,
the mutants, the source lines each definition models, the findings and
the hazards.

## Parts of the system and how they interact

| Part | Source | Concurrency |
|---|---|---|
| Config validator | `src/server.go` (validate.go part), `src/model.go` | none (runs before Start) |
| Parameter engine | `src/server_test.go` lines 491-966 (params.go) | none (pure per request) |
| Endpoint engine and cache | `src/server.go` serveQuery/serveExec, `src/cmd/rapidrows/main.go` cache | one goroutine per request, shared cache |
| Datasource manager | `src/server.go` `datasources` | pgxpool shared by requests, scripts, jobs, streams |
| Script host | `src/script.go`, `src/qjs` | one goroutine per invocation, holds pool connections |
| Notification fan-out | `src/unnamed/part_004` (streams.go) | fetcher and dispatcher goroutines per datasource, one handler goroutine per stream client |
| Job runner | `src/params_test.go` lines 1110-1208 (jobs.go) | cron goroutines |
| Lifecycle | `src/server.go` Start/Stop | Stop races every other part |

Stop (`server.go` 155-184) is the point where everything meets: it stops
cron, cancels the background context `a.bgctx` (which streams, scripts
and acquires wait on), stops the notification dispatchers (closing the
hijacked LISTEN connection and the dispatcher's channels), shuts down the
HTTP server (waiting for handlers), and closes the pools (waiting for
every acquired connection).

## Modules

### NotifDispatcher (streams.go)

State, one variable per piece of shared state in the code:

- `in`, `inClosed`: the buffered channel `nd.in` (capacity `InCap`, 64 in
  the code) and whether `close(nd.in)` ran;
- `cmd`, `cmdClosed`: `nd.cmd` (capacity `CmdCap`, 1 in the code);
- `c2ws`: the dispatcher's `map[string][]*notifWriter`, a sequence per
  channel so that duplicates and order are kept;
- `fpc`, `held`, `nextId`, `connClosed`: the fetcher goroutine, the
  notification it holds between `WaitForNotification` and the send, and
  the hijacked connection;
- `dpc`, `stopping`, `spc`: dispatcher goroutine, `nd.stopping`, and the
  position of `APIServer.Stop` / `notifDispatcher.stop`;
- per writer `w`: `q[w]`, `qClosed[w]` (the notifWriter queue of
  `Backlog` slots, 16 in the code, and `closeQ`), `hpc[w]` (the handler:
  serveStream then loopWS or loopSSE), `clientGone[w]`;
- `bgDone`, `srvUp`: `a.bgctx` cancelled, HTTP server still serving;
- `crashed`: an unrecovered panic in a background goroutine;
- history: `offered[w]` (payloads the dispatcher gave `accept`),
  `delivered[w]` (payloads written to the client), `regDone`.

Actions: `FetcherReceive`, `FetcherSend`, `FetcherStopped`,
`FetcherConnLost` (fetcher); `DispatchCmd`, `DispatchNotif` (dispatcher,
one per `select` case; the fan-out to every writer is one step as in the
code); `HandlerStart`, `HandlerRegister`, `LoopRecv`, `LoopQClosed`,
`LoopCtxDone`, `LoopWriteFail`, `HandlerUnregister`, `ClientGone`
(stream handler and its client); `StopBegin`, `StopCloseConn`,
`StopSendCmd`, `StopJoin`, `ShutdownBegin`, `ShutdownDone` (Stop).
Sends on a closed channel make the sender panic: in a handler that is
recovered per request (`hpc = "panicked"`), in the fetcher it crashes the
process (`crashed`).

The websocket library's `CloseRead(ctx)` returns a context cancelled when
the client disconnects or sends a data frame; the model takes this from
the library's documentation and marks where it is used.

### ScriptHost (script.go and the datasource pools)

State: `busy` (connections handed out by the pools, a connection is a
pair datasource x slot), `spc`/`waitDs`/`waitTO` (script goroutine and
the `Acquire` it is blocked in), `conns` (`sctx.conns`), `calls`, `runs`,
`bgDone`, `poolsClosed`, `stopPc`, history `acquired`. Actions:
`ScriptStart` (runScript), `ScriptAcquire` (`$sys.acquire`: argument
errors, immediate success, immediate failure, or blocking),
`AcquireGranted`, `AcquireFailed` (deadline or cancellation),
`QueryBegin` (`$conn.query`/`$conn.exec`: `ParseArgsOK` fails and
the function throws, or
doQuery/doExec runs on `a.bgctx`), `QueryEnd`, `ScriptEnd` (the
evaluation ends with a thrown value and a `$sys.result`; `sctx.close`
releases, and runScriptHandler writes the response, recorded in
`lastResp`), `StopCancel`, `StopClosePools`, `StopPoolsClosed`
(pool.Close waits for all acquired connections). A JS value is
abstracted to its qjs tag (and whether an object is an array, which is
what `writeResult` tests); `RunScript` is runScript's reading of Eval's
exception value and `RunScriptHandler` the handler's choice of status
and body (the script's value, `err.Error()`, "script error", empty, or
the unsupported-type text). `SpecResponses` is spec 4.5's table of the
same.

### PubSub (the fan-out's promise) and its refinement

PubSub is the abstract specification of one datasource's fan-out, from
spec 4.6: notifications are published one at a time; a subscriber is
owed every notification of its channel published while it is
subscribed, in order, until it is cut off as too slow (it still
receives what it was owed) or leaves (it receives nothing more); only a
subscriber that has left is unsubscribed. NotifDispatcher defines `PS ==
INSTANCE PubSub WITH ...`: `pubs` is the number of notifications the
dispatcher has taken from `nd.in` (computed from `in`, `held` and
`nextId`), `subs` the writers in `c2ws`, `pend` a live writer's queue
`q`, `got` the `delivered` history, `cut` a closed queue, `gone` a
handler that has left its loop. `ImplementsPubSub == PS!Spec` is checked
in notif_fanout.

### Params (params.go: prepareParams, getParams and the check functions)

Pure operators, one per Go function: `isSuitable` dispatches on the
parameter type to `CheckStringAny`/`CheckString`, `CheckIntegerAny`/
`CheckInteger`, `CheckFloatAny`/`CheckFloat`, `CheckBoolAny`,
`CheckArrayAny`/`CheckArray`; `Float2Int` is `float2int`; `PinfoEnum`
is prepareParams' enum coercion; `GetParams` is getParams (where each
parameter is looked up by method and content type, `RECURSIVE GetFrom`
is the loop with its early returns). Floats are rationals `n/Den` plus
NaN and the infinities; int64 has `IntBits` bits, and the conversion of
an out-of-range float (implementation-defined in Go) is chosen by the
variable `arch` (amd64 gives MinInt64, arm64 saturates). Strings are
model values with their `strconv`/`strings.ToLower` results given in
MCParams. The state machine serves one request at a time for one
endpoint fixed at Init; `MatchesSpec` compares the result with
`RefGetParams`, a reference written from spec 4.3 and section 8.
`ValidParam` is Param.validate, so only parameters the validator accepts
are enumerated.

### QueryCache (serveQuery's cache with main.go's cacheGet/cacheSet)

State: real time `rt`, the wall clock's `skew` and `steps`, the
`cache` as a function from keys to entries (timestamp, real time of the
store, the arguments it was computed for, the version of the rows), the
database's row version `db`, per request `pc`, its arguments `rargs` and
the row version its query read (`rows`), and history: `hit` (the last
hit: its real age, timestamp, wall clock, and the arguments of request
and entry), `last` (per argument list, the last body served from or
stored to the cache and when that entry was stored, forgotten once the
TTL has passed), `seen` (per request, the body the previous identical
request fixed for it) and `resp` (the last body served and the body
expected of it).
`MakeCacheKey` is makeCacheKey's byte string: the URI and each argument
between the bytes 2 and 3, a `[]string` element framed again, nothing
for nil (the xxhash of the string is taken to be injective). Actions:
`Probe` (the request's arguments, cacheGet under their key and the
elapsed test), `DeleteStale` (CacheSet(key, nil)), `Query` (withTx, may
fail, and reads the rows as they are), `Store` (the timestamp is taken
after the query; a failed encode stores nothing), and the environment's
`Tick`, `ClockStepBack` and `DbWrite` (another client commits a change
to the rows, at most `MaxWrites` times). The age is computed as in the
code: a uint64 difference of wall-clock values (`UintBits` bits). A body
(`Body`) is the arguments it was computed for and the version of the
rows it holds; encodings are left out.

### ExecTx (serveExec and runJob's exec through withConn/withTx)

One exec statement against the database. `conf` chooses TxOptions, an
endpoint (or job) timeout and a datasource timeout. The caller's `pc`
goes through acquire, Exec and, with TxOptions, COMMIT. The server's
state `srv` is the reply waiting on the connection. `db` is the
statement's effect: none, tentative inside the open transaction, or
committed. The three contexts are three events. `epDl` is the
statement's deadline. `dsDl` is the datasource timeout, which bounds
withConn's acquire and withTx's whole BeginTxFunc, COMMIT included.
`bgDone` is Stop cancelling `a.bgctx`. The statement context derives
from `a.bgctx`, and so does withConn's acquire context; withTx's does
not. Actions: `SendStmt`, `AcquireOrSendFail`, `ReadStmtReply`
(autocommit success, or COMMIT sent, or a context already ended failing
Commit), `ReadCommitReply`, `ReadError`, `Interrupted` (pgconn's context
watcher fails the read and closes the connection, aborting what the
server has not finished), `ServerExec`, `ServerCommit`, and the
deadlines. Two runs ask one question: is the reported outcome true
of the database? exec_outcome finds it false (finding 16);
exec_tx_commit shows it true in the one configuration where no context
can end during COMMIT, TxOptions without a datasource timeout.

### Lifecycle (NewAPIServer, Start, Stop, datasources, setupJobs)

State: `cfg` (datasources in order with their lazy flag, and the
datasources named by streams, exec jobs and SQL endpoints), `phase` of
Start, `pools` (`d.pools`, with "closing" between pool.Close's start and
return), `todo`/`toClose`/`hijacked`/`nd` (the loop of
startNotifDispatchers, connsToClose, the open LISTEN connections and
`a.nd`), `cron`, `bgDone`, `srv`, `stop` (Stop's position), and per
user goroutine (a cron job run or an HTTP handler) `upc`, `uds`,
`ukind`. Each datasource entry of `cfg` carries its pool's `minConns`
and `maxConns` (`Unset` for a nil `*int64`). Actions: `NewAPIServer`
(with `IsValid`, the validator's cross-reference checks and
`ConnPoolValid`, ConnPool.validate's checks of the pool sizes),
`StartBegin`, `DsConnect`, `DsStarted`,
`StartNotifDispatcher` (hijack, LISTEN, each of which may fail;
`HijackOK` is datasources.hijack),
`SetupJobs`, `Listen`; `JobFire`, `Request`, `AcquireConn` (a free
connection of a pool of `PoolSize`), `AcquireFail` (closed pool, a
failed connect while there is room, or the context ending: the
datasource's timeout, or a.bgctx cancelled, which withConn waits on and
withTx, on `context.Background()`, does not; `TxUsers` are the
goroutines whose endpoints and jobs have TxOptions), `QueryDone`,
`QueryCancelled`; `StopBegin`, `StopCron`, `StopCancel`,
`StopNotifDispatchers`, `ShutdownBegin`, `ShutdownDone`,
`ShutdownTimeout`, `PoolCloseBegin`, `PoolClosed`, `StopDone`, and
`StopNotifDispatchersAgain` (a Stop called again after a Shutdown
timeout ranges over `a.nd`, which still holds the dispatchers stopped
the first time, `ndStopped`, and panics on the send to a closed
`nd.cmd`). Stop may be called up to `MaxStops` times, again only after
it returned an error. The
dispatchers' goroutines are NotifDispatcher's; here a dispatcher is
running or not. `Ds2Cfg` is ds2cfg's translation of the pool sizes
into pgxpool's int32 fields (`Int32Setting`: a value is kept when it
is positive and at most `MaxInt32`, else ParseConfig's default stays:
MinConns 0, MaxConns `DefaultMaxConns`); `PoolHonoursConfig` compares
it with the configuration of every open pool.

## Runs

| Run | cfg | Expect | What it shows |
|---|---|---|---|
| notif_fanout | MCNotifDispatcher.cfg | pass | 2 subscribers of one channel (one websocket, one SSE), Backlog 1, 3 notifications, disconnects and Stop: `NoGap` (a client receives a prefix of what was offered to it), `LiveWriterRegistered` (an unregister never removes another live writer), `SSERegisteredHasOwner` (an SSE writer in `c2ws` belongs to a live handler), `ImplementsPubSub` (the refinement). 1.3M states. |
| notif_stop | MCNotifDispatcherStop.cfg | pass | `StopDrainsHandlers`: after `a.bgctx` is cancelled every stream handler ends and Shutdown returns (unless the process crashed), even when handlers are blocked on `nd.cmd`. |
| notif_crash | MCNotifDispatcherCrash.cfg | violation | `StreamsAsSpecified` fails. It is the conjunction of three properties. `RegisteredHasOwner` says every writer in `c2ws` belongs to a live handler while the server runs; it fails for websocket writers (finding 2). `QuietStop` says no goroutine panics during Stop: `NoProcessCrash` for the fetcher, and no stream handler panicked; it fails as findings 1 and 13. `ListenerServesSubscribers` says no subscriber streams, while the server runs, after the fetcher has exited; it fails as finding 15. Each of the four findings was reproduced alone with this cfg. |
| script_acquire | MCScriptHost.cfg | pass | `TypeOK`: the connections a script holds in `sctx.conns` come from the pool of the datasource it named. |
| script_teardown | MCScriptHostLeak.cfg | violation | `TeardownAsSpecified` (`NoLeakedConn`: every connection handed out is held by a running invocation; `ResponseAsSpecified`: every response is one spec 4.5 allows for the script's outcome) fails: findings 3, 10 and 11, each reproduced alone. |
| params_conforming | MCParams.cfg | pass | `MatchesSpec` for every valid parameter of every type (with and without enum, bounds, length, pattern, item limits), single and two-parameter endpoints, every request a conforming client sends (GET in the URL, POST in the body) with in-range values, on both architectures. |
| params_edges | MCParamsEdges.cfg | violation | `MatchesSpec` with bounds and inputs beyond int64, NaN/Inf strings and POST query parameters: findings 4-6. |
| cache_hit_valid | MCQueryCacheStep.cfg | violation | `CacheAsSpecified` fails. It is spec section 8 as two properties. `HitValid` says a hit is younger than the TTL and was computed for the request's arguments; it fails as findings 7 and 9. `ConsecutiveIdentical` says a request arriving within the TTL of the entry that served or stored the previous identical body gets that body; it fails as finding 14. |
| lifecycle | MCLifecycle.cfg | pass | For 1280 configurations (the invalid ones rejected) and every outcome of connect, hijack, LISTEN and bind, with two goroutines running jobs or handlers: `CleanStop` (a Stop that returns nil after a good Start leaves nothing open), `StopReturns` (every call of Stop ends; a second call is allowed after a Shutdown timeout). 377k states. |
| exec_outcome | MCExecTx.cfg | violation | `OutcomeTruthful` (a reported success means the statement is committed, a reported failure that it is not) fails: finding 16. |
| exec_tx_commit | MCExecTxCommit.cfg | pass | `OutcomeTruthfulWithTx`: with TxOptions and no datasource timeout the outcome is true whatever the statement's deadline and Stop interrupt, over all eight configurations (every action fires). 288 states. The mutant derives withTx's context from `a.bgctx`. |
| lifecycle_teardown | MCLifecycleLeak.cfg | violation | `LifecycleAsSpecified` fails. `StopTearsDown` (a Stop that returns nil released everything, and no Stop panics) fails as findings 8 and 12; `PoolHonoursConfig` (an open pool has the configured minConns and maxConns, and MinConns <= MaxConns) as finding 17. Each reproduced alone. |

Every property of a passing run has a mutant in `PROJECT.json`: a fault
variant of a mapped operator, defined just before it, that TLC must find
violating the property (e.g. `UnregisterTruncate` removes the last writer
instead of the first match; `CtxDoneClientOnly` ignores `a.bgctx`;
`CheckIntegerMinExclusive` makes the minimum exclusive;
`DsCtxDoneBg` derives withTx's context from `a.bgctx`;
`PoolClosedNoWait` closes a pool without waiting for acquired
connections; `QueryCtxDoneBackground` runs queries on
context.Background()).

### Bounds

- Two writers on the same channel is the smallest case in which one
  writer's unregister can hit the other and in which fan-out order
  matters; a second channel name keeps `c2ws` keyed.
- `Backlog = 1`, `InCap = 1`, `CmdCap = 1`: the code's 16 and 64 only
  delay the full-buffer cases; 1 makes overflow, a blocked fetcher and
  a blocked register reachable in a few steps. `CmdCap` is 1 in the code.
- `MaxNotifs = 3` gives overflow with a payload after it (the gap case);
  the liveness and leak runs use 1 or 2 to keep temporal checking short.
- Scripts: two scripts, two datasources, pools of 1 connection
  (2 for the leak run, where a second acquire of the same datasource must
  succeed), 2 acquire or query calls, 2 runs per script. The passing
  run lets a script end with nothing or a number thrown and an
  undefined or string result (enough to fire every branch that changes
  state); the teardown run enumerates every tag.
- Params: int64 of 3 bits (-4..3) and floats in halves keep every
  boundary of the code: a value with a fraction (2.5), a value just
  beyond int64 (4, as 2^63 is for a YAML maximum of 9223372036854775807),
  negative values, NaN and infinity, empty strings. The passing run
  restricts requests to what a conforming client sends and to in-range
  values, the cases the edges run shows the code gets wrong.
- QueryCache: two requests, TTL 2 ticks, a 4-bit uint64, one clock
  step back of 2 ticks (beyond the TTL, so a step can push an entry into
  the clock's future), one write to the rows: enough for a stale delete
  racing a store and for a hit after a step. Real time stops at 5
  ticks. The run has four argument lists whose keys
  coincide in pairs (nil and "", `[]string{""}` and the string 02 03).
  Each of findings 7 and 9 was also reproduced alone: with one argument
  list, and with no clock step. Finding 14 was reproduced alone with two
  distinct argument lists and no clock step. Under the same bounds,
  `ConsecutiveIdentical` holds in two cases: with one request goroutine,
  and with a delete that leaves a fresh entry in place.
- Lifecycle: two datasources, so that one pool can be open when the
  other fails and map order in startNotifDispatchers matters; each lazy
  or not; every subset of them named by streams, jobs and endpoints; two
  user goroutines, so two runs of a job can hold connections at once;
  `MaxStops = 2`, the least that reaches a repeated Stop; pools of one
  connection, d1 with a timeout and d2 without, and u2 using
  transactions, so a withTx waiter on an exhausted pool that neither
  its timeout nor Stop can end is reached while Shutdown waits.
  The teardown run adds configurations of one datasource with every
  pool setting from {unset, 0, 2, 5, 8}, with `MaxInt32` scaled to 7
  and `DefaultMaxConns` to 4 (TLC's integers are 32-bit): 8 stands for
  an int64 beyond int32, 5 for a minConns above the default MaxConns, 0
  for a size the validator rejects.

### Fairness

Goroutine steps that are enabled until taken (dispatcher receives, loop
steps, Stop's steps, Acquire returning, a query reacting to its
cancelled context) are weakly fair: the Go scheduler runs every
runnable goroutine. Sends blocked on a channel (`FetcherSend`,
`HandlerRegister`, `HandlerUnregister`, `StopSendCmd`) and a waiting
`Acquire` of the script host (which no run checks a liveness of) are strongly fair: they are enabled
intermittently (the buffer fills and drains), and the runtime wakes
blocked senders and pool waiters in FIFO order. Clients, PostgreSQL
(arrival of notifications, a query finishing on its own), user
scripts, the database answering a query (the script host's `QueryEnd`
is fair only once `a.bgctx` is cancelled), Start's outcomes, a broken
LISTEN connection (`FetcherConnLost`) and the operator calling Stop get
no fairness.

## Findings

1. Fetcher panic on Stop (`part_004:434`, run notif_crash): a
   notification held by the fetcher, or a send blocked on a full
   `nd.in`, panics once `stop()` has run `close(nd.in)`; the goroutine has
   no recover, so the process dies during graceful shutdown.
2. Websocket subscriber leak (`part_004:140`, run notif_crash): the
   websocket loop's context is cancelled by a client disconnect, and
   serveStream treats `context.Canceled` as server shutdown and skips
   unregistration.
3. Script connection leak (`script.go:107`, run script_teardown): a second
   `$sys.acquire` of the same datasource overwrites `sctx.conns[name]`;
   teardown releases only the last connection, and pool.Close then waits
   forever, so Stop hangs.
4. int64 conversions (`server_test.go:698`, run params_edges): bounds
   and inputs beyond int64 are converted without a range check; a
   maximum of 2^63 refuses every input on amd64, 1e19 is accepted as
   MaxInt64 on arm64.
5. NaN and Inf as strings (`server_test.go:715`, params_edges) pass
   number parameters, min/max included.
6. Query parameters of POST requests (`server_test.go:878`,
   params_edges) are never read.
7. Wall-clock cache age (`server.go:360`, cache_hit_valid): a step
   back of the clock by D keeps entries for TTL + D.
8. Failed Start leaks (`part_004:81`, lifecycle_teardown): after the pools
   are open, a hijack, LISTEN or bind failure returns with pools,
   dispatchers and the failed LISTEN connection open, and Stop is then a
   no-op because `a.srv` is nil.
9. Cache key framing (`server.go:467`, cache_hit_valid): makeCacheKey
   writes nothing for nil and strings unescaped, so `GET /q` with an
   optional parameter absent and `GET /q?x=` share a key, and one is
   served the body cached for the other. The spec lets keys coincide
   (section 8, "not required to differ"), as a hash collision would;
   here the collision is certain.
10. `throw undefined` is success (`script.go:389`, script_teardown):
    runScript takes an undefined exception value for "nothing thrown",
    so the script is answered 204 or 200; spec 4.5 says 500.
11. Thrown numbers, booleans and arrays (`script.go:338`,
    script_teardown) are answered "script error" instead of the
    exception's message, which runScript computed and the handler drops.
12. Stop again after a Shutdown timeout panics (`part_004:412`,
    lifecycle_teardown): `a.nd` still holds the stopped dispatchers and
    `nd.stop()` sends on the closed `nd.cmd`; the pools are never closed.
13. Stream handlers panic during Stop (`part_004:452`, notif_crash): a
    handler that has not yet registered when stopNotifDispatchers closes
    `nd.cmd` (Shutdown, which stops new requests, comes later) panics in
    `nd.register`, and one whose loop ends with an error other than
    `context.Canceled` panics in `nd.unregister`; net/http recovers and
    logs the panic.

14. Stale delete removes a fresh entry (`server.go:373`, run
    cache_hit_valid). A request that found a stale entry deletes the key
    with `CacheSet(key, nil)` in a separate call after its probe. If a
    concurrent request stored a fresh result in between, the delete
    removes it. The next identical request within the TTL then re-runs
    the query, and after another client's write it gets different rows.
    Spec section 8 says it gets a byte-identical body.
15. Lost LISTEN connection (`part_004:427`, notif_crash). On any
    `WaitForNotification` error the fetcher logs and returns. Nothing
    re-establishes the listener or ends the streams it fed, and new
    stream clients are still accepted. The spec describes one
    long-lived listener and does not say what happens when it dies.

16. A failure reported for a committed exec (`server.go:568`,
    exec_outcome). A deadline that passes after the database committed,
    and before pgconn read the reply, makes serveExec answer 500
    `{rowsAffected:0, error}`; runJob logs "exec failed". Three
    deadlines can do this. The first is the statement's timeout, in
    autocommit. The second is Stop cancelling `a.bgctx`, with no timeout
    configured. The third, with TxOptions, is the datasource timeout:
    withTx runs BeginTxFunc, COMMIT included, on `context.Background()`
    plus that timeout. A client that retries applies the write twice.
    Each path was reproduced alone. With TxOptions and no datasource
    timeout the report is always true.
17. Pool sizes the pool does not get (`server.go:1357`,
    lifecycle_teardown). ConnPool.validate rejects maxConns < minConns
    but compares the two only when both are given, and it accepts any
    positive int64. ds2cfg keeps a size only when it fits int32, and
    otherwise leaves pgxpool's default without a warning. So maxConns
    2^31 with minConns 10 opens a pool with MaxConns max(4, NumCPU),
    and minConns 10 alone does too: MinConns exceeds MaxConns, a
    configuration the validator itself calls an error.
    `PoolHonoursConfig` alone over the pool configurations reproduces
    both. It holds once ds2cfg keeps every value and the default exceeds
    every minConns.

Not a run but recorded as a hazard: a request that read older rows
can store its result over a newer entry, so later hits go back. The
model reaches this state. Spec section 8 promises nothing about it, and
`ConsecutiveIdentical` holds through it, because the next request gets
the last stored body.

## Not modelled yet, and the plan

1. The validator's structural checks (regexes, versions, ports) stay
   out: they are string shapes, not behaviour.
2. `src/model.go` is the configuration's types (of which ConnPool's
   pool sizes enter Lifecycle); its `IsValid`, which only
   asks whether a validation result is an error rather than a warning, is
   not mapped. The configuration is abstracted in MCLifecycle to the
   fields the lifecycle reads (datasource name and `lazy`, the datasources
   of streams, exec jobs and SQL endpoints).

Left out: flag parsing and config loading (I/O), the QuickJS wrapper
(`src/qjs`, an external engine), HTTP routing and response encoding,
SQL text, the regex shape checks of the validator, and logging.
