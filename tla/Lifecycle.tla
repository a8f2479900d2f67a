----------------------------- MODULE Lifecycle ------------------------------
(***************************************************************************)
(* The server's lifecycle (src/server.go NewAPIServer, Start, Stop, the   *)
(* datasources manager; startNotifDispatchers of src/unnamed/part_004;    *)
(* setupJobs and runJob of src/params_test.go), and the goroutines that   *)
(* use the pools meanwhile: cron jobs and HTTP handlers of query and exec *)
(* endpoints.                                                              *)
(*                                                                         *)
(* The configuration is abstracted to what the lifecycle depends on: the  *)
(* datasources in order (name, lazy), the datasources that streams,       *)
(* exec jobs and SQL endpoints name. Connecting, hijacking a connection,  *)
(* LISTEN and binding the port may fail; a query may be cancelled through *)
(* a.bgctx. The dispatchers' own goroutines are modelled in              *)
(* NotifDispatcher; here a dispatcher is running or stopped.              *)
(***************************************************************************)
EXTENDS Naturals, Sequences, FiniteSets

CONSTANTS
    DsNames,     \* datasource names
    Users,       \* goroutines that use pools: cron job runs and handlers
    Configs,     \* the configurations NewAPIServer may be given
    MaxStops,    \* bound on the calls of Stop (a caller may retry after an error)
    PoolSize,    \* MaxConns of every pool
    DsTimeout,   \* DsTimeout[d]: datasource d has "timeout" > 0 configured
    TxUsers,     \* the users whose endpoints and jobs have TxOptions (withTx's own path)
    MaxInt32,    \* math.MaxInt32, the width of pgxpool's MinConns and MaxConns
    DefaultMaxConns \* the MaxConns pgxpool.ParseConfig sets: max(4, runtime.NumCPU())

ASSUME PoolSize \in Nat \ {0} /\ DsTimeout \in [DsNames -> BOOLEAN] /\ TxUsers \subseteq Users
ASSUME DefaultMaxConns \in 1..MaxInt32

VARIABLES
    cfg,         \* the configuration
    phase,       \* "new" | "created" | "rejected" | "ds" | "nd" | "listen" | "up" | "failed"
    why,         \* what made Start fail
    i,           \* index of the datasource loop in datasources.start
    pools,       \* d.pools: datasource -> "none" | "open" | "closing" | "closed"
    todo,        \* datasources startNotifDispatchers has still to visit
    toClose,     \* connsToClose
    hijacked,    \* datasources whose hijacked LISTEN connection is open
    nd,          \* a.nd: datasources with a running notification dispatcher
    cron,        \* "off" | "on" | "stopped"
    bgDone,      \* a.bgctxcancel() has run
    srv,         \* a.srv: "nil" | "up" | "shutdown"
    stop,        \* position in Stop: "no" | "cron" | "cancel" | "nd" | "shutdown"
                 \* | "wait" | "dsstop" | "done" | "err" | "panic"
    stops,       \* number of calls of Stop so far
    ndStopped,   \* dispatchers in a.nd whose stop() has closed nd.cmd
    upc,         \* per user goroutine: "idle" | "acq" | "held"
    uds,         \* per user: the datasource it uses
    ukind        \* per user: "job" | "req"

vars == <<cfg, phase, why, i, pools, todo, toClose, hijacked, nd, cron, bgDone,
          srv, stop, upc, uds, ukind, stops, ndStopped>>

\* The Stop bookkeeping, left alone by every step but Stop's own.
stopVars == <<stops, ndStopped>>

Names(c) == {c.dss[k].name : k \in DOMAIN c.dss}

\* The datasources that have at least one stream (ds2pgchans' keys).
StreamDs(c) == {s.ds : s \in c.streams}

-----------------------------------------------------------------------------
(* Cross-reference checks of APIServerConfig.validate; the structural     *)
(* checks (regexes, versions, ports) are left out.                        *)

\* check uniqueness of datasource names
DsNamesUnique(c) ==
    \A k, l \in DOMAIN c.dss : c.dss[k].name = c.dss[l].name => k = l

\* Stream.validate: unknown datasource
StreamDsKnown(c) == \A s \in c.streams : s.ds \in Names(c)

\* Job.validate: an exec job needs a known datasource
JobDsKnown(c) == c.jobs \subseteq Names(c)

\* Fault variant of EndpointDsKnown: the datasource of SQL endpoints is
\* not checked.
EndpointDsKnownSkip(c) == TRUE

\* Endpoint.validate: query and exec endpoints need a known datasource
EndpointDsKnown(c) == c.eps \subseteq Names(c)

\* An optional *int64 of ConnPool: <<>> is nil, <<n>> is n.
Unset == <<>>

\* ConnPool.validate: minConns and maxConns, where given, must be > 0, and
\* maxConns < minConns is an error. A datasource without "pool" has both
\* unset.
ConnPoolValid(p) ==
    /\ p.minConns # Unset => p.minConns[1] > 0
    /\ p.maxConns # Unset => p.maxConns[1] > 0
    /\ p.minConns # Unset /\ p.maxConns # Unset => p.maxConns[1] >= p.minConns[1]

IsValid(c) ==
    /\ DsNamesUnique(c) /\ StreamDsKnown(c) /\ JobDsKnown(c) /\ EndpointDsKnown(c)
    /\ \A k \in DOMAIN c.dss : ConnPoolValid(c.dss[k].pool)

\* ds2cfg's pool parameters: a configured value is taken when it is > 0
\* and fits the int32 of pgxpool.Config; otherwise ParseConfig's default
\* stays (MinConns 0, MaxConns DefaultMaxConns).
Int32Setting(o, default) ==
    IF o # Unset /\ o[1] > 0 /\ o[1] <= MaxInt32 THEN o[1] ELSE default

Ds2Cfg(s) ==
    [minConns |-> Int32Setting(s.pool.minConns, 0),
     maxConns |-> Int32Setting(s.pool.maxConns, DefaultMaxConns)]

-----------------------------------------------------------------------------
Init ==
    /\ cfg \in Configs
    /\ phase = "new" /\ why = "none" /\ i = 1
    /\ pools = [d \in DsNames |-> "none"]
    /\ todo = {} /\ toClose = {} /\ hijacked = {} /\ nd = {}
    /\ cron = "off" /\ bgDone = FALSE /\ srv = "nil" /\ stop = "no"
    /\ stops = 0 /\ ndStopped = {}
    /\ upc = [u \in Users |-> "idle"]
    /\ uds = [u \in Users |-> CHOOSE d \in DsNames : TRUE]
    /\ ukind = [u \in Users |-> "req"]

\* NewAPIServer: an invalid configuration is rejected.
NewAPIServer ==
    /\ phase = "new"
    /\ phase' = IF IsValid(cfg) THEN "created" ELSE "rejected"
    /\ UNCHANGED <<cfg, why, i, pools, todo, toClose, hijacked, nd, cron, bgDone,
                   srv, stop, upc, uds, ukind, stopVars>>

\* Start creates a.bgctx and runs prepareParams, then datasources.start.
StartBegin ==
    /\ phase = "created"
    /\ phase' = "ds" /\ i' = 1
    /\ UNCHANGED <<cfg, why, pools, todo, toClose, hijacked, nd, cron, bgDone,
                   srv, stop, upc, uds, ukind, stopVars>>

\* d.stop(): every pool stored so far is closed (none is in use yet).
CloseAll(p) == [d \in DsNames |-> IF p[d] = "open" THEN "closed" ELSE p[d]]

\* One iteration of datasources.start: dsconnect either stores the pool or,
\* for a source that is not lazy, fails; then the pools opened so far are
\* closed and Start returns the error.
DsConnect ==
    /\ phase = "ds" /\ i <= Len(cfg.dss)
    /\ LET s == cfg.dss[i] IN
       \/ /\ pools' = [pools EXCEPT ![s.name] = "open"]
          /\ i' = i + 1
          /\ UNCHANGED <<phase, why, stopVars>>
       \/ /\ ~s.lazy
          /\ pools' = CloseAll(pools)
          /\ phase' = "failed" /\ why' = "connect"
          /\ UNCHANGED i
    /\ UNCHANGED <<cfg, todo, toClose, hijacked, nd, cron, bgDone, srv, stop,
                   upc, uds, ukind, stopVars>>

\* All datasources connected: startNotifDispatchers builds ds2pgchans.
DsStarted ==
    /\ phase = "ds" /\ i > Len(cfg.dss)
    /\ phase' = "nd" /\ todo' = StreamDs(cfg)
    /\ UNCHANGED <<cfg, why, i, pools, toClose, hijacked, nd, cron, bgDone, srv,
                   stop, upc, uds, ukind, stopVars>>

\* On an error, startNotifDispatchers closes connsToClose and returns it.
\* The dispatchers already started keep running, and the connection of
\* the datasource that failed is not in connsToClose.
NdFail(h) ==
    /\ hijacked' = h \ toClose
    /\ phase' = "failed"
    /\ todo' = {}

\* datasources.hijack: d.get finds the pool, pool.Acquire on a.bgctx
\* gets a connection (no job or handler runs yet, so one is free) or fails
\* to connect, and Hijack takes it out of the pool.
HijackOK(d) == IF pools[d] = "open" THEN BOOLEAN ELSE {FALSE}

\* One iteration of the loop over ds2pgchans (in map order): hijack a pool
\* connection, LISTEN on it and start the dispatcher, storing it in a.nd.
\* LISTEN can fail after a successful hijack.
StartNotifDispatcher ==
    /\ phase = "nd"
    /\ \E d \in todo : \E ok \in HijackOK(d) :
        \/ /\ ~ok
           /\ NdFail(hijacked)
           /\ why' = "hijack"
           /\ UNCHANGED <<nd, toClose, stopVars>>
        \/ /\ ok
           /\ NdFail(hijacked \cup {d})
           /\ why' = "listen"
           /\ UNCHANGED <<nd, toClose, stopVars>>
        \/ /\ ok
           /\ hijacked' = hijacked \cup {d}
           /\ nd' = nd \cup {d}
           /\ toClose' = toClose \cup {d}
           /\ todo' = todo \ {d}
           /\ UNCHANGED <<phase, why, stopVars>>
    /\ UNCHANGED <<cfg, i, pools, cron, bgDone, srv, stop, upc, uds, ukind, stopVars>>

\* Every dispatcher started: setupJobs schedules the jobs (their schedules
\* were parsed by the validator with the same cron parser, so AddFunc does
\* not fail) and the cron starts.
SetupJobs ==
    /\ phase = "nd" /\ todo = {}
    /\ cron' = "on" /\ phase' = "listen"
    /\ UNCHANGED <<cfg, why, i, pools, todo, toClose, hijacked, nd, bgDone, srv,
                   stop, upc, uds, ukind, stopVars>>

\* net.Listen binds the port (or fails, and Start returns the error with
\* everything running), then the HTTP server is started.
Listen ==
    /\ phase = "listen"
    /\ \/ /\ srv' = "up" /\ phase' = "up"
          /\ UNCHANGED why
       \/ /\ phase' = "failed" /\ why' = "bind"
          /\ UNCHANGED srv
    /\ UNCHANGED <<cfg, i, pools, todo, toClose, hijacked, nd, cron, bgDone, stop,
                   upc, uds, ukind, stopVars>>

-----------------------------------------------------------------------------
(* Goroutines that use the pools while the server runs.                   *)

\* The cron fires an exec job (runJob), while it is started.
JobFire(u) ==
    /\ cron = "on" /\ upc[u] = "idle"
    /\ \E d \in cfg.jobs : uds' = [uds EXCEPT ![u] = d]
    /\ upc' = [upc EXCEPT ![u] = "acq"] /\ ukind' = [ukind EXCEPT ![u] = "job"]
    /\ UNCHANGED <<cfg, phase, why, i, pools, todo, toClose, hijacked, nd, cron,
                   bgDone, srv, stop, stopVars>>

\* The HTTP server runs the handler of a query or exec endpoint (serve).
Request(u) ==
    /\ srv = "up" /\ upc[u] = "idle"
    /\ \E d \in cfg.eps : uds' = [uds EXCEPT ![u] = d]
    /\ upc' = [upc EXCEPT ![u] = "acq"] /\ ukind' = [ukind EXCEPT ![u] = "req"]
    /\ UNCHANGED <<cfg, phase, why, i, pools, todo, toClose, hijacked, nd, cron,
                   bgDone, srv, stop, stopVars>>

\* The connections pool d has handed out to jobs and handlers (a
\* hijacked LISTEN connection has left the pool).
InUse(d) == {u \in Users : upc[u] = "held" /\ uds[u] = d}

\* The context Acquire waits on: withConn derives it from d.bgctx,
\* withTx from context.Background(); either adds the datasource's timeout.
AcquireCtx(u) == IF u \in TxUsers THEN "background" ELSE "bgctx"

\* Whether that context can end: its timeout fires, or Stop cancelled
\* a.bgctx.
AcquireCtxCanEnd(u) ==
    \/ DsTimeout[uds[u]]
    \/ AcquireCtx(u) = "bgctx" /\ bgDone

\* withTx/withConn: pool.AcquireFunc or BeginTxFunc gets a connection of
\* the open pool when one is free.
AcquireConn(u) ==
    /\ upc[u] = "acq" /\ pools[uds[u]] = "open"
    /\ Cardinality(InUse(uds[u])) < PoolSize
    /\ upc' = [upc EXCEPT ![u] = "held"]
    /\ UNCHANGED <<cfg, phase, why, i, pools, todo, toClose, hijacked, nd, cron,
                   bgDone, srv, stop, uds, ukind, stopVars>>

\* ... or returns an error: the pool is closed or missing, opening a new
\* connection failed, or the context ended. The handler answers 500 and
\* the job logs the error.
AcquireFail(u) ==
    /\ upc[u] = "acq"
    /\ \/ pools[uds[u]] # "open"
       \/ Cardinality(InUse(uds[u])) < PoolSize
       \/ AcquireCtxCanEnd(u)
    /\ upc' = [upc EXCEPT ![u] = "idle"]
    /\ UNCHANGED <<cfg, phase, why, i, pools, todo, toClose, hijacked, nd, cron,
                   bgDone, srv, stop, uds, ukind, stopVars>>

\* The query or exec returns and the connection goes back to the pool.
QueryDone(u) ==
    /\ upc[u] = "held"
    /\ upc' = [upc EXCEPT ![u] = "idle"]
    /\ UNCHANGED <<cfg, phase, why, i, pools, todo, toClose, hijacked, nd, cron,
                   bgDone, srv, stop, uds, ukind, stopVars>>

\* Fault variant of QueryCtxDone: the query runs on context.Background().
QueryCtxDoneBackground(u) == FALSE

\* Whether the query's context is done: serveQuery, serveExec and runJob
\* pass a context derived from a.bgctx to Query and Exec, also inside the
\* transaction withTx begins on context.Background().
QueryCtxDone(u) == bgDone

\* A cancelled context aborts the query and the connection is released.
QueryCancelled(u) ==
    /\ upc[u] = "held" /\ QueryCtxDone(u)
    /\ upc' = [upc EXCEPT ![u] = "idle"]
    /\ UNCHANGED <<cfg, phase, why, i, pools, todo, toClose, hijacked, nd, cron,
                   bgDone, srv, stop, uds, ukind, stopVars>>

-----------------------------------------------------------------------------
(* Stop, called once Start has returned.                                  *)

\* Stop returns nil at once when a.srv is nil. After a Shutdown timeout
\* a.srv is still set, so a Stop called again runs every step again.
StopBegin ==
    /\ phase \in {"up", "failed"} /\ stop \in {"no", "err"} /\ stops < MaxStops
    /\ stop' = IF srv = "nil" THEN "done" ELSE "cron"
    /\ stops' = stops + 1
    /\ UNCHANGED <<cfg, phase, why, i, pools, todo, toClose, hijacked, nd, cron,
                   bgDone, srv, upc, uds, ukind, ndStopped>>

\* a.c.Stop(): no more fires; running jobs are not waited for.
StopCron ==
    /\ stop = "cron"
    /\ cron' = "stopped" /\ stop' = "cancel"
    /\ UNCHANGED <<cfg, phase, why, i, pools, todo, toClose, hijacked, nd, bgDone,
                   srv, upc, uds, ukind, stopVars>>

StopCancel ==
    /\ stop = "cancel"
    /\ bgDone' = TRUE /\ stop' = "nd"
    /\ UNCHANGED <<cfg, phase, why, i, pools, todo, toClose, hijacked, nd, cron,
                   srv, upc, uds, ukind, stopVars>>

\* stopNotifDispatchers ranges over a.nd, which nothing ever empties: each
\* dispatcher closes its connection, is sent actStop and joined, and has
\* nd.cmd and nd.in closed.
StopNotifDispatchers ==
    /\ stop = "nd" /\ ndStopped = {}
    /\ hijacked' = hijacked \ nd /\ ndStopped' = nd /\ nd' = {}
    /\ stop' = "shutdown"
    /\ UNCHANGED <<cfg, phase, why, i, pools, todo, toClose, cron, bgDone, srv,
                   upc, uds, ukind, stops>>

\* A later Stop reaches a dispatcher stopped before: the send of actStop
\* on its closed nd.cmd panics in Stop's goroutine.
StopNotifDispatchersAgain ==
    /\ stop = "nd" /\ ndStopped # {}
    /\ stop' = "panic"
    /\ UNCHANGED <<cfg, phase, why, i, pools, todo, toClose, hijacked, nd, cron,
                   bgDone, srv, upc, uds, ukind, stopVars>>

\* a.srv.Shutdown(ctx): stop accepting, then wait for running handlers.
ShutdownBegin ==
    /\ stop = "shutdown"
    /\ srv' = "shutdown" /\ stop' = "wait"
    /\ UNCHANGED <<cfg, phase, why, i, pools, todo, toClose, hijacked, nd, cron,
                   bgDone, upc, uds, ukind, stopVars>>

Busy(k) == {u \in Users : upc[u] # "idle" /\ ukind[u] = k}

ShutdownDone ==
    /\ stop = "wait" /\ Busy("req") = {}
    /\ srv' = "nil" /\ stop' = "dsstop"
    /\ UNCHANGED <<cfg, phase, why, i, pools, todo, toClose, hijacked, nd, cron,
                   bgDone, upc, uds, ukind, stopVars>>

\* The timeout passes with handlers still running: Stop returns the error
\* and the pools stay open.
ShutdownTimeout ==
    /\ stop = "wait" /\ Busy("req") # {}
    /\ stop' = "err"
    /\ UNCHANGED <<cfg, phase, why, i, pools, todo, toClose, hijacked, nd, cron,
                   bgDone, srv, upc, uds, ukind, stopVars>>

\* datasources.stop, one pool of the Range at a time: pool.Close marks the
\* pool closed (Acquire fails from then on) ...
PoolCloseBegin(d) ==
    /\ stop = "dsstop" /\ pools[d] = "open"
    /\ \A e \in DsNames : pools[e] # "closing"
    /\ pools' = [pools EXCEPT ![d] = "closing"]
    /\ UNCHANGED <<cfg, phase, why, i, todo, toClose, hijacked, nd, cron, bgDone,
                   srv, stop, upc, uds, ukind, stopVars>>

\* Fault variant of PoolClosed: Close does not wait for acquired
\* connections.
PoolClosedNoWait(d) ==
    /\ pools[d] = "closing"
    /\ pools' = [pools EXCEPT ![d] = "closed"]
    /\ UNCHANGED <<cfg, phase, why, i, todo, toClose, hijacked, nd, cron, bgDone,
                   srv, stop, upc, uds, ukind, stopVars>>

\* ... and returns once every acquired connection is back.
PoolClosed(d) ==
    /\ pools[d] = "closing"
    /\ \A u \in Users : upc[u] = "held" => uds[u] # d
    /\ pools' = [pools EXCEPT ![d] = "closed"]
    /\ UNCHANGED <<cfg, phase, why, i, todo, toClose, hijacked, nd, cron, bgDone,
                   srv, stop, upc, uds, ukind, stopVars>>

StopDone ==
    /\ stop = "dsstop" /\ \A d \in DsNames : pools[d] \notin {"open", "closing"}
    /\ stop' = "done"
    /\ UNCHANGED <<cfg, phase, why, i, pools, todo, toClose, hijacked, nd, cron,
                   bgDone, srv, upc, uds, ukind, stopVars>>

\* The process ends: NewAPIServer failed, or Stop returned, with no
\* goroutine left using a pool.
Terminated ==
    /\ \/ stop = "panic"
       \/ /\ phase = "rejected" \/ stop \in {"done", "err"}
          /\ \A u \in Users : upc[u] = "idle"
    /\ UNCHANGED vars

Next ==
    \/ NewAPIServer \/ StartBegin \/ DsConnect \/ DsStarted
    \/ StartNotifDispatcher \/ SetupJobs \/ Listen
    \/ \E u \in Users : JobFire(u) \/ Request(u) \/ AcquireConn(u) \/ AcquireFail(u)
                        \/ QueryDone(u)
                        \/ QueryCancelled(u)
    \/ StopBegin \/ StopCron \/ StopCancel \/ StopNotifDispatchers
    \/ StopNotifDispatchersAgain
    \/ ShutdownBegin \/ ShutdownDone \/ ShutdownTimeout \/ StopDone
    \/ \E d \in DsNames : PoolCloseBegin(d) \/ PoolClosed(d)
    \/ Terminated

\* The Go scheduler runs every runnable goroutine: Stop's steps, an
\* Acquire that can return (a free connection is handed to waiters in
\* turn, so a waiter is served when one keeps being released) and a
\* query's reaction to its cancelled context. Clients, the database
\* finishing a query, Start's outcome and the call of Stop get no
\* fairness.
Fairness ==
    /\ WF_vars(StopCron) /\ WF_vars(StopCancel) /\ WF_vars(StopNotifDispatchers)
    /\ WF_vars(StopNotifDispatchersAgain)
    /\ WF_vars(ShutdownBegin) /\ WF_vars(ShutdownDone \/ ShutdownTimeout)
    /\ WF_vars(StopDone)
    /\ \A d \in DsNames : WF_vars(PoolCloseBegin(d)) /\ WF_vars(PoolClosed(d))
    /\ \A u \in Users : SF_vars(AcquireConn(u)) /\ WF_vars(AcquireFail(u)) /\ WF_vars(QueryCancelled(u))

Spec == Init /\ [][Next]_vars /\ Fairness

-----------------------------------------------------------------------------
(* Properties.                                                            *)

\* Types; a pool user only ever names a datasource of the configuration
\* (the validator's cross-reference checks are what make d.get's "not
\* found" error unreachable).
TypeOK ==
    /\ phase \in {"new", "created", "rejected", "ds", "nd", "listen", "up", "failed"}
    /\ why \in {"none", "connect", "hijack", "listen", "bind"}
    /\ pools \in [DsNames -> {"none", "open", "closing", "closed"}]
    /\ todo \subseteq DsNames /\ toClose \subseteq DsNames
    /\ hijacked \subseteq DsNames /\ nd \subseteq DsNames
    /\ cron \in {"off", "on", "stopped"} /\ bgDone \in BOOLEAN
    /\ srv \in {"nil", "up", "shutdown"}
    /\ stop \in {"no", "cron", "cancel", "nd", "shutdown", "wait", "dsstop", "done", "err",
                "panic"}
    /\ stops \in 0..MaxStops /\ ndStopped \subseteq DsNames
    /\ upc \in [Users -> {"idle", "acq", "held"}]
    /\ ukind \in [Users -> {"job", "req"}]
    /\ \A u \in Users : upc[u] # "idle" => uds[u] \in Names(cfg)

\* Nothing the server opened is left: no pool open or closing, no hijacked
\* connection, no dispatcher goroutine, no cron, no connection held.
Released ==
    /\ \A d \in DsNames : pools[d] \in {"none", "closed"}
    /\ hijacked = {} /\ nd = {} /\ cron # "on"
    /\ \A u \in Users : upc[u] # "held"

\* When Stop returns nil after a successful Start, everything Start opened
\* is released: the pools were closed only after the connections that jobs
\* and handlers held went back (pool.Close waits), and every dispatcher
\* was stopped.
CleanStop ==
    (phase = "up" /\ stop = "done") => Released

\* Every call of Stop ends: the cancellation of a.bgctx reaches every
\* query holding a connection, so Shutdown ends or times out and every
\* pool.Close returns (or a repeated call panics).
StopReturns ==
    (stop = "cron") ~> (stop \in {"done", "err", "panic"})

\* Spec section 3 (Lifecycle): everything Start builds is torn down on
\* Stop. A Stop that returns nil has released everything, also after a
\* Start that failed once the pools were open; and no call of Stop fails
\* by panicking, also when a caller calls it again after a Shutdown
\* timeout.
StopTearsDown ==
    /\ stop = "done" => Released
    /\ stop # "panic"

\* ConnPool.validate rejects maxConns < minConns and accepts any positive
\* int64. A pool that datasources.start opens for an accepted
\* configuration has the minConns and maxConns the configuration gives,
\* and so MinConns <= MaxConns. ds2cfg drops a value beyond int32
\* without a warning and leaves ParseConfig's default in its place.
PoolHonoursConfig ==
    \A k \in DOMAIN cfg.dss :
        LET s == cfg.dss[k]  pc == Ds2Cfg(s) IN
        pools[s.name] = "open" =>
            /\ s.pool.minConns # Unset => pc.minConns = s.pool.minConns[1]
            /\ s.pool.maxConns # Unset => pc.maxConns = s.pool.maxConns[1]
            /\ pc.minConns <= pc.maxConns

\* What the lifecycle_teardown run checks: Stop's teardown, and the pools
\* Start builds.
LifecycleAsSpecified == StopTearsDown /\ PoolHonoursConfig
=============================================================================
