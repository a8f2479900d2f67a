----------------------------- MODULE ScriptHost -----------------------------
(***************************************************************************)
(* Connections held by scripts (src/script.go: runScript, acquire, query, *)
(* exec, close, runScriptHandler) *)
(* drawn from the per-datasource pools (src/server.go: datasources.acquire,*)
(* datasources.stop), and the end of APIServer.Stop that closes the pools. *)
(*                                                                         *)
(* A script invocation (an endpoint of type javascript or a javascript    *)
(* job) runs in its own goroutine. While it runs it may call              *)
(* $sys.acquire(name, timeout) any number of times; each successful call  *)
(* stores the connection in sctx.conns[name]; teardown (sctx.close)       *)
(* releases the connections found in that map.                           *)
(*                                                                         *)
(* The pool (pgxpool over puddle) is abstracted to a set of connection    *)
(* identities per datasource, at most MaxConns of them: Acquire takes an  *)
(* idle one or waits until one is released, the context is done, or the *)
(* deadline passes; Close rejects new Acquires and blocks until every     *)
(* acquired connection has been released.                                *)
(*                                                                         *)
(* A JS value is abstracted to what runScript and runScriptHandler test:  *)
(* its qjs tag and whether val2any makes it a []any. The response is      *)
(* abstracted to its status code and where its body comes from.          *)
(***************************************************************************)
EXTENDS Naturals, FiniteSets, Functions

CONSTANTS
    Scripts,     \* concurrently running script invocations (goroutines)
    Dss,         \* configured datasource names
    MaxConns,    \* pool size of every datasource
    DsTimeout,   \* DsTimeout[d]: the datasource has "timeout" > 0 configured
    MaxCalls,    \* bound on $sys.acquire calls in one invocation
    MaxRuns,     \* bound on invocations per element of Scripts
    ThrownTags,  \* tags of the values a script may throw ("none": no throw)
    ResultTags   \* tags of the values a script may leave in $sys.result

ASSUME
    /\ MaxConns \in Nat \ {0}
    /\ DsTimeout \in [Dss -> BOOLEAN]
    /\ MaxCalls \in Nat /\ MaxRuns \in Nat

\* A connection is identified by its datasource and a slot number.
Conns == Dss \X (1..MaxConns)
NoConn == <<"none", 0>>

\* The second argument of $sys.acquire as the time.Duration the code
\* computes from it: absent or 0 (0), positive, or negative (also what a
\* JS float below one nanosecond or a negative number becomes).
TimeoutArgs == {0, 1, -1}

\* The values a script may leave in $sys.result or throw: undefined, null,
\* a string, an object (an Error object included: val2any makes it an
\* *Error), an array, and any other (a number, a boolean, a BigInt).
JSVals == {"undefined", "null", "string", "object", "array", "number"}

\* What the evaluation of a script ends with: no exception, or one of JSVals
\* thrown.
Thrown == {"none"} \cup JSVals

NoResp == [thrown |-> "none", res |-> "undefined", code |-> 0, body |-> "none"]

ASSUME ThrownTags \subseteq Thrown /\ ResultTags \subseteq JSVals

VARIABLES
    busy,        \* connections the pools have handed out
    spc,         \* script goroutine: "idle" | "running" | "waiting" | "querying"
    waitDs,      \* the datasource a waiting script is acquiring from
    waitTO,      \* whether its Acquire context has a deadline
    conns,       \* sctx.conns: [Dss -> Conns \cup {NoConn}]
    calls,       \* $sys.acquire calls in the current invocation
    runs,        \* invocations so far
    bgDone,      \* a.bgctx cancelled by Stop
    poolsClosed, \* datasources.stop has called pool.Close
    stopPc,      \* "running" | "cancelled" | "closing" | "closed"
    acquired,    \* history: connections acquired by the current invocation
    lastResp     \* history: the last response of runScriptHandler, with the
                 \* value thrown and the $sys.result it was computed from

vars == <<busy, spc, waitDs, waitTO, conns, calls, runs, bgDone, poolsClosed,
          stopPc, acquired, lastResp>>

-----------------------------------------------------------------------------
EmptyMap == [d \in Dss |-> NoConn]

\* The connections a script holds according to sctx.conns.
Held(s) == Range(conns[s]) \ {NoConn}

ConnsOf(d) == {c \in Conns : c[1] = d}

\* Fault variant of Idle: the connection is taken from any pool.
IdleAny(d) == Conns \ busy

\* datasources.get(name) and the pool's idle connections.
Idle(d) == ConnsOf(d) \ busy

\* datasources.acquire: an explicit timeout > 0 wins, else the
\* datasource's configured timeout, else no deadline (a.bgctx only).
HasDeadline(t, d) == t > 0 \/ DsTimeout[d]

\* acquire succeeded: sctx.conns[dsname] = conn (overwriting any previous
\* connection of that datasource).
Take(s, d, c) ==
    /\ busy' = busy \cup {c}
    /\ conns' = [conns EXCEPT ![s][d] = c]
    /\ acquired' = [acquired EXCEPT ![s] = @ \cup {c}]

\* sctx.close: conn.Release() for every value of sctx.conns.
Release(s) == busy \ Held(s)

\* runScript after ctx.Eval: when the exception value's tag is undefined
\* (no exception, or a script that threw undefined) the result is
\* $sys.result and err is nil; otherwise the result is the thrown value and
\* err is set.
RunScript(thrown, res) ==
    IF thrown \in {"none", "undefined"}
    THEN [tag |-> res, err |-> FALSE, src |-> "result"]
    ELSE [tag |-> thrown, err |-> TRUE, src |-> "thrown"]

\* runScriptHandler: writeResult accepts a string, or an object that is
\* not a []any; a failed script without a result gets err.Error() (for a
\* thrown null, fmt's "<nil>"), one with an unusable result "script
\* error"; a successful one without a result 204.
RunScriptHandler(o) ==
    LET noResult == o.tag \in {"undefined", "null"}
        writable == o.tag \in {"string", "object"}
    IN CASE o.err /\ noResult -> [code |-> 500, body |-> "errstring"]
         [] o.err /\ writable -> [code |-> 500, body |-> o.src]
         [] o.err             -> [code |-> 500, body |-> "script error"]
         [] noResult          -> [code |-> 204, body |-> "empty"]
         [] writable          -> [code |-> 200, body |-> o.src]
         [] OTHER             -> [code |-> 500, body |-> "unsupported"]

-----------------------------------------------------------------------------
Init ==
    /\ busy = {}
    /\ spc = [s \in Scripts |-> "idle"]
    /\ waitDs = [s \in Scripts |-> CHOOSE d \in Dss : TRUE]
    /\ waitTO = [s \in Scripts |-> FALSE]
    /\ conns = [s \in Scripts |-> EmptyMap]
    /\ calls = [s \in Scripts |-> 0]
    /\ runs = [s \in Scripts |-> 0]
    /\ bgDone = FALSE /\ poolsClosed = FALSE /\ stopPc = "running"
    /\ acquired = [s \in Scripts |-> {}]
    /\ lastResp = NoResp

\* runScript: a fresh runtime and context, an empty sctx.conns.
ScriptStart(s) ==
    /\ spc[s] = "idle" /\ runs[s] < MaxRuns /\ ~bgDone
    /\ spc' = [spc EXCEPT ![s] = "running"]
    /\ runs' = [runs EXCEPT ![s] = @ + 1]
    /\ calls' = [calls EXCEPT ![s] = 0]
    /\ conns' = [conns EXCEPT ![s] = EmptyMap]
    /\ acquired' = [acquired EXCEPT ![s] = {}]
    /\ UNCHANGED <<busy, waitDs, waitTO, bgDone, poolsClosed, stopPc, lastResp>>

\* $sys.acquire(name, timeout): the argument checks throw; otherwise
\* pool.Acquire returns an idle connection at once, fails at once (closed
\* pool, cancelled context) or starts waiting.
ScriptAcquire(s) ==
    /\ spc[s] = "running" /\ calls[s] < MaxCalls
    /\ calls' = [calls EXCEPT ![s] = @ + 1]
    /\ \/ /\ UNCHANGED <<busy, conns, acquired, spc, waitDs, waitTO>>   \* throws
       \/ \E d \in Dss, t \in TimeoutArgs :
            \/ /\ ~poolsClosed /\ ~bgDone /\ Idle(d) # {}
               /\ \E c \in Idle(d) : Take(s, d, c)
               /\ UNCHANGED <<spc, waitDs, waitTO>>
            \/ /\ poolsClosed \/ bgDone                              \* throws
               /\ UNCHANGED <<busy, conns, acquired, spc, waitDs, waitTO>>
            \/ /\ ~poolsClosed /\ ~bgDone /\ Idle(d) = {}
               /\ spc' = [spc EXCEPT ![s] = "waiting"]
               /\ waitDs' = [waitDs EXCEPT ![s] = d]
               /\ waitTO' = [waitTO EXCEPT ![s] = HasDeadline(t, d)]
               /\ UNCHANGED <<busy, conns, acquired, lastResp>>
    /\ UNCHANGED <<runs, bgDone, poolsClosed, stopPc, lastResp>>

\* A waiting Acquire gets a released connection.
AcquireGranted(s) ==
    /\ spc[s] = "waiting" /\ Idle(waitDs[s]) # {}
    /\ \E c \in Idle(waitDs[s]) : Take(s, waitDs[s], c)
    /\ spc' = [spc EXCEPT ![s] = "running"]
    /\ UNCHANGED <<waitDs, waitTO, calls, runs, bgDone, poolsClosed, stopPc,
                   lastResp>>

\* A waiting Acquire fails: its deadline passed or a.bgctx was cancelled;
\* acquire throws into the script.
AcquireFailed(s) ==
    /\ spc[s] = "waiting" /\ (waitTO[s] \/ bgDone)
    /\ spc' = [spc EXCEPT ![s] = "running"]
    /\ UNCHANGED <<busy, waitDs, waitTO, conns, calls, runs, bgDone,
                   poolsClosed, stopPc, acquired, lastResp>>

\* parseArgs: at least one argument, and the first (the SQL text) a string;
\* the others are passed to the query as they are.
ParseArgsOK(nargs, first) == nargs >= 1 /\ first = "string"

\* $conn.query(sql, ...) or $conn.exec(sql, ...) with nargs arguments, the
\* first of tag first, on a connection object the script got from
\* $sys.acquire in this invocation (a JS variable keeps it after a later
\* acquire overwrote sctx.conns): parseArgs rejects the arguments and
\* throws, or doQuery/doExec runs on a.bgctx.
QueryBegin(s) ==
    /\ spc[s] = "running" /\ acquired[s] # {} /\ calls[s] < MaxCalls
    /\ calls' = [calls EXCEPT ![s] = @ + 1]
    /\ \E nargs \in 0..2, first \in JSVals :
         spc' = IF ParseArgsOK(nargs, first)
                THEN [spc EXCEPT ![s] = "querying"] ELSE spc
    /\ UNCHANGED <<busy, waitDs, waitTO, conns, runs, bgDone, poolsClosed, stopPc,
                   acquired, lastResp>>

\* The query returns its rows or affected count, or its error (a
\* database error, or the cancelled a.bgctx) is thrown into the script.
QueryEnd(s) ==
    /\ spc[s] = "querying"
    /\ spc' = [spc EXCEPT ![s] = "running"]
    /\ UNCHANGED <<busy, waitDs, waitTO, conns, calls, runs, bgDone, poolsClosed,
                   stopPc, acquired, lastResp>>

\* The evaluation ends, with $sys.result res and possibly a thrown value:
\* sctx.close() releases, the context and runtime are freed, and
\* runScriptHandler writes the response.
ScriptEnd(s) ==
    /\ spc[s] = "running"
    /\ busy' = Release(s)
    /\ spc' = [spc EXCEPT ![s] = "idle"]
    /\ conns' = [conns EXCEPT ![s] = EmptyMap]
    /\ \E thrown \in ThrownTags, res \in ResultTags :
         LET w == RunScriptHandler(RunScript(thrown, res))
         IN lastResp' = [thrown |-> thrown, res |-> res, code |-> w.code, body |-> w.body]
    /\ UNCHANGED <<waitDs, waitTO, calls, runs, bgDone, poolsClosed, stopPc,
                   acquired>>

\* Stop: a.bgctxcancel() ...
StopCancel ==
    /\ stopPc = "running"
    /\ bgDone' = TRUE /\ stopPc' = "cancelled"
    /\ UNCHANGED <<busy, spc, waitDs, waitTO, conns, calls, runs, poolsClosed,
                   acquired, lastResp>>

\* ... and, after the HTTP server is shut down, a.ds.stop(): pool.Close()
\* for every datasource ...
StopClosePools ==
    /\ stopPc = "cancelled"
    /\ poolsClosed' = TRUE /\ stopPc' = "closing"
    /\ UNCHANGED <<busy, spc, waitDs, waitTO, conns, calls, runs, bgDone,
                   acquired, lastResp>>

\* ... which returns once every acquired connection is back.
StopPoolsClosed ==
    /\ stopPc = "closing" /\ busy = {}
    /\ stopPc' = "closed"
    /\ UNCHANGED <<busy, spc, waitDs, waitTO, conns, calls, runs, bgDone,
                   poolsClosed, acquired, lastResp>>

\* The process has exited after Stop returned, or no more invocations
\* are allowed by the bounds and all have ended.
Quiescent ==
    /\ \/ stopPc = "closed"
       \/ \A s \in Scripts : spc[s] = "idle" /\ runs[s] = MaxRuns
    /\ UNCHANGED vars

Next ==
    \/ \E s \in Scripts :
         \/ ScriptStart(s) \/ ScriptAcquire(s) \/ AcquireGranted(s)
         \/ AcquireFailed(s) \/ QueryBegin(s) \/ QueryEnd(s) \/ ScriptEnd(s)
    \/ StopCancel \/ StopClosePools \/ StopPoolsClosed
    \/ Quiescent

\* Goroutines blocked in Acquire are served when a connection is released
\* or their context ends; a query returns once a.bgctx is cancelled;
\* Stop's own steps run. Scripts are user code and are not assumed to
\* finish, nor is the database to answer.
Fairness ==
    /\ \A s \in Scripts : SF_vars(AcquireGranted(s)) /\ WF_vars(AcquireFailed(s))
    /\ \A s \in Scripts : WF_vars(bgDone /\ QueryEnd(s))
    /\ WF_vars(StopClosePools) /\ WF_vars(StopPoolsClosed)

Spec == Init /\ [][Next]_vars /\ Fairness

\* The same, for scripts whose code always finishes.
FiniteScriptsSpec == Spec /\ \A s \in Scripts : WF_vars(ScriptEnd(s))

-----------------------------------------------------------------------------
(* Properties.                                                             *)

\* Types; in particular a connection stored under sctx.conns[name] comes
\* from the pool of the datasource called name.
TypeOK ==
    /\ busy \subseteq Conns
    /\ spc \in [Scripts -> {"idle", "running", "waiting", "querying"}]
    /\ waitDs \in [Scripts -> Dss] /\ waitTO \in [Scripts -> BOOLEAN]
    /\ \A s \in Scripts, d \in Dss : conns[s][d] \in ConnsOf(d) \cup {NoConn}
    /\ calls \in [Scripts -> 0..MaxCalls] /\ runs \in [Scripts -> 0..MaxRuns]
    /\ {bgDone, poolsClosed} \subseteq BOOLEAN
    /\ stopPc \in {"running", "cancelled", "closing", "closed"}
    /\ acquired \in [Scripts -> SUBSET Conns]
    /\ lastResp \in {NoResp} \cup
         [thrown : Thrown, res : JSVals, code : {200, 204, 500},
          body : {"result", "thrown", "errstring", "script error", "empty", "unsupported"}]

\* Every connection a pool has handed out to a script is in the
\* sctx.conns of a script invocation that has not finished, so that its
\* teardown releases it ("all connections acquired by the script are
\* released when the host tears the sandbox down").
NoLeakedConn ==
    \A c \in busy : \E s \in Scripts : spc[s] # "idle" /\ c \in Held(s)

\* The responses spec 4.5 allows for a script that threw a value with tag
\* thrown ("none": nothing thrown) and left $sys.result with tag res: a
\* thrown exception is a 500 whose body is the exception's message (for a
\* thrown null also its Go rendering), or the result when that is a string
\* or object; otherwise 204, 200 or the unsupported-type 500 by the result.
SpecResponses(thrown, res) ==
    LET writable == res \in {"string", "object"}
    IN IF thrown # "none"
       THEN {[code |-> 500, body |-> b] :
               b \in {"thrown"} \cup (IF thrown = "null" THEN {"errstring"} ELSE {})
                     \cup (IF writable THEN {"result"} ELSE {})}
       ELSE IF res \in {"undefined", "null"} THEN {[code |-> 204, body |-> "empty"]}
       ELSE IF writable THEN {[code |-> 200, body |-> "result"]}
       ELSE {[code |-> 500, body |-> "unsupported"]}

\* Every response runScriptHandler wrote is one spec 4.5 allows for the
\* value the script threw and the $sys.result it left.
ResponseAsSpecified ==
    lastResp # NoResp =>
        [code |-> lastResp.code, body |-> lastResp.body]
            \in SpecResponses(lastResp.thrown, lastResp.res)

\* The script host's teardown as spec 4.5 states it: the connections are
\* released and the response follows the script's outcome.
TeardownAsSpecified == NoLeakedConn /\ ResponseAsSpecified

=============================================================================
