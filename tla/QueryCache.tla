----------------------------- MODULE QueryCache -----------------------------
(***************************************************************************)
(* The response cache of query endpoints (src/server.go serveQuery, with  *)
(* the runtime's cacheSet/cacheGet of src/cmd/rapidrows/main.go).         *)
(*                                                                         *)
(* Requests to one endpoint are served concurrently by net/http         *)
(* goroutines. Each probes the cache under the key of its arguments: an  *)
(* entry whose age elapsed = uint64(now) - timestamp is at most the TTL  *)
(* is served; an older entry is deleted with CacheSet(key, nil), in a    *)
(* call separate from the probe; on a miss or after the delete the query *)
(* runs, and the encoded result is stored with a timestamp taken after   *)
(* the query. Timestamps are wall-clock nanoseconds                      *)
(* (time.Now().UnixNano()), which an NTP step can move backwards; real   *)
(* time is tracked separately to state freshness.                        *)
(*                                                                         *)
(* Requests carry argument lists (getParams' output) and the cache is     *)
(* keyed by makeCacheKey: the URI and each argument framed by the bytes  *)
(* 2 and 3. The 64-bit xxhash of that byte string is taken to be          *)
(* injective, so two keys are equal exactly when the byte strings are.    *)
(* A body is abstracted to the arguments it was computed for and the    *)
(* version of the database rows the query read; other clients commit    *)
(* writes that change the rows. Encodings and content types are left    *)
(* out.                                                                   *)
(***************************************************************************)
EXTENDS Naturals, Integers, Sequences, SequencesExt

CONSTANTS
    Reqs,        \* request goroutines serving the endpoint
    TTL,         \* cacheTTLNanos, in clock ticks
    MaxTime,     \* bound on real time
    MaxSteps,    \* bound on backward steps of the wall clock
    StepSize,    \* how far one step moves the wall clock back
    UintBits,    \* width of uint64 in the model
    Uri,         \* the endpoint's URI, a sequence of bytes
    Args,        \* the argument lists requests may carry
    MaxWrites    \* bound on writes other clients commit to the rows

ASSUME TTL \in Nat \ {0} /\ MaxSteps * StepSize < 2 ^ UintBits

Wrap == 2 ^ UintBits
NoEntry == [ts |-> 0, rt |-> 0, none |-> TRUE, args |-> <<>>, v |-> 0]
NoBody == [none |-> TRUE]
\* A response body: the rows of version v, queried for arguments for.
Body(for, v) == [none |-> FALSE, for |-> for, v |-> v]
\* History of served bodies, kept only while a property can tell it apart:
\* the previous body once its TTL window has passed, and a served body
\* nothing was expected of, are forgotten.
NoLast == [body |-> NoBody, fill |-> 0]
Served(body, expect) ==
    IF expect.none THEN [body |-> NoBody, expect |-> NoBody]
    ELSE [body |-> body, expect |-> expect]

\* Arguments as getParams returns them: nil, a string, a []string (a
\* string is a sequence of bytes).
Nil == [t |-> "nil"]
Str(s) == [t |-> "str", s |-> s]
Strs(l) == [t |-> "strs", l |-> l]

\* startOfValue b || endOfValue.
Framed(b) == <<2>> \o b \o <<3>>

\* The bytes makeCacheKey writes between the frame of one argument.
ArgBytes(a) ==
    CASE a.t = "str"  -> a.s
      [] a.t = "strs" -> FlattenSeq([k \in DOMAIN a.l |-> Framed(a.l[k])])
      [] a.t = "nil"  -> <<>>

\* makeCacheKey(uri, args): the URI, then every argument, framed.
MakeCacheKey(args) ==
    Framed(Uri) \o FlattenSeq([k \in DOMAIN args |-> Framed(ArgBytes(args[k]))])

Keys == {MakeCacheKey(a) : a \in Args}

VARIABLES
    rt,        \* real time
    skew,      \* wall clock minus real time (<= 0 after steps back)
    steps,     \* backward steps so far
    cache,     \* per key: the entry, or NoEntry
    pc,        \* per request: "idle" | "stale" | "query" | "encode"
    rargs,     \* per request: its arguments
    hit,       \* history: the last hit, with the real time since the store,
               \* and the arguments of the request and of the stored result
    db,        \* version of the rows in the database
    rows,      \* per request: version of the rows its query read
    last,      \* history, per argument list: the last body served from or
               \* stored to the cache, and when that entry was stored
    seen,      \* history, per request: the body of the previous identical
               \* request if it was cached at most TTL ticks before this
               \* request arrived, else NoBody
    resp       \* history: the last body served, with the body expected

vars == <<rt, skew, steps, cache, pc, rargs, hit, db, rows, last, seen, resp>>
bodyVars == <<db, rows, last, seen, resp>>

\* time.Now().UnixNano(), offset so that it stays positive.
Wall == rt + skew + MaxSteps * StepSize

-----------------------------------------------------------------------------
\* uint64(time.Now().UnixNano()) - binary.BigEndian.Uint64(val[0:8]).
Elapsed(ts) == (Wall - ts) % Wrap

\* The entry is young enough to serve.
Fresh(e) == ~e.none /\ Elapsed(e.ts) <= TTL

NoHit == [none |-> TRUE]

Init ==
    /\ rt = 0 /\ skew = 0 /\ steps = 0
    /\ cache = [k \in Keys |-> NoEntry]
    /\ pc = [r \in Reqs |-> "idle"]
    /\ rargs = [r \in Reqs |-> CHOOSE a \in Args : TRUE]
    /\ hit = NoHit
    /\ db = 0
    /\ rows = [r \in Reqs |-> 0]
    /\ last = [a \in Args |-> NoLast]
    /\ seen = [r \in Reqs |-> NoBody]
    /\ resp = Served(NoBody, NoBody)

\* The key of request r.
KeyOf(r) == MakeCacheKey(rargs[r])

\* The body a request with arguments a arriving now must get, if the
\* previous identical request's body was cached within the TTL (Tick
\* forgets it once the window has passed).
Expected(a) ==
    last[a].body

\* A request with arguments a arrives and probes the cache under its key.
\* A hit within the TTL writes the cached body and returns; a stale entry
\* is to be deleted; a miss goes to the query.
Probe(r) ==
    /\ pc[r] = "idle"
    /\ \E a \in Args :
         LET e == cache[MakeCacheKey(a)] IN
         /\ rargs' = [rargs EXCEPT ![r] = a]
         /\ IF Fresh(e)
            THEN /\ hit' = [none |-> FALSE, age |-> rt - e.rt, args |-> a, for |-> e.args]
                 /\ resp' = Served(Body(e.args, e.v), Expected(a))
                 /\ last' = [last EXCEPT ![a] = [body |-> Body(e.args, e.v), fill |-> e.rt]]
                 /\ UNCHANGED <<pc, seen>>
            ELSE /\ pc' = [pc EXCEPT ![r] = IF e.none THEN "query" ELSE "stale"]
                 /\ seen' = [seen EXCEPT ![r] = Expected(a)]
                 /\ UNCHANGED <<hit, resp, last>>
    /\ UNCHANGED <<rt, skew, steps, cache, db, rows>>

\* a.rti.CacheSet(cacheKey, nil): deletes whatever is under the key now.
DeleteStale(r) ==
    /\ pc[r] = "stale"
    /\ cache' = [cache EXCEPT ![KeyOf(r)] = NoEntry]
    /\ pc' = [pc EXCEPT ![r] = "query"]
    /\ UNCHANGED <<rt, skew, steps, rargs, hit>> /\ UNCHANGED bodyVars

\* withTx runs the query, reading the rows as they are now, or fails (500
\* response, nothing stored).
Query(r) ==
    /\ pc[r] = "query"
    /\ \/ /\ pc' = [pc EXCEPT ![r] = "encode"] /\ rows' = [rows EXCEPT ![r] = db]
          /\ UNCHANGED seen
       \/ /\ pc' = [pc EXCEPT ![r] = "idle"] /\ seen' = [seen EXCEPT ![r] = NoBody]
          /\ UNCHANGED rows
    /\ UNCHANGED <<rt, skew, steps, cache, rargs, hit, db, last, resp>>

\* The timestamp is written to the buffer, the result encoded to the
\* client and the buffer, and on success stored. A failed write to the
\* client fails the encoder and nothing is stored.
Store(r) ==
    /\ pc[r] = "encode"
    /\ LET body == Body(rargs[r], rows[r]) IN
       \/ /\ cache' = [cache EXCEPT ![KeyOf(r)] =
                [ts |-> Wall, rt |-> rt, none |-> FALSE, args |-> rargs[r], v |-> rows[r]]]
          /\ resp' = Served(body, seen[r])
          /\ last' = [last EXCEPT ![rargs[r]] = [body |-> body, fill |-> rt]]
       \/ UNCHANGED <<cache, resp, last>>
    /\ pc' = [pc EXCEPT ![r] = "idle"]
    /\ rows' = [rows EXCEPT ![r] = 0] /\ seen' = [seen EXCEPT ![r] = NoBody]
    /\ UNCHANGED <<rt, skew, steps, rargs, hit, db>>

\* Environment: time passes, NTP steps the wall clock back, another
\* client commits a write to the rows the endpoint's query reads.
Tick ==
    /\ rt < MaxTime
    /\ rt' = rt + 1
    /\ last' = [a \in Args |-> IF rt' - last[a].fill > TTL THEN NoLast ELSE last[a]]
    /\ UNCHANGED <<skew, steps, cache, pc, rargs, hit, db, rows, seen, resp>>

ClockStepBack ==
    /\ steps < MaxSteps
    /\ steps' = steps + 1 /\ skew' = skew - StepSize
    /\ UNCHANGED <<rt, cache, pc, rargs, hit>> /\ UNCHANGED bodyVars

DbWrite ==
    /\ db < MaxWrites
    /\ db' = db + 1
    /\ UNCHANGED <<rt, skew, steps, cache, pc, rargs, hit, rows, last, seen, resp>>

\* Every request is served and time has run out.
Done ==
    /\ rt = MaxTime /\ \A r \in Reqs : pc[r] = "idle"
    /\ UNCHANGED vars

Next ==
    \/ \E r \in Reqs : Probe(r) \/ DeleteStale(r) \/ Query(r) \/ Store(r)
    \/ Tick \/ ClockStepBack \/ DbWrite
    \/ Done

Spec == Init /\ [][Next]_vars

-----------------------------------------------------------------------------
(* Properties.                                                            *)

\* Spec section 8: of two identical requests within the TTL the second
\* gets the first's body, and a request after the TTL gets a body from a
\* fresh query. Every body serveQuery writes from the cache was stored at
\* most TTL ticks of real time earlier, by a request with the same URI and
\* arguments.
HitValid ==
    ~hit.none => hit.age <= TTL /\ hit.args = hit.for

\* Spec section 8, first half: two consecutive identical requests within
\* the TTL window produce byte-identical bodies. A body served from the
\* cache or stored to it at real time f fixes the body of every identical
\* request arriving (Probe) no later than f + TTL, whatever other clients
\* commit meanwhile. serveQuery's stale delete CacheSet(key, nil) runs
\* after the probe, so it can remove a fresh entry that a concurrent
\* request stored, and the next request then re-queries.
ConsecutiveIdentical ==
    ~resp.expect.none => resp.body = resp.expect

\* Both halves of spec section 8 as serveQuery is meant to meet them.
CacheAsSpecified == HitValid /\ ConsecutiveIdentical

=============================================================================
