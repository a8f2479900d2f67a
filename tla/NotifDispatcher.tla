-------------------------- MODULE NotifDispatcher --------------------------
(***************************************************************************)
(* The notification fan-out of one datasource (src/unnamed/part_004, the  *)
(* file streams.go of package rapidrows) together with the part of        *)
(* APIServer.Stop (src/server.go) that shuts it down.                     *)
(*                                                                         *)
(* Goroutines modelled:                                                    *)
(*   - the fetcher, blocked in conn.WaitForNotification, pushing each     *)
(*     notification into the buffered channel nd.in;                      *)
(*   - the dispatcher, selecting on nd.cmd and nd.in and owning c2ws;     *)
(*   - one HTTP handler per Writers element (serveStream + loopWS or      *)
(*     loopSSE), each owning a notifWriter with a bounded queue q;        *)
(*   - the goroutine running APIServer.Stop.                              *)
(* The environment: PostgreSQL NOTIFY (a notification reaching the        *)
(* fetcher), clients connecting and disconnecting, the operator calling   *)
(* Stop.                                                                   *)
(*                                                                         *)
(* Data abstraction: a payload is the notification's unique id, so that  *)
(* order, loss and duplication are visible; a channel name is a model    *)
(* value of Chans.                                                         *)
(***************************************************************************)
EXTENDS Naturals, Sequences, SequencesExt, FiniteSets

CONSTANTS
    Chans,       \* the NOTIFY channels LISTENed on this datasource's connection
    Writers,     \* stream HTTP requests (one notifWriter each)
    ChanOf,      \* ChanOf[w]: the channel of the stream w's request is for
    Kind,        \* Kind[w] \in {"websocket", "sse"}: the stream's type
    Backlog,     \* notifWriterBacklog (16 in the code)
    InCap,       \* capacity of nd.in (64 in the code)
    CmdCap,      \* capacity of nd.cmd (1 in the code)
    MaxNotifs    \* bound on the notifications PostgreSQL delivers

ASSUME
    /\ ChanOf \in [Writers -> Chans]
    /\ Kind \in [Writers -> {"websocket", "sse"}]
    /\ Backlog \in Nat \ {0}
    /\ InCap \in Nat \ {0}
    /\ CmdCap \in Nat \ {0}
    /\ MaxNotifs \in Nat

Ids == 1..MaxNotifs
Notif == [id : Ids, chan : Chans]
NoNotif == [id |-> 0, chan |-> CHOOSE c \in Chans : TRUE]
Cmd == [act : {"register", "unregister"}, chan : Chans, writer : Writers]
         \cup [act : {"stop"}]

VARIABLES
    in, inClosed,      \* nd.in and whether stop() closed it
    cmd, cmdClosed,    \* nd.cmd and whether stop() closed it
    c2ws,              \* the dispatcher's map pgchan -> []*notifWriter
    dpc,               \* dispatcher goroutine: "run" | "exited"
    fpc, held,         \* fetcher goroutine: "wait" | "send" | "exited"; notification in hand
    nextId,            \* id of the next notification PostgreSQL delivers
    connClosed,        \* the hijacked LISTEN connection was closed by stop()
    stopping,          \* nd.stopping
    q, qClosed,        \* notifWriter.q and notifWriter.qClosed, per writer
    hpc,               \* handler: "idle"|"register"|"loop"|"unreg"|"done"|"panicked"
    clientGone,        \* the client closed its connection (or, websocket, sent data)
    bgDone,            \* a.bgctx cancelled
    spc,               \* the Stop goroutine's progress
    srvUp,             \* the HTTP server still accepts requests
    crashed,           \* an unrecovered panic ended the process
    offered,           \* history: ids passed to accept(w), in order
    delivered,         \* history: ids written to w's client, in order
    regDone            \* history: the dispatcher has processed w's register

vars == <<in, inClosed, cmd, cmdClosed, c2ws, dpc, fpc, held, nextId,
          connClosed, stopping, q, qClosed, hpc, clientGone, bgDone, spc,
          srvUp, crashed, offered, delivered, regDone>>

fetcherVars == <<fpc, held, nextId>>
handlerVars == <<q, qClosed, hpc, clientGone, delivered>>
stopVars == <<bgDone, spc, srvUp, connClosed, stopping>>

-----------------------------------------------------------------------------
(* Helpers translated from the code.                                       *)

\* Fault variant of AcceptedQ: a blocking-style send that ignores the
\* channel's capacity.
AcceptedQUnbounded(w, id) == IF ~qClosed[w] THEN Append(q[w], id) ELSE q[w]

\* Fault variant of AcceptedQ: the closed flag is not consulted, so a
\* queue closed as too slow takes payloads again once drained.
AcceptedQOpen(w, id) == IF Len(q[w]) < Backlog THEN Append(q[w], id) ELSE q[w]

\* notifWriter.accept: the queue after a non-blocking send of id
\* (a send on a closed queue panics and is recovered: nothing changes).
AcceptedQ(w, id) ==
    IF ~qClosed[w] /\ Len(q[w]) < Backlog THEN Append(q[w], id) ELSE q[w]

\* Fault variant of AcceptedClosed: a full queue drops the payload but
\* stays open.
AcceptedClosedDrop(w) == qClosed[w]

\* notifWriter.accept: whether the queue is closed afterwards (closeQ when
\* the queue is full).
AcceptedClosed(w) == qClosed[w] \/ Len(q[w]) >= Backlog

\* Fault variant of Unregister: truncating the slice without shifting.
UnregisterTruncate(s, w) == IF w \in Range(s) THEN Front(s) ELSE s

\* The dispatcher's local unregister closure: drop the first occurrence.
Unregister(s, w) == RemoveFirst(s, w)

\* Fault variant of CtxDone: the loop does not watch the server's context.
CtxDoneClientOnly(w) == Kind[w] = "websocket" /\ clientGone[w]

\* Whether the stream loop's context is done: loopSSE uses a.bgctx;
\* loopWS uses ws.CloseRead(a.bgctx), which the websocket library cancels
\* when the connection is closed or a data message arrives.
CtxDone(w) == bgDone \/ (Kind[w] = "websocket" /\ clientGone[w])

\* The end of loopWS/loopSSE and the rest of serveStream: the deferred
\* closeQ (idempotent, so also right when the queue was already closed),
\* then unregister unless the error is context.Canceled.
ExitLoopNoUnreg(w, err) ==
    /\ qClosed' = [qClosed EXCEPT ![w] = TRUE]
    /\ hpc' = [hpc EXCEPT ![w] = "done"]

ExitLoop(w, err) ==
    /\ qClosed' = [qClosed EXCEPT ![w] = TRUE]
    /\ hpc' = [hpc EXCEPT ![w] = IF err = "canceled" THEN "done" ELSE "unreg"]

\* A send on nd.cmd by a handler: panics once stop() closed the channel
\* (net/http recovers a handler's panic), blocks while the buffer is full.
SendCmd(w, c, after) ==
    \/ /\ cmdClosed
       /\ hpc' = [hpc EXCEPT ![w] = "panicked"]
       /\ UNCHANGED cmd
    \/ /\ ~cmdClosed
       /\ Len(cmd) < CmdCap
       /\ cmd' = Append(cmd, c)
       /\ hpc' = [hpc EXCEPT ![w] = after]

-----------------------------------------------------------------------------
Init ==
    /\ in = <<>> /\ inClosed = FALSE
    /\ cmd = <<>> /\ cmdClosed = FALSE
    /\ c2ws = [c \in Chans |-> <<>>]
    /\ dpc = "run"
    /\ fpc = "wait" /\ held = NoNotif
    /\ nextId = 1
    /\ connClosed = FALSE /\ stopping = FALSE
    /\ q = [w \in Writers |-> <<>>] /\ qClosed = [w \in Writers |-> FALSE]
    /\ hpc = [w \in Writers |-> "idle"]
    /\ clientGone = [w \in Writers |-> FALSE]
    /\ bgDone = FALSE /\ spc = "running" /\ srvUp = TRUE
    /\ crashed = FALSE
    /\ offered = [w \in Writers |-> <<>>]
    /\ delivered = [w \in Writers |-> <<>>]
    /\ regDone = [w \in Writers |-> FALSE]

-----------------------------------------------------------------------------
(* Fetcher (notifDispatcher.fetcher).                                      *)

\* WaitForNotification returns a notification for a LISTENed channel.
FetcherReceive ==
    /\ fpc = "wait" /\ ~connClosed
    /\ nextId <= MaxNotifs
    /\ \E c \in Chans : held' = [id |-> nextId, chan |-> c]
    /\ nextId' = nextId + 1
    /\ fpc' = "send"
    /\ UNCHANGED <<in, inClosed, cmd, cmdClosed, c2ws, dpc, connClosed, stopping,
                   handlerVars, bgDone, spc, srvUp, crashed, offered, regDone>>

\* WaitForNotification fails because stop() closed the connection: return.
FetcherStopped ==
    /\ fpc = "wait" /\ connClosed
    /\ fpc' = "exited"
    /\ UNCHANGED <<in, inClosed, cmd, cmdClosed, c2ws, dpc, held, nextId,
                   connClosed, stopping, handlerVars, bgDone, spc, srvUp,
                   crashed, offered, regDone>>

\* WaitForNotification fails on a broken connection: log and return.
FetcherConnLost ==
    /\ fpc = "wait" /\ ~connClosed
    /\ fpc' = "exited"
    /\ UNCHANGED <<in, inClosed, cmd, cmdClosed, c2ws, dpc, held, nextId,
                   connClosed, stopping, handlerVars, bgDone, spc, srvUp,
                   crashed, offered, regDone>>

\* nd.in <- *n: blocks while the buffer is full; panics, unrecovered,
\* once stop() has closed nd.in.
FetcherSend ==
    /\ fpc = "send"
    /\ \/ /\ inClosed
          /\ crashed' = TRUE
          /\ UNCHANGED <<in, fpc>>
       \/ /\ ~inClosed /\ Len(in) < InCap
          /\ in' = Append(in, held)
          /\ fpc' = "wait"
          /\ UNCHANGED crashed
    /\ UNCHANGED <<inClosed, cmd, cmdClosed, c2ws, dpc, held, nextId, connClosed,
                   stopping, handlerVars, bgDone, spc, srvUp, offered, regDone>>

-----------------------------------------------------------------------------
(* Dispatcher (notifDispatcher.dispatcher).                                *)

\* case c := <-nd.cmd: register, unregister or stop.
DispatchCmd ==
    /\ dpc = "run" /\ cmd # <<>>
    /\ LET c == Head(cmd) IN
       /\ cmd' = Tail(cmd)
       /\ CASE c.act = "register" ->
                 /\ c2ws' = [c2ws EXCEPT ![c.chan] = Append(@, c.writer)]
                 /\ regDone' = [regDone EXCEPT ![c.writer] = TRUE]
                 /\ UNCHANGED dpc
            [] c.act = "unregister" ->
                 /\ c2ws' = [c2ws EXCEPT ![c.chan] = Unregister(@, c.writer)]
                 /\ UNCHANGED <<dpc, regDone>>
            [] c.act = "stop" ->
                 /\ dpc' = "exited"
                 /\ UNCHANGED <<c2ws, regDone>>
    /\ UNCHANGED <<in, inClosed, cmdClosed, fetcherVars, connClosed, stopping,
                   handlerVars, bgDone, spc, srvUp, crashed, offered>>

\* case notif := <-nd.in: accept(payload) on every writer of the channel.
\* Each accept touches only its own writer, so the loop is one step.
DispatchNotif ==
    /\ dpc = "run" /\ in # <<>>
    /\ LET n == Head(in)
           ws == Range(c2ws[n.chan])
       IN /\ in' = Tail(in)
          /\ q' = [w \in Writers |-> IF w \in ws THEN AcceptedQ(w, n.id) ELSE q[w]]
          /\ qClosed' = [w \in Writers |->
                           IF w \in ws THEN AcceptedClosed(w) ELSE qClosed[w]]
          /\ offered' = [w \in Writers |->
                           IF w \in ws THEN Append(offered[w], n.id) ELSE offered[w]]
    /\ UNCHANGED <<inClosed, cmd, cmdClosed, c2ws, dpc, fetcherVars, connClosed,
                   stopping, hpc, clientGone, delivered, bgDone, spc, srvUp,
                   crashed, regDone>>

-----------------------------------------------------------------------------
(* Stream handlers (serveStream, loopWS, loopSSE).                         *)

\* A client opens the stream: the body is discarded, the dispatcher looked
\* up (it exists from Start on) and a notifWriter with an empty queue made.
HandlerStart(w) ==
    /\ hpc[w] = "idle" /\ srvUp
    /\ hpc' = [hpc EXCEPT ![w] = "register"]
    /\ UNCHANGED <<in, inClosed, cmd, cmdClosed, c2ws, dpc, fetcherVars,
                   connClosed, stopping, q, qClosed, clientGone, delivered,
                   bgDone, spc, srvUp, crashed, offered, regDone>>

\* nd.register(s.Channel, nw).
HandlerRegister(w) ==
    /\ hpc[w] = "register"
    /\ SendCmd(w, [act |-> "register", chan |-> ChanOf[w], writer |-> w], "loop")
    /\ UNCHANGED <<in, inClosed, cmdClosed, c2ws, dpc, fetcherVars, connClosed,
                   stopping, q, qClosed, clientGone, delivered, bgDone, spc,
                   srvUp, crashed, offered, regDone>>

\* case payload, ok := <-n.q with ok: write it out. A websocket write to a
\* closed connection fails with the (then cancelled) context's error or an
\* I/O error; a websocket write to a live client may time out after
\* notifWriteTimeout; an SSE write fails only once the client is gone.
LoopRecv(w) ==
    /\ hpc[w] = "loop" /\ q[w] # <<>>
    /\ q' = [q EXCEPT ![w] = Tail(@)]
    /\ \/ /\ ~clientGone[w] /\ ~(Kind[w] = "websocket" /\ bgDone)
          /\ delivered' = [delivered EXCEPT ![w] = Append(@, Head(q[w]))]
          /\ UNCHANGED <<qClosed, hpc>>
       \/ /\ Kind[w] = "websocket" /\ ~clientGone[w]
          /\ UNCHANGED delivered
          /\ ExitLoop(w, IF bgDone THEN "canceled" ELSE "ioError")
       \/ /\ clientGone[w]
          /\ UNCHANGED delivered
          /\ \E err \in IF Kind[w] = "websocket" THEN {"canceled", "ioError"}
                                                 ELSE {"ioError"} :
                ExitLoop(w, err)
    /\ UNCHANGED <<in, inClosed, cmd, cmdClosed, c2ws, dpc, fetcherVars,
                   connClosed, stopping, clientGone, bgDone, spc, srvUp,
                   crashed, offered, regDone>>

\* case payload, ok := <-n.q with !ok: the queue was closed as too slow.
LoopQClosed(w) ==
    /\ hpc[w] = "loop" /\ q[w] = <<>> /\ qClosed[w]
    /\ ExitLoop(w, "tooSlow")
    /\ UNCHANGED <<in, inClosed, cmd, cmdClosed, c2ws, dpc, fetcherVars,
                   connClosed, stopping, q, clientGone, delivered, bgDone, spc,
                   srvUp, crashed, offered, regDone>>

\* case <-ctx.Done(): return ctx.Err(), i.e. context.Canceled.
LoopCtxDone(w) ==
    /\ hpc[w] = "loop" /\ CtxDone(w)
    /\ ExitLoop(w, "canceled")
    /\ UNCHANGED <<in, inClosed, cmd, cmdClosed, c2ws, dpc, fetcherVars,
                   connClosed, stopping, q, clientGone, delivered, bgDone, spc,
                   srvUp, crashed, offered, regDone>>

\* loopSSE: the initial or a keep-alive comment cannot be written to a
\* client that is gone (websocket.Accept failing is the same exit).
LoopWriteFail(w) ==
    /\ hpc[w] = "loop" /\ clientGone[w]
    /\ ExitLoop(w, "ioError")
    /\ UNCHANGED <<in, inClosed, cmd, cmdClosed, c2ws, dpc, fetcherVars,
                   connClosed, stopping, q, clientGone, delivered, bgDone, spc,
                   srvUp, crashed, offered, regDone>>

\* nd.unregister(s.Channel, nw).
HandlerUnregister(w) ==
    /\ hpc[w] = "unreg"
    /\ SendCmd(w, [act |-> "unregister", chan |-> ChanOf[w], writer |-> w], "done")
    /\ UNCHANGED <<in, inClosed, cmdClosed, c2ws, dpc, fetcherVars, connClosed,
                   stopping, q, qClosed, clientGone, delivered, bgDone, spc,
                   srvUp, crashed, offered, regDone>>

\* The client closes the connection (for a websocket, sending a data
\* message has the same effect on the server: CloseRead cancels ctx).
ClientGone(w) ==
    /\ hpc[w] \in {"register", "loop"} /\ ~clientGone[w]
    /\ clientGone' = [clientGone EXCEPT ![w] = TRUE]
    /\ UNCHANGED <<in, inClosed, cmd, cmdClosed, c2ws, dpc, fetcherVars,
                   connClosed, stopping, q, qClosed, hpc, delivered, bgDone,
                   spc, srvUp, crashed, offered, regDone>>

-----------------------------------------------------------------------------
(* APIServer.Stop and notifDispatcher.stop.                                *)

\* a.c.Stop(); a.bgctxcancel(); <-a.bgctx.Done()
StopBegin ==
    /\ spc = "running"
    /\ bgDone' = TRUE /\ spc' = "closeConn"
    /\ UNCHANGED <<in, inClosed, cmd, cmdClosed, c2ws, dpc, fetcherVars,
                   connClosed, stopping, handlerVars, srvUp, crashed, offered,
                   regDone>>

\* nd.stopping.Store(true); nd.conn.Close(...)
StopCloseConn ==
    /\ spc = "closeConn"
    /\ stopping' = TRUE /\ connClosed' = TRUE /\ spc' = "sendStop"
    /\ UNCHANGED <<in, inClosed, cmd, cmdClosed, c2ws, dpc, fetcherVars,
                   handlerVars, bgDone, srvUp, crashed, offered, regDone>>

\* nd.cmd <- notifDisptacherCmd{act: actStop}
StopSendCmd ==
    /\ spc = "sendStop" /\ Len(cmd) < CmdCap
    /\ cmd' = Append(cmd, [act |-> "stop"])
    /\ spc' = "join"
    /\ UNCHANGED <<in, inClosed, cmdClosed, c2ws, dpc, fetcherVars, connClosed,
                   stopping, handlerVars, bgDone, srvUp, crashed, offered, regDone>>

\* nd.wg.Wait(); close(nd.cmd); close(nd.in)
StopJoin ==
    /\ spc = "join" /\ dpc = "exited"
    /\ cmdClosed' = TRUE /\ inClosed' = TRUE
    /\ spc' = "shutdown"
    /\ UNCHANGED <<in, cmd, c2ws, dpc, fetcherVars, connClosed, stopping,
                   handlerVars, bgDone, srvUp, crashed, offered, regDone>>

\* a.srv.Shutdown(ctx): stop accepting connections ...
ShutdownBegin ==
    /\ spc = "shutdown"
    /\ srvUp' = FALSE /\ spc' = "draining"
    /\ UNCHANGED <<in, inClosed, cmd, cmdClosed, c2ws, dpc, fetcherVars,
                   connClosed, stopping, handlerVars, bgDone, crashed, offered,
                   regDone>>

\* ... and return once no tracked (non-hijacked: SSE) handler is running;
\* then a.ds.stop().
ShutdownDone ==
    /\ spc = "draining"
    /\ \A w \in Writers : Kind[w] = "sse" => hpc[w] \in {"idle", "done", "panicked"}
    /\ spc' = "stopped"
    /\ UNCHANGED <<in, inClosed, cmd, cmdClosed, c2ws, dpc, fetcherVars,
                   connClosed, stopping, handlerVars, bgDone, srvUp, crashed,
                   offered, regDone>>

\* The process has exited: Stop returned, or a panic ended it.
Terminated ==
    /\ \/ crashed
       \/ /\ spc = "stopped" /\ fpc = "exited"
          /\ \A w \in Writers : hpc[w] \in {"idle", "done", "panicked"}
    /\ UNCHANGED vars

-----------------------------------------------------------------------------
HandlerStep(w) ==
    \/ HandlerRegister(w) \/ LoopRecv(w) \/ LoopQClosed(w) \/ LoopCtxDone(w)
    \/ LoopWriteFail(w) \/ HandlerUnregister(w)

Next ==
    \/ /\ ~crashed
       /\ \/ FetcherReceive \/ FetcherStopped \/ FetcherConnLost \/ FetcherSend
          \/ DispatchCmd \/ DispatchNotif
          \/ \E w \in Writers : HandlerStart(w) \/ HandlerStep(w) \/ ClientGone(w)
          \/ StopBegin \/ StopCloseConn \/ StopSendCmd \/ StopJoin
          \/ ShutdownBegin \/ ShutdownDone
    \/ Terminated

\* Every goroutine is scheduled eventually (WF); a goroutine blocked on a
\* channel send is woken in FIFO order by the Go runtime, so a send that is
\* repeatedly possible happens (SF). PostgreSQL, the clients and the
\* operator are not obliged to act.
Fairness ==
    /\ WF_vars(FetcherStopped) /\ SF_vars(FetcherSend)
    /\ WF_vars(DispatchCmd) /\ WF_vars(DispatchNotif)
    /\ \A w \in Writers :
         /\ SF_vars(HandlerRegister(w)) /\ SF_vars(HandlerUnregister(w))
         /\ WF_vars(LoopRecv(w)) /\ WF_vars(LoopQClosed(w))
         /\ WF_vars(LoopCtxDone(w)) /\ WF_vars(LoopWriteFail(w))
    /\ WF_vars(StopCloseConn) /\ SF_vars(StopSendCmd) /\ WF_vars(StopJoin)
    /\ WF_vars(ShutdownBegin) /\ WF_vars(ShutdownDone)

Spec == Init /\ [][Next]_vars /\ Fairness

-----------------------------------------------------------------------------
(* Properties.                                                             *)

Finished == {"idle", "done", "panicked"}

TypeOK ==
    /\ in \in Seq(Notif) /\ Len(in) <= InCap /\ inClosed \in BOOLEAN
    /\ cmd \in Seq(Cmd) /\ Len(cmd) <= CmdCap /\ cmdClosed \in BOOLEAN
    /\ c2ws \in [Chans -> Seq(Writers)]
    /\ dpc \in {"run", "exited"}
    /\ fpc \in {"wait", "send", "exited"} /\ held \in Notif \cup {NoNotif}
    /\ nextId \in 1..MaxNotifs + 1
    /\ q \in [Writers -> Seq(Ids)] /\ qClosed \in [Writers -> BOOLEAN]
    /\ \A w \in Writers : Len(q[w]) <= Backlog
    /\ hpc \in [Writers -> {"idle", "register", "loop", "unreg", "done", "panicked"}]
    /\ spc \in {"running", "closeConn", "sendStop", "join", "shutdown",
                "draining", "stopped"}
    /\ {connClosed, stopping, bgDone, srvUp, crashed} \subseteq BOOLEAN
    /\ offered \in [Writers -> Seq(Ids)] /\ delivered \in [Writers -> Seq(Ids)]
    /\ regDone \in [Writers -> BOOLEAN]

\* A subscriber never silently skips a notification: what a stream client
\* has been sent, followed by what still waits in its queue, is exactly the
\* start of what the dispatcher handed to accept(), in the same order. A
\* slow client is cut off (its queue closed by accept) rather than given a
\* stream with holes; this is the reason accept closes a full queue.
NoGap ==
    \A w \in Writers :
        /\ IsPrefix(delivered[w], offered[w])
        /\ hpc[w] = "loop" => IsPrefix(delivered[w] \o q[w], offered[w])

\* A stream handler that is still running, and whose register command the
\* dispatcher has processed, is in the dispatcher's subscriber list for its
\* channel: another subscriber's unregister never removes it.
LiveWriterRegistered ==
    \A w \in Writers :
        (hpc[w] \in {"loop", "unreg"} /\ regDone[w]) => w \in Range(c2ws[ChanOf[w]])

\* A writer in the subscriber list of channel c belongs to a stream
\* handler that is still running or whose unregister command is on its way.
Owned(w, c) ==
    \/ hpc[w] \in {"loop", "unreg"}
    \/ [act |-> "unregister", chan |-> c, writer |-> w] \in Range(cmd)

\* While the server runs, every writer in the dispatcher's subscriber lists
\* is owned: serveStream never leaves a finished writer behind for the
\* dispatcher to keep feeding.
RegisteredHasOwner ==
    ~bgDone => \A c \in Chans : \A w \in Range(c2ws[c]) : Owned(w, c)

\* The same for SSE streams, whose context is the request's and is not
\* cancelled when the client goes away (loopSSE ends on a write error).
SSERegisteredHasOwner ==
    ~bgDone => \A c \in Chans : \A w \in Range(c2ws[c]) :
                   Kind[w] = "sse" => Owned(w, c)

\* The process never dies of an unrecovered panic: the fetcher goroutine
\* never sends on nd.in after stop() closed it.
NoProcessCrash == ~crashed

\* Stop ends the streams quietly: no goroutine panics, neither the fetcher
\* on the closed nd.in (unrecovered: the process dies) nor a stream handler
\* whose register or unregister sends on the nd.cmd stop() closed
\* (net/http recovers it and logs the panic). Spec 4.6: on shutdown the
\* subscriber loops exit with context-cancelled and do not attempt to
\* unregister; section 7: shutdown is not reported above info level.
QuietStop ==
    /\ NoProcessCrash
    /\ \A w \in Writers : hpc[w] # "panicked"

\* Once Stop has cancelled the background context, every stream handler
\* ends and the HTTP server's Shutdown returns (unless the process died):
\* no handler stays blocked on the dispatcher's command channel.
StopDrainsHandlers ==
    bgDone ~> (crashed \/ (spc = "stopped" /\ \A w \in Writers : hpc[w] \in Finished))

\* Spec 4.6: one long-lived listener per datasource feeds the subscribers.
\* While the server is not stopping, no stream handler is in its loop
\* with the fetcher gone. fetcher() returns on any WaitForNotification
\* error and only logs it; nothing restarts it or ends the streams that it
\* fed, so such a subscriber never receives another notification.
ListenerServesSubscribers ==
    (~stopping /\ \E w \in Writers : hpc[w] = "loop") => fpc # "exited"

\* Spec 4.6 and sections 7 and 8 together, as the stream handlers and the
\* fetcher are meant to meet them: finished writers are not left
\* registered while the server runs, Stop ends the streams without a
\* panic, and live subscribers are never left without a listener.
StreamsAsSpecified ==
    RegisteredHasOwner /\ QuietStop /\ ListenerServesSubscribers

-----------------------------------------------------------------------------
(* Refinement of PubSub.                                                   *)

\* Notifications the dispatcher has fanned out: every id below the first
\* one still in nd.in, in the fetcher's hand, or not yet fetched.
Published ==
    (IF in # <<>> THEN Head(in).id ELSE IF fpc = "send" THEN held.id ELSE nextId) - 1

\* The handler of w has left its loop.
Left(w) == hpc[w] \in {"unreg", "done", "panicked"}

PS == INSTANCE PubSub WITH
    pubs <- Published,
    subs <- {w \in Writers : w \in Range(c2ws[ChanOf[w]])},
    pend <- [w \in Writers |-> IF Left(w) THEN <<>> ELSE q[w]],
    got <- delivered,
    cut <- [w \in Writers |-> Left(w) \/ qClosed[w]],
    gone <- [w \in Writers |-> Left(w)]

\* The fan-out implements PubSub (spec 4.6): the dispatcher's register,
\* unregister and fan-out, notifWriter.accept's queue and closeQ, and the
\* stream loops together give every subscriber, in order, each
\* notification of its channel from its registration on until it is cut
\* off as too slow or leaves, and only those; unregister removes only
\* writers whose handler has left.
ImplementsPubSub == PS!Spec
=============================================================================
