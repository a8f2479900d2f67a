------------------------------- MODULE ExecTx -------------------------------
(***************************************************************************)
(* One run of an exec statement for an exec endpoint (serveExec,          *)
(* src/server.go) or an exec job (runJob, src/params_test.go), through    *)
(* datasources.withTx and withConn, against the database.                 *)
(*                                                                         *)
(* Three contexts are involved:                                            *)
(*   - the statement's context, derived from a.bgctx with the endpoint's   *)
(*     or job's timeout: Exec(ctx, ...);                                  *)
(*   - without TxOptions, withConn's acquire context, a.bgctx with the    *)
(*     datasource's timeout, used for pool.AcquireFunc only;             *)
(*   - with TxOptions, withTx's context, context.Background() with the    *)
(*     datasource's timeout, used by BeginTxFunc for the acquire, BEGIN,  *)
(*     COMMIT and ROLLBACK.                                               *)
(* When a context ends while pgconn waits for the server's reply, its     *)
(* context watcher fails the read and the connection is closed (the      *)
(* server then aborts an open transaction); a context that ended before  *)
(* a message is sent fails the call without sending it. The database is  *)
(* the other actor: it executes what it was sent, or rejects it.          *)
(*                                                                         *)
(* The deadlines are events that may happen at any time, since the model *)
(* has no durations: the statement may take any time relative to them.   *)
(***************************************************************************)
EXTENDS Naturals

VARIABLES
    conf,     \* [tx: TxOptions set, epTimeout: timeout > 0, dsTimeout: datasource timeout set]
    pc,       \* the caller: "acquire" | "exec" | "commit" | "done"
    srv,      \* the server on this connection: "idle" | "busy" | "replied" | "error"
    db,       \* the statement's effect: "none" | "tentative" | "committed"
    epDl,     \* the statement context's own deadline has passed
    dsDl,     \* the datasource timeout of withConn's or withTx's context has passed
    bgDone,   \* Stop cancelled a.bgctx
    result    \* what the caller reports: "none" | "ok" | "failed"

vars == <<conf, pc, srv, db, epDl, dsDl, bgDone, result>>

Confs == [tx : BOOLEAN, epTimeout : BOOLEAN, dsTimeout : BOOLEAN]

\* The statement's context is done: its deadline, or a.bgctx cancelled.
StmtCtxDone == epDl \/ bgDone

\* Fault variant of DsCtxDone: withTx derives its context from d.bgctx
\* as withConn does.
DsCtxDoneBg == dsDl \/ bgDone

\* withConn's acquire context derives from a.bgctx; withTx's from
\* context.Background(), which Stop does not cancel.
DsCtxDone == dsDl \/ (~conf.tx /\ bgDone)

\* The caller gives up: the transaction, if any, is gone (ROLLBACK, or the
\* connection closed), and the endpoint answers 500 {rowsAffected:0, error}
\* (the job logs "exec failed").
Fail ==
    /\ pc' = "done" /\ result' = "failed"
    /\ db' = IF db = "tentative" THEN "none" ELSE db

Init ==
    /\ conf \in Confs
    /\ pc = "acquire" /\ srv = "idle" /\ db = "none"
    /\ epDl = FALSE /\ dsDl = FALSE /\ bgDone = FALSE
    /\ result = "none"

-----------------------------------------------------------------------------
(* The caller.                                                             *)

\* AcquireFunc or BeginTxFunc gets a connection (and with TxOptions runs
\* BEGIN), then the callback sends the statement with Exec(ctx); a
\* statement context already done fails Exec before anything is sent.
SendStmt ==
    /\ pc = "acquire" /\ ~DsCtxDone /\ ~StmtCtxDone
    /\ pc' = "exec" /\ srv' = "busy"
    /\ UNCHANGED <<conf, db, epDl, dsDl, bgDone, result>>

\* The acquire (or BEGIN) fails on the ended context or a pool error, or
\* Exec is called with a statement context that has already ended.
AcquireOrSendFail ==
    /\ pc = "acquire"
    /\ Fail
    /\ UNCHANGED <<conf, srv, epDl, dsDl, bgDone>>

\* Exec reads CommandComplete. Without TxOptions the statement was
\* autocommitted and the caller reports rowsAffected; with TxOptions the
\* callback returns nil and BeginTxFunc calls Commit on withTx's context,
\* which fails at once if that context has ended.
ReadStmtReply ==
    /\ pc = "exec" /\ srv = "replied"
    /\ \/ /\ ~conf.tx
          /\ pc' = "done" /\ result' = "ok"
          /\ UNCHANGED <<srv, db>>
       \/ /\ conf.tx /\ ~DsCtxDone
          /\ pc' = "commit" /\ srv' = "busy"
          /\ UNCHANGED <<db, result>>
       \/ /\ conf.tx /\ DsCtxDone
          /\ srv' = "idle"
          /\ Fail
    /\ UNCHANGED <<conf, epDl, dsDl, bgDone>>

\* COMMIT's reply is read: the endpoint answers 200 {rowsAffected}.
ReadCommitReply ==
    /\ pc = "commit" /\ srv = "replied"
    /\ pc' = "done" /\ result' = "ok"
    /\ UNCHANGED <<conf, srv, db, epDl, dsDl, bgDone>>

\* The server rejected the statement or the commit.
ReadError ==
    /\ pc \in {"exec", "commit"} /\ srv = "error"
    /\ srv' = "idle"
    /\ Fail
    /\ UNCHANGED <<conf, epDl, dsDl, bgDone>>

\* The context of the call in progress ends before its reply is read
\* (the statement's context during Exec, withTx's context during Commit):
\* the read fails and the connection is closed. A statement or COMMIT the
\* server had not finished is aborted; one it had finished stays done.
Interrupted ==
    /\ \/ pc = "exec" /\ StmtCtxDone
       \/ pc = "commit" /\ DsCtxDone
    /\ srv \in {"busy", "replied"}
    /\ srv' = "idle"
    /\ Fail
    /\ UNCHANGED <<conf, epDl, dsDl, bgDone>>

-----------------------------------------------------------------------------
(* The database and the environment.                                       *)

\* The server executes the statement: autocommitted without TxOptions,
\* part of the open transaction with them; or rejects it.
ServerExec ==
    /\ pc = "exec" /\ srv = "busy"
    /\ \/ /\ srv' = "replied"
          /\ db' = IF conf.tx THEN "tentative" ELSE "committed"
       \/ srv' = "error" /\ UNCHANGED db
    /\ UNCHANGED <<conf, pc, epDl, dsDl, bgDone, result>>

\* The server commits the transaction, or fails the commit.
ServerCommit ==
    /\ pc = "commit" /\ srv = "busy"
    /\ \/ srv' = "replied" /\ db' = "committed"
       \/ srv' = "error" /\ UNCHANGED db
    /\ UNCHANGED <<conf, pc, epDl, dsDl, bgDone, result>>

\* The endpoint's (or job's) timeout passes.
EpDeadline ==
    /\ conf.epTimeout /\ ~epDl /\ pc # "done"
    /\ epDl' = TRUE
    /\ UNCHANGED <<conf, pc, srv, db, dsDl, bgDone, result>>

\* The datasource's timeout passes.
DsDeadline ==
    /\ conf.dsTimeout /\ ~dsDl /\ pc # "done"
    /\ dsDl' = TRUE
    /\ UNCHANGED <<conf, pc, srv, db, epDl, bgDone, result>>

\* APIServer.Stop cancels a.bgctx.
StopCancel ==
    /\ ~bgDone /\ pc # "done"
    /\ bgDone' = TRUE
    /\ UNCHANGED <<conf, pc, srv, db, epDl, dsDl, result>>

\* The caller has reported its result.
Finished ==
    /\ pc = "done"
    /\ UNCHANGED vars

Next ==
    \/ SendStmt \/ AcquireOrSendFail \/ ReadStmtReply \/ ReadCommitReply
    \/ ReadError \/ Interrupted
    \/ ServerExec \/ ServerCommit
    \/ EpDeadline \/ DsDeadline \/ StopCancel
    \/ Finished

Spec == Init /\ [][Next]_vars

-----------------------------------------------------------------------------
(* Properties.                                                             *)

\* Spec 4.4: an exec endpoint answers {rowsAffected} (200) on success and
\* {rowsAffected:0, error} (500) on failure; a job logs "exec failed". The
\* report is true of the database: a success means the statement is
\* committed, a failure that it is not. The statement's deadline, Stop's
\* cancellation of a.bgctx, and withTx's datasource timeout (which bounds
\* the COMMIT too) can each fire after the server has committed and
\* before pgconn has read the reply.
OutcomeTruthful ==
    /\ result = "ok" => db = "committed"
    /\ result = "failed" => db # "committed"

\* The case in which the code keeps that promise: with TxOptions and no
\* datasource timeout, BeginTxFunc's COMMIT runs on a context nothing
\* ends (context.Background()), so the statement's deadline and Stop's
\* cancellation can only interrupt the statement inside the open
\* transaction, which the server then rolls back, and the report always
\* matches the database.
OutcomeTruthfulWithTx ==
    (conf.tx /\ ~conf.dsTimeout) => OutcomeTruthful

=============================================================================
