------------------------- MODULE MCNotifDispatcher -------------------------
(***************************************************************************)
(* Instances of NotifDispatcher for TLC. w1 and w2 are two stream         *)
(* requests, c1 and c2 two NOTIFY channels of one datasource.             *)
(***************************************************************************)
EXTENDS NotifDispatcher

CONSTANTS w1, w2, c1, c2

\* Both requests on the same channel (so that one's unregister can disturb
\* the other's registration), one websocket and one SSE; c2 is LISTENed
\* for a stream nobody is connected to.
MixedChanOf == [w \in {w1, w2} |-> c1]
MixedKind == [w \in {w1, w2} |-> IF w = w1 THEN "websocket" ELSE "sse"]

\* Both requests SSE streams.
SSEKind == [w \in {w1, w2} |-> "sse"]

\* Both requests websocket streams.
WSKind == [w \in {w1, w2} |-> "websocket"]

=============================================================================
