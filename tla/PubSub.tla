------------------------------- MODULE PubSub --------------------------------
(***************************************************************************)
(* What the notification fan-out of one datasource promises its stream   *)
(* clients (spec 4.6, and the open question of section 9): notifications *)
(* are published one at a time, numbered in the order the dispatcher     *)
(* handles them; a subscriber of a channel is owed every notification of *)
(* that channel published while it is subscribed, in order, until the    *)
(* fan-out cuts it off as too slow or the subscriber leaves. A cut-off    *)
(* subscriber still receives what it was owed before the cut; one that   *)
(* has left receives nothing more.                                        *)
(***************************************************************************)
EXTENDS Naturals, Sequences

CONSTANTS Chans, Writers, ChanOf, MaxNotifs

VARIABLES
    pubs,    \* notifications published so far (they are numbered 1..pubs)
    subs,    \* the subscribers
    pend,    \* per subscriber: notifications owed, in order
    got,     \* per subscriber: notifications received, in order
    cut,     \* per subscriber: cut off from further notifications
    gone     \* per subscriber: has left

vars == <<pubs, subs, pend, got, cut, gone>>

Init ==
    /\ pubs = 0 /\ subs = {}
    /\ pend = [w \in Writers |-> <<>>] /\ got = [w \in Writers |-> <<>>]
    /\ cut = [w \in Writers |-> FALSE] /\ gone = [w \in Writers |-> FALSE]

Subscribe(w) ==
    /\ w \notin subs
    /\ subs' = subs \cup {w}
    /\ UNCHANGED <<pubs, pend, got, cut, gone>>

\* Only a subscriber that has left is removed.
Unsubscribe(w) ==
    /\ w \in subs /\ gone[w]
    /\ subs' = subs \ {w}
    /\ UNCHANGED <<pubs, pend, got, cut, gone>>

\* Notification pubs + 1 on channel c is owed to every live subscriber of
\* c that is not cut off, except those it cuts off now.
Publish(c) ==
    /\ pubs < MaxNotifs
    /\ pubs' = pubs + 1
    /\ LET rs == {w \in subs : ChanOf[w] = c /\ ~gone[w] /\ ~cut[w]} IN
       \E drop \in SUBSET rs :
          /\ pend' = [w \in Writers |-> IF w \in rs \ drop
                                          THEN Append(pend[w], pubs + 1)
                                          ELSE pend[w]]
          /\ cut' = [w \in Writers |-> cut[w] \/ w \in drop]
    /\ UNCHANGED <<subs, got, gone>>

Deliver(w) ==
    /\ ~gone[w] /\ pend[w] # <<>>
    /\ got' = [got EXCEPT ![w] = Append(@, Head(pend[w]))]
    /\ pend' = [pend EXCEPT ![w] = Tail(@)]
    /\ UNCHANGED <<pubs, subs, cut, gone>>

\* The subscriber leaves; what it was still owed is dropped.
Leave(w) ==
    /\ ~gone[w]
    /\ gone' = [gone EXCEPT ![w] = TRUE]
    /\ cut' = [cut EXCEPT ![w] = TRUE]
    /\ pend' = [pend EXCEPT ![w] = <<>>]
    /\ UNCHANGED <<pubs, subs, got>>

Next ==
    \/ \E c \in Chans : Publish(c)
    \/ \E w \in Writers : Subscribe(w) \/ Unsubscribe(w) \/ Deliver(w) \/ Leave(w)

Spec == Init /\ [][Next]_vars
=============================================================================
