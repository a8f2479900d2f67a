\* Fan-out safety: two subscribers of one channel (websocket and SSE),
\* overflow of a one-slot backlog, shutdown racing everything.
CONSTANTS
    w1 = w1
    w2 = w2
    c1 = c1
    c2 = c2
    Writers = {w1, w2}
    Chans = {c1, c2}
    ChanOf <- MixedChanOf
    Kind <- MixedKind
    Backlog = 1
    InCap = 1
    CmdCap = 1
    MaxNotifs = 3

SPECIFICATION Spec

INVARIANT TypeOK
INVARIANT NoGap
INVARIANT LiveWriterRegistered
INVARIANT SSERegisteredHasOwner
PROPERTY ImplementsPubSub
