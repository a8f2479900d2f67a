\* Shutdown liveness: every stream handler ends once Stop has begun.
CONSTANTS
    w1 = w1
    w2 = w2
    c1 = c1
    c2 = c2
    Writers = {w1, w2}
    Chans = {c1, c2}
    ChanOf <- MixedChanOf
    Kind <- MixedKind
    Backlog = 1
    InCap = 1
    CmdCap = 1
    MaxNotifs = 1

SPECIFICATION Spec

PROPERTY StopDrainsHandlers
