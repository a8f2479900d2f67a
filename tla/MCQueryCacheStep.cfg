\* A wall clock step back extends the life of a cached entry, and argument
\* lists whose framing coincides share one entry.
CONSTANTS
    r1 = r1
    r2 = r2
    Reqs = {r1, r2}
    TTL = 2
    MaxTime = 5
    MaxSteps = 1
    StepSize = 2
    UintBits = 4
    Uri <- MCUri
    Args <- MCArgsColliding
    MaxWrites = 1
SYMMETRY Symm
SPECIFICATION Spec
INVARIANT CacheAsSpecified
