\* Scripts competing for one-connection pools whose datasources all have
\* a timeout: the connections a script holds come from the pools it named.
CONSTANTS
    s1 = s1
    s2 = s2
    d1 = d1
    d2 = d2
    Scripts = {s1, s2}
    Dss = {d1, d2}
    MaxConns = 1
    DsTimeout <- AllTimeouts
    MaxCalls = 2
    ThrownTags = {"none", "number"}
    ResultTags = {"undefined", "string"}
    MaxRuns = 2

SPECIFICATION Spec

INVARIANT TypeOK
