\* A script calling $sys.acquire twice on one datasource, and scripts ending
\* with every kind of thrown value and result.
CONSTANTS
    s1 = s1
    s2 = s2
    d1 = d1
    d2 = d2
    Scripts = {s1, s2}
    Dss = {d1, d2}
    MaxConns = 2
    DsTimeout <- AllTimeouts
    MaxCalls = 2
    ThrownTags = {"none", "undefined", "null", "string", "object", "array", "number"}
    ResultTags = {"undefined", "null", "string", "object", "array", "number"}
    MaxRuns = 1

SPECIFICATION Spec

INVARIANT TeardownAsSpecified
