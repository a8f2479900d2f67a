\* getParams against spec section 4.3 for every request: values beyond
\* int64, NaN and Inf strings, query parameters sent with POST.
CONSTANTS
    IntBits = 3
    Den = 2
    Strs <- MCStrs
    ParseFloatOf <- MCParseFloat
    ParseIntOf <- MCParseInt
    LowerOf <- MCLower
    LenOf <- MCLen
    Patterns <- MCPatterns
    MatchOf <- MCMatch
    Arches = {"amd64", "arm64"}
    Endpoints <- AllEndpoints
    Requests <- AnyRequests
SPECIFICATION Spec
INVARIANT MatchesSpec
