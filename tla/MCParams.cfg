\* getParams against spec section 4.3 for conforming clients and values
\* within int64 and finite.
CONSTANTS
    IntBits = 3
    Den = 2
    Strs <- MCStrs
    ParseFloatOf <- MCParseFloat
    ParseIntOf <- MCParseInt
    LowerOf <- MCLower
    LenOf <- MCLen
    Patterns <- MCPatterns
    MatchOf <- MCMatch
    Arches = {"amd64", "arm64"}
    Endpoints <- InRangeEndpoints
    Requests <- ConformingRequests
SPECIFICATION Spec
INVARIANT TypeOK
INVARIANT MatchesSpec
