------------------------------- MODULE Params -------------------------------
(***************************************************************************)
(* The parameter engine (params.go, in src/server_test.go lines 491-966)  *)
(* and the parameter rules of the config validator (validate.go part of   *)
(* src/server.go, Param.validate).                                        *)
(*                                                                         *)
(* Every function of the engine is a pure operator here: prepareParams'   *)
(* enum coercion, isSuitable and the checkX functions it dispatches to,   *)
(* float2int, and getParams, which locates every declared parameter of an *)
(* endpoint in the request and coerces it. A small state machine serves *)
(* one request per step so that TLC evaluates getParams over every        *)
(* endpoint and request of the bounded sets and compares it with a        *)
(* reference definition written from spec section 4.3.                    *)
(*                                                                         *)
(* Data abstraction:                                                      *)
(*   - int64 is an integer of IntBits bits (MinInt..MaxInt);              *)
(*   - a finite float64 is a multiple of 1/Den, a record [k |-> "fin",    *)
(*     n |-> n] for n/Den; NaN and the infinities are records of their    *)
(*     own. The code's |frac| < 1e-9 tolerance is finer than 1/Den, so a  *)
(*     float has a zero fraction exactly when n is a multiple of Den;     *)
(*   - a string is an element of Strs; what the code asks of it is given *)
(*     by ParseFloatOf (strconv.ParseFloat), ParseIntOf (strconv.ParseInt),*)
(*     LowerOf (strings.ToLower compared with "true"/"false"), LenOf and   *)
(*     MatchOf (the compiled ^pattern$);                                   *)
(*   - int64(f) for a float beyond the int64 range is implementation      *)
(*     defined in Go: amd64 yields MinInt64, arm64 saturates; the         *)
(*     architecture is a variable chosen at Init from Arches.             *)
(***************************************************************************)
EXTENDS Integers, Sequences, SequencesExt, FiniteSets

CONSTANTS
    IntBits,       \* width of int64 in the model
    Den,           \* finite floats are multiples of 1/Den
    Strs,          \* string values
    ParseFloatOf,  \* [Strs -> <<>> (syntax error) or <<a float>>]
    ParseIntOf,    \* [Strs -> <<>> (error) or <<an int64>>]
    LowerOf,       \* [Strs -> {"true", "false", "other"}]
    LenOf,         \* [Strs -> Nat]
    Patterns,      \* configured patterns (all compile)
    MatchOf,       \* [Patterns -> [Strs -> BOOLEAN]]
    Arches,        \* builds: subset of {"amd64", "arm64"}
    Endpoints,     \* parameter lists of endpoints (sequences of params)
    Requests(_)    \* Requests(ps): the requests served for endpoint ps

MinInt == -(2 ^ (IntBits - 1))
MaxInt == 2 ^ (IntBits - 1) - 1

NaN  == [k |-> "nan"]
PInf == [k |-> "pinf"]
NInf == [k |-> "ninf"]
NoNum == [k |-> "none"]   \* not a number at all
Fin(n) == [k |-> "fin", n |-> n]
\* float64(i) of an int64 or uint64 (exact in the model).
IntF(i) == Fin(i * Den)

\* An optional value: <<>> when absent, <<x>> when given.
None == <<>>
\* A parameter not found in the request.
Absent == [t |-> "absent"]

-----------------------------------------------------------------------------
(* Float arithmetic used by the engine.                                   *)

\* f < g and f > g for a float f and a finite float g; NaN compares false.
LtF(f, g) == \/ f.k = "ninf"
             \/ f.k = "fin" /\ f.n < g.n
GtF(f, g) == \/ f.k = "pinf"
             \/ f.k = "fin" /\ f.n > g.n
\* Go's ==: NaN is unequal to everything.
EqF(f, g) == f.k # "nan" /\ f = g

\* math.Modf(f) truncates toward zero; Inf and NaN have a NaN fraction.
FracZero(f) == f.k = "fin" /\ f.n % Den = 0
TruncF(f) == IF f.n >= 0 THEN f.n \div Den ELSE -((-f.n) \div Den)

\* The conversion int64(x) of a float whose integer part is t.
CvtInt(arch, t) ==
    IF t \in MinInt..MaxInt THEN t
    ELSE IF arch = "arm64" /\ t > 0 THEN MaxInt
    ELSE MinInt

\* int64(u) of a uint64 (two's complement wrap).
CvtUint(u) == IF u > MaxInt THEN u - 2 ^ IntBits ELSE u

\* float2int: the integer part, when the fraction is (nearly) zero.
Float2Int(arch, f) ==
    IF FracZero(f) THEN [ok |-> TRUE, i |-> CvtInt(arch, TruncF(f))]
    ELSE [ok |-> FALSE, i |-> 0]

-----------------------------------------------------------------------------
(* Values. A Go `any` reaching the engine is one of:                      *)
(*   [t |-> "str", s]     a string (path parameter, JSON string)         *)
(*   [t |-> "strs", l]    a []string (query or form value, 1+ entries)   *)
(*   [t |-> "num", f]     a float64 (JSON number)                        *)
(*   [t |-> "int", i], [t |-> "uint", u]  int64 / uint64 (YAML config)   *)
(*   [t |-> "bool", b], [t |-> "list", l], [t |-> "null"], [t |-> "obj"] *)
(* Coerced outputs are "str", "int", "num", "bool", or typed lists        *)
(* [t |-> "ints" | "nums" | "strl" | "bools", l]; a failure is Err.       *)

Str(s) == [t |-> "str", s |-> s]
Num(f) == [t |-> "num", f |-> f]
Bool(b) == [t |-> "bool", b |-> b]
Int64(i) == [t |-> "int", i |-> i]
Err == [t |-> "err"]
Null == [t |-> "null"]
IsErr(r) == r.t = "err"

ListKind == [integer |-> "ints", number |-> "nums", string |-> "strl",
             boolean |-> "bools"]

-----------------------------------------------------------------------------
(* Param.validate (the rules the validator applies to one parameter). A   *)
(* parameter is a record [in, type, required, enum (a sequence of config *)
(* values), min, max (floats or None), maxLen, minItems, maxItems        *)
(* (integers or None), pattern (a Pattern or None), elemType ("" if       *)
(* absent)]. Names are their position in the endpoint, so the name and   *)
(* uniqueness rules hold by construction.                                 *)

EnumEntryOK(p, v) ==
    CASE p.type = "string"  -> v.t = "str"
      [] p.type = "integer" -> \/ v.t = "str" /\ ParseIntOf[v.s] # <<>>
                               \/ v.t = "num" /\ FracZero(v.f)
                               \/ v.t = "uint" /\ v.u <= MaxInt
                               \/ v.t = "int"
      [] p.type = "number"  -> \/ v.t = "str" /\ ParseFloatOf[v.s] # <<>>
                               \/ v.t \in {"uint", "int", "num"}
      [] OTHER -> TRUE

ValidParam(p) ==
    /\ p.in \in {"query", "path", "body"}
    /\ p.type \in {"integer", "number", "string", "boolean", "array"}
    /\ ~(p.type = "array" /\ p.in = "path")
    /\ p.enum # <<>> => /\ p.type \in {"integer", "number", "string"}
                        /\ \A i \in DOMAIN p.enum : EnumEntryOK(p, p.enum[i])
    /\ p.min # None => /\ p.type \in {"integer", "number"}
                       /\ p.type = "integer" => FracZero(p.min[1])
    /\ p.max # None => /\ p.type \in {"integer", "number"}
                       /\ p.type = "integer" => FracZero(p.max[1])
                       /\ p.min # None => ~LtF(p.max[1], p.min[1])
    /\ p.maxLen # None => p.type = "string" /\ p.maxLen[1] >= 0
    /\ p.pattern # None => p.type = "string"
    /\ p.minItems # None => p.type = "array" /\ p.minItems[1] >= 0
    /\ p.maxItems # None => /\ p.type = "array" /\ p.maxItems[1] >= 0
                            /\ p.minItems # None => p.maxItems[1] >= p.minItems[1]
    /\ p.elemType # "" => p.type = "array"
    /\ p.type = "array" => p.elemType \in {"integer", "number", "string", "boolean"}

-----------------------------------------------------------------------------
(* prepareParams: the enum list coerced to the parameter's type, the set *)
(* of entries that convert (the others are skipped).                     *)

EnumInts(arch, p) ==
    LET Conv(v) == CASE v.t = "int" -> {v.i}
                     [] v.t = "uint" -> {CvtUint(v.u)}
                     [] v.t = "num" /\ Float2Int(arch, v.f).ok -> {Float2Int(arch, v.f).i}
                     [] v.t = "str" /\ ParseIntOf[v.s] # <<>> -> {ParseIntOf[v.s][1]}
                     [] OTHER -> {}
    IN UNION {Conv(p.enum[i]) : i \in DOMAIN p.enum}

EnumNums(p) ==
    LET Conv(v) == CASE v.t = "int" -> {IntF(v.i)}
                     [] v.t = "uint" -> {IntF(v.u)}
                     [] v.t = "num" -> {v.f}
                     [] v.t = "str" /\ ParseFloatOf[v.s] # <<>> -> {ParseFloatOf[v.s][1]}
                     [] OTHER -> {}
    IN UNION {Conv(p.enum[i]) : i \in DOMAIN p.enum}

EnumStrs(p) == {p.enum[i].s : i \in {j \in DOMAIN p.enum : p.enum[j].t = "str"}}

\* The coerced enum of the paramInfo stored under "<uri>#<name>" (empty if
\* none is stored or none of the entries converts).
PinfoEnum(arch, p) ==
    IF p.enum = <<>> THEN {}
    ELSE CASE p.type = "string"  -> EnumStrs(p)
           [] p.type = "integer" -> EnumInts(arch, p)
           [] p.type = "number"  -> EnumNums(p)
           [] OTHER -> {}

-----------------------------------------------------------------------------
(* The check functions.                                                   *)

CheckString(p, s) ==
    IF p.enum # <<>> THEN IF s \in EnumStrs(p) THEN Str(s) ELSE Err
    ELSE IF p.maxLen # None /\ p.maxLen[1] >= 0 /\ LenOf[s] > p.maxLen[1] THEN Err
    ELSE IF p.pattern # None /\ ~MatchOf[p.pattern[1]][s] THEN Err
    ELSE Str(s)

CheckStringAny(p, v) == IF v.t = "str" THEN CheckString(p, v.s) ELSE Err

\* Fault variant of CheckInteger: the minimum itself is refused.
CheckIntegerMinExclusive(arch, p, i) ==
    IF p.enum # <<>> THEN IF i \in PinfoEnum(arch, p) THEN Int64(i) ELSE Err
    ELSE IF p.min # None /\ i <= CvtInt(arch, TruncF(p.min[1])) THEN Err
    ELSE IF p.max # None /\ i > CvtInt(arch, TruncF(p.max[1])) THEN Err
    ELSE Int64(i)

CheckInteger(arch, p, i) ==
    IF p.enum # <<>> THEN IF i \in PinfoEnum(arch, p) THEN Int64(i) ELSE Err
    ELSE IF p.min # None /\ i < CvtInt(arch, TruncF(p.min[1])) THEN Err
    ELSE IF p.max # None /\ i > CvtInt(arch, TruncF(p.max[1])) THEN Err
    ELSE Int64(i)

CheckIntegerAny(arch, p, v) ==
    LET FromFloat(f) == IF Float2Int(arch, f).ok
                        THEN CheckInteger(arch, p, Float2Int(arch, f).i)
                        ELSE Err
    IN CASE v.t = "str" -> IF ParseFloatOf[v.s] = <<>> THEN Err
                           ELSE FromFloat(ParseFloatOf[v.s][1])
         [] v.t = "num" -> FromFloat(v.f)
         [] OTHER -> Err

CheckFloat(p, f) ==
    IF p.enum # <<>> THEN IF \E g \in EnumNums(p) : EqF(f, g)
                          THEN Num(f) ELSE Err
    ELSE IF p.min # None /\ LtF(f, p.min[1]) THEN Err
    ELSE IF p.max # None /\ GtF(f, p.max[1]) THEN Err
    ELSE Num(f)

\* checkFloatAny: NaN and Inf are refused for float64 inputs only.
CheckFloatAny(p, v) ==
    CASE v.t = "str" -> IF ParseFloatOf[v.s] = <<>> THEN Err
                        ELSE CheckFloat(p, ParseFloatOf[v.s][1])
      [] v.t = "num" /\ v.f.k = "fin" -> CheckFloat(p, v.f)
      [] OTHER -> Err

CheckBoolAny(v) ==
    CASE v.t = "str" /\ LowerOf[v.s] = "true"  -> Bool(TRUE)
      [] v.t = "str" /\ LowerOf[v.s] = "false" -> Bool(FALSE)
      [] v.t = "bool" -> v
      [] OTHER -> Err

\* One element of an array, by elemType.
CheckElem(arch, p, e) ==
    CASE p.elemType = "integer" -> CheckIntegerAny(arch, p, e)
      [] p.elemType = "number"  -> CheckFloatAny(p, e)
      [] p.elemType = "string"  -> CheckStringAny(p, e)
      [] p.elemType = "boolean" -> CheckBoolAny(e)

Payload(r) == CASE r.t = "int" -> r.i [] r.t = "num" -> r.f
                [] r.t = "str" -> r.s [] r.t = "bool" -> r.b

CheckArray(arch, p, l) ==
    LET rs == [j \in DOMAIN l |-> CheckElem(arch, p, l[j])]
    IN IF p.minItems # None /\ Len(l) < p.minItems[1] THEN Err
       ELSE IF p.maxItems # None /\ Len(l) > p.maxItems[1] THEN Err
       ELSE IF \E j \in DOMAIN rs : IsErr(rs[j]) THEN Err
       ELSE [t |-> ListKind[p.elemType], l |-> [j \in DOMAIN rs |-> Payload(rs[j])]]

CheckArrayAny(arch, p, v) ==
    CASE v.t = "strs" -> CheckArray(arch, p, [j \in DOMAIN v.l |-> Str(v.l[j])])
      [] v.t = "list" -> CheckArray(arch, p, v.l)
      [] OTHER -> Err

\* Fault variant of IsSuitable: a query or form array is passed on as the
\* []string it came as.
IsSuitableArrayRaw(arch, p, v) ==
    LET sv == v.t = "str" \/ (v.t = "strs" /\ Len(v.l) = 1)
        s  == IF v.t = "str" THEN v ELSE Str(v.l[1])
        w  == IF sv THEN s ELSE v
    IN CASE p.type = "string"  -> IF sv THEN CheckString(p, s.s) ELSE Err
         [] p.type = "integer" -> CheckIntegerAny(arch, p, w)
         [] p.type = "number"  -> CheckFloatAny(p, w)
         [] p.type = "boolean" -> CheckBoolAny(w)
         [] p.type = "array"   -> IF v.t = "strs" THEN v ELSE CheckArrayAny(arch, p, v)

\* isSuitable: a []string of one entry is used as a string, then dispatch
\* by type.
IsSuitable(arch, p, v) ==
    LET sv == v.t = "str" \/ (v.t = "strs" /\ Len(v.l) = 1)
        s  == IF v.t = "str" THEN v ELSE Str(v.l[1])
        w  == IF sv THEN s ELSE v
    IN CASE p.type = "string"  -> IF sv THEN CheckString(p, s.s) ELSE Err
         [] p.type = "integer" -> CheckIntegerAny(arch, p, w)
         [] p.type = "number"  -> CheckFloatAny(p, w)
         [] p.type = "boolean" -> CheckBoolAny(w)
         [] p.type = "array"   -> CheckArrayAny(arch, p, v)
-----------------------------------------------------------------------------
(* getParams. A request is [method, ct, raw], where ct is the body's      *)
(* content type as getParams sees it ("json", "badjson" for a body that   *)
(* does not decode into an object, "form", "other") and raw[i] is what    *)
(* the client put where parameter i is declared: the path component, the *)
(* URL query values, or the body field, or Absent.                      *)

JSONData(req) == req.method # "GET" /\ req.ct = "json"
FormData(req) == req.method # "GET" /\ req.ct = "form"

\* getParam(in, key): the URL query is read only for GET, the body only
\* for other methods.
Locate(p, req, i) ==
    CASE p.in = "path"  -> req.raw[i]
      [] p.in = "query" -> IF req.method = "GET" THEN req.raw[i] ELSE Absent
      [] p.in = "body"  -> IF JSONData(req) \/ FormData(req) THEN req.raw[i]
                           ELSE Absent

\* A boolean query or form parameter given with an empty value is true.
EmptyFlag(p, req, v) ==
    /\ p.type = "boolean"
    /\ p.in = "query" \/ (p.in = "body" /\ ~JSONData(req) /\ FormData(req))
    /\ v.t = "strs" /\ Len(v.l) = 1 /\ LenOf[v.l[1]] = 0

\* One parameter: absent (an error if required, else null), then coerced.
OneParam(arch, p, req, i) ==
    LET v == Locate(p, req, i)
    IN IF v = Absent THEN IF p.required THEN Err ELSE Null
       ELSE IsSuitable(arch, p, IF EmptyFlag(p, req, v) THEN Bool(TRUE) ELSE v)

\* The parameters in declaration order; the first failure fails the
\* request and names the parameter.
RECURSIVE GetFrom(_, _, _, _)
GetFrom(arch, ps, req, i) ==
    IF i > Len(ps) THEN [ok |-> TRUE, vals |-> <<>>]
    ELSE LET r == OneParam(arch, ps[i], req, i)
             rest == GetFrom(arch, ps, req, i + 1)
         IN IF IsErr(r)
            THEN [ok |-> FALSE, bad |-> i,
                  why |-> IF Locate(ps[i], req, i) = Absent THEN "missing"
                          ELSE "invalid"]
            ELSE IF ~rest.ok THEN rest
            ELSE [ok |-> TRUE, vals |-> <<r>> \o rest.vals]

GetParams(arch, ps, req) == GetFrom(arch, ps, req, 1)
-----------------------------------------------------------------------------
(* The reference: spec section 4.3 and the parameter rules of section 8,  *)
(* written from their text. Where the spec is silent (a scalar parameter *)
(* given several query values) the request is refused.                   *)

\* The number a value denotes, as a float, or NoNum.
RefNumber(v) ==
    CASE v.t = "str" /\ ParseFloatOf[v.s] # <<>> -> ParseFloatOf[v.s][1]
      [] v.t = "num" -> v.f
      [] v.t \in {"int", "uint"} -> IntF(IF v.t = "int" THEN v.i ELSE v.u)
      [] OTHER -> NoNum

\* An enum entry of an integer parameter denotes an integer, given as an
\* int, uint, fraction-free float or integer string.
RefEnumValue(p, e) ==
    IF p.type = "integer" /\ e.t = "str" THEN IntF(ParseIntOf[e.s][1])
    ELSE RefNumber(e)

\* A single value: a string, or a query/form value with one entry.
RefScalar(v) ==
    CASE v.t = "strs" /\ Len(v.l) = 1 -> Str(v.l[1])
      [] v.t = "strs" -> Err
      [] OTHER -> v

RefInRange(p, f) ==
    /\ p.min # None => ~LtF(f, p.min[1])
    /\ p.max # None => ~GtF(f, p.max[1])

RefEnumOK(p, f) ==
    p.enum = <<>> \/ \E j \in DOMAIN p.enum : EqF(f, RefEnumValue(p, p.enum[j]))

\* integer: a number with no fraction that is an int64; enum, else range.
RefInteger(p, v) ==
    LET f == RefNumber(v)
    IN IF f = NoNum \/ ~FracZero(f) \/ f.n \div Den \notin MinInt..MaxInt
          \/ ~RefEnumOK(p, f) \/ (p.enum = <<>> /\ ~RefInRange(p, f))
       THEN Err ELSE Int64(f.n \div Den)

\* number: finite (NaN and Inf refused); enum, else range.
RefNumberParam(p, v) ==
    LET f == RefNumber(v)
    IN IF f = NoNum \/ f.k # "fin" \/ ~RefEnumOK(p, f)
          \/ (p.enum = <<>> /\ ~RefInRange(p, f))
       THEN Err ELSE Num(f)

RefString(p, v) ==
    IF v.t # "str" THEN Err
    ELSE IF p.enum # <<>> THEN IF \E j \in DOMAIN p.enum : p.enum[j] = v
                               THEN v ELSE Err
    ELSE IF (p.maxLen # None /\ LenOf[v.s] > p.maxLen[1])
            \/ (p.pattern # None /\ ~MatchOf[p.pattern[1]][v.s]) THEN Err
    ELSE v

RefBoolean(v) ==
    CASE v.t = "bool" -> v
      [] v.t = "str" /\ LowerOf[v.s] \in {"true", "false"} -> Bool(LowerOf[v.s] = "true")
      [] OTHER -> Err

RefElem(t, p, e) ==
    CASE t = "integer" -> RefInteger(p, e)
      [] t = "number"  -> RefNumberParam(p, e)
      [] t = "string"  -> RefString(p, e)
      [] t = "boolean" -> RefBoolean(e)

\* array: every element coerced by elemType, then minItems/maxItems on
\* the coerced length; a homogeneous typed list.
RefArray(p, v) ==
    LET l  == CASE v.t = "strs" -> [j \in DOMAIN v.l |-> Str(v.l[j])]
                [] v.t = "list" -> v.l
                [] OTHER -> <<>>
        rs == [j \in DOMAIN l |-> RefElem(p.elemType, p, l[j])]
    IN IF v.t \notin {"strs", "list"} \/ \E j \in DOMAIN rs : IsErr(rs[j])
          \/ (p.minItems # None /\ Len(rs) < p.minItems[1])
          \/ (p.maxItems # None /\ Len(rs) > p.maxItems[1])
       THEN Err
       ELSE [t |-> ListKind[p.elemType], l |-> [j \in DOMAIN rs |-> Payload(rs[j])]]

RefCoerce(p, v) ==
    IF p.type = "array" THEN RefArray(p, v)
    ELSE LET s == RefScalar(v)
         IN IF IsErr(s) THEN Err
            ELSE CASE p.type = "integer" -> RefInteger(p, s)
                   [] p.type = "number"  -> RefNumberParam(p, s)
                   [] p.type = "string"  -> RefString(p, s)
                   [] p.type = "boolean" -> RefBoolean(s)

\* Locate: path component, URL query, or a body that is JSON or a form.
RefLocate(p, req, i) ==
    IF p.in = "body" /\ req.ct \notin {"json", "form"} THEN Absent
    ELSE req.raw[i]

RefOne(p, req, i) ==
    LET v == RefLocate(p, req, i)
    IN CASE v = Absent /\ p.required -> Err
         [] v = Absent -> Null
         [] p.type = "boolean" /\ p.in \in {"query", "body"} /\ v.t = "strs"
            /\ Len(v.l) = 1 /\ LenOf[v.l[1]] = 0 -> Bool(TRUE)
         [] OTHER -> RefCoerce(p, v)

RefGetParams(ps, req) ==
    LET rs  == [i \in DOMAIN ps |-> RefOne(ps[i], req, i)]
        bad == {i \in DOMAIN ps : IsErr(rs[i])}
    IN IF bad = {} THEN [ok |-> TRUE, vals |-> rs]
       ELSE LET i == CHOOSE j \in bad : \A k \in bad : j <= k
            IN [ok |-> FALSE, bad |-> i,
                why |-> IF RefLocate(ps[i], req, i) = Absent THEN "missing"
                        ELSE "invalid"]
-----------------------------------------------------------------------------
(* Serving: every step is one request to the endpoint.                   *)

VARIABLES
    arch,   \* the build's architecture
    ps,     \* the endpoint's declared parameters
    req,    \* the request
    out     \* what getParams returned

vars == <<arch, ps, req, out>>

Init ==
    /\ arch \in Arches
    /\ ps \in Endpoints
    /\ req \in Requests(ps)
    /\ out = GetParams(arch, ps, req)

\* A request arrives and getParams runs on it. The configuration, and so
\* the endpoint's parameters, is loaded once and never changes.
Serve ==
    /\ req' \in Requests(ps)
    /\ out' = GetParams(arch, ps, req')
    /\ UNCHANGED <<arch, ps>>

Spec == Init /\ [][Serve]_vars

-----------------------------------------------------------------------------
(* Properties.                                                            *)

Outputs ==
    {Null, Err} \cup [t : {"int"}, i : MinInt..MaxInt] \cup [t : {"str"}, s : Strs]
    \cup [t : {"bool"}, b : BOOLEAN]

\* getParams returns a value per declared parameter, or names the first
\* parameter that failed and why.
TypeOK ==
    /\ arch \in Arches
    /\ \A i \in DOMAIN ps : ValidParam(ps[i])
    /\ \/ out.ok /\ Len(out.vals) = Len(ps)
       \/ ~out.ok /\ out.bad \in DOMAIN ps /\ out.why \in {"missing", "invalid"}
    /\ out.ok => \A i \in DOMAIN ps :
                   LET o == out.vals[i] IN
                   \/ o = Null
                   \/ o.t = "int" /\ o.i \in MinInt..MaxInt
                   \/ o.t \in {"num", "str", "bool"}
                   \/ o.t \in {"ints", "nums", "strl", "bools"}

\* getParams, with prepareParams' coerced enums, isSuitable and the check
\* functions, accepts exactly the requests spec section 4.3 accepts, with
\* the same coerced values, and otherwise names the same first failing
\* parameter for the same reason.
MatchesSpec == out = RefGetParams(ps, req)
=============================================================================
