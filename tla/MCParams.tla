------------------------------ MODULE MCParams ------------------------------
(***************************************************************************)
(* Bounded instance of Params. int64 has 3 bits (-4..3) and floats are    *)
(* halves, so 2.5 has a fraction and 4 is beyond int64, as 1e19 is in Go. *)
(***************************************************************************)
EXTENDS Params

F(x) == Fin(x * Den)          \* the float x (x an integer)
Half(n) == Fin(n)             \* the float n/2
Opt(S) == {None} \cup {<<x>> : x \in S}

\* The strings, and what strconv and strings.ToLower make of them.
MCStrs == {"1", "-1", "3.0", "2.5", "4", "TRUE", "x", "", "NaN", "Inf"}
MCParseFloat ==
    [s \in MCStrs |->
        CASE s = "1" -> <<F(1)>> [] s = "-1" -> <<F(-1)>> [] s = "3.0" -> <<F(3)>>
          [] s = "2.5" -> <<Half(5)>> [] s = "4" -> <<F(4)>> [] s = "NaN" -> <<NaN>>
          [] s = "Inf" -> <<PInf>> [] OTHER -> <<>>]
MCParseInt ==
    [s \in MCStrs |-> CASE s = "1" -> <<1>> [] s = "-1" -> <<-1>> [] OTHER -> <<>>]
MCLower ==
    [s \in MCStrs |-> IF s = "TRUE" THEN "true" ELSE "other"]
MCLen == [s \in MCStrs |-> CASE s = "" -> 0 [] s \in {"1", "4", "x"} -> 1
                              [] s \in {"-1"} -> 2 [] s = "TRUE" -> 4 [] OTHER -> 3]
MCPatterns == {"digits"}
\* ^[0-9]+$
MCMatch == [p \in MCPatterns |-> [s \in MCStrs |-> s \in {"1", "4"}]]

-----------------------------------------------------------------------------
(* Parameters: every combination of the options below that the validator *)
(* accepts.                                                               *)

Locs == {"path", "query", "body"}
IntEnum == <<[t |-> "int", i |-> 1], [t |-> "str", s |-> "-1"], [t |-> "num", f |-> F(3)]>>
NumEnum == <<[t |-> "str", s |-> "2.5"], [t |-> "uint", u |-> 1]>>
StrEnum == <<[t |-> "str", s |-> "x"], [t |-> "str", s |-> "1"]>>

WithBounds(B) ==
    [in : Locs, type : {"integer", "number"}, required : BOOLEAN,
     enum : {<<>>, IntEnum, NumEnum}, min : Opt({F(-1)}), max : Opt(B),
     maxLen : {None}, pattern : {None}, minItems : {None}, maxItems : {None},
     elemType : {""}]
StrParams ==
    [in : Locs, type : {"string"}, required : BOOLEAN, enum : {<<>>, StrEnum},
     min : {None}, max : {None}, maxLen : Opt({1}), pattern : Opt(MCPatterns),
     minItems : {None}, maxItems : {None}, elemType : {""}]
OtherParams ==
    [in : Locs, type : {"boolean", "array"}, required : BOOLEAN, enum : {<<>>},
     min : {None}, max : {None}, maxLen : {None}, pattern : {None},
     minItems : Opt({1}), maxItems : Opt({1}),
     elemType : {"", "integer", "number", "string", "boolean"}]

Valid(S) == {p \in S : ValidParam(p)}

\* Bounds within int64, and a maximum of 4 (= 2^(IntBits-1), what a YAML
\* maximum of 9223372036854775807 is as a float64).
InRangeParams == Valid(WithBounds({F(2)}) \cup StrParams \cup OtherParams)
WideParams == Valid(WithBounds({F(2), F(4)}))

-----------------------------------------------------------------------------
(* Requests.                                                              *)

Strl(l) == [t |-> "strs", l |-> l]

InRangeStrs == MCStrs \ {"4", "NaN", "Inf"}
QueryVals(S) == {Strl(<<s>>) : s \in S} \cup {Strl(<<"1", "x">>), Strl(<<"TRUE", "-1">>)}
JSONVals(S) ==
    {Str(s) : s \in S} \cup {Num(F(1)), Num(Half(5)), Num(F(-1)), Bool(TRUE), Null,
     [t |-> "obj"], [t |-> "list", l |-> <<Num(F(1)), Str("TRUE")>>]}

\* What a client may send for parameter p under method m and content type c.
Raw(p, m, c, S, W) ==
    {Absent} \cup
    CASE p.in = "path"  -> {Str(s) : s \in S \ {""}}
      [] p.in = "query" -> QueryVals(S)
      [] p.in = "body" /\ c = "json" -> JSONVals(S) \cup W
      [] p.in = "body" /\ c = "form" -> QueryVals(S)
      [] OTHER -> {}

ReqsOf(e, Ms, S, W) ==
    UNION {{[method |-> m, ct |-> c, raw |-> r] :
              r \in {x \in [DOMAIN e -> UNION {Raw(e[i], m, c, S, W) : i \in DOMAIN e}] :
                       \A i \in DOMAIN e : x[i] \in Raw(e[i], m, c, S, W)}} :
           m \in Ms, c \in {"json", "badjson", "form", "other"}}

\* Conforming clients: GET puts parameters in the URL, POST in the body.
ConformingRequests(e) ==
    {r \in ReqsOf(e, {"GET", "POST"}, InRangeStrs, {}) :
        \A i \in DOMAIN e :
            /\ (r.method = "GET" /\ e[i].in = "body") => r.raw[i] = Absent
            /\ (r.method = "POST" /\ e[i].in = "query") => r.raw[i] = Absent}

\* Every request, with strings and JSON numbers beyond int64 or not finite.
AnyRequests(e) == ReqsOf(e, {"GET", "POST"}, MCStrs, {Num(F(4)), Num(F(-5))})

\* Two-parameter endpoints: a required integer in the query before an
\* optional boolean form field, and the reverse.
P1 == [in |-> "query", type |-> "integer", required |-> TRUE, enum |-> <<>>,
       min |-> <<F(-1)>>, max |-> <<F(2)>>, maxLen |-> None, pattern |-> None,
       minItems |-> None, maxItems |-> None, elemType |-> ""]
P2 == [in |-> "body", type |-> "boolean", required |-> FALSE, enum |-> <<>>,
       min |-> None, max |-> None, maxLen |-> None, pattern |-> None,
       minItems |-> None, maxItems |-> None, elemType |-> ""]

InRangeEndpoints == {<<p>> : p \in InRangeParams} \cup {<<P1, P2>>, <<P2, P1>>}
WideEndpoints == {<<p>> : p \in WideParams}
AllEndpoints == InRangeEndpoints \cup WideEndpoints
=============================================================================
