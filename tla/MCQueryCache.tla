---------------------------- MODULE MCQueryCache ----------------------------
EXTENDS QueryCache, TLC
CONSTANTS r1, r2

\* The request goroutines are interchangeable.
Symm == Permutations({r1, r2})

\* The URI "/q" as bytes.
MCUri == <<47, 113>>

\* Two argument lists with distinct keys: no parameter, and the string "1".
MCArgsDistinct == {<<Nil>>, <<Str(<<49>>)>>}

\* Argument lists whose framed bytes coincide: a nil (an absent optional
\* parameter) and an empty string both frame as 02 03; an empty string in
\* a []string and a string holding the bytes 02 03 both frame as 02 02 03 03.
MCArgsColliding ==
    {<<Nil>>, <<Str(<<>>)>>, <<Strs(<<<<>>>>)>>, <<Str(<<2, 3>>)>>}
=============================================================================
