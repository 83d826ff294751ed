------------------------------ MODULE MCIdxMap ------------------------------
(***************************************************************************)
(* Launches over ranges of one to three dimensions: empty ranges, fewer    *)
(* and more threads than indices, ranges with an offset and a stride,      *)
(* selections of dimensions and boundary directions; and SIMD algorithms   *)
(* with packs of one to four elements and one or two packs in a call; and  *)
(* kernels that draw random numbers.                                       *)
(***************************************************************************)
EXTENDS Random

Vecs(n, S) == [1..n -> S]

Launch(begin, extents, stride, count, select, traverse, layout, lower, upper) ==
    [begin |-> begin, end |-> [d \in DOMAIN begin |-> begin[d] + extents[d]],
     stride |-> stride, count |-> count, select |-> select, traverse |-> traverse,
     layout |-> layout, lower |-> lower, upper |-> upper]

LaunchesOf(Begins, Exts, Strides, Counts, Selects) ==
    {Launch(b, x, s, c, sel, tr, la, <<>>, <<>>) :
        b \in Begins, x \in Exts, s \in Strides, c \in Counts, sel \in Selects,
        tr \in {"flat", "tiled"}, la \in {"strided", "contiguous"}}

Line ==
    LaunchesOf({<<0>>, <<2>>}, Vecs(1, 0..5), {<<1>>, <<2>>, <<3>>}, Vecs(1, 1..4), {<<1>>})

Plane ==
    LaunchesOf({<<0, 1>>}, {0, 2, 3} \X {0, 1, 3}, {<<1, 1>>, <<1, 2>>, <<2, 1>>},
               {<<1, 1>>, <<1, 3>>, <<2, 1>>, <<2, 2>>, <<3, 2>>},
               {<<1, 2>>, <<2, 1>>, <<1>>, <<2>>})

Cube ==
    LaunchesOf({<<0, 1, 0>>}, {<<1, 2, 3>>, <<2, 0, 1>>, <<3, 2, 2>>}, {<<1, 1, 1>>},
               {<<1, 1, 1>>, <<2, 1, 2>>, <<1, 3, 2>>, <<2, 2, 1>>},
               {<<1, 2, 3>>, <<3, 1>>, <<2, 3>>, <<1>>, <<3>>})

\* Stencil kernels: halos that leave the middle empty or not.
StencilLaunches ==
    {Launch(<<0, 2>>, x, <<1, 1>>, c, <<1, 2>>, tr, la, lo, up) :
        x \in {<<2, 3>>, <<4, 2>>},
        c \in {<<1, 1>>, <<2, 3>>}, tr \in {"flat", "tiled"}, la \in {"strided", "contiguous"},
        lo \in {<<1, 1>>, <<0, 1>>}, up \in {<<1, 1>>, <<1, 0>>}}
    \cup {Launch(<<0>>, <<n>>, <<1>>, c, <<1>>, "tiled", "strided", <<1>>, <<2>>) :
            n \in 3..5, c \in {<<1>>, <<3>>}}
    \cup {Launch(<<0, 0, 0>>, <<3, 2, 3>>, <<1, 1, 1>>, <<1, 2, 1>>, <<1, 2, 3>>, "flat",
                 "contiguous", <<1, 1, 1>>, <<1, 1, 1>>)}

IndexLaunches ==
    {l \in Line \cup Plane \cup Cube \cup StencilLaunches : WellFormed(l) /\ SharedOut(l)}

\* One dimension of two is selected; the other one has threads, too.
ContiguousSelection ==
    {Launch(<<0, 0>>, <<4, 8>>, <<1, 1>>, <<2, 2>>, <<2>>, "flat", "contiguous", <<>>, <<>>)}

\* One dimension of three is selected; the other two have threads, too.
FoldedSelection ==
    {Launch(<<0, 0, 0>>, <<2, 2, 8>>, <<1, 1, 1>>, <<2, 2, 2>>, <<3>>, tr, "strided", <<>>, <<>>) :
        tr \in {"flat", "tiled"}}

\* packs of four, two, three rounded down to two, and one; calls of one or two
SimdTypes ==
    {[elem |-> b[1], arch |-> b[2], line |-> b[3], budget |-> b[4]] :
        b \in {<<1, 4, 4, 4>>, <<1, 2, 4, 4>>, <<1, 3, 2, 5>>, <<4, 4, 4, 8>>}}

SimdLaunch(x, count, tr, la, s) ==
    [begin |-> Fill(Len(x), 0), end |-> x, stride |-> Fill(Len(x), 1), count |-> count,
     select |-> [d \in DOMAIN x |-> d], traverse |-> tr, layout |-> la,
     lower |-> <<>>, upper |-> <<>>, simd |-> s]

AlgoLaunches ==
    {SimdLaunch(x[1], x[2], tr, la, s) :
        x \in {<<n>> : n \in 0..11} \X {<<c>> : c \in {1, 2, 3}}
              \cup {<<2, 5>>, <<3, 4>>, <<1, 9>>} \X {<<1, 1>>, <<2, 1>>, <<1, 2>>, <<2, 2>>}
              \cup {<<<<2, 1, 4>>, <<1, 2, 1>>>>, <<<<2, 1, 5>>, <<2, 1, 2>>>>},
        tr \in {"flat", "tiled"}, la \in {"strided", "contiguous"}, s \in SimdTypes}

Args(seed, subsequence, offset) == [seed |-> seed, subsequence |-> subsequence, offset |-> offset]

\* how thread k makes its engine: by seed or by subsequence, of one or two words
Told(vector) ==
    {[k \in 0..3 |-> Args(k, 0, 0)], [k \in 0..3 |-> Args(2, k, 0)]}
    \cup (IF vector THEN {}
          ELSE {[k \in 0..3 |-> Args(3 + k, 0, 0)], [k \in 0..3 |-> Args(6, 3 + 4 * k, 0)]})

\* by an offset of whole results
Apart(far) == [k \in 0..3 |-> Args(2, 0, far * k)]

RandomLaunch(n, count, layout, vector, dist, words, args) ==
    [begin |-> <<0>>, end |-> <<n>>, stride |-> <<1>>, count |-> <<count>>, select |-> <<1>>,
     traverse |-> "flat", layout |-> layout, lower |-> <<>>, upper |-> <<>>,
     rand |-> [vector |-> vector, dist |-> dist, words |-> words, args |-> args]]

Draws == {<<FALSE, "uniform">>, <<FALSE, "normal">>, <<TRUE, "uniform">>}

RandomFills ==
    UNION {{RandomLaunch(n, 1, "strided", d[1], d[2], w, a) :
                n \in {3, 14}, w \in {1, 2}, a \in Told(d[1])} : d \in Draws}
    \cup
    UNION {{RandomLaunch(n, c, la, d[1], d[2], w, a) :
                n \in {5, 10}, c \in {2, 4}, la \in {"strided", "contiguous"}, w \in {1, 2},
                a \in Told(d[1])} : d \in Draws}
    \cup {RandomLaunch(3 * c, c, la, FALSE, "uniform", 1, Apart(far)) :
            c \in {2, 3}, la \in {"strided", "contiguous"}, far \in {4, 5}}
    \cup {RandomLaunch(6, 2, "contiguous", TRUE, "uniform", 2, Apart(3))}

NoLaunches == {}

SelectionLaunches == ContiguousSelection \cup FoldedSelection
=============================================================================
