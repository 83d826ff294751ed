------------------------------ MODULE Vectors ------------------------------
(***************************************************************************)
(* Vec: the operations on extents, pitches and indices.  A vector is a     *)
(* sequence with the slowest dimension first; dimension d here is d - 1 in *)
(* the code, and x is the last one.                                        *)
(***************************************************************************)
EXTENDS Naturals, Sequences, FiniteSetsExt

Dims(v) == 1..Len(v)

X(v) == v[Len(v)]
Y(v) == v[Len(v) - 1]
Z(v) == v[Len(v) - 2]

DivExZero(a, b) == Max({a \div b, 1})

\* the largest power of two that is at most a
BitFloor(a) == Max({p \in {2^u : u \in 0..a} : p <= a})

Fill(n, a) == [d \in 1..n |-> a]

WithX(v, a) == [v EXCEPT ![Len(v)] = a]

\* without the k fastest dimensions (eraseBack, rshrink)
Slower(v, k) == SubSeq(v, 1, Len(v) - k)

\* (v * w).sum()
Dot(v, w) == MapThenSumSet(LAMBDA d : v[d] * w[d], Dims(v))

Pick(v, select) == [i \in Dims(select) |-> v[select[i]]]

Product(v) ==
    LET prod[d \in 0..Len(v)] == IF d = 0 THEN 1 ELSE prod[d - 1] * v[d]
    IN  prod[Len(v)]

\* position of idx in an index space of the given extents
Linearize(extents, idx) ==
    LET lin[d \in 0..Len(idx)] == IF d = 0 THEN 0 ELSE lin[d - 1] * extents[d] + idx[d]
    IN  lin[Len(idx)]

\* the inverse: quotients by the pitches of the slower dimensions
MapToND(extents, linear) ==
    LET n == Len(extents)
        Pitch(d) == Product(SubSeq(extents, d + 1, n))
        rest[d \in 1..n] == IF d = 1 THEN linear ELSE rest[d - 1] % Pitch(d - 1)
    IN  [d \in 1..n |-> rest[d] \div Pitch(d)]
=============================================================================
