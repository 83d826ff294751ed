---------------------------- MODULE IdxMapProofs ----------------------------
(***************************************************************************)
(* Index maps for every launch: in any number of dimensions, for any       *)
(* number of threads, flat or tiled, strided or contiguous, over all or    *)
(* selected dimensions, in each boundary direction.  No loop of a thread   *)
(* visits an index that is not one of the range; and if the launch shares  *)
(* out the indices among the threads, none is visited twice and none is    *)
(* left out.  Also, the slots of the contiguous layout partition the       *)
(* elements.                                                               *)
(***************************************************************************)
EXTENDS IdxMap, VectorsProofs

-----------------------------------------------------------------------------
(* Slots of the contiguous layout.                                         *)

\* The first slot begins at zero, the last one ends at n, and no slot ends
\* before it begins or overlaps a later one.
THEOREM SlotsAreOrdered ==
    ASSUME NEW n \in Nat, NEW s \in Nat \ {0}
    PROVE  /\ SlotBegin(0, n, s) = 0
           /\ SlotBegin(s, n, s) = n
           /\ \A j, k \in 0..s : j <= k => SlotBegin(j, n, s) <= SlotBegin(k, n, s)
<1> DEFINE q == n \div s
           r == n % s
<1>1. q \in Nat /\ r \in Nat /\ n = s * q + r /\ r < s
  BY Division
<1> HIDE DEF q, r
<1>2. \A k \in Nat : SlotBegin(k, n, s) = k * q + (IF k < r THEN k ELSE r)
  BY DEF SlotBegin, Less, q, r
<1>3. \A j, k \in 0..s : j <= k => SlotBegin(j, n, s) <= SlotBegin(k, n, s)
  <2> SUFFICES ASSUME NEW j \in 0..s, NEW k \in 0..s, j <= k
               PROVE  SlotBegin(j, n, s) <= SlotBegin(k, n, s)
    OBVIOUS
  <2>1. j * q <= k * q
    BY TimesBoth, <1>1
  <2>2. j * q \in Nat /\ k * q \in Nat
    BY <1>1
  <2>3. SlotBegin(j, n, s) = j * q + (IF j < r THEN j ELSE r)
    BY <1>2
  <2>4. SlotBegin(k, n, s) = k * q + (IF k < r THEN k ELSE r)
    BY <1>2
  <2>5. (IF j < r THEN j ELSE r) <= (IF k < r THEN k ELSE r)
    BY <1>1
  <2> QED
    BY <2>1, <2>2, <2>3, <2>4, <2>5, <1>1
<1>4. SlotBegin(0, n, s) = 0
  BY <1>1, <1>2
<1>5. SlotBegin(s, n, s) = n
  BY <1>1, <1>2
<1> QED
  BY <1>3, <1>4, <1>5

\* Every element lies in some slot.
THEOREM SlotsCover ==
    ASSUME NEW n \in Nat, NEW s \in Nat \ {0}, NEW i \in 0..n - 1
    PROVE  \E k \in 0..s - 1 : SlotBegin(k, n, s) <= i /\ i < SlotBegin(k + 1, n, s)
<1> DEFINE q == n \div s
           r == n % s
<1>1. q \in Nat /\ r \in Nat /\ n = s * q + r /\ r < s
  BY Division
<1> HIDE DEF q, r
<1>2. \A k \in Nat : SlotBegin(k, n, s) = k * q + (IF k < r THEN k ELSE r)
  BY DEF SlotBegin, Less, q, r
\* the larger slots at the front
<1>3. CASE i < r * (q + 1)
  <2> DEFINE k == i \div (q + 1)
  <2>1. k \in Nat /\ i = (q + 1) * k + (i % (q + 1)) /\ i % (q + 1) < q + 1 /\ i % (q + 1) \in Nat
    BY <1>1, Division
  <2> HIDE DEF k
  <2>2. k < r
    <3> SUFFICES ASSUME r <= k PROVE FALSE
      BY <1>1, <2>1
    <3>1. r * (q + 1) <= k * (q + 1)
      BY TimesBoth, <1>1, <2>1
    <3> QED
      BY <3>1, <1>1, <1>3, <2>1
  <2>3. SlotBegin(k, n, s) = k * q + k
    BY <1>1, <1>2, <2>1, <2>2
  <2>4. SlotBegin(k + 1, n, s) = (k + 1) * q + (k + 1)
    BY <1>1, <1>2, <2>1, <2>2
  <2>5. (q + 1) * k = k * q + k /\ (k + 1) * q + (k + 1) = (q + 1) * k + (q + 1)
    BY <1>1, <2>1
  <2>6. k * q \in Nat /\ (q + 1) * k \in Nat
    BY <1>1, <2>1
  <2> QED
    BY <2>1, <2>2, <2>3, <2>4, <2>5, <2>6, <1>1
\* the others
<1>4. CASE r * (q + 1) <= i
  <2>1. r * q \in Nat /\ r * (q + 1) = r * q + r /\ s * q \in Nat
    BY <1>1
  <2>2. q # 0
    BY <1>1, <1>4, <2>1
  <2> DEFINE k == (i - r) \div q
  <2>3. i - r \in Nat
    BY <1>1, <1>4, <2>1
  <2>4. /\ k \in Nat /\ i - r = q * k + ((i - r) % q)
        /\ (i - r) % q < q /\ (i - r) % q \in Nat
    BY <1>1, <2>2, <2>3, Division
  <2> HIDE DEF k
  <2>5. q * k \in Nat /\ q * k = k * q /\ (k + 1) * q = k * q + q
    BY <1>1, <2>4
  <2>6. r <= k
    <3> SUFFICES ASSUME k + 1 <= r PROVE FALSE
      BY <1>1, <2>4
    <3>1. (k + 1) * q <= r * q
      BY TimesBoth, <1>1, <2>4
    <3> QED
      BY <3>1, <1>1, <1>4, <2>1, <2>4, <2>5
  <2>7. k < s
    <3> SUFFICES ASSUME s <= k PROVE FALSE
      BY <1>1, <2>4
    <3>1. s * q <= k * q
      BY TimesBoth, <1>1, <2>4
    <3> QED
      BY <3>1, <1>1, <2>1, <2>4, <2>5
  <2>8. SlotBegin(k, n, s) = k * q + r /\ SlotBegin(k + 1, n, s) = (k + 1) * q + r
    BY <1>1, <1>2, <2>4, <2>6
  <2> QED
    BY <1>1, <2>3, <2>4, <2>5, <2>7, <2>8
<1>5. r * (q + 1) \in Nat
  BY <1>1
<1> QED
  BY <1>3, <1>4, <1>5

\* No element lies in two slots: with SlotsCover, the slots of the contiguous
\* layout are a partition of the elements.
THEOREM SlotsAreDisjoint ==
    ASSUME NEW n \in Nat, NEW s \in Nat \ {0}, NEW i \in 0..n - 1,
           NEW j \in 0..s - 1, NEW k \in 0..s - 1,
           SlotBegin(j, n, s) <= i, i < SlotBegin(j + 1, n, s),
           SlotBegin(k, n, s) <= i, i < SlotBegin(k + 1, n, s)
    PROVE  j = k
<1>1. \A m \in 0..s : SlotBegin(m, n, s) \in Nat
  <2>1. n \div s \in Nat /\ n % s \in Nat
    BY Division
  <2> QED
    BY <2>1 DEF SlotBegin, Less
<1>2. j < k => SlotBegin(j + 1, n, s) <= SlotBegin(k, n, s)
  BY SlotsAreOrdered
<1>3. k < j => SlotBegin(k + 1, n, s) <= SlotBegin(j, n, s)
  BY SlotsAreOrdered
<1> QED
  BY <1>1, <1>2, <1>3

-----------------------------------------------------------------------------
(* Parts of a range and the thread space.                                  *)

\* s is a part of the range of l, on the indices that its stride selects.
Part(l, s) ==
    /\ s.stride = l.stride /\ s.count = l.count /\ s.select = l.select
    /\ s.traverse = l.traverse /\ s.layout = l.layout
    /\ s.begin \in [Dims(l.begin) -> Nat] /\ s.end \in [Dims(l.begin) -> Nat]
    /\ \A d \in Dims(l.begin) :
          /\ l.begin[d] <= s.begin[d] /\ s.begin[d] <= s.end[d] /\ s.end[d] <= l.end[d]
          /\ (s.begin[d] - l.begin[d]) % l.stride[d] = 0
          /\ (\A k \in Dims(l.select) : l.select[k] # d) => s.begin[d] = l.begin[d]

Direction(l) == [Dims(l.begin) -> {"lower", "middle", "upper"}]

\* A sequence is a vector.
LEMMA VectorOf ==
    ASSUME NEW S, NEW v \in Seq(S), NEW n, n = Len(v) PROVE v \in [1..n -> S]
  OBVIOUS

\* The fields of a well-formed launch.
LEMMA Fields ==
    ASSUME NEW l, WellFormed(l)
    PROVE  /\ Dims(l.begin) = 1..Len(l.begin) /\ Len(l.begin) \in Nat
           /\ l.begin \in [Dims(l.begin) -> Nat] /\ l.end \in [Dims(l.begin) -> Nat]
           /\ l.stride \in [Dims(l.begin) -> Nat \ {0}] /\ l.count \in [Dims(l.begin) -> Nat \ {0}]
           /\ l.count \in Seq(Nat \ {0}) /\ Len(l.count) = Len(l.begin)
           /\ \A d \in Dims(l.begin) : l.begin[d] <= l.end[d]
           /\ Dims(l.select) = 1..Len(l.select) /\ Len(l.select) \in Nat \ {0}
           /\ l.select \in [Dims(l.select) -> Dims(l.begin)]
<1>1. /\ l.begin \in Seq(Nat) /\ l.end \in Seq(Nat) /\ l.stride \in Seq(Nat) /\ l.count \in Seq(Nat)
      /\ l.select \in Seq(Nat)
  BY DEF WellFormed, Vec
<1>2. Len(l.end) = Len(l.begin) /\ Len(l.stride) = Len(l.begin) /\ Len(l.count) = Len(l.begin)
  BY DEF WellFormed
<1>3. \A d \in Dims(l.begin) : l.begin[d] <= l.end[d] /\ l.stride[d] > 0 /\ l.count[d] > 0
  BY DEF WellFormed
<1>4. l.select # <<>> /\ \A k \in Dims(l.select) : l.select[k] \in Dims(l.begin)
  BY DEF WellFormed
<1>5. PICK n \in Nat : n = Len(l.begin)
  BY <1>1
<1>6. Dims(l.begin) = 1..n
  BY <1>5 DEF Dims
<1>7. /\ l.begin \in [1..n -> Nat] /\ l.end \in [1..n -> Nat]
      /\ l.stride \in [1..n -> Nat] /\ l.count \in [1..n -> Nat]
  BY <1>1, <1>2, <1>5, VectorOf
<1>8. l.stride \in [1..n -> Nat \ {0}] /\ l.count \in [1..n -> Nat \ {0}]
  BY <1>3, <1>6, <1>7, PositiveVector
<1>9. l.count \in Seq(Nat \ {0}) /\ Len(l.count) = n
  BY <1>8, Vector
<1>10. Len(l.select) \in Nat \ {0} /\ l.select \in [1..Len(l.select) -> Nat]
  BY <1>1, <1>4
<1>11. l.select \in [1..Len(l.select) -> Dims(l.begin)]
  BY <1>4, <1>10 DEF Dims
<1> QED
  BY <1>3, <1>5, <1>6, <1>7, <1>8, <1>9, <1>10, <1>11 DEF Dims

\* A launch has a first dimension.
LEMMA FirstDimension ==
    ASSUME NEW l, WellFormed(l)
    PROVE  1 \in 1..Len(l.begin) /\ Len(l.begin) \in Nat /\ Dims(l.begin) = 1..Len(l.begin)
<1>1. 1 \in Dims(l.select) /\ l.select \in [Dims(l.select) -> Dims(l.begin)]
  BY Fields
<1>2. Dims(l.begin) = 1..Len(l.begin) /\ Len(l.begin) \in Nat
  BY Fields
<1>3. l.select[1] \in 1..Len(l.begin)
  BY <1>1, <1>2
<1> QED
  BY <1>2, <1>3

\* What makeDirectionSubRange makes of a range for a direction is a part of it.
LEMMA SubRange ==
    ASSUME NEW l, WellFormed(l), NEW dir, l.lower # <<>> => dir \in Direction(l)
    PROVE  Part(l, DirectionSubRange(l, dir))
<1> DEFINE D == Dims(l.begin)
<1>1. /\ l.begin \in [D -> Nat] /\ l.end \in [D -> Nat] /\ l.stride \in [D -> Nat \ {0}]
      /\ \A d \in D : l.begin[d] <= l.end[d]
  BY Fields
<1>2. CASE l.lower = <<>>
  <2>1. DirectionSubRange(l, dir) = l
    BY <1>2 DEF DirectionSubRange
  <2>2. \A d \in D : (l.begin[d] - l.begin[d]) % l.stride[d] = 0
    BY <1>1
  <2> QED
    BY <1>1, <2>1, <2>2 DEF Part
<1>3. CASE l.lower # <<>>
  <2>1. dir \in Direction(l) /\ l.lower \in Seq(Nat) /\ l.upper \in Seq(Nat)
    BY <1>3 DEF WellFormed, Vec
  <2>2. /\ Len(l.lower) = Len(l.begin) /\ Len(l.upper) = Len(l.begin)
        /\ \A d \in D :
              /\ \E k \in Dims(l.select) : l.select[k] = d
              /\ l.lower[d] + l.upper[d] <= l.end[d] - l.begin[d]
              /\ l.lower[d] % l.stride[d] = 0
              /\ (l.end[d] - l.upper[d] - l.begin[d]) % l.stride[d] = 0
    BY <1>3 DEF WellFormed
  <2>3. Dims(dir) = D
    <3>1. PICK n \in Nat : n = Len(l.begin) /\ D = 1..n
      BY Fields
    <3>2. dir \in [1..n -> {"lower", "middle", "upper"}]
      BY <2>1, <3>1 DEF Direction
    <3> QED
      BY <3>1, <3>2, Vector
  <2>4. \A d \in D : l.lower[d] \in Nat /\ l.upper[d] \in Nat
    BY <2>1, <2>2 DEF Dims
  <2> DEFINE B(d) == CASE dir[d] = "lower" -> l.begin[d]
                       [] dir[d] = "middle" -> l.begin[d] + l.lower[d]
                       [] dir[d] = "upper" -> l.end[d] - l.upper[d]
             E(d) == CASE dir[d] = "lower" -> l.begin[d] + l.lower[d]
                       [] dir[d] = "middle" -> l.end[d] - l.upper[d]
                       [] dir[d] = "upper" -> l.end[d]
             b == [d \in D |-> B(d)]
             e == [d \in D |-> E(d)]
  <2>5. DirectionSubRange(l, dir) = [l EXCEPT !.begin = b, !.end = e]
    BY <1>3, <2>3 DEF DirectionSubRange
  <2>6. ASSUME NEW d \in D
        PROVE  /\ B(d) \in Nat /\ E(d) \in Nat
               /\ l.begin[d] <= B(d) /\ B(d) <= E(d) /\ E(d) <= l.end[d]
               /\ (B(d) - l.begin[d]) % l.stride[d] = 0
    <3>1. PICK x \in Nat, y \in Nat, lo \in Nat, up \in Nat, st \in Nat \ {0} :
             x = l.begin[d] /\ y = l.end[d] /\ lo = l.lower[d] /\ up = l.upper[d]
             /\ st = l.stride[d]
      BY <1>1, <2>4
    <3>2. lo + up <= y - x /\ lo % st = 0 /\ (y - up - x) % st = 0
      BY <2>2, <3>1
    <3>3. dir[d] \in {"lower", "middle", "upper"}
      BY <2>1 DEF Direction
    <3>4. PICK u, w : u = B(d) /\ w = E(d)
      OBVIOUS
    <3>5. \/ u = x /\ w = x + lo
          \/ u = x + lo /\ w = y - up
          \/ u = y - up /\ w = y
      BY <3>1, <3>3, <3>4
    <3>6. (x - x) % st = 0 /\ (x + lo) - x = lo
      OBVIOUS
    <3>7. u \in Nat /\ w \in Nat /\ x <= u /\ u <= w /\ w <= y
      BY <3>2, <3>5
    <3>8. (u - x) % st = 0
      BY <3>2, <3>5, <3>6
    <3> HIDE DEF B, E
    <3> QED
      BY <3>1, <3>4, <3>7, <3>8
  <2>7. b \in [D -> Nat] /\ e \in [D -> Nat]
    <3> HIDE DEF B, E
    <3> QED
      BY <2>6
  <2>70. \A d \in D : b[d] = B(d) /\ e[d] = E(d)
    OBVIOUS
  <2> HIDE DEF B, E
  <2> HIDE DEF b, e
  <2>8. PICK s : s = DirectionSubRange(l, dir)
    OBVIOUS
  <2>9. /\ s.begin = b /\ s.end = e
        /\ s.stride = l.stride /\ s.count = l.count /\ s.select = l.select
        /\ s.traverse = l.traverse /\ s.layout = l.layout
    BY <2>5, <2>8 DEF WellFormed
  <2>10. \A d \in D : \E k \in Dims(l.select) : l.select[k] = d
    BY <2>2
  <2>11. Part(l, s)
    BY <2>6, <2>7, <2>70, <2>9, <2>10 DEF Part
  <2> QED
    BY <2>8, <2>11
<1> QED
  BY <1>2, <1>3

\* The dimensions that are selected.
Selected(l) == {l.select[k] : k \in Dims(l.select)}

\* The thread space of the selected dimensions.
LEMMA Mapped ==
    ASSUME NEW l, WellFormed(l), NEW s, Part(l, s), NEW t \in [Dims(l.begin) -> Nat],
           NEW m, m = MapTo(s, t)
    PROVE  /\ m.idx \in [Dims(l.begin) -> Nat] /\ m.num \in [Dims(l.begin) -> Nat \ {0}]
           /\ \A d \in Dims(l.begin) : d \notin Selected(l) => m.idx[d] = 0
           /\ \A d \in Dims(l.begin) : m.num[d] <= Product(l.count)
<1>1. PICK n, D : n = Len(l.begin) /\ D = Dims(l.begin)
  OBVIOUS
<1>2. /\ n \in Nat /\ D = 1..n /\ t \in [D -> Nat]
      /\ l.count \in [D -> Nat \ {0}] /\ l.count \in Seq(Nat \ {0}) /\ Len(l.count) = n
      /\ Len(l.select) \in Nat \ {0} /\ l.select \in [1..Len(l.select) -> D]
  BY <1>1, Fields
<1>3. s.select = l.select /\ s.count = l.count
  BY DEF Part
<1>4. Dims(t) = D
  BY <1>2, Vector
<1>5. PICK out, x : out = D \ Selected(l) /\ x = l.select[1]
  OBVIOUS
<1>6. x \in D /\ out \subseteq D
  <2>1. 1 \in 1..Len(l.select)
    BY <1>2
  <2> QED
    BY <1>2, <1>5, <2>1
<1>7. PICK c \in Nat \ {0} : c = l.count[x]
  BY <1>2, <1>6
<1>8. PICK f : f = [i \in D |-> IF i \in out \cup {x} THEN l.count[i] ELSE 1]
  OBVIOUS
<1>9. /\ m.idx = [d \in D |-> IF d \in out THEN 0
                             ELSE IF d = x THEN t[x] + SumOver(t, c, out)
                             ELSE t[d]]
      /\ m.num = [d \in D |-> IF d \in out THEN 1
                             ELSE IF d = x THEN Product(f)
                             ELSE l.count[d]]
  <2>1. out = Dims(t) \ {s.select[i] : i \in Dims(s.select)} /\ x = s.select[1]
    BY <1>3, <1>4, <1>5 DEF Selected
  <2>2. MapTo(s, t) =
             [idx |-> [d \in Dims(t) |->
                    IF d \in out THEN 0
                    ELSE IF d = x THEN t[x] + SumOver(t, s.count[x], out)
                    ELSE t[d]],
              num |-> [d \in Dims(t) |->
                    IF d \in out THEN 1
                    ELSE IF d = x
                    THEN Product([i \in Dims(t) |-> IF i \in out \cup {x} THEN s.count[i] ELSE 1])
                    ELSE s.count[d]]]
    BY <2>1 DEF MapTo, MapThenSumSet, MapThenFoldSet, SumOver, SumsOf
  <2> QED
    BY <1>3, <1>4, <1>7, <1>8, <2>2
<1>10. SumOver(t, c, out) \in Nat
  <2>1. IsFiniteSet(out)
    <3>1. IsFiniteSet(1..n)
      BY <1>2, FS_Interval
    <3> QED
      BY <1>2, <1>6, <3>1, FS_Subset
  <2>2. \A d \in out : t[d] \in Nat
    BY <1>2, <1>6
  <2> QED
    BY <2>1, <2>2, SumNat
<1>11. l.count \in Seq(Nat) /\ Product(l.count) \in Nat /\ Product(l.count) # 0
  <2>1. l.count \in Seq(Nat) /\ \A d \in Dims(l.count) : l.count[d] # 0
    BY <1>2 DEF Dims
  <2> QED
    BY <2>1, ProductNat
<1>12. Product(f) \in Nat \ {0} /\ Product(f) <= Product(l.count)
  <2>1. f \in [1..n -> Nat] /\ \A d \in 1..n : f[d] # 0 /\ f[d] <= l.count[d]
    BY <1>2, <1>8
  <2>2. f \in Seq(Nat) /\ Len(f) = n /\ Dims(f) = 1..n
    BY <1>2, <2>1, Vector
  <2>3. Product(f) \in Nat /\ Product(f) # 0
    BY <2>1, <2>2, ProductNat
  <2>4. Product(f) <= Product(l.count)
    BY <1>2, <1>11, <2>1, <2>2, ProductLess
  <2> QED
    BY <2>3, <2>4
<1>13. \A d \in D : l.count[d] <= Product(l.count)
  <2>1. SUFFICES ASSUME NEW d \in D PROVE l.count[d] <= Product(l.count)
    OBVIOUS
  <2> DEFINE h == [i \in 1..n |-> IF i = d THEN l.count[i] ELSE 1]
  <2>2. /\ h \in [1..n -> Nat]
        /\ \A i \in 1..n : h[i] <= l.count[i] /\ (i = d => h[i] = l.count[d]) /\ (i # d => h[i] = 1)
    BY <1>2
  <2> HIDE DEF h
  <2>3. h \in Seq(Nat) /\ Len(h) = n /\ Dims(h) = 1..n
    BY <1>2, <2>2, Vector
  <2>4. Product(h) <= Product(l.count)
    BY <1>2, <1>11, <2>2, <2>3, ProductLess
  <2>5. Product(h) = l.count[d]
    BY <1>2, <2>2, <2>3, ProductOfOne
  <2> QED
    BY <2>4, <2>5
<1> QED
  <2>1. m.idx \in [D -> Nat] /\ \A d \in D : d \in out => m.idx[d] = 0
    BY <1>2, <1>6, <1>9, <1>10
  <2>2. m.num \in [D -> Nat \ {0}] /\ \A d \in D : m.num[d] <= Product(l.count)
    <3>1. PICK p \in Nat \ {0}, q \in Nat \ {0} : p = Product(f) /\ q = Product(l.count) /\ p <= q
      BY <1>11, <1>12
    <3>2. \A d \in D : m.num[d] \in Nat \ {0} /\ m.num[d] <= q
      BY <1>2, <1>9, <1>13, <3>1
    <3>3. m.num \in [D -> Nat \ {0}]
      BY <1>9, <3>2
    <3> QED
      BY <3>1, <3>2, <3>3
  <2> QED
    BY <1>1, <1>5, <2>1, <2>2

-----------------------------------------------------------------------------
(* Iterators.                                                              *)

\* y is one of the numbers from b on in steps of m.
Aligned(y, b, m) == \E q \in Nat : y = b + m * q

\* Steps from b on are steps from a on, if b is one.
LEMMA AlignedTwice ==
    ASSUME NEW a \in Nat, NEW b \in Nat, NEW y \in Nat, NEW m \in Nat \ {0},
           a <= b, (b - a) % m = 0, Aligned(y, b, m)
    PROVE  a <= y /\ b <= y /\ (y - a) % m = 0
<1>1. PICK q \in Nat : y = b + m * q
  BY DEF Aligned
<1>2. PICK p \in Nat : p = m * q
  BY TimesNat
<1>3. PICK c \in Nat : c = b - a
  OBVIOUS
<1>4. (c + m * q) % m = 0
  BY <1>3, Multiples
<1>5. y - a = c + p /\ b <= y
  BY <1>1, <1>2, <1>3
<1> QED
  BY <1>2, <1>4, <1>5

\* x is one of the indices of a part of a range.
Among(l, s, x) ==
    /\ x \in [Dims(l.begin) -> Nat]
    /\ \A d \in Dims(l.begin) :
          IF d \in Selected(l) THEN Aligned(x[d], s.begin[d], l.stride[d]) /\ x[d] < s.end[d]
          ELSE x[d] = s.begin[d]

\* A point of a part of the range is an index of the range.
LEMMA Inside ==
    ASSUME NEW l, WellFormed(l), NEW s, Part(l, s), NEW x, Among(l, s, x) PROVE IsIndex(l, x)
<1>1. Dims(x) = Dims(l.begin)
  <2>1. PICK n \in Nat : n = Len(l.begin) /\ Dims(l.begin) = 1..n
    BY Fields
  <2>2. x \in [1..n -> Nat]
    BY <2>1 DEF Among
  <2> QED
    BY <2>1, <2>2, Vector
<1>2. ASSUME NEW d \in Dims(l.begin)
      PROVE  IF \E k \in Dims(l.select) : l.select[k] = d
             THEN /\ l.begin[d] <= x[d] /\ x[d] < l.end[d]
                  /\ (x[d] - l.begin[d]) % l.stride[d] = 0
             ELSE x[d] = l.begin[d]
  <2>1. d \in Selected(l) <=> \E k \in Dims(l.select) : l.select[k] = d
    BY DEF Selected
  <2>2. PICK a \in Nat, b \in Nat, e \in Nat, f \in Nat, m \in Nat \ {0}, y \in Nat :
           /\ a = l.begin[d] /\ b = s.begin[d] /\ e = s.end[d] /\ f = l.end[d] /\ m = l.stride[d]
           /\ y = x[d]
    BY Fields DEF Part, Among
  <2>3. /\ a <= b /\ e <= f /\ (b - a) % m = 0
        /\ (\A k \in Dims(l.select) : l.select[k] # d) => b = a
    BY <2>2 DEF Part
  <2>4. CASE d \in Selected(l)
    <3>1. Aligned(y, b, m) /\ y < e
      BY <2>2, <2>4 DEF Among
    <3>2. a <= y /\ (y - a) % m = 0
      BY <2>3, <3>1, AlignedTwice
    <3>3. y < f
      BY <2>3, <3>1
    <3> QED
      BY <2>1, <2>2, <2>4, <3>2, <3>3
  <2>5. CASE d \notin Selected(l)
    BY <2>1, <2>2, <2>3, <2>5 DEF Among
  <2> QED
    BY <2>4, <2>5
<1> QED
  BY <1>1, <1>2 DEF IsIndex

\* Where a slot begins.
LEMMA SlotNat ==
    ASSUME NEW k \in Nat, NEW n \in Nat, NEW s \in Nat \ {0}
    PROVE  SlotBegin(k, n, s) \in Nat /\ SlotBegin(0, n, s) = 0
<1>1. PICK q \in Nat, r \in Nat : q = n \div s /\ r = n % s
  BY Division
<1>2. k * q \in Nat
  BY TimesNat
<1>3. SlotBegin(k, n, s) = k * q + Less(k, r) /\ SlotBegin(0, n, s) = 0 * q + Less(0, r)
  BY <1>1 DEF SlotBegin
<1>4. Less(k, r) \in Nat /\ Less(0, r) = 0 /\ 0 * q = 0
  BY DEF Less
<1> QED
  BY <1>2, <1>3, <1>4

\* A part has as many indices in a dimension as fit.
LEMMA ExtentsOfPart ==
    ASSUME NEW l, WellFormed(l), NEW s, Part(l, s)
    PROVE  /\ Extents(s) \in [Dims(l.begin) -> Nat]
           /\ Distance(s) \in [Dims(l.begin) -> Nat]
           /\ \A d \in Dims(l.begin) :
                 /\ s.begin[d] + Distance(s)[d] = s.end[d]
                 /\ \A k \in Nat : k < Extents(s)[d] => l.stride[d] * k < Distance(s)[d]
<1>1. Dims(s.begin) = Dims(l.begin)
  <2>1. PICK n \in Nat : n = Len(l.begin) /\ Dims(l.begin) = 1..n
    BY Fields
  <2>2. s.begin \in [1..n -> Nat]
    BY <2>1 DEF Part
  <2> QED
    BY <2>1, <2>2, Vector
<1>2. Distance(s) = [d \in Dims(l.begin) |-> s.end[d] - s.begin[d]]
  BY <1>1 DEF Distance
<1>3. Extents(s) = [d \in Dims(l.begin) |-> DivCeil(Distance(s)[d], l.stride[d])]
  BY <1>1 DEF Extents, Part
<1>4. \A d \in Dims(l.begin) : s.begin[d] \in Nat /\ s.end[d] \in Nat /\ s.begin[d] <= s.end[d]
  BY DEF Part
<1>5. Distance(s) \in [Dims(l.begin) -> Nat]
  BY <1>2, <1>4
<1>6. ASSUME NEW d \in Dims(l.begin)
      PROVE  /\ Extents(s)[d] \in Nat
             /\ \A k \in Nat : k < Extents(s)[d] => l.stride[d] * k < Distance(s)[d]
  <2>1. PICK a \in Nat, m \in Nat \ {0} : a = Distance(s)[d] /\ m = l.stride[d]
    BY <1>5, Fields
  <2>2. Extents(s)[d] = Wrap(a + m - 1) \div m
    BY <1>3, <2>1 DEF DivCeil
  <2>3. PICK w \in Nat : w = Wrap(a + m - 1) /\ w <= a + m - 1
    <3>1. PICK b \in Nat : b = a + m - 1
      OBVIOUS
    <3>2. Modulus \in Nat \ {0}
      BY IdxMapAssumption
    <3>3. /\ b % Modulus \in Nat /\ b \div Modulus \in Nat
          /\ b = Modulus * (b \div Modulus) + (b % Modulus)
      BY <3>2, Division
    <3>4. PICK p \in Nat : p = Modulus * (b \div Modulus)
      BY <3>2, <3>3, TimesNat
    <3> QED
      BY <3>1, <3>3, <3>4 DEF Wrap
  <2>4. PICK q \in Nat, r \in Nat : q = w \div m /\ w = m * q + r
    BY Division
  <2>5. ASSUME NEW k \in Nat, k < q PROVE m * k < a
    <3>1. m * (k + 1) <= m * q
      <4>1. (k + 1) * m <= q * m
        BY <2>5, TimesBoth
      <4> QED
        BY <4>1
    <3>2. m * (k + 1) = m * k + m
      OBVIOUS
    <3>3. PICK x \in Nat, y \in Nat : x = m * k /\ y = m * q
      BY TimesNat
    <3>4. x + m <= y /\ y <= w
      BY <2>4, <3>1, <3>2, <3>3
    <3> QED
      BY <2>3, <3>3, <3>4
  <2> QED
    BY <2>1, <2>2, <2>3, <2>4, <2>5
<1>7. Extents(s) \in [Dims(l.begin) -> Nat]
  BY <1>3, <1>6
<1> QED
  BY <1>2, <1>4, <1>5, <1>6, <1>7

\* Components of a vector.
LEMMA PickVector ==
    ASSUME NEW l, WellFormed(l), NEW S, NEW v \in [Dims(l.begin) -> S]
    PROVE  /\ Pick(v, l.select) \in [1..Len(l.select) -> S]
           /\ Pick(v, l.select) \in Seq(S) /\ Len(Pick(v, l.select)) = Len(l.select)
           /\ \A k \in 1..Len(l.select) : Pick(v, l.select)[k] = v[l.select[k]]
<1>1. PICK n \in Nat : /\ n = Len(l.select) /\ Dims(l.select) = 1..n
                       /\ l.select \in [1..n -> Dims(l.begin)]
  BY Fields
<1>2. Pick(v, l.select) = [k \in 1..n |-> v[l.select[k]]]
  BY <1>1 DEF Pick
<1>3. Pick(v, l.select) \in [1..n -> S]
  BY <1>1, <1>2
<1> QED
  BY <1>1, <1>2, <1>3, Vector

\* The loops over a part of a range that is traversed flat.
FlatLoops(s) ==
    [iter : [offset : {s.begin}, extent : {Pick(Extents(s), s.select)}, current : Nat, step : Nat],
     end : 0..Product(Pick(Extents(s), s.select))]

\* begin() and end() of a FlatIdxContainer.
LEMMA FlatLoop ==
    ASSUME NEW l, WellFormed(l), NEW s, Part(l, s), NEW t \in [Dims(l.begin) -> Nat], Flat(s)
    PROVE  Loop(s, t) \in FlatLoops(s)
<1>1. PICK m : m = MapTo(s, t)
  OBVIOUS
<1>2. /\ m.idx \in [Dims(l.begin) -> Nat] /\ m.num \in [Dims(l.begin) -> Nat \ {0}]
      /\ \A d \in Dims(l.begin) : d \notin Selected(l) => m.idx[d] = 0
  BY <1>1, Mapped
<1>3. PICK n, D : n \in Nat /\ n = Len(l.select) /\ D = Dims(l.begin) /\ Dims(l.select) = 1..n
  BY Fields
<1>4. s.select = l.select /\ s.count = l.count /\ s.stride = l.stride
  BY DEF Part
<1>5. Dims(t) = D
  <2>1. PICK b \in Nat : b = Len(l.begin) /\ Dims(l.begin) = 1..b
    BY Fields
  <2>2. t \in [1..b -> Nat]
    BY <2>1
  <2>3. Dims(t) = 1..b
    BY <2>2, Vector
  <2> QED
    BY <1>3, <2>1, <2>3
<1>6. PICK e : e = Pick(Extents(s), l.select)
  OBVIOUS
<1>7. e \in Seq(Nat) /\ Product(e) \in Nat
  <2>1. Extents(s) \in [Dims(l.begin) -> Nat]
    BY ExtentsOfPart
  <2> QED
    BY <1>6, <2>1, PickVector, ProductNat
<1>8. PICK i, u, c : /\ i = Pick(m.idx, l.select)
                     /\ u = Pick(m.num, l.select) /\ c = Pick(l.count, l.select)
  OBVIOUS
<1>9. /\ i \in [1..n -> Nat]
      /\ u \in [1..n -> Nat \ {0}] /\ u \in Seq(Nat \ {0})
      /\ c \in [1..n -> Nat \ {0}] /\ c \in Seq(Nat \ {0})
  <2>1. l.count \in [Dims(l.begin) -> Nat \ {0}]
    BY Fields
  <2> QED
    BY <1>2, <1>3, <1>8, <2>1, PickVector
<1>10. /\ Product(u) \in Nat \ {0} /\ Product(c) \in Nat \ {0}
       /\ Linearize(u, i) \in Nat /\ Linearize(c, i) \in Nat
  <2>1. ASSUME NEW v \in Seq(Nat \ {0}) PROVE Product(v) \in Nat \ {0}
    <3>1. v \in Seq(Nat) /\ \A d \in Dims(v) : v[d] # 0
      BY DEF Dims
    <3> QED
      BY <3>1, ProductNat
  <2>2. u \in [1..n -> Nat] /\ c \in [1..n -> Nat]
    BY <1>9
  <2> QED
    BY <1>3, <1>9, <2>1, <2>2, LinearizeNat
<1>11. PICK b : b = FlatBegin(s, t)
  OBVIOUS
<1>12. PICK o : o = [d \in Dims(t) |->
                        s.begin[d] + (IF \E k \in Dims(s.select) : s.select[k] = d THEN 0
                                      ELSE m.idx[d] * s.stride[d])]
  OBVIOUS
<1>13. o = s.begin
  <2>1. s.begin \in [D -> Nat]
    BY <1>3 DEF Part
  <2>2. ASSUME NEW d \in D
        PROVE  s.begin[d] + (IF \E k \in Dims(s.select) : s.select[k] = d THEN 0
                             ELSE m.idx[d] * s.stride[d]) = s.begin[d]
    <3>1. CASE \E k \in Dims(s.select) : s.select[k] = d
      BY <2>1, <3>1
    <3>2. CASE ~\E k \in Dims(s.select) : s.select[k] = d
      <4>1. m.idx[d] = 0
        BY <1>2, <1>3, <1>4, <3>2 DEF Selected
      <4>2. PICK x \in Nat : x = l.stride[d]
        BY <1>3, Fields
      <4>3. m.idx[d] * s.stride[d] = 0
        BY <1>4, <4>1, <4>2
      <4> QED
        BY <2>1, <3>2, <4>3
    <3> QED
      BY <3>1, <3>2
  <2> QED
    BY <1>5, <1>12, <2>1, <2>2
<1>14. PICK cur, st : /\ b = [offset |-> o, extent |-> e, current |-> cur, step |-> st]
                      /\ cur = IF s.layout = "strided" THEN Linearize(u, i)
                               ELSE SlotBegin(Linearize(c, i), Product(e), Product(c))
                      /\ st = IF s.layout = "strided" THEN Product(u) ELSE 1
  BY <1>1, <1>4, <1>6, <1>8, <1>11, <1>12 DEF FlatBegin
<1>15. cur \in Nat /\ st \in Nat
  BY <1>7, <1>10, <1>14, SlotNat
<1>16. FlatEnd(s, t) = IF s.layout = "strided" THEN Product(e)
                       ELSE Less(SlotBegin(Linearize(u, i) + 1, Product(e), Product(u)), Product(e))
  BY <1>1, <1>4, <1>6, <1>8 DEF FlatEnd
<1>17. FlatEnd(s, t) \in 0..Product(e)
  <2>1. PICK x : x = SlotBegin(Linearize(u, i) + 1, Product(e), Product(u))
    OBVIOUS
  <2>2. x \in Nat
    <3>1. Linearize(u, i) + 1 \in Nat
      BY <1>10
    <3> QED
      BY <1>7, <1>10, <2>1, <3>1, SlotNat
  <2>3. Less(x, Product(e)) \in 0..Product(e) /\ Product(e) \in 0..Product(e)
    BY <1>7, <2>2 DEF Less
  <2> QED
    BY <1>16, <2>1, <2>3
<1>18. Loop(s, t) = [iter |-> b, end |-> FlatEnd(s, t)]
  BY <1>11 DEF Loop
<1> QED
  BY <1>4, <1>6, <1>13, <1>14, <1>15, <1>17, <1>18 DEF FlatLoops

\* ++ of a flat iterator.
LEMMA FlatStep ==
    ASSUME NEW s, NEW loop \in FlatLoops(s), Flat(s)
    PROVE  Increment(s, loop) \in FlatLoops(s)
<1>1. PICK i, e : loop = [iter |-> i, end |-> e] /\ i = loop.iter /\ e = loop.end
  BY DEF FlatLoops
<1>2. /\ i \in [offset : {s.begin}, extent : {Pick(Extents(s), s.select)},
              current : Nat, step : Nat]
      /\ e \in 0..Product(Pick(Extents(s), s.select))
  BY <1>1 DEF FlatLoops
<1>3. PICK c \in Nat : c = Wrap(i.current + i.step)
  <2>1. i.current + i.step \in Nat
    BY <1>2
  <2>2. Modulus \in Nat \ {0}
    BY IdxMapAssumption
  <2> QED
    BY <2>1, <2>2, Division DEF Wrap
<1>4. FlatNext(i) = [i EXCEPT !.current = c]
  BY <1>3 DEF FlatNext
<1>5. FlatNext(i) \in
         [offset : {s.begin}, extent : {Pick(Extents(s), s.select)}, current : Nat, step : Nat]
  BY <1>2, <1>4
<1>6. Increment(s, loop) = [iter |-> FlatNext(i), end |-> e]
  BY <1>1 DEF Increment
<1> QED
  BY <1>2, <1>5, <1>6 DEF FlatLoops

\* What a flat iterator that is not at the end points to.
LEMMA FlatPoint ==
    ASSUME NEW l, WellFormed(l), NEW s, Part(l, s), NEW loop \in FlatLoops(s), Flat(l),
           ~AtEnd(l, loop)
    PROVE  LET e == Pick(Extents(s), l.select)
           IN  /\ loop.iter.current \in Nat /\ loop.iter.current < Product(e)
               /\ e \in Seq(Nat \ {0}) /\ Len(e) = Len(l.select)
               /\ Among(l, s, Index(l, loop))
               /\ \A k \in 1..Len(l.select) :
                     Index(l, loop)[l.select[k]]
                         = s.begin[l.select[k]] + l.stride[l.select[k]]
                                                  * MapToND(e, loop.iter.current)[k]
<1>1. PICK n, D : n \in Nat /\ n = Len(l.select) /\ D = Dims(l.begin) /\ Dims(l.select) = 1..n
  BY Fields
<1>2. PICK i : i = loop.iter
  OBVIOUS
<1>3. s.select = l.select
  BY DEF Part
<1>30. PICK e : e = Pick(Extents(s), l.select)
  OBVIOUS
<1>4. PICK c \in Nat : c = i.current /\ i.extent = e /\ i.offset = s.begin
  <2>1. i \in [offset : {s.begin}, extent : {e}, current : Nat, step : Nat]
    BY <1>2, <1>3, <1>30 DEF FlatLoops
  <2> QED
    BY <2>1
<1>5. loop.end \in 0..Product(e)
  BY <1>3, <1>30 DEF FlatLoops
<1>6. Extents(s) \in [D -> Nat]
  BY <1>1, ExtentsOfPart
<1>7. /\ e \in Seq(Nat) /\ Len(e) = n /\ Product(e) \in Nat
      /\ \A k \in 1..n : e[k] = Extents(s)[l.select[k]]
  BY <1>1, <1>30, <1>6, PickVector, ProductNat
<1>8. c < Product(e)
  BY <1>2, <1>4, <1>5, <1>7 DEF AtEnd
<1>9. e \in Seq(Nat \ {0})
  <2>1. Product(e) # 0
    BY <1>7, <1>8
  <2>2. \A k \in Dims(e) : e[k] # 0
    BY <1>7, <2>1, ProductNat
  <2>3. e \in [1..n -> Nat] /\ \A k \in 1..n : e[k] # 0
    BY <1>7, <2>2, VectorOf DEF Dims
  <2>4. e \in [1..n -> Nat \ {0}]
    BY <2>3
  <2> QED
    BY <1>1, <2>4, Vector
<1>10. PICK md : md = MapToND(e, c)
  OBVIOUS
<1>11. md \in [1..n -> Nat] /\ \A k \in 1..n : md[k] < e[k]
  BY <1>7, <1>8, <1>9, <1>10, MapToNDInRange
<1>12. Dims(s.begin) = D
  <2>1. PICK b \in Nat : b = Len(l.begin) /\ Dims(l.begin) = 1..b
    BY Fields
  <2>2. s.begin \in [1..b -> Nat]
    BY <2>1 DEF Part
  <2>3. Dims(s.begin) = 1..b
    BY <2>1, <2>2, Vector
  <2> QED
    BY <1>1, <2>1, <2>3
<1>13. PICK x : x = [d \in D |->
                        IF \E k \in 1..n : l.select[k] = d
                        THEN LET k == CHOOSE k \in 1..n : l.select[k] = d
                             IN  s.begin[d] + md[k] * l.stride[d]
                        ELSE s.begin[d]]
  OBVIOUS
<1>14. Index(l, loop) = x
  BY <1>1, <1>2, <1>4, <1>10, <1>12, <1>13 DEF Index, FlatIndex
<1>15. ASSUME NEW d \in D
       PROVE  /\ x[d] \in Nat
              /\ IF d \in Selected(l) THEN Aligned(x[d], s.begin[d], l.stride[d]) /\ x[d] < s.end[d]
                 ELSE x[d] = s.begin[d]
  <2>1. s.begin[d] \in Nat /\ l.stride[d] \in Nat
    BY <1>1, Fields DEF Part
  <2>2. CASE d \in Selected(l)
    <3>1. PICK k : k = CHOOSE j \in 1..n : l.select[j] = d
      OBVIOUS
    <3>2. k \in 1..n /\ l.select[k] = d /\ \E j \in 1..n : l.select[j] = d
      BY <1>1, <2>2, <3>1 DEF Selected
    <3>3. x[d] = s.begin[d] + md[k] * l.stride[d]
      BY <1>13, <3>1, <3>2
    <3>4. PICK q \in Nat, a \in Nat, m \in Nat, p \in Nat :
             q = md[k] /\ a = s.begin[d] /\ m = l.stride[d] /\ p = m * q
      BY <1>11, <2>1, <3>2, TimesNat
    <3>5. q < Extents(s)[d]
      BY <1>7, <1>11, <3>2, <3>4
    <3>6. p < Distance(s)[d] /\ a + Distance(s)[d] = s.end[d] /\ Distance(s)[d] \in Nat
      BY <1>1, <3>4, <3>5, ExtentsOfPart
    <3>7. x[d] = a + p
      BY <3>3, <3>4
    <3>8. Aligned(x[d], a, m)
      BY <3>4, <3>7 DEF Aligned
    <3> QED
      BY <2>2, <3>4, <3>6, <3>7, <3>8
  <2>3. CASE d \notin Selected(l)
    <3>1. ~\E k \in 1..n : l.select[k] = d
      BY <1>1, <2>3 DEF Selected
    <3> QED
      BY <1>13, <2>1, <2>3, <3>1
  <2> QED
    BY <2>2, <2>3
<1>16. x \in [D -> Nat]
  BY <1>13, <1>15
<1>17. Among(l, s, x)
  BY <1>1, <1>15, <1>16 DEF Among
<1>18. ASSUME NEW k \in 1..n
       PROVE  x[l.select[k]] = s.begin[l.select[k]] + l.stride[l.select[k]] * md[k]
  <2>1. PICK d \in D : d = l.select[k]
    BY <1>1, Fields
  <2>2. (CHOOSE j \in 1..n : l.select[j] = d) = k
    <3>1. \A j \in 1..n : l.select[j] = d => j = k
      BY <1>1, <2>1 DEF WellFormed
    <3> QED
      BY <2>1, <3>1
  <2>3. x[d] = s.begin[d] + md[k] * l.stride[d]
    BY <1>13, <2>1, <2>2
  <2>4. md[k] \in Nat /\ l.stride[d] \in Nat
    BY <1>1, <1>11, <2>1, Fields
  <2>5. md[k] * l.stride[d] = l.stride[d] * md[k]
    BY <2>4
  <2> QED
    BY <2>1, <2>3, <2>5
<1> QED
  BY <1>1, <1>2, <1>30, <1>4, <1>7, <1>8, <1>9, <1>10, <1>14, <1>17, <1>18

\* The loops over a part of a range that is traversed tiled.
TiledIters(l) ==
    [first : [1..Len(l.select) -> Nat], extent : [1..Len(l.select) -> Nat],
     step : [1..Len(l.select) -> Nat], current : [Dims(l.begin) -> Nat]]

\* every step stays on the indices and below what the index type holds
OnIndices(l, s, i) ==
    \A k \in 1..Len(l.select) :
        /\ Aligned(i.first[k], s.begin[l.select[k]], l.stride[l.select[k]])
        /\ i.extent[k] <= s.end[l.select[k]]
        /\ \E p \in 0..Product(l.count) : i.step[k] = l.stride[l.select[k]] * p

\* the current index is one, unless the slowest dimension is past its end
Valid(l, s, i) ==
    /\ \A k \in 2..Len(l.select) :
          i.first[k] < i.extent[k] /\ i.current[l.select[k]] < i.extent[k]
    /\ \A d \in Dims(l.begin) :
          IF d \in Selected(l) THEN Aligned(i.current[d], s.begin[d], l.stride[d])
          ELSE i.current[d] = s.begin[d]

TiledLoops(l, s) ==
    {loop \in [iter : TiledIters(l), end : Nat] :
        /\ loop.end = loop.iter.extent[1]
        /\ OnIndices(l, s, loop.iter)
        /\ AtEnd(l, loop) \/ Valid(l, s, loop.iter)}

\* begin() and end() of a TiledIdxContainer: the begin is an index, or the loop is at its end.
LEMMA TiledLoop ==
    ASSUME NEW l, WellFormed(l), NEW s, Part(l, s), NEW t \in [Dims(l.begin) -> Nat], ~Flat(l)
    PROVE  Loop(s, t) \in TiledLoops(l, s)
<1>1. PICK m : m = MapTo(s, t)
  OBVIOUS
<1>2. PICK n, D, sel :
         /\ n \in Nat \ {0} /\ n = Len(l.select) /\ Dims(l.select) = 1..n
         /\ D = Dims(l.begin) /\ sel = l.select /\ sel \in [1..n -> D]
  BY Fields
<1>3. /\ m.idx \in [D -> Nat] /\ m.num \in [D -> Nat \ {0}]
      /\ \A d \in D : d \notin Selected(l) => m.idx[d] = 0
      /\ \A d \in D : m.num[d] <= Product(l.count)
  BY <1>1, <1>2, Mapped
<1>4. s.select = sel /\ s.count = l.count /\ s.stride = l.stride /\ ~Flat(s)
  BY <1>2 DEF Part, Flat
<1>5. Dims(t) = D /\ Dims(m.idx) = D
  <2>1. PICK b \in Nat : b = Len(l.begin) /\ Dims(l.begin) = 1..b
    BY Fields
  <2>2. t \in [1..b -> Nat] /\ m.idx \in [1..b -> Nat]
    BY <1>2, <1>3, <2>1
  <2>3. Dims(t) = 1..b /\ Dims(m.idx) = 1..b
    BY <2>2, Vector
  <2> QED
    BY <1>2, <2>1, <2>3
<1>6. PICK f, z : f = TiledFirst(s, m) /\ z = TiledLast(s, m)
  OBVIOUS
<1>7. PICK first, last : /\ first = [d \in D |-> s.begin[d] + f[d]]
                         /\ last = [d \in D |-> s.begin[d] + z[d]]
  OBVIOUS
<1>8. ASSUME NEW d \in D
      PROVE  /\ \E q \in Nat : f[d] = l.stride[d] * q /\ (d \notin Selected(l) => q = 0)
             /\ z[d] \in Nat /\ z[d] <= Distance(s)[d]
  <2>1. PICK st \in Nat \ {0}, i \in Nat, x \in Nat, u \in Nat \ {0}, y \in Nat :
           /\ st = l.stride[d] /\ i = m.idx[d] /\ x = Extents(s)[d] /\ u = m.num[d]
           /\ y = Distance(s)[d]
    <3>1. l.stride[d] \in Nat \ {0}
      BY <1>2, Fields
    <3>2. Extents(s)[d] \in Nat /\ Distance(s)[d] \in Nat
      BY <1>2, ExtentsOfPart
    <3>3. m.idx[d] \in Nat /\ m.num[d] \in Nat \ {0}
      BY <1>3
    <3> QED
      BY <3>1, <3>2, <3>3
  <2>2. PICK g, h : g = SlotBegin(i, x, u) /\ h = SlotBegin(i + 1, x, u)
    OBVIOUS
  <2>3. g \in Nat /\ h \in Nat /\ (i = 0 => g = 0)
    <3>1. i + 1 \in Nat
      OBVIOUS
    <3> QED
      BY <2>2, <3>1, SlotNat
  <2>4. f[d] = st * (IF s.layout = "strided" THEN i ELSE g)
    BY <1>4, <1>5, <1>6, <2>1, <2>2 DEF TiledFirst
  <2>5. z[d] = IF s.layout = "strided" THEN y ELSE Less(y, st * h)
    BY <1>4, <1>5, <1>6, <2>1, <2>2 DEF TiledLast
  <2>6. PICK q \in Nat : q = IF s.layout = "strided" THEN i ELSE g
    BY <2>3
  <2>7. d \notin Selected(l) => q = 0
    BY <1>3, <2>1, <2>3, <2>6
  <2>8. PICK w \in Nat : w = st * h
    BY <2>3, TimesNat
  <2>9. z[d] \in Nat /\ z[d] <= y
    BY <2>5, <2>8 DEF Less
  <2> QED
    BY <2>1, <2>4, <2>6, <2>7, <2>9
<1>9. ASSUME NEW d \in D
      PROVE  /\ first[d] \in Nat /\ last[d] \in Nat
             /\ Aligned(first[d], s.begin[d], l.stride[d])
             /\ d \notin Selected(l) => first[d] = s.begin[d]
             /\ last[d] <= s.end[d]
  <2>1. PICK b \in Nat, e \in Nat, st \in Nat \ {0}, y \in Nat :
           b = s.begin[d] /\ e = s.end[d] /\ st = l.stride[d] /\ y = Distance(s)[d] /\ b + y = e
    <3>1. l.stride[d] \in Nat \ {0}
      BY <1>2, Fields
    <3>2. Distance(s)[d] \in Nat /\ s.begin[d] + Distance(s)[d] = s.end[d]
      BY <1>2, ExtentsOfPart
    <3>3. s.begin[d] \in Nat /\ s.end[d] \in Nat
      BY <1>2 DEF Part
    <3> QED
      BY <3>1, <3>2, <3>3
  <2>2. PICK q \in Nat : f[d] = st * q /\ (d \notin Selected(l) => q = 0)
    BY <1>8, <2>1
  <2>3. PICK p \in Nat : p = st * q /\ (q = 0 => p = 0)
    <3>1. st * q \in Nat /\ (q = 0 => st * q = 0)
      BY TimesNat
    <3> QED
      BY <3>1
  <2>4. PICK w \in Nat : w = z[d] /\ w <= y
    BY <1>8, <2>1
  <2>5. first[d] = b + p /\ last[d] = b + w
    BY <1>7, <2>1, <2>2, <2>3, <2>4
  <2>6. Aligned(first[d], b, st)
    BY <2>3, <2>5 DEF Aligned
  <2>7. b + p \in Nat /\ b + w \in Nat /\ b + w <= e /\ (p = 0 => b + p = b)
    BY <2>1, <2>4
  <2>8. d \notin Selected(l) => p = 0
    BY <2>2, <2>3
  <2> QED
    BY <2>1, <2>5, <2>6, <2>7, <2>8
<1>10. first \in [D -> Nat] /\ last \in [D -> Nat]
  BY <1>7, <1>9
<1>11. PICK pf, pl : pf = Pick(first, sel) /\ pl = Pick(last, sel)
  OBVIOUS
<1>12. /\ pf \in [1..n -> Nat] /\ pl \in [1..n -> Nat]
       /\ \A k \in 1..n : pf[k] = first[sel[k]] /\ pl[k] = last[sel[k]]
  <2>1. ASSUME NEW v \in [D -> Nat]
        PROVE  Pick(v, sel) \in [1..n -> Nat] /\ \A k \in 1..n : Pick(v, sel)[k] = v[sel[k]]
    <3>1. Pick(v, sel) = [k \in 1..n |-> v[sel[k]]]
      BY <1>2 DEF Pick
    <3> QED
      BY <1>2, <3>1
  <2> QED
    BY <1>10, <1>11, <2>1
<1>13. PICK st : st = [k \in 1..n |->
                          l.stride[sel[k]] * (IF s.layout = "strided" THEN m.num[sel[k]] ELSE 1)]
  OBVIOUS
<1>14. PICK c \in Nat : c = Product(l.count) /\ 1 <= c
  <2>1. l.count \in Seq(Nat \ {0})
    BY Fields
  <2>2. l.count \in Seq(Nat) /\ \A d \in Dims(l.count) : l.count[d] # 0
    BY <2>1 DEF Dims
  <2>3. Product(l.count) \in Nat /\ Product(l.count) # 0
    BY <2>2, ProductNat
  <2> QED
    BY <2>3
<1>15. ASSUME NEW k \in 1..n
       PROVE  st[k] \in Nat /\ \E p \in 0..c : st[k] = l.stride[sel[k]] * p
  <2>1. sel[k] \in D
    BY <1>2
  <2>2. PICK a \in Nat, u \in Nat : a = l.stride[sel[k]] /\ u = m.num[sel[k]] /\ u <= c
    <3>1. PICK d \in D : d = sel[k]
      BY <2>1
    <3>2. l.stride[d] \in Nat
      BY <1>2, Fields
    <3>3. m.num[d] \in Nat /\ m.num[d] <= c
      BY <1>3, <1>14
    <3> QED
      BY <3>1, <3>2, <3>3
  <2>3. PICK p \in 0..c : p = IF s.layout = "strided" THEN u ELSE 1
    BY <1>14, <2>2
  <2>4. st[k] = a * p
    BY <1>13, <2>2, <2>3
  <2>5. a * p \in Nat
    BY TimesNat
  <2> QED
    BY <2>2, <2>4, <2>5
<1>16. st \in [1..n -> Nat]
  BY <1>13, <1>15
<1>17. PICK cur : cur = IF \A k \in 2..n : first[sel[k]] < last[sel[k]] THEN first
                        ELSE [first EXCEPT ![sel[1]] = last[sel[1]]]
  OBVIOUS
<1>18. sel[1] \in D
  BY <1>2
<1>19. cur \in [D -> Nat]
  BY <1>10, <1>17, <1>18
<1>20. PICK i : i = [first |-> pf, extent |-> pl, step |-> st, current |-> cur]
  OBVIOUS
<1>21. TiledBegin(s, t) = i
  <2>1. /\ [d \in Dims(t) |-> s.begin[d] + TiledFirst(s, m)[d]] = first
        /\ [d \in Dims(t) |-> s.begin[d] + TiledLast(s, m)[d]] = last
    BY <1>5, <1>6, <1>7
  <2>2. [k \in Dims(s.select) |->
            s.stride[s.select[k]]
            * (IF s.layout = "strided" THEN m.num[s.select[k]] ELSE 1)] = st
    BY <1>2, <1>4, <1>13
  <2>3. 2..Len(s.select) = 2..n /\ s.select = sel
    BY <1>2, <1>4
  <2> QED
    BY <1>1, <1>11, <1>17, <1>20, <2>1, <2>2, <2>3 DEF TiledBegin
<1>22. TiledEnd(s, t) = pl[1]
  <2>1. 1 \in 1..n
    BY <1>2
  <2> QED
    BY <1>1, <1>4, <1>6, <1>7, <1>12, <1>18, <2>1 DEF TiledEnd
<1>23. PICK loop : loop = [iter |-> i, end |-> pl[1]]
  OBVIOUS
<1>24. Loop(s, t) = loop
  BY <1>4, <1>21, <1>22, <1>23 DEF Loop
<1>25. loop \in [iter : TiledIters(l), end : Nat]
  <2>1. pl[1] \in Nat
    BY <1>2, <1>12
  <2> QED
    BY <1>2, <1>12, <1>16, <1>19, <1>20, <1>23, <2>1 DEF TiledIters
<1>26. OnIndices(l, s, i)
  <2>1. ASSUME NEW k \in 1..n
        PROVE  /\ Aligned(i.first[k], s.begin[sel[k]], l.stride[sel[k]])
               /\ i.extent[k] <= s.end[sel[k]]
               /\ \E p \in 0..c : i.step[k] = l.stride[sel[k]] * p
    <3>1. sel[k] \in D
      BY <1>2
    <3> QED
      BY <1>9, <1>12, <1>15, <1>20, <3>1
  <2> QED
    BY <1>2, <1>14, <2>1 DEF OnIndices
<1>27. AtEnd(l, loop) \/ Valid(l, s, i)
  <2>1. CASE \A k \in 2..n : first[sel[k]] < last[sel[k]]
    <3>1. cur = first
      BY <1>17, <2>1
    <3>2. \A k \in 2..n : pf[k] < pl[k] /\ cur[sel[k]] < pl[k]
      <4>1. \A k \in 2..n : k \in 1..n
        BY <1>2
      <4> QED
        BY <1>12, <2>1, <3>1, <4>1
    <3>3. \A d \in D : IF d \in Selected(l) THEN Aligned(cur[d], s.begin[d], l.stride[d])
                       ELSE cur[d] = s.begin[d]
      BY <1>9, <3>1
    <3> QED
      BY <1>2, <1>20, <3>2, <3>3 DEF Valid
  <2>2. CASE ~\A k \in 2..n : first[sel[k]] < last[sel[k]]
    <3>1. cur[sel[1]] = last[sel[1]] /\ last[sel[1]] = pl[1] /\ pl[1] \in Nat
      BY <1>2, <1>10, <1>12, <1>17, <1>18, <2>2
    <3>2. loop.iter.current[l.select[1]] = pl[1] /\ loop.end = pl[1]
      BY <1>2, <1>20, <1>23, <3>1
    <3> QED
      BY <3>1, <3>2 DEF AtEnd
  <2> QED
    BY <2>1, <2>2
<1> QED
  BY <1>20, <1>23, <1>24, <1>25, <1>26, <1>27 DEF TiledLoops

\* What a tiled iterator that is not at the end points to.
LEMMA TiledPoint ==
    ASSUME NEW l, WellFormed(l), NEW s, Part(l, s), NEW loop \in TiledLoops(l, s),
           ~Flat(l), ~AtEnd(l, loop)
    PROVE  /\ Index(l, loop) = loop.iter.current /\ Among(l, s, loop.iter.current)
           /\ \A m \in 1..Len(l.select) : loop.iter.current[l.select[m]] < loop.iter.extent[m]
<1>1. PICK n, D, sel :
         /\ n \in Nat \ {0} /\ n = Len(l.select) /\ Dims(l.select) = 1..n
         /\ D = Dims(l.begin) /\ sel = l.select /\ sel \in [1..n -> D]
  BY Fields
<1>2. PICK i : i = loop.iter /\ i \in TiledIters(l) /\ loop.end = i.extent[1]
  BY DEF TiledLoops
<1>3. OnIndices(l, s, i) /\ Valid(l, s, i)
  BY <1>2 DEF TiledLoops
<1>4. i.extent \in [1..n -> Nat] /\ i.current \in [D -> Nat]
  BY <1>1, <1>2 DEF TiledIters
<1>5. ASSUME NEW m \in 1..n PROVE i.current[sel[m]] < i.extent[m]
  <2>1. CASE m = 1
    <3>1. PICK x \in Nat, y \in Nat : x = i.current[sel[1]] /\ y = i.extent[1]
      <4>1. 1 \in 1..n
        BY <1>1
      <4>2. sel[1] \in D
        BY <1>1, <4>1
      <4> QED
        BY <1>4, <4>1, <4>2
    <3>2. ~(x >= y)
      BY <1>1, <1>2, <3>1 DEF AtEnd
    <3> QED
      BY <2>1, <3>1, <3>2
  <2>2. CASE m # 1
    <3>1. m \in 2..Len(l.select)
      BY <1>1, <2>2
    <3> QED
      BY <1>1, <1>3, <3>1 DEF Valid
  <2> QED
    BY <2>1, <2>2
<1>6. ASSUME NEW d \in D, d \in Selected(l)
      PROVE  Aligned(i.current[d], s.begin[d], l.stride[d]) /\ i.current[d] < s.end[d]
  <2>1. PICK m \in 1..n : sel[m] = d
    BY <1>1, <1>6 DEF Selected
  <2>2. PICK x \in Nat, y \in Nat, z \in Nat : x = i.current[d] /\ y = i.extent[m] /\ z = s.end[d]
    BY <1>1, <1>4, <1>6 DEF Part
  <2>3. y <= z
    BY <1>1, <1>3, <2>1, <2>2 DEF OnIndices
  <2>4. x < y
    BY <1>5, <2>1, <2>2
  <2>5. Aligned(i.current[d], s.begin[d], l.stride[d])
    BY <1>1, <1>3, <1>6 DEF Valid
  <2> QED
    BY <2>2, <2>3, <2>4, <2>5
<1>7. ASSUME NEW d \in D, d \notin Selected(l) PROVE i.current[d] = s.begin[d]
  BY <1>1, <1>3, <1>7 DEF Valid
<1>8. Among(l, s, i.current)
  BY <1>1, <1>4, <1>6, <1>7 DEF Among
<1>9. Index(l, loop) = i.current
  BY <1>2 DEF Index
<1> QED
  BY <1>1, <1>2, <1>5, <1>8, <1>9

\* Iterator j is one step after i: it moves on in the c-th selected dimension and starts again in
\* the faster ones.
Advanced(l, i, j) ==
    /\ j.first = i.first /\ j.extent = i.extent /\ j.step = i.step
    /\ \A d \in Dims(l.begin) : d \notin Selected(l) => j.current[d] = i.current[d]
    /\ \E c \in 1..Len(l.select) :
          /\ c = 1 \/ i.current[l.select[c]] + i.step[c] < i.extent[c]
          /\ \A k \in 1..Len(l.select) :
                k > c => i.extent[k] <= i.current[l.select[k]] + i.step[k]
          /\ \A k \in 1..Len(l.select) :
                j.current[l.select[k]] = IF k = c THEN i.current[l.select[k]] + i.step[k]
                                         ELSE IF k > c THEN i.first[k] ELSE i.current[l.select[k]]

\* ++ of a tiled iterator that is not at the end does not wrap around.
LEMMA TiledAdvance ==
    ASSUME NEW l, WellFormed(l), NEW s, Part(l, s), NEW loop \in TiledLoops(l, s),
           ~Flat(l), ~AtEnd(l, loop)
    PROVE  /\ Increment(l, loop) \in [iter : TiledIters(l), end : Nat]
           /\ Increment(l, loop).end = loop.end
           /\ Advanced(l, loop.iter, Increment(l, loop).iter)
<1>1. PICK n, D, sel :
         /\ n \in Nat \ {0} /\ n = Len(l.select) /\ Dims(l.select) = 1..n
         /\ D = Dims(l.begin) /\ sel = l.select /\ sel \in [1..n -> D]
  BY Fields
<1>2. PICK i : i = loop.iter /\ i \in TiledIters(l) /\ loop.end \in Nat /\ loop.end = i.extent[1]
  BY DEF TiledLoops
<1>3. OnIndices(l, s, i) /\ Valid(l, s, i)
  BY <1>2 DEF TiledLoops
<1>4. /\ i.first \in [1..n -> Nat] /\ i.extent \in [1..n -> Nat] /\ i.step \in [1..n -> Nat]
      /\ i.current \in [D -> Nat]
  BY <1>1, <1>2 DEF TiledIters
<1>5. Dims(i.current) = D
  <2>1. PICK b \in Nat : b = Len(l.begin) /\ Dims(l.begin) = 1..b
    BY Fields
  <2>2. i.current \in [1..b -> Nat]
    BY <1>1, <1>4, <2>1
  <2>3. Dims(i.current) = 1..b
    BY <2>2, Vector
  <2> QED
    BY <1>1, <2>1, <2>3
<1>6. ASSUME NEW k \in 1..n PROVE i.current[sel[k]] < i.extent[k]
  <2>1. CASE k = 1
    <3>1. sel[1] \in D
      BY <1>1
    <3>2. i.current[sel[1]] \in Nat /\ ~(i.current[sel[1]] >= loop.end)
      BY <1>1, <1>2, <1>4, <3>1 DEF AtEnd
    <3> QED
      BY <1>2, <2>1, <3>2
  <2>2. CASE k # 1
    <3>1. k \in 2..Len(l.select)
      BY <1>1, <2>2
    <3> QED
      BY <1>1, <1>3, <3>1 DEF Valid
  <2> QED
    BY <2>1, <2>2
<1> DEFINE Moved(k) == Wrap(i.current[l.select[k]] + i.step[k])
<1>7. ASSUME NEW k \in 1..n PROVE Moved(k) = i.current[sel[k]] + i.step[k]
  <2>1. PICK d \in D : d = sel[k] /\ d \in Selected(l)
    BY <1>1 DEF Selected
  <2>2. PICK c \in Nat, e \in Nat, b \in Nat, f \in Nat, m \in Nat \ {0}, g \in Nat :
           /\ c = i.current[d] /\ e = s.end[d] /\ b = s.begin[d] /\ f = l.end[d] /\ m = l.stride[d]
           /\ g = i.extent[k]
    <3>1. l.stride[d] \in Nat \ {0} /\ l.end[d] \in Nat
      BY <1>1, Fields
    <3>2. s.end[d] \in Nat /\ s.begin[d] \in Nat
      BY <1>1 DEF Part
    <3> QED
      BY <1>4, <3>1, <3>2
  <2>4. c < g /\ g <= e /\ e <= f
    <3>1. c < g
      BY <1>6, <2>1, <2>2
    <3>2. g <= e
      BY <1>1, <1>3, <2>1, <2>2 DEF OnIndices
    <3>3. e <= f
      BY <1>1, <2>2 DEF Part
    <3> QED
      BY <3>1, <3>2, <3>3
  <2>5. PICK u \in Nat : u = Product(l.count)
    <3>1. l.count \in Seq(Nat \ {0})
      BY Fields
    <3>2. l.count \in Seq(Nat)
      BY <3>1
    <3> QED
      BY <3>2, ProductNat
  <2>6. PICK p \in 0..u : i.step[k] = m * p
    BY <1>1, <1>3, <2>1, <2>2, <2>5 DEF OnIndices
  <2>7. f + u * m <= Modulus
    BY <1>1, <2>2, <2>5 DEF WellFormed, Flat
  <2>8. PICK x \in Nat, y \in Nat : x = m * p /\ y = u * m
    <3>1. p \in Nat
      BY <2>5
    <3> QED
      BY <3>1, <2>5, TimesNat
  <2>9. x <= y
    <3>1. p * m <= u * m /\ p * m = m * p
      BY <2>5, TimesBoth
    <3> QED
      BY <2>8, <3>1
  <2>10. Modulus \in Nat \ {0}
    BY IdxMapAssumption
  <2>11. PICK w \in Nat : w = c + x /\ w < Modulus
    BY <2>4, <2>7, <2>8, <2>9, <2>10
  <2>12. Wrap(w) = w
    BY <2>10, <2>11 DEF Wrap
  <2>13. Moved(k) = w
    BY <1>1, <2>1, <2>2, <2>6, <2>8, <2>11, <2>12
  <2> QED
    BY <2>1, <2>2, <2>6, <2>8, <2>11, <2>13
<1> DEFINE stop == {k \in Dims(l.select) : k = 1 \/ Moved(k) < i.extent[k]}
<1>8. PICK c \in 1..n : /\ c = Max(stop) /\ (c = 1 \/ Moved(c) < i.extent[c])
                        /\ \A k \in 1..n : k > c => ~(Moved(k) < i.extent[k])
  <2>1. 1 \in stop
    BY <1>1
  <2>2. stop \in SUBSET (1..n) /\ stop # {}
    BY <1>1, <2>1
  <2> HIDE DEF stop
  <2>3. PICK c : c = Max(stop)
    OBVIOUS
  <2>4. c \in stop /\ \A k \in stop : k <= c
    BY <1>1, <2>2, <2>3, Largest
  <2>5. c \in 1..n
    BY <2>2, <2>4
  <2>6. ASSUME NEW k \in 1..n, k > c PROVE ~(Moved(k) < i.extent[k])
    <3>1. k \notin stop
      <4>1. ~(k <= c)
        BY <1>1, <2>5, <2>6
      <4> QED
        BY <2>4, <4>1
    <3> QED
      BY <1>1, <3>1 DEF stop
  <2> QED
    BY <1>1, <2>3, <2>4, <2>5, <2>6 DEF stop
<1>9. PICK cur : cur = [d \in D |->
                IF d = sel[c] THEN Moved(c)
                ELSE IF \E k \in c + 1..n : sel[k] = d
                THEN i.first[CHOOSE k \in 1..n : sel[k] = d]
                ELSE i.current[d]]
  OBVIOUS
<1>10. TiledNext(l, i) = [i EXCEPT !.current = cur]
  <2> DEFINE m == Max(stop)
  <2>2. TiledNext(l, i) =
           [i EXCEPT !.current =
               [d \in Dims(@) |->
                   IF d = l.select[m] THEN Moved(m)
                   ELSE IF \E k \in m + 1..Len(l.select) : l.select[k] = d
                   THEN i.first[CHOOSE k \in Dims(l.select) : l.select[k] = d]
                   ELSE @[d]]]
    BY DEF TiledNext
  <2> HIDE DEF m, stop, Moved
  <2>3. m = c
    BY <1>8 DEF m
  <2> QED
    BY <1>1, <1>5, <1>9, <2>2, <2>3
<1> HIDE DEF Moved, stop
<1>11. ASSUME NEW d \in D, NEW k \in 1..n, sel[k] = d
       PROVE  (CHOOSE j \in 1..n : sel[j] = d) = k
  <2>1. \A j \in 1..n : sel[j] = d => j = k
    BY <1>1, <1>11 DEF WellFormed
  <2> QED
    BY <1>11, <2>1
<1>12. ASSUME NEW k \in 1..n
       PROVE  cur[sel[k]] = IF k = c THEN Moved(c)
                            ELSE IF k > c THEN i.first[k] ELSE i.current[sel[k]]
  <2>1. sel[k] \in D /\ sel[c] \in D
    BY <1>1
  <2>2. \A j \in 1..n : sel[j] = sel[k] => j = k
    BY <1>1 DEF WellFormed
  <2>3. (CHOOSE j \in 1..n : sel[j] = sel[k]) = k
    BY <1>11, <2>1
  <2>4. sel[k] = sel[c] <=> k = c
    BY <2>2
  <2>5. (\E j \in c + 1..n : sel[j] = sel[k]) <=> k > c
    <3>1. ASSUME NEW j \in c + 1..n, sel[j] = sel[k] PROVE k > c
      <4>1. j \in 1..n /\ j > c
        BY <1>1
      <4> QED
        BY <2>2, <3>1, <4>1
    <3>2. k > c => k \in c + 1..n
      BY <1>1
    <3> QED
      BY <3>1, <3>2
  <2> QED
    BY <1>9, <2>1, <2>3, <2>4, <2>5
<1>13. ASSUME NEW d \in D, d \notin Selected(l) PROVE cur[d] = i.current[d]
  <2>1. \A k \in 1..n : sel[k] # d
    BY <1>1, <1>13 DEF Selected
  <2>2. \A k \in c + 1..n : k \in 1..n
    BY <1>1
  <2> QED
    BY <1>9, <2>1, <2>2
<1>14. cur \in [D -> Nat]
  <2>1. ASSUME NEW d \in D PROVE cur[d] \in Nat
    <3>1. CASE d \in Selected(l)
      <4>1. PICK k \in 1..n : sel[k] = d
        BY <1>1, <3>1 DEF Selected
      <4>2. PICK x \in Nat, y \in Nat, z \in Nat :
               x = i.current[d] /\ y = i.step[k] /\ z = i.first[k]
        BY <1>1, <1>4
      <4>3. cur[d] = IF k = c THEN x + y ELSE IF k > c THEN z ELSE x
        BY <1>7, <1>12, <4>1, <4>2
      <4> QED
        BY <4>3
    <3>2. CASE d \notin Selected(l)
      BY <1>4, <1>13, <3>2
    <3> QED
      BY <3>1, <3>2
  <2> QED
    BY <1>9, <2>1
<1>15. PICK next : next = [i EXCEPT !.current = cur]
  OBVIOUS
<1>16. /\ next \in TiledIters(l) /\ next.current = cur
       /\ next.first = i.first /\ next.extent = i.extent /\ next.step = i.step
  BY <1>1, <1>2, <1>14, <1>15 DEF TiledIters
<1>17. Increment(l, loop) = [iter |-> next, end |-> loop.end]
  BY <1>2, <1>10, <1>15 DEF Increment, TiledLoops
<1>18. \A k \in 1..n :
          next.current[sel[k]] = IF k = c THEN i.current[sel[k]] + i.step[k]
                                 ELSE IF k > c THEN i.first[k] ELSE i.current[sel[k]]
  BY <1>7, <1>12, <1>16
<1>19. c = 1 \/ i.current[sel[c]] + i.step[c] < i.extent[c]
  BY <1>7, <1>8
<1>20. ASSUME NEW k \in 1..n, k > c PROVE i.extent[k] <= i.current[sel[k]] + i.step[k]
  <2>1. PICK x \in Nat, y \in Nat, z \in Nat :
           x = i.current[sel[k]] /\ y = i.step[k] /\ z = i.extent[k]
    BY <1>1, <1>4
  <2>2. ~(x + y < z)
    BY <1>7, <1>8, <1>20, <2>1
  <2> QED
    BY <2>1, <2>2
<1>21. Advanced(l, i, next)
  BY <1>1, <1>13, <1>16, <1>18, <1>19, <1>20 DEF Advanced
<1> QED
  BY <1>2, <1>16, <1>17, <1>21

\* ++ of a tiled iterator that is not at the end keeps it on the indices of the part.
LEMMA TiledStep ==
    ASSUME NEW l, WellFormed(l), NEW s, Part(l, s), NEW loop \in TiledLoops(l, s),
           ~Flat(l), ~AtEnd(l, loop)
    PROVE  Increment(l, loop) \in TiledLoops(l, s)
<1>1. PICK n, D, sel :
         /\ n \in Nat \ {0} /\ n = Len(l.select) /\ Dims(l.select) = 1..n
         /\ D = Dims(l.begin) /\ sel = l.select /\ sel \in [1..n -> D]
  BY Fields
<1>2. PICK i : i = loop.iter /\ i \in TiledIters(l) /\ loop.end = i.extent[1]
  BY DEF TiledLoops
<1>3. OnIndices(l, s, i) /\ Valid(l, s, i)
  BY <1>2 DEF TiledLoops
<1>4. PICK next, j : /\ next = Increment(l, loop) /\ j = next.iter /\ next.end = loop.end
                     /\ next \in [iter : TiledIters(l), end : Nat] /\ Advanced(l, i, j)
  BY <1>2, TiledAdvance
<1>5. /\ j.first = i.first /\ j.extent = i.extent /\ j.step = i.step
      /\ \A d \in D : d \notin Selected(l) => j.current[d] = i.current[d]
  BY <1>1, <1>4 DEF Advanced
<1>6. PICK c \in 1..n :
         /\ c = 1 \/ i.current[sel[c]] + i.step[c] < i.extent[c]
         /\ \A k \in 1..n :
               j.current[sel[k]] = IF k = c THEN i.current[sel[k]] + i.step[k]
                                   ELSE IF k > c THEN i.first[k] ELSE i.current[sel[k]]
  BY <1>1, <1>4 DEF Advanced
<1>7. ASSUME NEW k \in 1..n
      PROVE  /\ Aligned(i.current[sel[k]], s.begin[sel[k]], l.stride[sel[k]])
             /\ Aligned(i.current[sel[k]] + i.step[k], s.begin[sel[k]], l.stride[sel[k]])
  <2>1. PICK d \in D : d = sel[k] /\ d \in Selected(l)
    BY <1>1 DEF Selected
  <2>2. PICK b \in Nat, m \in Nat : b = s.begin[d] /\ m = l.stride[d]
    BY <1>1, Fields DEF Part
  <2>3. PICK q \in Nat : i.current[d] = b + m * q
    <3>1. Aligned(i.current[d], b, m)
      BY <1>1, <1>3, <2>1, <2>2 DEF Valid
    <3> QED
      BY <3>1 DEF Aligned
  <2>4. PICK p \in Nat : i.step[k] = m * p
    <3>1. PICK p \in 0..Product(l.count) : i.step[k] = m * p
      BY <1>1, <1>3, <2>1, <2>2 DEF OnIndices
    <3>2. p \in Nat
      BY <3>1
    <3> QED
      BY <3>1, <3>2
  <2>5. PICK x \in Nat, y \in Nat : x = m * q /\ y = m * p /\ m * (q + p) = x + y
    <3>1. m * q \in Nat /\ m * p \in Nat /\ m * (q + p) = m * q + m * p
      BY TimesNat
    <3> QED
      BY <3>1
  <2>6. i.current[d] + i.step[k] = b + m * (q + p) /\ q + p \in Nat
    BY <2>3, <2>4, <2>5
  <2>7. Aligned(i.current[d], b, m) /\ Aligned(i.current[d] + i.step[k], b, m)
    BY <2>3, <2>6 DEF Aligned
  <2> QED
    BY <2>1, <2>2, <2>7
<1>8. ASSUME NEW d \in D
      PROVE  IF d \in Selected(l) THEN Aligned(j.current[d], s.begin[d], l.stride[d])
             ELSE j.current[d] = s.begin[d]
  <2>1. CASE d \in Selected(l)
    <3>1. PICK k \in 1..n : sel[k] = d
      BY <1>1, <2>1 DEF Selected
    <3>2. Aligned(i.first[k], s.begin[d], l.stride[d])
      BY <1>1, <1>3, <3>1 DEF OnIndices
    <3>3. /\ Aligned(i.current[d], s.begin[d], l.stride[d])
          /\ Aligned(i.current[d] + i.step[k], s.begin[d], l.stride[d])
      BY <1>7, <3>1
    <3>4. j.current[d] = IF k = c THEN i.current[d] + i.step[k]
                         ELSE IF k > c THEN i.first[k] ELSE i.current[d]
      BY <1>6, <3>1
    <3> QED
      BY <2>1, <3>2, <3>3, <3>4
  <2>2. CASE d \notin Selected(l)
    BY <1>1, <1>3, <1>5, <2>2 DEF Valid
  <2> QED
    BY <2>1, <2>2
<1>9. ASSUME NEW k \in 2..n PROVE i.first[k] < i.extent[k] /\ j.current[sel[k]] < i.extent[k]
  <2>1. k \in 1..n /\ k # 1
    BY <1>1
  <2>2. i.first[k] < i.extent[k] /\ i.current[sel[k]] < i.extent[k]
    BY <1>1, <1>3 DEF Valid
  <2> QED
    BY <1>6, <2>1, <2>2
<1>10. Valid(l, s, j)
  BY <1>1, <1>5, <1>8, <1>9 DEF Valid
<1>11. OnIndices(l, s, j)
  BY <1>3, <1>5 DEF OnIndices
<1>12. next.end = next.iter.extent[1]
  BY <1>2, <1>4, <1>5
<1> QED
  BY <1>4, <1>10, <1>11, <1>12 DEF TiledLoops

-----------------------------------------------------------------------------
(* The loops of all threads.                                               *)

\* The dimensions of a launch, and threads as vectors.
LEMMA ThreadVector ==
    ASSUME NEW l, WellFormed(l), NEW k \in Nat PROVE Thread(l, k) \in [Dims(l.begin) -> Nat]
<1>1. l.count \in Seq(Nat \ {0}) /\ Len(l.count) = Len(l.begin) /\ Dims(l.begin) = 1..Len(l.begin)
  BY Fields
<1> QED
  BY <1>1, MapToNDInRange DEF Thread

\* The loops over a part of the range of l.
Loops(l, s) == IF Flat(l) THEN FlatLoops(s) ELSE TiledLoops(l, s)

\* Every loop that a thread begins is one over the part of its direction.
LEMMA LoopOfThread ==
    ASSUME NEW l, WellFormed(l), NEW dir, l.lower # <<>> => dir \in Direction(l), NEW k \in Nat
    PROVE  Loop(DirectionSubRange(l, dir), Thread(l, k)) \in Loops(l, DirectionSubRange(l, dir))
<1>1. PICK s : s = DirectionSubRange(l, dir)
  OBVIOUS
<1>2. Part(l, s)
  BY <1>1, SubRange
<1>3. Thread(l, k) \in [Dims(l.begin) -> Nat]
  BY ThreadVector
<1>4. CASE Flat(l)
  <2>1. Flat(s)
    BY <1>2, <1>4 DEF Part, Flat
  <2> QED
    BY <1>1, <1>2, <1>3, <1>4, <2>1, FlatLoop DEF Loops
<1>5. CASE ~Flat(l)
  BY <1>1, <1>2, <1>3, <1>5, TiledLoop DEF Loops
<1> QED
  BY <1>4, <1>5

\* One round of a loop.
LEMMA Round ==
    ASSUME NEW l, WellFormed(l), NEW s, Part(l, s), NEW loop \in Loops(l, s), ~AtEnd(l, loop)
    PROVE  IsIndex(l, Index(l, loop)) /\ Increment(l, loop) \in Loops(l, s)
<1>1. CASE Flat(l)
  <2>1. loop \in FlatLoops(s) /\ Flat(s)
    BY <1>1 DEF Loops, Part, Flat
  <2>2. Increment(l, loop) = Increment(s, loop)
    BY <1>1, <2>1 DEF Increment
  <2>3. IsIndex(l, Index(l, loop))
    BY <1>1, <2>1, FlatPoint, Inside
  <2>4. Increment(s, loop) \in FlatLoops(s)
    BY <2>1, FlatStep
  <2> QED
    BY <1>1, <2>2, <2>3, <2>4 DEF Loops
<1>2. CASE ~Flat(l)
  <2>1. loop \in TiledLoops(l, s)
    BY <1>2 DEF Loops
  <2>2. IsIndex(l, Index(l, loop))
    <3>1. Index(l, loop) = loop.iter.current /\ Among(l, s, loop.iter.current)
      BY <1>2, <2>1, TiledPoint
    <3> QED
      BY <3>1, Inside
  <2>3. Increment(l, loop) \in TiledLoops(l, s)
    BY <1>2, <2>1, TiledStep
  <2> QED
    BY <1>2, <2>2, <2>3 DEF Loops
<1> QED
  BY <1>1, <1>2

\* The direction that follows is one, or the end.
LEMMA DirectionStep ==
    ASSUME NEW l, WellFormed(l), NEW dir \in Direction(l)
    PROVE  NextDirection(dir) \in Direction(l) \/ NextDirection(dir)[1] = "oob"
<1>1. PICK n \in Nat : n = Len(l.begin) /\ Dims(l.begin) = 1..n /\ 1 \in 1..n
  BY FirstDimension
<1>2. dir \in [1..n -> {"lower", "middle", "upper"}]
  BY <1>1 DEF Direction
<1>3. Len(dir) = n /\ Dims(dir) = 1..n
  BY <1>2, Vector
<1>4. PICK open, c : open = {d \in Dims(dir) : dir[d] # "upper"} /\ c = Max(open)
  OBVIOUS
<1>5. CASE open = {}
  <2>1. NextDirection(dir) = OutOfBounds(n)
    BY <1>3, <1>4, <1>5 DEF NextDirection
  <2> QED
    BY <1>1, <2>1 DEF OutOfBounds
<1>6. CASE open # {}
  <2>1. NextDirection(dir) =
           [d \in 1..n |->
                 IF d < c THEN dir[d]
                 ELSE IF d > c THEN "lower"
                 ELSE IF dir[d] = "lower" THEN "middle" ELSE "upper"]
    BY <1>3, <1>4, <1>6 DEF NextDirection
  <2>2. NextDirection(dir) \in [1..n -> {"lower", "middle", "upper"}]
    BY <1>2, <2>1
  <2> QED
    BY <1>1, <2>2 DEF Direction
<1> QED
  BY <1>5, <1>6

\* What Count adds.
LEMMA Counted ==
    ASSUME NEW bag, NEW x, NEW y \in BagToSet(Count(bag, {x}))
    PROVE  y \in BagToSet(bag) \/ y = x
  BY DEF Count, BagToSet, (+), SetToBag

\* Every thread is at an index of its part of the range, or at the end of its loop; what has
\* been visited are indices.
RangeInv ==
    /\ launch \in Launches
    /\ worker \in Nat
    /\ Finished \/ /\ launch.lower # <<>> => direction \in Direction(launch)
                   /\ it \in Loops(launch, DirectionSubRange(launch, direction))
    /\ VisitsInRange

\* The first loop.
LEMMA RangeInit == ASSUME Init PROVE RangeInv
<1>1. launch \in Launches /\ WellFormed(launch) /\ worker = 0 /\ visits = EmptyBag
  BY IdxMapAssumption DEF Init
<1>2. launch.lower # <<>> => direction \in Direction(launch)
  BY DEF Init, FirstDirection, Direction
<1>3. it = Loop(DirectionSubRange(launch, direction), Thread(launch, 0))
  BY DEF Init
<1>4. it \in Loops(launch, DirectionSubRange(launch, direction))
  BY <1>1, <1>2, <1>3, LoopOfThread
<1>5. VisitsInRange
  BY <1>1 DEF VisitsInRange, BagToSet, EmptyBag, SetToBag
<1> QED
  BY <1>1, <1>2, <1>4, <1>5 DEF RangeInv

\* Every step keeps the loops on the indices.
LEMMA RangeStep ==
    ASSUME RangeInv, [Next]_vars PROVE RangeInv'
<1>1. PICK s : s = DirectionSubRange(launch, direction)
  OBVIOUS
<1>2. launch \in Launches /\ WellFormed(launch) /\ worker \in Nat /\ VisitsInRange
  BY IdxMapAssumption DEF RangeInv
<1>3. CASE Visit
  <2>1. /\ launch' = launch /\ direction' = direction /\ worker' = worker
        /\ ~Finished /\ ~AtEnd(launch, it)
    BY <1>3 DEF Visit
  <2>2. (launch.lower # <<>> => direction \in Direction(launch)) /\ it \in Loops(launch, s)
    BY <1>1, <2>1 DEF RangeInv
  <2>3. Part(launch, s)
    BY <1>1, <1>2, <2>2, SubRange
  <2>4. IsIndex(launch, Index(launch, it)) /\ Increment(launch, it) \in Loops(launch, s)
    BY <1>2, <2>1, <2>2, <2>3, Round
  <2>5. visits' = Count(visits, {Index(launch, it)}) /\ it' = Increment(launch, it)
    BY <1>3 DEF Visit
  <2>6. VisitsInRange'
    <3>1. ASSUME NEW x \in BagToSet(visits') PROVE IsIndex(launch, x)
      <4>1. x \in BagToSet(visits) \/ x = Index(launch, it)
        BY <2>5, Counted
      <4> QED
        BY <1>2, <2>4, <4>1 DEF VisitsInRange
    <3> QED
      BY <2>1, <3>1 DEF VisitsInRange
  <2> QED
    BY <1>1, <1>2, <2>1, <2>2, <2>4, <2>5, <2>6 DEF RangeInv
<1>4. CASE NextThread
  <2>1. /\ launch' = launch /\ direction' = direction /\ visits' = visits /\ ~Finished
        /\ worker' = worker + 1
        /\ it' = Loop(DirectionSubRange(launch, direction), Thread(launch, worker + 1))
    BY <1>4 DEF NextThread
  <2>2. launch.lower # <<>> => direction \in Direction(launch)
    BY <2>1 DEF RangeInv
  <2>3. worker + 1 \in Nat
    BY <1>2
  <2>4. it' \in Loops(launch, DirectionSubRange(launch, direction))
    BY <1>2, <2>1, <2>2, <2>3, LoopOfThread
  <2>5. VisitsInRange'
    BY <1>2, <2>1 DEF VisitsInRange
  <2> QED
    BY <1>2, <2>1, <2>2, <2>3, <2>4, <2>5 DEF RangeInv
<1>5. CASE EndOfDirection
  <2>1. launch' = launch /\ visits' = visits /\ worker' = 0 /\ ~Finished
    BY <1>5 DEF EndOfDirection
  <2>2. /\ direction' = IF launch.lower = <<>> THEN OutOfBounds(Len(direction))
                        ELSE NextDirection(direction)
        /\ it' = IF direction'[1] = "oob" THEN it
                 ELSE Loop(DirectionSubRange(launch, direction'), Thread(launch, 0))
    BY <1>5 DEF EndOfDirection
  <2>3. VisitsInRange'
    BY <1>2, <2>1 DEF VisitsInRange
  <2>4. CASE direction'[1] = "oob"
    BY <1>2, <2>1, <2>3, <2>4 DEF RangeInv, Finished
  <2>5. CASE direction'[1] # "oob"
    <3>1. launch.lower # <<>> => direction' \in Direction(launch)
      <4>1. SUFFICES ASSUME launch.lower # <<>> PROVE direction' \in Direction(launch)
        OBVIOUS
      <4>2. direction \in Direction(launch)
        BY <2>1, <4>1 DEF RangeInv
      <4> QED
        BY <1>2, <2>2, <2>5, <4>1, <4>2, DirectionStep
    <3>2. PICK dir : dir = direction'
      OBVIOUS
    <3>3. it' \in Loops(launch, DirectionSubRange(launch, dir))
      <4>1. it' = Loop(DirectionSubRange(launch, dir), Thread(launch, 0))
        BY <2>2, <2>5, <3>2
      <4> QED
        BY <1>2, <3>1, <3>2, <4>1, LoopOfThread
    <3> QED
      BY <1>2, <2>1, <2>3, <3>1, <3>2, <3>3 DEF RangeInv
  <2> QED
    BY <2>4, <2>5
<1>6. CASE UNCHANGED vars
  BY <1>6 DEF vars, RangeInv, Finished, VisitsInRange
<1> QED
  BY <1>3, <1>4, <1>5, <1>6 DEF Next

\* "This ensures that no out-of-range memory access happens" (tutorial): no thread ever visits
\* an index that is not one of the launch's range.
THEOREM RangesAreKept == Spec => []VisitsInRange
<1>1. Init => RangeInv
  BY RangeInit
<1>2. RangeInv /\ [Next]_vars => RangeInv'
  BY RangeStep
<1>3. RangeInv => VisitsInRange
  BY DEF RangeInv
<1> QED
  BY <1>1, <1>2, <1>3, PTL DEF Spec

-----------------------------------------------------------------------------
(* Teams: the threads in the thread space of the selected dimensions.      *)

\* The dimensions that are not selected.
Others(l) == Dims(l.begin) \ Selected(l)

\* What MapTo computes; it is the same for all parts of a range.
LEMMA MapForm ==
    ASSUME NEW l, WellFormed(l), NEW s, Part(l, s), NEW t \in [Dims(l.begin) -> Nat],
           NEW x, x = l.select[1]
    PROVE  MapTo(s, t) =
              [idx |-> [d \in Dims(l.begin) |->
                          IF d \in Others(l) THEN 0
                          ELSE IF d = x THEN t[x] + SumOver(t, l.count[x], Others(l))
                          ELSE t[d]],
               num |-> [d \in Dims(l.begin) |->
                          IF d \in Others(l) THEN 1
                          ELSE IF d = x
                          THEN Product([i \in Dims(l.begin) |->
                                          IF i \in Others(l) \cup {x} THEN l.count[i] ELSE 1])
                          ELSE l.count[d]]]
<1>1. PICK n, D : n = Len(l.begin) /\ D = Dims(l.begin)
  OBVIOUS
<1>2. n \in Nat /\ D = 1..n /\ t \in [D -> Nat]
  BY <1>1, Fields
<1>3. s.select = l.select /\ s.count = l.count
  BY DEF Part
<1>4. Dims(t) = D
  BY <1>2, Vector
<1>5. Others(l) = Dims(t) \ {s.select[i] : i \in Dims(s.select)} /\ x = s.select[1]
  BY <1>1, <1>3, <1>4 DEF Selected, Others
<1> QED
  BY <1>1, <1>3, <1>4, <1>5 DEF MapTo, MapThenSumSet, MapThenFoldSet, SumOver, SumsOf

\* There is one dimension whose threads join the slowest selected one, or there is none.
LEMMA Joining ==
    ASSUME NEW l, WellFormed(l), SharedOut(l), NEW x, x = l.select[1]
    PROVE  /\ x \in Dims(l.begin) /\ x \in Selected(l)
           /\ \E o \in Dims(l.begin) :
                 /\ o = x \/ o \in Others(l)
                 /\ \A d \in Others(l) : d # o => l.count[d] = 1
                 /\ Folded(l) = {} => o = x
<1>1. x \in Dims(l.begin) /\ x \in Selected(l)
  <2>1. 1 \in Dims(l.select) /\ l.select \in [Dims(l.select) -> Dims(l.begin)]
    BY Fields
  <2> QED
    BY <2>1 DEF Selected
<1>2. \A d \in Dims(l.begin) : l.count[d] \in Nat \ {0}
  BY Fields
<1>3. \A d \in Others(l) : d \in Dims(l.begin) /\ (d \notin Folded(l) => l.count[d] = 1)
  BY <1>2 DEF Others, Folded, Selected
<1>4. CASE Folded(l) = {}
  BY <1>1, <1>3, <1>4
<1>5. CASE Folded(l) # {}
  <2>1. PICK o : o \in Folded(l)
    BY <1>5
  <2>2. \A d \in Folded(l) : d = o
    BY <2>1 DEF SharedOut
  <2>3. o \in Others(l)
    BY <2>1 DEF Folded, Others, Selected
  <2> QED
    BY <1>1, <1>3, <1>5, <2>2, <2>3
<1> QED
  BY <1>1, <1>4, <1>5

\* The places of the threads.
Box(l) == {t \in [Dims(l.begin) -> Nat] : \A d \in Dims(l.begin) : t[d] < l.count[d]}

\* What MapTo makes of place v of a thread, where the threads of dimension o join those of x.
Joined(l, x, o, v) ==
    /\ MapTo(l, v).num = [d \in Dims(l.begin) |->
                            IF d \in Others(l) THEN 1
                            ELSE IF d = x
                            THEN IF o = x THEN l.count[x] ELSE l.count[o] * l.count[x]
                            ELSE l.count[d]]
    /\ \A d \in Dims(l.begin) : d \in Others(l) => MapTo(l, v).idx[d] = 0
    /\ \A d \in Dims(l.begin) : d \notin Others(l) /\ d # x => MapTo(l, v).idx[d] = v[d]
    /\ MapTo(l, v).idx[x] = v[x] + (IF o = x THEN 0 ELSE v[o] * l.count[x])

\* It makes the same of all places.
LEMMA TeamForm ==
    ASSUME NEW l, WellFormed(l), SharedOut(l), NEW x, x = l.select[1]
    PROVE  \E o \in Dims(l.begin) :
              /\ o = x \/ o \in Others(l)
              /\ \A d \in Others(l) : d # o => l.count[d] = 1
              /\ Folded(l) = {} => o = x
              /\ \A v \in Box(l) : Joined(l, x, o, v)
<1>1. PICK n, D : n = Len(l.begin) /\ D = Dims(l.begin)
  OBVIOUS
<1>2. n \in Nat /\ D = 1..n /\ l.count \in [D -> Nat \ {0}]
  BY <1>1, Fields
<1>3. x \in D /\ x \in Selected(l)
  BY <1>1, Joining
<1>4. PICK o \in D : /\ o = x \/ o \in Others(l)
                     /\ \A d \in Others(l) : d # o => l.count[d] = 1
                     /\ Folded(l) = {} => o = x
  BY <1>1, Joining
<1>5. Part(l, l)
  <2>1. l.begin \in [D -> Nat] /\ l.end \in [D -> Nat] /\ l.stride \in [D -> Nat \ {0}]
        /\ \A d \in D : l.begin[d] <= l.end[d]
    BY <1>1, Fields
  <2>2. \A d \in D : (l.begin[d] - l.begin[d]) % l.stride[d] = 0
    BY <2>1
  <2> QED
    BY <1>1, <2>1, <2>2 DEF Part
<1>6. PICK c \in Nat \ {0}, e \in Nat \ {0} : c = l.count[x] /\ e = l.count[o]
  BY <1>2, <1>3, <1>4
<1>7. PICK p : p = Product([i \in D |-> IF i \in Others(l) \cup {x} THEN l.count[i] ELSE 1])
  OBVIOUS
<1>8. ASSUME NEW v \in [D -> Nat]
      PROVE  /\ MapTo(l, v).idx = [d \in D |-> IF d \in Others(l) THEN 0
                                    ELSE IF d = x THEN v[x] + SumOver(v, c, Others(l)) ELSE v[d]]
             /\ MapTo(l, v).num = [d \in D |-> IF d \in Others(l) THEN 1
                                    ELSE IF d = x THEN p ELSE l.count[d]]
  <2>1. v \in [Dims(l.begin) -> Nat]
    BY <1>1
  <2>2. MapTo(l, v) =
              [idx |-> [d \in Dims(l.begin) |->
                          IF d \in Others(l) THEN 0
                          ELSE IF d = x THEN v[x] + SumOver(v, l.count[x], Others(l))
                          ELSE v[d]],
               num |-> [d \in Dims(l.begin) |->
                          IF d \in Others(l) THEN 1
                          ELSE IF d = x
                          THEN Product([i \in Dims(l.begin) |->
                                          IF i \in Others(l) \cup {x} THEN l.count[i] ELSE 1])
                          ELSE l.count[d]]]
    BY <1>5, <2>1, MapForm
  <2> QED
    BY <1>1, <1>6, <1>7, <2>2
<1>9. IsFiniteSet(Others(l)) /\ Others(l) \subseteq D /\ x \notin Others(l)
  <2>1. IsFiniteSet(1..n)
    BY <1>2, FS_Interval
  <2>2. Others(l) \subseteq 1..n
    BY <1>1, <1>2 DEF Others
  <2> QED
    BY <1>2, <1>3, <2>1, <2>2, FS_Subset DEF Others
\* the threads that join
<1>10. ASSUME NEW v \in [D -> Nat], \A d \in D : v[d] < l.count[d]
       PROVE  SumOver(v, c, Others(l)) = IF o = x THEN 0 ELSE v[o] * c
  <2>1. ASSUME NEW d \in Others(l), d # o PROVE v[d] = 0
    <3>1. l.count[d] = 1 /\ d \in D
      BY <1>4, <1>9, <2>1
    <3>2. v[d] \in Nat /\ v[d] < 1
      BY <1>10, <3>1
    <3> QED
      BY <3>2
  <2>2. PICK w \in Nat : w = v[o]
    BY <1>4
  <2>3. SumOver(v, c, Others(l)) = IF o \in Others(l) THEN w * c ELSE 0
    BY <1>9, <2>1, <2>2, SumOfOne
  <2> QED
    BY <1>4, <1>9, <2>2, <2>3
\* the product
<1>11. p = IF o = x THEN c ELSE e * c
  <2> DEFINE f == [i \in D |-> IF i \in Others(l) \cup {x} THEN l.count[i] ELSE 1]
  <2>1. /\ f \in [1..n -> Nat] /\ f[x] = c /\ f[o] = e
        /\ \A d \in 1..n : d # x /\ d # o => f[d] = 1
    BY <1>2, <1>3, <1>4, <1>6
  <2>2. p = Product(f)
    BY <1>7
  <2> HIDE DEF f
  <2>3. f \in Seq(Nat) /\ Len(f) = n
    BY <1>2, <2>1, Vector
  <2>4. x \in 1..Len(f) /\ o \in 1..Len(f) /\ c * e = e * c
    BY <1>2, <1>3, <1>4, <2>3
  <2>5. CASE o = x
    <3>1. Product(f) = f[x]
      BY <2>1, <2>3, <2>4, <2>5, ProductOfOne
    <3> QED
      BY <2>1, <2>2, <2>5, <3>1
  <2>6. CASE o < x
    <3>1. Product(f) = f[o] * f[x]
      BY <2>1, <2>3, <2>4, <2>6, ProductOfTwo
    <3> QED
      BY <2>1, <2>2, <2>4, <2>6, <3>1
  <2>7. CASE x < o
    <3>1. Product(f) = f[x] * f[o]
      BY <2>1, <2>3, <2>4, <2>7, ProductOfTwo
    <3> QED
      BY <2>1, <2>2, <2>4, <2>7, <3>1
  <2> QED
    BY <1>2, <1>3, <1>4, <2>5, <2>6, <2>7
<1>12. ASSUME NEW v \in [D -> Nat], \A d \in D : v[d] < l.count[d]
       PROVE  /\ MapTo(l, v).num = [d \in D |-> IF d \in Others(l) THEN 1
                                      ELSE IF d = x THEN p ELSE l.count[d]]
              /\ \A d \in D : d \in Others(l) => MapTo(l, v).idx[d] = 0
              /\ \A d \in D : d \notin Others(l) /\ d # x => MapTo(l, v).idx[d] = v[d]
              /\ MapTo(l, v).idx[x] = v[x] + (IF o = x THEN 0 ELSE v[o] * c)
  <2>1. SumOver(v, c, Others(l)) = IF o = x THEN 0 ELSE v[o] * c
    BY <1>10, <1>12
  <2>2. MapTo(l, v).idx = [d \in D |-> IF d \in Others(l) THEN 0
                                    ELSE IF d = x THEN v[x] + SumOver(v, c, Others(l)) ELSE v[d]]
    BY <1>8
  <2>3. MapTo(l, v).num = [d \in D |-> IF d \in Others(l) THEN 1
                                    ELSE IF d = x THEN p ELSE l.count[d]]
    BY <1>8
  <2>4. \A d \in D : d \in Others(l) => MapTo(l, v).idx[d] = 0
    BY <2>2
  <2>5. \A d \in D : d \notin Others(l) /\ d # x => MapTo(l, v).idx[d] = v[d]
    BY <2>2
  <2>6. MapTo(l, v).idx[x] = v[x] + SumOver(v, c, Others(l))
    BY <1>3, <1>9, <2>2
  <2> QED
    BY <2>1, <2>3, <2>4, <2>5, <2>6
<1>13. ASSUME NEW v \in Box(l) PROVE Joined(l, x, o, v)
  <2>1. v \in [D -> Nat] /\ \A d \in D : v[d] < l.count[d]
    BY <1>1 DEF Box
  <2>2. /\ MapTo(l, v).num = [d \in D |-> IF d \in Others(l) THEN 1
                                 ELSE IF d = x THEN p ELSE l.count[d]]
        /\ \A d \in D : d \in Others(l) => MapTo(l, v).idx[d] = 0
        /\ \A d \in D : d \notin Others(l) /\ d # x => MapTo(l, v).idx[d] = v[d]
        /\ MapTo(l, v).idx[x] = v[x] + (IF o = x THEN 0 ELSE v[o] * c)
    BY <1>12, <2>1
  <2> QED
    BY <1>1, <1>6, <1>11, <2>2 DEF Joined
<1> QED
  BY <1>1, <1>4, <1>13

\* A team of threads: each thread has a place in it, and no other thread has that place.
LEMMA Places ==
    ASSUME NEW l, WellFormed(l), SharedOut(l), NEW t \in Box(l), NEW u \in Box(l)
    PROVE  /\ MapTo(l, t).num = MapTo(l, u).num
           /\ \A d \in Dims(l.begin) : MapTo(l, t).idx[d] < MapTo(l, t).num[d]
           /\ MapTo(l, t).idx = MapTo(l, u).idx => t = u
           /\ Folded(l) = {} => \A d \in Selected(l) : MapTo(l, t).num[d] = l.count[d]
<1>1. PICK n, D : n = Len(l.begin) /\ D = Dims(l.begin)
  OBVIOUS
<1>2. /\ n \in Nat /\ D = 1..n /\ t \in [D -> Nat] /\ u \in [D -> Nat]
      /\ l.count \in [D -> Nat \ {0}]
      /\ \A d \in D : t[d] < l.count[d] /\ u[d] < l.count[d]
  BY <1>1, Fields DEF Box
<1>3. PICK x : x = l.select[1]
  OBVIOUS
<1>4. x \in D /\ x \notin Others(l)
  BY <1>1, <1>3, Joining DEF Others
<1>5. PICK o \in D : /\ o = x \/ o \in Others(l)
                     /\ \A d \in Others(l) : d # o => l.count[d] = 1
                     /\ Folded(l) = {} => o = x
                     /\ Joined(l, x, o, t) /\ Joined(l, x, o, u)
  BY <1>1, <1>3, TeamForm
<1>6. PICK c \in Nat \ {0}, e \in Nat \ {0} : c = l.count[x] /\ e = l.count[o]
  BY <1>2, <1>4, <1>5
<1>7. PICK p : p = IF o = x THEN c ELSE e * c
  OBVIOUS
<1>8. PICK ti, ui, tn : /\ ti = MapTo(l, t).idx /\ ui = MapTo(l, u).idx
                        /\ tn = MapTo(l, t).num /\ tn = MapTo(l, u).num
                        /\ tn = [d \in D |-> IF d \in Others(l) THEN 1
                                   ELSE IF d = x THEN p ELSE l.count[d]]
  BY <1>1, <1>5, <1>6, <1>7 DEF Joined
<1>9. /\ \A d \in D : d \in Others(l) => ti[d] = 0
      /\ \A d \in D : d \notin Others(l) /\ d # x => ti[d] = t[d]
      /\ ti[x] = t[x] + (IF o = x THEN 0 ELSE t[o] * c)
  BY <1>1, <1>5, <1>6, <1>8 DEF Joined
<1>10. /\ \A d \in D : d \notin Others(l) /\ d # x => ui[d] = u[d]
       /\ ui[x] = u[x] + (IF o = x THEN 0 ELSE u[o] * c)
  BY <1>1, <1>5, <1>6, <1>8 DEF Joined
<1>11. ASSUME NEW d \in D PROVE ti[d] < tn[d]
  <2>1. PICK a \in Nat, b \in Nat : a = t[x] /\ b = t[o] /\ a < c /\ b < e
    BY <1>2, <1>4, <1>5, <1>6
  <2>2. CASE d \in Others(l)
    BY <1>8, <1>9, <2>2
  <2>3. CASE d \notin Others(l) /\ d # x
    <3>1. ti[d] = t[d] /\ tn[d] = l.count[d] /\ t[d] < l.count[d]
      BY <1>2, <1>8, <1>9, <2>3
    <3> QED
      BY <3>1
  <2>4. CASE d = x
    <3>1. ti[d] = a + (IF o = x THEN 0 ELSE b * c) /\ tn[d] = p
      BY <1>4, <1>4, <1>8, <1>9, <2>1, <2>4
    <3>2. b * c + a < e * c /\ b * c \in Nat /\ e * c \in Nat
      BY <2>1, DigitsBelow, TimesNat
    <3> QED
      BY <1>7, <2>1, <3>1, <3>2
  <2> QED
    BY <2>2, <2>3, <2>4
<1>12. ASSUME ti = ui PROVE t = u
  <2>1. ASSUME NEW d \in D, d \notin Others(l), d # x PROVE t[d] = u[d]
    BY <1>12, <1>9, <1>10, <2>1
  <2>2. PICK a \in Nat, b \in Nat, i \in Nat, j \in Nat :
           a = t[x] /\ b = t[o] /\ i = u[x] /\ j = u[o] /\ a < c /\ b < e /\ i < c /\ j < e
    BY <1>2, <1>4, <1>5, <1>6
  <2>3. a + (IF o = x THEN 0 ELSE b * c) = i + (IF o = x THEN 0 ELSE j * c)
    BY <1>12, <1>9, <1>10, <2>2
  <2>4. a = i /\ (o # x => b = j)
    <3>1. CASE o = x
      BY <2>2, <2>3, <3>1
    <3>2. CASE o # x
      <4>1. a + b * c = i + j * c
        BY <2>3, <3>2
      <4> QED
        <5>1. b < j => b * c + a < j * c
          BY <2>2, DigitsBelow
        <5>2. j < b => j * c + i < b * c
          BY <2>2, DigitsBelow
        <5>3. PICK y \in Nat, z \in Nat : y = b * c /\ z = j * c
          BY TimesNat
        <5>4. b = j
          BY <2>2, <4>1, <5>1, <5>2, <5>3
        <5> QED
          BY <4>1, <5>3, <5>4
    <3> QED
      BY <3>1, <3>2
  <2>5. ASSUME NEW d \in Others(l), d # o PROVE t[d] = u[d]
    <3>1. l.count[d] = 1 /\ d \in D
      BY <1>1, <1>5, <2>5 DEF Others
    <3>2. t[d] \in Nat /\ t[d] < 1 /\ u[d] \in Nat /\ u[d] < 1
      BY <1>2, <3>1
    <3> QED
      BY <3>2
  <2>6. ASSUME NEW d \in D PROVE t[d] = u[d]
    BY <1>5, <2>1, <2>2, <2>4, <2>5
  <2> QED
    BY <1>2, <2>6
<1>13. ASSUME Folded(l) = {}, NEW d \in Selected(l) PROVE tn[d] = l.count[d]
  <2>1. d \in D /\ d \notin Others(l)
    <3>1. l.select \in [Dims(l.select) -> Dims(l.begin)]
      BY Fields
    <3> QED
      BY <1>1, <3>1 DEF Selected, Others
  <2>2. o = x
    BY <1>5, <1>13
  <2>3. tn[d] = IF d = x THEN p ELSE l.count[d]
    BY <1>8, <2>1
  <2> QED
    BY <1>6, <1>7, <2>2, <2>3
<1> QED
  BY <1>1, <1>11, <1>12, <1>13, <1>8

\* How many threads there are.
Workers(l) == Product(l.count)

\* The place of a thread in the team, and how many places there are in each dimension.
Mine(l, k) == MapTo(l, Thread(l, k)).idx
Team(l) == MapTo(l, Thread(l, 0)).num

\* A range is a part of itself.
LEMMA Whole ==
    ASSUME NEW l, WellFormed(l) PROVE Part(l, l)
<1>1. /\ l.begin \in [Dims(l.begin) -> Nat] /\ l.end \in [Dims(l.begin) -> Nat]
      /\ l.stride \in [Dims(l.begin) -> Nat \ {0}]
      /\ \A d \in Dims(l.begin) : l.begin[d] <= l.end[d]
  BY Fields
<1>2. \A d \in Dims(l.begin) : (l.begin[d] - l.begin[d]) % l.stride[d] = 0
  BY <1>1
<1> QED
  BY <1>1, <1>2 DEF Part

\* Threads as vectors, each of another number another one.
LEMMA Threads ==
    ASSUME NEW l, WellFormed(l)
    PROVE  /\ Workers(l) \in Nat \ {0}
           /\ \A k \in 0..Workers(l) - 1 : Thread(l, k) \in Box(l)
           /\ \A j, k \in 0..Workers(l) - 1 : Thread(l, j) = Thread(l, k) => j = k
<1>1. PICK n, e : n = Len(e) /\ e = l.count
  OBVIOUS
<1>2. n \in Nat /\ e \in Seq(Nat \ {0}) /\ e \in Seq(Nat) /\ Dims(l.begin) = 1..n
  <2>1. l.count \in Seq(Nat \ {0}) /\ Len(l.count) = Len(l.begin) /\ Dims(l.begin) = 1..Len(l.begin)
    BY Fields
  <2> QED
    BY <1>1, <2>1
<1>3. Product(e) \in Nat /\ Product(e) # 0
  <2>1. \A d \in Dims(e) : e[d] # 0
    BY <1>2 DEF Dims
  <2> QED
    BY <1>2, <2>1, ProductNat
<1>4. ASSUME NEW k \in 0..Workers(l) - 1 PROVE Thread(l, k) \in Box(l)
  <2>1. k \in Nat /\ k < Product(e)
    BY <1>1, <1>3 DEF Workers
  <2>2. MapToND(e, k) \in [1..n -> Nat] /\ \A d \in 1..n : MapToND(e, k)[d] < e[d]
    BY <1>1, <1>2, <2>1, MapToNDInRange
  <2> QED
    BY <1>1, <1>2, <2>2 DEF Thread, Box
<1>5. ASSUME NEW j \in 0..Workers(l) - 1, NEW k \in 0..Workers(l) - 1, Thread(l, j) = Thread(l, k)
      PROVE  j = k
  <2>1. j \in Nat /\ j < Product(e) /\ k \in Nat /\ k < Product(e)
    BY <1>1, <1>3 DEF Workers
  <2>2. MapToND(e, j) = MapToND(e, k)
    BY <1>1, <1>5 DEF Thread
  <2> QED
    BY <1>2, <2>1, <2>2, MapToNDOnce
<1> QED
  BY <1>1, <1>3, <1>4, <1>5 DEF Workers

\* What a thread is in its team.
LEMMA InTeam ==
    ASSUME NEW l, WellFormed(l), SharedOut(l), NEW s, Part(l, s), NEW k \in 0..Workers(l) - 1
    PROVE  /\ MapTo(s, Thread(l, k)) = [idx |-> Mine(l, k), num |-> Team(l)]
           /\ Mine(l, k) \in [Dims(l.begin) -> Nat] /\ Team(l) \in [Dims(l.begin) -> Nat \ {0}]
           /\ \A d \in Dims(l.begin) : Mine(l, k)[d] < Team(l)[d]
           /\ \A d \in Dims(l.begin) : d \notin Selected(l) => Mine(l, k)[d] = 0
           /\ Folded(l) = {} => \A d \in Selected(l) : Team(l)[d] = l.count[d]
<1>1. PICK t, z : t = Thread(l, k) /\ z = Thread(l, 0) /\ t \in Box(l) /\ z \in Box(l)
  <2>1. Workers(l) \in Nat \ {0} /\ \A j \in 0..Workers(l) - 1 : Thread(l, j) \in Box(l)
    BY Threads
  <2>2. 0 \in 0..Workers(l) - 1
    BY <2>1
  <2> QED
    BY <2>1, <2>2
<1>2. Part(l, l)
  BY Whole
<1>3. t \in [Dims(l.begin) -> Nat] /\ z \in [Dims(l.begin) -> Nat]
  BY <1>1 DEF Box
<1>4. MapTo(s, t) = MapTo(l, t)
  <2>1. PICK x : x = l.select[1]
    OBVIOUS
  <2>2. PICK m : m = [idx |-> [d \in Dims(l.begin) |->
                          IF d \in Others(l) THEN 0
                          ELSE IF d = x THEN t[x] + SumOver(t, l.count[x], Others(l))
                          ELSE t[d]],
               num |-> [d \in Dims(l.begin) |->
                          IF d \in Others(l) THEN 1
                          ELSE IF d = x
                          THEN Product([i \in Dims(l.begin) |->
                                          IF i \in Others(l) \cup {x} THEN l.count[i] ELSE 1])
                          ELSE l.count[d]]]
    OBVIOUS
  <2>3. MapTo(s, t) = m
    BY <1>3, <2>1, <2>2, MapForm
  <2>4. MapTo(l, t) = m
    BY <1>2, <1>3, <2>1, <2>2, MapForm
  <2> QED
    BY <2>3, <2>4
<1>5. PICK m : m = MapTo(l, t)
  OBVIOUS
<1>6. /\ m.idx \in [Dims(l.begin) -> Nat] /\ m.num \in [Dims(l.begin) -> Nat \ {0}]
      /\ \A d \in Dims(l.begin) : d \notin Selected(l) => m.idx[d] = 0
  BY <1>2, <1>3, <1>5, Mapped
<1>7. /\ m.num = MapTo(l, z).num
      /\ \A d \in Dims(l.begin) : m.idx[d] < m.num[d]
      /\ Folded(l) = {} => \A d \in Selected(l) : m.num[d] = l.count[d]
  BY <1>1, <1>5, Places
<1>8. m.idx = Mine(l, k) /\ m.num = Team(l)
  BY <1>1, <1>5, <1>7 DEF Mine, Team
<1>9. m = [idx |-> m.idx, num |-> m.num]
  BY <1>2, <1>3, <1>5, MapForm
<1> QED
  BY <1>1, <1>4, <1>5, <1>6, <1>7, <1>8, <1>9

\* No two threads have the same place, and the selected dimensions tell it.
LEMMA OnePlace ==
    ASSUME NEW l, WellFormed(l), SharedOut(l),
           NEW j \in 0..Workers(l) - 1, NEW k \in 0..Workers(l) - 1,
           \A d \in Selected(l) : Mine(l, j)[d] = Mine(l, k)[d]
    PROVE  j = k
<1>1. PICK t, u : t = Thread(l, j) /\ u = Thread(l, k) /\ t \in Box(l) /\ u \in Box(l)
  BY Threads
<1>2. PICK v, w : v = Mine(l, j) /\ w = Mine(l, k)
  OBVIOUS
<1>3. Part(l, l)
  BY Whole
<1>4. v \in [Dims(l.begin) -> Nat] /\ \A d \in Dims(l.begin) : d \notin Selected(l) => v[d] = 0
  BY <1>2, <1>3, InTeam
<1>5. w \in [Dims(l.begin) -> Nat] /\ \A d \in Dims(l.begin) : d \notin Selected(l) => w[d] = 0
  BY <1>2, <1>3, InTeam
<1>6. v = w
  <2>1. \A d \in Dims(l.begin) : v[d] = w[d]
    BY <1>2, <1>4, <1>5
  <2> QED
    BY <1>4, <1>5, <2>1
<1>7. t = u
  <2>1. MapTo(l, t).idx = MapTo(l, u).idx
    BY <1>1, <1>2, <1>6 DEF Mine
  <2> QED
    BY <1>1, <2>1, Places
<1> QED
  BY <1>1, <1>7, Threads

-----------------------------------------------------------------------------
(* What a thread has of n numbers, as the m-th of u threads.               *)

\* Number q is not before those that the thread has ...
Starts(l, m, u, n, q) ==
    IF l.layout = "strided" THEN \E r \in Nat : q = m + u * r ELSE SlotBegin(m, n, u) <= q

\* ... and not after them.
Ends(l, m, u, n, q) == l.layout = "contiguous" => q < SlotBegin(m + 1, n, u)

\* No two threads have the same number.
LEMMA OneOwner ==
    ASSUME NEW l, l.layout \in {"strided", "contiguous"}, NEW u \in Nat \ {0}, NEW n \in Nat,
           NEW q \in Nat, NEW j \in 0..u - 1, NEW k \in 0..u - 1,
           Starts(l, j, u, n, q), Ends(l, j, u, n, q), Starts(l, k, u, n, q), Ends(l, k, u, n, q)
    PROVE  j = k
<1>1. CASE l.layout = "strided"
  <2>1. PICK a \in Nat, b \in Nat : q = j + u * a /\ q = k + u * b
    BY <1>1 DEF Starts
  <2>2. j \in Nat /\ k \in Nat /\ j < u /\ k < u
    OBVIOUS
  <2>3. a < b => a * u + j < b * u
    BY <2>2, DigitsBelow
  <2>4. b < a => b * u + k < a * u
    BY <2>2, DigitsBelow
  <2>5. PICK v \in Nat, w \in Nat : v = a * u /\ w = b * u
    BY TimesNat
  <2>6. u * a = a * u /\ u * b = b * u
    OBVIOUS
  <2>7. q = j + v /\ q = k + w
    BY <2>1, <2>5, <2>6
  <2>8. a = b
    BY <2>2, <2>3, <2>4, <2>5, <2>7
  <2> QED
    BY <2>2, <2>5, <2>7, <2>8
<1>2. CASE l.layout = "contiguous"
  <2>1. /\ SlotBegin(j, n, u) <= q /\ q < SlotBegin(j + 1, n, u)
        /\ SlotBegin(k, n, u) <= q /\ q < SlotBegin(k + 1, n, u)
    BY <1>2 DEF Starts, Ends
  <2>2. \A m \in 0..u : SlotBegin(m, n, u) \in Nat
    <3>1. \A m \in 0..u : m \in Nat
      OBVIOUS
    <3> QED
      BY <3>1, SlotNat
  <2>3. j < k => SlotBegin(j + 1, n, u) <= SlotBegin(k, n, u)
    BY SlotsAreOrdered
  <2>4. k < j => SlotBegin(k + 1, n, u) <= SlotBegin(j, n, u)
    BY SlotsAreOrdered
  <2> QED
    BY <2>1, <2>2, <2>3, <2>4
<1> QED
  BY <1>1, <1>2

\* The number after the next step is not before those that the thread has.
LEMMA StartsOn ==
    ASSUME NEW l, NEW m \in Nat, NEW u \in Nat \ {0}, NEW n \in Nat, NEW q \in Nat,
           Starts(l, m, u, n, q)
    PROVE  Starts(l, m, u, n, q + (IF l.layout = "strided" THEN u ELSE 1))
<1>1. CASE l.layout = "strided"
  <2>1. PICK r \in Nat : q = m + u * r
    BY <1>1 DEF Starts
  <2>2. u * (r + 1) = u * r + u /\ u * r \in Nat
    BY TimesNat
  <2>3. q + u = m + u * (r + 1) /\ r + 1 \in Nat
    BY <2>1, <2>2
  <2> QED
    BY <1>1, <2>3 DEF Starts
<1>2. CASE l.layout # "strided"
  <2>1. SlotBegin(m, n, u) \in Nat /\ SlotBegin(m, n, u) <= q
    BY <1>2, SlotNat DEF Starts
  <2> QED
    BY <1>2, <2>1 DEF Starts
<1> QED
  BY <1>1, <1>2

-----------------------------------------------------------------------------
(* Flat loops of a thread.                                                 *)

\* The number of a thread among all threads, and how many there are.
Number(l, k) == Linearize(Pick(Team(l), l.select), Pick(Mine(l, k), l.select))
Numbers(l) == Product(Pick(Team(l), l.select))

\* How many indices a part of the range has.
Size(s) == Product(Pick(Extents(s), s.select))

\* The product of the selected components of a vector.
LEMMA PickedProduct ==
    ASSUME NEW l, WellFormed(l), NEW v \in [Dims(l.begin) -> Nat \ {0}]
    PROVE  Product(Pick(v, l.select)) \in Nat \ {0}
<1>1. Pick(v, l.select) \in Seq(Nat \ {0})
  BY PickVector
<1>2. Pick(v, l.select) \in Seq(Nat) /\ \A d \in Dims(Pick(v, l.select)) : Pick(v, l.select)[d] # 0
  BY <1>1 DEF Dims
<1> QED
  BY <1>2, ProductNat

\* Every thread has a number of its own.
LEMMA OneNumber ==
    ASSUME NEW l, WellFormed(l), SharedOut(l)
    PROVE  /\ Numbers(l) \in Nat \ {0}
           /\ \A k \in 0..Workers(l) - 1 : Number(l, k) \in 0..Numbers(l) - 1
           /\ \A j, k \in 0..Workers(l) - 1 : Number(l, j) = Number(l, k) => j = k
<1>1. PICK n, sel, D : /\ n \in Nat /\ n = Len(l.select) /\ sel = l.select /\ D = Dims(l.begin)
                       /\ sel \in [1..n -> D]
  BY Fields
<1>2. Part(l, l) /\ 0 \in 0..Workers(l) - 1
  <2>1. Workers(l) \in Nat \ {0}
    BY Threads
  <2> QED
    BY <2>1, Whole
<1>3. Team(l) \in [D -> Nat \ {0}]
  BY <1>1, <1>2, InTeam
<1>4. PICK e : e = Pick(Team(l), sel)
  OBVIOUS
<1>5. e \in [1..n -> Nat] /\ \A i \in 1..n : e[i] = Team(l)[sel[i]]
  <2>1. Team(l) \in [Dims(l.begin) -> Nat \ {0}]
    BY <1>1, <1>3
  <2>2. Pick(Team(l), l.select) \in [1..Len(l.select) -> Nat \ {0}]
    BY <2>1, PickVector
  <2>3. \A i \in 1..Len(l.select) : Pick(Team(l), l.select)[i] = Team(l)[l.select[i]]
    BY DEF Pick, Dims
  <2> QED
    BY <1>1, <1>4, <2>2, <2>3
<1>6. Numbers(l) \in Nat \ {0}
  BY <1>1, <1>3, PickedProduct DEF Numbers
<1>7. ASSUME NEW k \in 0..Workers(l) - 1
      PROVE  LET x == Pick(Mine(l, k), sel)
             IN  /\ x \in [1..n -> Nat] /\ \A i \in 1..n : x[i] = Mine(l, k)[sel[i]] /\ x[i] < e[i]
                 /\ Number(l, k) = Linearize(e, x)
  <2>1. Mine(l, k) \in [D -> Nat] /\ \A d \in D : Mine(l, k)[d] < Team(l)[d]
    BY <1>1, <1>2, InTeam
  <2>2. PICK x : x = Pick(Mine(l, k), sel)
    OBVIOUS
  <2>3. x \in [1..n -> Nat] /\ \A i \in 1..n : x[i] = Mine(l, k)[sel[i]]
    <3>1. Mine(l, k) \in [Dims(l.begin) -> Nat]
      BY <1>1, <2>1
    <3>2. Pick(Mine(l, k), l.select) \in [1..Len(l.select) -> Nat]
      BY <3>1, PickVector
    <3>3. \A i \in 1..Len(l.select) : Pick(Mine(l, k), l.select)[i] = Mine(l, k)[l.select[i]]
      BY DEF Pick, Dims
    <3> QED
      BY <1>1, <2>2, <3>2, <3>3
  <2>4. \A i \in 1..n : x[i] < e[i]
    BY <1>1, <1>5, <2>1, <2>3
  <2>5. Number(l, k) = Linearize(e, x)
    BY <1>1, <1>4, <2>2 DEF Number
  <2> QED
    BY <2>2, <2>3, <2>4, <2>5
<1>8. ASSUME NEW k \in 0..Workers(l) - 1 PROVE Number(l, k) \in 0..Numbers(l) - 1
  <2>1. PICK x : x = Pick(Mine(l, k), sel)
    OBVIOUS
  <2>2. x \in [1..n -> Nat] /\ (\A i \in 1..n : x[i] < e[i]) /\ Number(l, k) = Linearize(e, x)
    BY <1>7, <2>1
  <2>3. Linearize(e, x) \in Nat /\ Linearize(e, x) < Product(e)
    BY <1>1, <1>5, <2>2, LinearizeNat, LinearizeBelow
  <2>4. Product(e) = Numbers(l)
    BY <1>1, <1>4 DEF Numbers
  <2> QED
    BY <1>6, <2>2, <2>3, <2>4
<1>9. ASSUME NEW j \in 0..Workers(l) - 1, NEW k \in 0..Workers(l) - 1, Number(l, j) = Number(l, k)
      PROVE  j = k
  <2>1. PICK x, y : x = Pick(Mine(l, j), sel) /\ y = Pick(Mine(l, k), sel)
    OBVIOUS
  <2>2. /\ x \in [1..n -> Nat] /\ \A i \in 1..n : x[i] = Mine(l, j)[sel[i]] /\ x[i] < e[i]
        /\ Number(l, j) = Linearize(e, x)
    BY <1>7, <2>1
  <2>3. /\ y \in [1..n -> Nat] /\ \A i \in 1..n : y[i] = Mine(l, k)[sel[i]] /\ y[i] < e[i]
        /\ Number(l, k) = Linearize(e, y)
    BY <1>7, <2>1
  <2>4. x = y
    <3>1. \A i \in 1..n : x[i] < e[i] /\ y[i] < e[i]
      BY <2>2, <2>3
    <3>2. Linearize(e, x) = Linearize(e, y)
      BY <1>9, <2>2, <2>3
    <3>3. x \in [1..n -> Nat] /\ y \in [1..n -> Nat]
      BY <2>2, <2>3
    <3>4. n \in Nat /\ e \in [1..n -> Nat]
      BY <1>1, <1>5
    <3> QED
      BY <3>1, <3>2, <3>3, <3>4, LinearizeOnce
  <2>5. ASSUME NEW d \in Selected(l) PROVE Mine(l, j)[d] = Mine(l, k)[d]
    <3>1. PICK i \in 1..n : sel[i] = d
      BY <1>1 DEF Selected, Dims
    <3> QED
      BY <2>2, <2>3, <2>4, <3>1
  <2> QED
    BY <2>5, OnePlace
<1> QED
  BY <1>6, <1>8, <1>9

\* The loops of thread k over a part of a range that is traversed flat: of the numbers below
\* the size of the part, it has those that the layout gives it.
FlatRounds(l, s, k) ==
    {loop \in FlatLoops(s) :
        /\ Starts(l, Number(l, k), Numbers(l), Size(s), loop.iter.current)
        /\ loop.iter.step = IF l.layout = "strided" THEN Numbers(l) ELSE 1
        /\ l.layout = "contiguous" =>
              loop.end <= SlotBegin(Number(l, k) + 1, Size(s), Numbers(l))}

\* The size of a part of a range.
LEMMA SizeNat ==
    ASSUME NEW l, WellFormed(l), NEW s, Part(l, s) PROVE Size(s) \in Nat
<1>1. Extents(s) \in [Dims(l.begin) -> Nat] /\ s.select = l.select
  BY ExtentsOfPart DEF Part
<1>2. Pick(Extents(s), l.select) \in Seq(Nat)
  BY <1>1, PickVector
<1> QED
  BY <1>1, <1>2, ProductNat DEF Size

\* begin() and end() of a thread.
LEMMA FlatBounds ==
    ASSUME NEW l, WellFormed(l), SharedOut(l), NEW s, Part(l, s), NEW k \in 0..Workers(l) - 1,
           Flat(l), NEW loop, loop = Loop(s, Thread(l, k))
    PROVE  /\ loop \in FlatLoops(s)
           /\ loop.iter.step = IF l.layout = "strided" THEN Numbers(l) ELSE 1
           /\ loop.iter.current = IF l.layout = "strided" THEN Number(l, k)
                                  ELSE SlotBegin(Number(l, k), Size(s), Numbers(l))
           /\ loop.end = IF l.layout = "strided" THEN Size(s)
                         ELSE Less(SlotBegin(Number(l, k) + 1, Size(s), Numbers(l)), Size(s))
<1>1. PICK t : t = Thread(l, k) /\ t \in Box(l)
  BY Threads
<1>2. t \in [Dims(l.begin) -> Nat] /\ Flat(s)
  BY <1>1 DEF Box, Part, Flat
<1>3. loop \in FlatLoops(s) /\ loop = Loop(s, t)
  BY <1>1, <1>2, FlatLoop
<1>4. s.select = l.select /\ s.count = l.count /\ s.layout = l.layout
  BY DEF Part
<1>5. MapTo(s, t) = [idx |-> Mine(l, k), num |-> Team(l)]
  BY <1>1, InTeam
<1>6. PICK w, u, n : w = Number(l, k) /\ u = Numbers(l) /\ n = Size(s)
  OBVIOUS
<1>7. w \in Nat /\ u \in Nat \ {0} /\ n \in Nat
  <2>1. Number(l, k) \in 0..Numbers(l) - 1 /\ Numbers(l) \in Nat \ {0}
    BY OneNumber
  <2> QED
    BY <1>6, <2>1, SizeNat
<1>8. PICK c : c = Pick(l.count, l.select)
  OBVIOUS
<1>9. l.layout = "contiguous" => c = Pick(Team(l), l.select)
  <2>1. SUFFICES ASSUME l.layout = "contiguous" PROVE c = Pick(Team(l), l.select)
    OBVIOUS
  <2>2. Folded(l) = {}
    BY <2>1 DEF SharedOut
  <2>3. \A d \in Selected(l) : Team(l)[d] = l.count[d]
    BY <2>2, InTeam
  <2> QED
    BY <1>8, <2>3 DEF Pick, Selected
<1>10. PICK b : b = FlatBegin(s, t)
  OBVIOUS
<1>11. b.step = IF l.layout = "strided" THEN u ELSE 1
  BY <1>4, <1>5, <1>6, <1>10 DEF FlatBegin, Numbers
<1>12. b.current = IF l.layout = "strided" THEN w
                   ELSE SlotBegin(Linearize(c, Pick(Mine(l, k), l.select)), n, Product(c))
  BY <1>4, <1>5, <1>6, <1>8, <1>10 DEF FlatBegin, Number, Size
<1>13. b.current = IF l.layout = "strided" THEN w ELSE SlotBegin(w, n, u)
  <2>1. CASE l.layout = "strided"
    BY <1>12, <2>1
  <2>2. CASE l.layout # "strided"
    <3>1. c = Pick(Team(l), l.select)
      BY <1>9, <2>2 DEF WellFormed
    <3>2. Linearize(c, Pick(Mine(l, k), l.select)) = w /\ Product(c) = u
      BY <1>6, <3>1 DEF Number, Numbers
    <3> QED
      BY <1>12, <2>2, <3>2
  <2> QED
    BY <2>1, <2>2
<1>14. PICK e : e = FlatEnd(s, t)
  OBVIOUS
<1>15. e = IF l.layout = "strided" THEN n ELSE Less(SlotBegin(w + 1, n, u), n)
  BY <1>4, <1>5, <1>6, <1>14 DEF FlatEnd, Number, Numbers, Size, WellFormed
<1>16. loop.iter = b /\ loop.end = e
  BY <1>2, <1>3, <1>10, <1>14 DEF Loop
<1> QED
  BY <1>3, <1>6, <1>11, <1>13, <1>15, <1>16

\* They are among what the thread has.
LEMMA FlatRound ==
    ASSUME NEW l, WellFormed(l), SharedOut(l), NEW s, Part(l, s), NEW k \in 0..Workers(l) - 1,
           Flat(l)
    PROVE  Loop(s, Thread(l, k)) \in FlatRounds(l, s, k)
<1>1. PICK loop : loop = Loop(s, Thread(l, k))
  OBVIOUS
<1>2. PICK w, u, n : w = Number(l, k) /\ u = Numbers(l) /\ n = Size(s)
  OBVIOUS
<1>3. w \in Nat /\ u \in Nat \ {0} /\ n \in Nat
  <2>1. Number(l, k) \in 0..Numbers(l) - 1 /\ Numbers(l) \in Nat \ {0}
    BY OneNumber
  <2> QED
    BY <1>2, <2>1, SizeNat
<1>4. /\ loop \in FlatLoops(s) /\ loop.iter.step = IF l.layout = "strided" THEN u ELSE 1
      /\ loop.iter.current = IF l.layout = "strided" THEN w ELSE SlotBegin(w, n, u)
      /\ loop.end = IF l.layout = "strided" THEN n ELSE Less(SlotBegin(w + 1, n, u), n)
  BY <1>1, <1>2, FlatBounds
<1>5. Starts(l, w, u, n, loop.iter.current)
  <2>1. CASE l.layout = "strided"
    <3>1. w = w + u * 0 /\ 0 \in Nat
      BY <1>3
    <3> QED
      BY <1>4, <2>1, <3>1 DEF Starts
  <2>2. CASE l.layout # "strided"
    <3>1. SlotBegin(w, n, u) \in Nat
      BY <1>3, SlotNat
    <3>2. SlotBegin(w, n, u) <= SlotBegin(w, n, u)
      BY <3>1
    <3> QED
      BY <1>4, <2>2, <3>2 DEF Starts
  <2> QED
    BY <2>1, <2>2
<1>6. l.layout = "contiguous" => loop.end <= SlotBegin(w + 1, n, u)
  <2>1. w + 1 \in Nat
    BY <1>3
  <2>2. SlotBegin(w + 1, n, u) \in Nat
    BY <1>3, <2>1, SlotNat
  <2> QED
    BY <1>3, <1>4, <2>2 DEF Less
<1> QED
  BY <1>1, <1>2, <1>4, <1>5, <1>6 DEF FlatRounds

\* The quotient grows with the dividend.
LEMMA QuotientGrows ==
    ASSUME NEW a \in Nat, NEW b \in Nat, NEW m \in Nat \ {0}, a <= b
    PROVE  a \div m <= b \div m
<1>1. PICK p \in Nat, r \in Nat : p = a \div m /\ r = a % m /\ a = m * p + r
  BY Division
<1>2. PICK q \in Nat, v \in Nat : q = b \div m /\ v = b % m /\ b = m * q + v /\ v < m
  BY Division
<1>3. SUFFICES ASSUME q < p PROVE FALSE
  BY <1>1, <1>2
<1>4. q * m + v < p * m
  BY <1>2, <1>3, DigitsBelow
<1>5. PICK y \in Nat, z \in Nat : y = m * p /\ z = m * q /\ p * m = y /\ q * m = z
  BY TimesNat
<1> QED
  BY <1>1, <1>2, <1>4, <1>5

\* A part has not more indices than the range.
LEMMA PartIsSmaller ==
    ASSUME NEW l, WellFormed(l), SharedOut(l), Flat(l), NEW s, Part(l, s)
    PROVE  Size(s) \in Nat /\ Size(s) <= Size(l)
<1>1. PICK n, D : n \in Nat /\ n = Len(l.select) /\ D = Dims(l.begin) /\ l.select \in [1..n -> D]
  BY Fields
<1>2. Part(l, l)
  BY Whole
<1>3. Dims(s.begin) = D
  <2>1. PICK b \in Nat : b = Len(l.begin) /\ Dims(l.begin) = 1..b
    BY Fields
  <2>2. s.begin \in [1..b -> Nat]
    BY <2>1 DEF Part
  <2> QED
    BY <1>1, <2>1, <2>2, Vector
<1>4. /\ Extents(s) \in [D -> Nat] /\ Distance(s) \in [D -> Nat]
      /\ \A d \in D : s.begin[d] + Distance(s)[d] = s.end[d]
  BY <1>1, ExtentsOfPart
<1>5. /\ Extents(l) \in [D -> Nat] /\ Distance(l) \in [D -> Nat]
      /\ \A d \in D : l.begin[d] + Distance(l)[d] = l.end[d]
  BY <1>1, <1>2, ExtentsOfPart
<1>6. ASSUME NEW d \in D PROVE Extents(s)[d] <= Extents(l)[d]
  <2>1. PICK m \in Nat \ {0}, a \in Nat, b \in Nat, e \in Nat :
           m = l.stride[d] /\ a = Distance(s)[d] /\ b = Distance(l)[d] /\ e = l.end[d]
    BY <1>1, <1>4, <1>5, Fields
  <2>2. Extents(s)[d] = DivCeil(a, m) /\ Extents(l)[d] = DivCeil(b, m)
    BY <1>1, <1>3, <2>1 DEF Extents, Part
  <2>3. PICK f \in Nat, g \in Nat, h \in Nat : f = s.begin[d] /\ g = s.end[d] /\ h = l.begin[d]
    BY <1>1, Fields DEF Part
  <2>4. h <= f /\ f <= g /\ g <= e
    BY <1>1, <2>1, <2>3 DEF Part
  <2>5. f + a = g /\ h + b = e
    BY <1>4, <1>5, <2>1, <2>3
  <2>6. e + m <= Modulus
    BY <1>1, <2>1 DEF SharedOut
  <2>7. Modulus \in Nat
    BY IdxMapAssumption
  <2>8. PICK x \in Nat, y \in Nat : x = a + m - 1 /\ y = b + m - 1 /\ x <= y /\ y < Modulus
    BY <2>4, <2>5, <2>6, <2>7
  <2>9. Wrap(x) = x /\ Wrap(y) = y
    BY <2>7, <2>8 DEF Wrap
  <2>10. Extents(s)[d] = x \div m /\ Extents(l)[d] = y \div m
    BY <2>2, <2>8, <2>9 DEF DivCeil
  <2> QED
    BY <2>8, <2>10, QuotientGrows
<1>7. PICK v, w : v = Pick(Extents(s), l.select) /\ w = Pick(Extents(l), l.select)
  OBVIOUS
<1>8. v \in Seq(Nat) /\ Len(v) = n /\ w \in Seq(Nat) /\ Len(w) = n
  BY <1>1, <1>4, <1>5, <1>7, PickVector
<1>9. \A i \in 1..n : v[i] = Extents(s)[l.select[i]] /\ w[i] = Extents(l)[l.select[i]]
  BY <1>1, <1>7 DEF Pick, Dims
<1>10. \A i \in Dims(v) : v[i] <= w[i]
  BY <1>1, <1>6, <1>8, <1>9 DEF Dims
<1>11. Product(v) \in Nat /\ Product(v) <= Product(w)
  BY <1>8, <1>10, ProductLess, ProductNat
<1> QED
  BY <1>7, <1>11 DEF Size, Part

\* ++ of a flat iterator that is not at the end goes on to a number behind, and does not wrap
\* around.
LEMMA FlatRoundStep ==
    ASSUME NEW l, WellFormed(l), SharedOut(l), NEW s, Part(l, s), NEW k \in 0..Workers(l) - 1,
           Flat(l), NEW loop \in FlatRounds(l, s, k), ~AtEnd(l, loop)
    PROVE  /\ Increment(l, loop) \in FlatRounds(l, s, k)
           /\ Increment(l, loop).iter.current > loop.iter.current
<1>1. PICK w, u, n : w = Number(l, k) /\ u = Numbers(l) /\ n = Size(s)
  OBVIOUS
<1>2. w \in Nat /\ u \in Nat \ {0} /\ n \in Nat
  <2>1. Number(l, k) \in 0..Numbers(l) - 1 /\ Numbers(l) \in Nat \ {0}
    BY OneNumber
  <2> QED
    BY <1>1, <2>1, SizeNat
<1>3. loop \in FlatLoops(s) /\ Flat(s)
  BY DEF FlatRounds, Part, Flat
<1>4. Increment(l, loop) = Increment(s, loop)
  BY <1>3 DEF Increment
<1>5. Increment(l, loop) \in FlatLoops(s)
  BY <1>3, <1>4, FlatStep
<1>6. PICK c \in Nat : c = loop.iter.current /\ c < n
  <2>1. loop.iter.current \in Nat /\ loop.iter.current < Product(Pick(Extents(s), l.select))
    BY <1>3, FlatPoint
  <2> QED
    BY <1>1, <2>1 DEF Size, Part
<1>7. PICK st \in Nat \ {0} : st = IF l.layout = "strided" THEN u ELSE 1
  BY <1>2
<1>8. loop.iter.step = st /\ Starts(l, w, u, n, c)
  BY <1>1, <1>6, <1>7 DEF FlatRounds
<1>9. c + st < Modulus /\ Modulus \in Nat \ {0}
  <2>1. FlatBegin(l, Thread(l, 0)).step = st
    <3>1. 0 \in 0..Workers(l) - 1
      <4>1. Workers(l) \in Nat \ {0}
        BY Threads
      <4> QED
        BY <4>1
    <3>2. Part(l, l)
      BY Whole
    <3>3. MapTo(l, Thread(l, 0)) = [idx |-> Mine(l, 0), num |-> Team(l)]
      BY <3>1, <3>2, InTeam
    <3> QED
      BY <1>1, <1>7, <3>3 DEF FlatBegin, Numbers
  <2>2. Size(l) + st <= Modulus
    BY <2>1 DEF SharedOut, Size
  <2>3. Size(s) \in Nat /\ Size(s) <= Size(l) /\ Size(l) \in Nat
    BY Whole, PartIsSmaller
  <2>4. Modulus \in Nat \ {0}
    BY IdxMapAssumption
  <2> QED
    BY <1>1, <1>6, <2>2, <2>3, <2>4
<1>10. Wrap(c + st) = c + st /\ c + st > c
  <2>1. c + st \in Nat
    OBVIOUS
  <2> QED
    BY <1>9, <2>1 DEF Wrap
<1>11. /\ Increment(l, loop).iter.current = c + st
       /\ Increment(l, loop).iter.step = st
       /\ Increment(l, loop).end = loop.end
  <2>1. loop.iter \in [offset : {s.begin}, extent : {Pick(Extents(s), s.select)},
                       current : Nat, step : Nat]
    BY <1>3 DEF FlatLoops
  <2>2. PICK i : i = FlatNext(loop.iter)
    OBVIOUS
  <2>3. i.current = c + st /\ i.step = st
    BY <1>6, <1>8, <1>10, <2>1, <2>2 DEF FlatNext
  <2>4. Increment(l, loop).iter = i /\ Increment(l, loop).end = loop.end
    BY <1>3, <2>2 DEF Increment, FlatLoops
  <2> QED
    BY <2>3, <2>4
<1>12. Starts(l, w, u, n, c + st)
  BY <1>2, <1>7, <1>8, StartsOn
<1>13. l.layout = "contiguous" => loop.end <= SlotBegin(w + 1, n, u)
  BY <1>1 DEF FlatRounds
<1> QED
  BY <1>1, <1>5, <1>6, <1>7, <1>10, <1>11, <1>12, <1>13 DEF FlatRounds

\* The same in components.
LEMMA ComponentsOnce ==
    ASSUME NEW e \in Seq(Nat \ {0}), NEW j \in Nat, NEW k \in Nat, j < Product(e), k < Product(e),
           \A i \in 1..Len(e) : MapToND(e, j)[i] = MapToND(e, k)[i]
    PROVE  j = k
<1>1. PICK v, w : v = MapToND(e, j) /\ w = MapToND(e, k)
  OBVIOUS
<1>2. v \in [1..Len(e) -> Nat] /\ w \in [1..Len(e) -> Nat]
  BY <1>1, MapToNDInRange
<1>3. \A i \in 1..Len(e) : v[i] = w[i]
  BY <1>1
<1>4. v = w
  BY <1>2, <1>3
<1> QED
  BY <1>1, <1>4, MapToNDOnce

\* Loops over the same part of a range that point to the same index are those of one thread, at
\* the same number.
LEMMA FlatOnce ==
    ASSUME NEW l, WellFormed(l), SharedOut(l), NEW s, Part(l, s), Flat(l),
           NEW j \in 0..Workers(l) - 1, NEW k \in 0..Workers(l) - 1,
           NEW a \in FlatRounds(l, s, j), NEW b \in FlatRounds(l, s, k),
           ~AtEnd(l, a), ~AtEnd(l, b), Index(l, a) = Index(l, b)
    PROVE  j = k /\ a.iter.current = b.iter.current
<1>1. PICK n, D, e : /\ n \in Nat /\ n = Len(l.select) /\ D = Dims(l.begin)
                     /\ l.select \in [1..n -> D] /\ e = Pick(Extents(s), l.select)
  BY Fields
<1>2. a \in FlatLoops(s) /\ b \in FlatLoops(s)
  BY DEF FlatRounds
<1>3. PICK p \in Nat : p = a.iter.current /\ p < Product(e)
  BY <1>1, <1>2, FlatPoint
<1>4. PICK q \in Nat : q = b.iter.current /\ q < Product(e)
  BY <1>1, <1>2, FlatPoint
<1>5. e \in Seq(Nat \ {0}) /\ Len(e) = n
  BY <1>1, <1>2, FlatPoint
<1>6. ASSUME NEW i \in 1..n PROVE MapToND(e, p)[i] = MapToND(e, q)[i]
  <2>1. PICK d \in D : d = l.select[i]
    BY <1>1
  <2>2. /\ Index(l, a)[d] = s.begin[d] + l.stride[d] * MapToND(e, p)[i]
        /\ Index(l, b)[d] = s.begin[d] + l.stride[d] * MapToND(e, q)[i]
    BY <1>1, <1>2, <1>3, <1>4, <2>1, FlatPoint
  <2>3. PICK x \in Nat, y \in Nat : x = MapToND(e, p)[i] /\ y = MapToND(e, q)[i]
    BY <1>5, MapToNDInRange
  <2>4. PICK m \in Nat \ {0}, f \in Nat : m = l.stride[d] /\ f = s.begin[d]
    BY <1>1, Fields DEF Part
  <2>5. f + m * x = f + m * y
    BY <2>2, <2>3, <2>4
  <2>6. x < y => x * m + 0 < y * m
    BY <2>4, DigitsBelow
  <2>7. y < x => y * m + 0 < x * m
    BY <2>4, DigitsBelow
  <2>8. PICK v \in Nat, w \in Nat : v = m * x /\ w = m * y /\ x * m = v /\ y * m = w
    BY TimesNat
  <2>9. x = y
    BY <2>5, <2>6, <2>7, <2>8
  <2> QED
    BY <2>3, <2>9
<1>7. \A i \in 1..Len(e) : MapToND(e, p)[i] = MapToND(e, q)[i]
  BY <1>5, <1>6
<1>8. p = q
  BY <1>3, <1>4, <1>5, <1>7, ComponentsOnce
<1>9. PICK x \in Nat, y \in Nat, u \in Nat \ {0}, z \in Nat :
         /\ x = Number(l, j) /\ y = Number(l, k) /\ u = Numbers(l) /\ z = Size(s)
         /\ x \in 0..u - 1 /\ y \in 0..u - 1
  <2>1. /\ Number(l, j) \in 0..Numbers(l) - 1 /\ Number(l, k) \in 0..Numbers(l) - 1
        /\ Numbers(l) \in Nat \ {0}
    BY OneNumber
  <2>2. Number(l, j) \in Nat /\ Number(l, k) \in Nat
    BY <2>1
  <2> QED
    BY <2>1, <2>2, SizeNat
<1>10. Starts(l, x, u, z, p) /\ Ends(l, x, u, z, p)
  <2>1. l.layout = "contiguous" => a.end <= SlotBegin(x + 1, z, u)
    BY <1>9 DEF FlatRounds
  <2>2. SlotBegin(x + 1, z, u) \in Nat
    <3>1. x + 1 \in Nat
      BY <1>9
    <3> QED
      BY <1>9, <3>1, SlotNat
  <2>3. p < a.end /\ a.end \in Nat
    <3>1. a.end \in Nat
      <4>1. Product(e) \in Nat
        BY <1>5, ProductNat
      <4> QED
        BY <1>1, <1>2, <4>1 DEF FlatLoops, Part
    <3> QED
      BY <1>3, <3>1 DEF AtEnd
  <2> QED
    BY <1>3, <1>9, <2>1, <2>2, <2>3 DEF FlatRounds, Ends
<1>11. Starts(l, y, u, z, p) /\ Ends(l, y, u, z, p)
  <2>1. l.layout = "contiguous" => b.end <= SlotBegin(y + 1, z, u)
    BY <1>9 DEF FlatRounds
  <2>2. SlotBegin(y + 1, z, u) \in Nat
    <3>1. y + 1 \in Nat
      BY <1>9
    <3> QED
      BY <1>9, <3>1, SlotNat
  <2>3. p < b.end /\ b.end \in Nat
    <3>1. b.end \in Nat
      <4>1. Product(e) \in Nat
        BY <1>5, ProductNat
      <4> QED
        BY <1>1, <1>2, <4>1 DEF FlatLoops, Part
    <3> QED
      BY <1>4, <1>8, <3>1 DEF AtEnd
  <2> QED
    BY <1>4, <1>8, <1>9, <2>1, <2>2, <2>3 DEF FlatRounds, Ends
<1>12. x = y
  <2>1. l.layout \in {"strided", "contiguous"}
    BY DEF WellFormed
  <2> QED
    BY <1>9, <1>10, <1>11, <2>1, OneOwner
<1>13. j = k
  BY <1>9, <1>12, OneNumber
<1> QED
  BY <1>3, <1>4, <1>8, <1>13

-----------------------------------------------------------------------------
(* Tiled loops of a thread.                                                *)

\* y is, in dimension d, not before the indices of a part of the range that thread k has.
Has(l, s, k, d, y) ==
    \E q \in Nat : /\ y = s.begin[d] + l.stride[d] * q
                   /\ Starts(l, Mine(l, k)[d], Team(l)[d], Extents(s)[d], q)

\* The iterator of thread k in dimension d, the i-th of the selected ones.
Bounded(l, s, k, i, d, iter) ==
    /\ Has(l, s, k, d, iter.first[i])
    /\ iter.step[i] = l.stride[d] * (IF l.layout = "strided" THEN Team(l)[d] ELSE 1)
    /\ l.layout = "contiguous" =>
          iter.extent[i] <= s.begin[d]
                            + l.stride[d] * SlotBegin(Mine(l, k)[d] + 1, Extents(s)[d], Team(l)[d])

\* The loops of thread k over a part of a range that is traversed tiled.
TiledRounds(l, s, k) ==
    {loop \in TiledLoops(l, s) :
        /\ \A i \in 1..Len(l.select) : Bounded(l, s, k, i, l.select[i], loop.iter)
        /\ \/ AtEnd(l, loop)
           \/ \A i \in 1..Len(l.select) :
                 Has(l, s, k, l.select[i], loop.iter.current[l.select[i]])}

\* The numbers of a dimension of a part of a range.
LEMMA Scale ==
    ASSUME NEW l, WellFormed(l), SharedOut(l), NEW s, Part(l, s), NEW k \in 0..Workers(l) - 1,
           NEW d \in Dims(l.begin)
    PROVE  /\ s.begin[d] \in Nat /\ l.stride[d] \in Nat \ {0}
           /\ Mine(l, k)[d] \in 0..Team(l)[d] - 1 /\ Mine(l, k)[d] \in Nat
           /\ Team(l)[d] \in Nat \ {0} /\ Extents(s)[d] \in Nat
           /\ Distance(s)[d] \in Nat
<1>1. s.begin[d] \in Nat /\ l.stride[d] \in Nat \ {0}
  BY Fields DEF Part
<1>2. /\ Mine(l, k) \in [Dims(l.begin) -> Nat] /\ Team(l) \in [Dims(l.begin) -> Nat \ {0}]
      /\ \A c \in Dims(l.begin) : Mine(l, k)[c] < Team(l)[c]
  BY InTeam
<1>3. PICK a \in Nat, b \in Nat \ {0} : a = Mine(l, k)[d] /\ b = Team(l)[d] /\ a < b
  BY <1>2
<1>4. Extents(s)[d] \in Nat /\ Distance(s)[d] \in Nat
  BY ExtentsOfPart
<1> QED
  BY <1>1, <1>3, <1>4

\* One more step in a dimension.
LEMMA HasNext ==
    ASSUME NEW l, WellFormed(l), SharedOut(l), NEW s, Part(l, s), NEW k \in 0..Workers(l) - 1,
           NEW d \in Dims(l.begin), NEW y, Has(l, s, k, d, y)
    PROVE  LET step == l.stride[d] * (IF l.layout = "strided" THEN Team(l)[d] ELSE 1)
           IN  y \in Nat /\ step \in Nat \ {0} /\ Has(l, s, k, d, y + step)
<1>1. PICK b \in Nat, m \in Nat \ {0}, v \in Nat, u \in Nat \ {0}, n \in Nat :
         /\ b = s.begin[d] /\ m = l.stride[d] /\ v = Mine(l, k)[d] /\ u = Team(l)[d]
         /\ n = Extents(s)[d]
  BY Scale
<1>2. PICK q \in Nat : y = b + m * q /\ Starts(l, v, u, n, q)
  BY <1>1 DEF Has
<1>3. PICK p \in Nat \ {0} : p = IF l.layout = "strided" THEN u ELSE 1
  BY <1>1
<1>4. Starts(l, v, u, n, q + p)
  BY <1>1, <1>2, <1>3, StartsOn
<1>5. m * q \in Nat /\ m * p \in Nat \ {0} /\ m * (q + p) = m * q + m * p /\ q + p \in Nat
  <2>1. m * q \in Nat /\ m * p \in Nat /\ m * p # 0
    BY TimesNat
  <2> QED
    BY <2>1
<1>6. y \in Nat /\ y + m * p = b + m * (q + p)
  BY <1>2, <1>5
<1>7. Has(l, s, k, d, y + m * p)
  BY <1>1, <1>4, <1>5, <1>6 DEF Has
<1> QED
  BY <1>1, <1>3, <1>5, <1>6, <1>7

\* The first index of thread k in dimension d, and where its indices end.
FirstOf(l, s, k, d) ==
    s.begin[d] + l.stride[d] * (IF l.layout = "strided" THEN Mine(l, k)[d]
                                ELSE SlotBegin(Mine(l, k)[d], Extents(s)[d], Team(l)[d]))

LastOf(l, s, k, d) ==
    s.begin[d] + (IF l.layout = "strided" THEN Distance(s)[d]
                  ELSE Less(Distance(s)[d],
                            l.stride[d] * SlotBegin(Mine(l, k)[d] + 1, Extents(s)[d], Team(l)[d])))

\* begin() and end() of a thread.
LEMMA TiledBounds ==
    ASSUME NEW l, WellFormed(l), SharedOut(l), NEW s, Part(l, s), NEW k \in 0..Workers(l) - 1,
           ~Flat(l), NEW loop, loop = Loop(s, Thread(l, k))
    PROVE  /\ loop \in TiledLoops(l, s)
           /\ \A i \in 1..Len(l.select) :
                 /\ loop.iter.first[i] = FirstOf(l, s, k, l.select[i])
                 /\ loop.iter.extent[i] = LastOf(l, s, k, l.select[i])
                 /\ loop.iter.step[i] =
                       l.stride[l.select[i]]
                       * (IF l.layout = "strided" THEN Team(l)[l.select[i]] ELSE 1)
           /\ IF \A i \in 2..Len(l.select) : loop.iter.first[i] < loop.iter.extent[i]
              THEN \A i \in 1..Len(l.select) : loop.iter.current[l.select[i]] = loop.iter.first[i]
              ELSE AtEnd(l, loop)
<1>1. PICK n, D, sel :
         /\ n \in Nat \ {0} /\ n = Len(l.select) /\ Dims(l.select) = 1..n
         /\ D = Dims(l.begin) /\ sel = l.select /\ sel \in [1..n -> D]
  BY Fields
<1>2. PICK t : t = Thread(l, k) /\ t \in Box(l)
  BY Threads
<1>3. t \in [D -> Nat]
  BY <1>1, <1>2 DEF Box
<1>4. loop \in TiledLoops(l, s)
  BY <1>1, <1>2, <1>3, TiledLoop
<1>5. PICK m : m = [idx |-> Mine(l, k), num |-> Team(l)] /\ m = MapTo(s, t)
  BY <1>2, InTeam
<1>6. s.select = sel /\ s.count = l.count /\ s.stride = l.stride /\ s.layout = l.layout /\ ~Flat(s)
  BY <1>1 DEF Part, Flat
<1>7. Dims(t) = D /\ Dims(m.idx) = D
  <2>1. PICK b \in Nat : b = Len(l.begin) /\ Dims(l.begin) = 1..b
    BY Fields
  <2>2. Mine(l, k) \in [D -> Nat]
    BY <1>1, InTeam
  <2>3. t \in [1..b -> Nat] /\ m.idx \in [1..b -> Nat]
    BY <1>1, <1>3, <1>5, <2>1, <2>2
  <2>4. Dims(t) = 1..b /\ Dims(m.idx) = 1..b
    BY <2>3, Vector
  <2> QED
    BY <1>1, <2>1, <2>4
<1> DEFINE First(d) == l.stride[d] * (IF l.layout = "strided" THEN m.idx[d]
                                      ELSE SlotBegin(m.idx[d], Extents(s)[d], m.num[d]))
           Last(d) == IF l.layout = "strided" THEN Distance(s)[d]
                      ELSE Less(Distance(s)[d],
                                l.stride[d] * SlotBegin(m.idx[d] + 1, Extents(s)[d], m.num[d]))
           Step(d) == l.stride[d] * (IF l.layout = "strided" THEN m.num[d] ELSE 1)
<1>8. PICK f, z : f = [d \in D |-> First(d)] /\ z = [d \in D |-> Last(d)]
  OBVIOUS
<1>9. f = TiledFirst(s, m) /\ z = TiledLast(s, m)
  BY <1>6, <1>7, <1>8 DEF TiledFirst, TiledLast
<1>10. PICK first, last : /\ first = [d \in D |-> s.begin[d] + f[d]]
                          /\ last = [d \in D |-> s.begin[d] + z[d]]
  OBVIOUS
<1>11. PICK cur : cur = IF \A i \in 2..n : first[sel[i]] < last[sel[i]] THEN first
                        ELSE [first EXCEPT ![sel[1]] = last[sel[1]]]
  OBVIOUS
<1>12. PICK st : st = [i \in 1..n |-> Step(sel[i])]
  OBVIOUS
<1>13. PICK iter : iter = [first |-> Pick(first, sel), extent |-> Pick(last, sel), step |-> st,
                           current |-> cur]
  OBVIOUS
<1>14. TiledBegin(s, t) = iter
  <2>1. /\ [d \in Dims(t) |-> s.begin[d] + TiledFirst(s, m)[d]] = first
        /\ [d \in Dims(t) |-> s.begin[d] + TiledLast(s, m)[d]] = last
    BY <1>7, <1>9, <1>10
  <2>2. [i \in Dims(s.select) |->
            s.stride[s.select[i]]
            * (IF s.layout = "strided" THEN m.num[s.select[i]] ELSE 1)] = st
    BY <1>1, <1>6, <1>12
  <2>3. 2..Len(s.select) = 2..n /\ s.select = sel
    BY <1>1, <1>6
  <2> QED
    BY <1>5, <1>11, <1>13, <2>1, <2>2, <2>3 DEF TiledBegin
<1>15. loop.iter = iter
  <2>1. Loop(s, t) = [iter |-> TiledBegin(s, t), end |-> TiledEnd(s, t)]
    BY <1>6 DEF Loop
  <2>2. Loop(s, t).iter = iter
    BY <1>14, <2>1
  <2> QED
    BY <1>2, <2>2
<1>16. TiledEnd(s, t) = last[sel[1]]
  <2>1. sel[1] \in D
    BY <1>1
  <2> QED
    BY <1>5, <1>6, <1>9, <1>10, <2>1 DEF TiledEnd
<1>17. loop.end = last[sel[1]]
  BY <1>2, <1>6, <1>16 DEF Loop
<1> HIDE DEF First, Last, Step
<1>18. ASSUME NEW i \in 1..n
       PROVE  /\ iter.first[i] = first[sel[i]] /\ iter.extent[i] = last[sel[i]]
              /\ first[sel[i]] = FirstOf(l, s, k, sel[i]) /\ last[sel[i]] = LastOf(l, s, k, sel[i])
              /\ iter.step[i] = l.stride[sel[i]]
                                * (IF l.layout = "strided" THEN Team(l)[sel[i]] ELSE 1)
  <2>1. PICK d \in D : d = sel[i]
    BY <1>1
  <2>2. iter.first[i] = first[d] /\ iter.extent[i] = last[d]
    BY <1>1, <1>13, <2>1 DEF Pick
  <2>3. iter.step[i] = l.stride[d] * (IF l.layout = "strided" THEN Team(l)[d] ELSE 1)
    BY <1>5, <1>12, <1>13, <2>1 DEF Step
  <2>4. first[d] = FirstOf(l, s, k, d)
    BY <1>5, <1>8, <1>10 DEF First, FirstOf
  <2>5. last[d] = LastOf(l, s, k, d)
    BY <1>5, <1>8, <1>10 DEF Last, LastOf
  <2> QED
    BY <2>1, <2>2, <2>3, <2>4, <2>5
<1>19. CASE \A i \in 2..n : iter.first[i] < iter.extent[i]
  <2>1. iter.current = first
    <3>1. \A i \in 2..n : i \in 1..n
      OBVIOUS
    <3>2. \A i \in 2..n : first[sel[i]] < last[sel[i]]
      BY <1>18, <1>19, <3>1
    <3> QED
      BY <1>11, <1>13, <3>2
  <2>2. \A i \in 1..n : iter.current[sel[i]] = iter.first[i]
    BY <1>18, <2>1
  <2> QED
    BY <1>1, <1>4, <1>15, <1>18, <1>19, <2>2
<1>20. CASE ~\A i \in 2..n : iter.first[i] < iter.extent[i]
  <2>1. cur[sel[1]] = last[sel[1]]
    <3>1. sel[1] \in D /\ \A i \in 2..n : i \in 1..n
      BY <1>1
    <3>2. ~\A i \in 2..n : first[sel[i]] < last[sel[i]]
      BY <1>18, <1>20, <3>1
    <3> QED
      BY <1>10, <1>11, <3>1, <3>2
  <2>2. loop.iter.current[l.select[1]] = loop.end
    BY <1>1, <1>13, <1>15, <1>17, <2>1
  <2>3. loop.end \in Nat
    BY <1>4 DEF TiledLoops
  <2>4. AtEnd(l, loop)
    BY <2>2, <2>3 DEF AtEnd
  <2> QED
    BY <1>1, <1>4, <1>15, <1>18, <1>20, <2>4
<1> QED
  BY <1>19, <1>20

\* They are among what the thread has.
LEMMA TiledRound ==
    ASSUME NEW l, WellFormed(l), SharedOut(l), NEW s, Part(l, s), NEW k \in 0..Workers(l) - 1,
           ~Flat(l)
    PROVE  Loop(s, Thread(l, k)) \in TiledRounds(l, s, k)
<1>1. PICK n, D, sel :
         /\ n \in Nat \ {0} /\ n = Len(l.select) /\ Dims(l.select) = 1..n
         /\ D = Dims(l.begin) /\ sel = l.select /\ sel \in [1..n -> D]
  BY Fields
<1>2. PICK loop : loop = Loop(s, Thread(l, k))
  OBVIOUS
<1>3. ASSUME NEW d \in D
      PROVE  /\ Has(l, s, k, d, FirstOf(l, s, k, d))
             /\ l.layout = "contiguous" =>
                   LastOf(l, s, k, d) <= s.begin[d]
                      + l.stride[d] * SlotBegin(Mine(l, k)[d] + 1, Extents(s)[d], Team(l)[d])
  <2>1. PICK b \in Nat, a \in Nat \ {0}, v \in Nat, u \in Nat \ {0}, x \in Nat, y \in Nat :
           /\ b = s.begin[d] /\ a = l.stride[d] /\ v = Mine(l, k)[d] /\ u = Team(l)[d]
           /\ x = Extents(s)[d] /\ y = Distance(s)[d]
    BY <1>1, Scale
  <2>2. SlotBegin(v, x, u) \in Nat /\ SlotBegin(v + 1, x, u) \in Nat
    <3>1. v + 1 \in Nat
      OBVIOUS
    <3> QED
      BY <3>1, SlotNat
  <2>3. PICK q \in Nat : q = IF l.layout = "strided" THEN v ELSE SlotBegin(v, x, u)
    BY <2>2
  <2>4. FirstOf(l, s, k, d) = b + a * q
    BY <2>1, <2>3 DEF FirstOf
  <2>5. Starts(l, v, u, x, q)
    <3>1. CASE l.layout = "strided"
      <4>1. q = v + u * 0 /\ 0 \in Nat
        BY <2>1, <2>3, <3>1
      <4> QED
        BY <3>1, <4>1 DEF Starts
    <3>2. CASE l.layout # "strided"
      BY <2>2, <2>3, <3>2 DEF Starts
    <3> QED
      BY <3>1, <3>2
  <2>6. Has(l, s, k, d, FirstOf(l, s, k, d))
    BY <2>1, <2>4, <2>5 DEF Has
  <2>7. PICK g \in Nat : g = a * SlotBegin(v + 1, x, u)
    BY <2>2, TimesNat
  <2>8. l.layout = "contiguous" => LastOf(l, s, k, d) = b + Less(y, g)
    BY <2>1, <2>7 DEF LastOf
  <2>9. b + Less(y, g) <= b + g
    BY DEF Less
  <2> QED
    BY <2>1, <2>6, <2>7, <2>8, <2>9
<1>4. ASSUME NEW i \in 1..n
      PROVE  /\ loop.iter.first[i] = FirstOf(l, s, k, sel[i])
             /\ loop.iter.extent[i] = LastOf(l, s, k, sel[i])
             /\ loop.iter.step[i] = l.stride[sel[i]]
                                    * (IF l.layout = "strided" THEN Team(l)[sel[i]] ELSE 1)
  BY <1>1, <1>2, TiledBounds
<1>5. ASSUME NEW i \in 1..n PROVE Bounded(l, s, k, i, sel[i], loop.iter)
  <2>1. PICK d \in D : d = sel[i]
    BY <1>1
  <2> QED
    BY <1>3, <1>4, <2>1 DEF Bounded
<1>6. AtEnd(l, loop) \/ \A i \in 1..n : Has(l, s, k, sel[i], loop.iter.current[sel[i]])
  <2>1. AtEnd(l, loop) \/ \A i \in 1..n : loop.iter.current[sel[i]] = loop.iter.first[i]
    BY <1>1, <1>2, TiledBounds
  <2>2. \A i \in 1..n : sel[i] \in D
    BY <1>1
  <2> QED
    BY <1>3, <1>4, <2>1, <2>2
<1>7. loop \in TiledLoops(l, s)
  BY <1>2, TiledBounds
<1> QED
  BY <1>1, <1>2, <1>5, <1>6, <1>7 DEF TiledRounds

\* Loop a is at an earlier index than loop b.
Precedes(l, a, b) ==
    IF Flat(l) THEN a.iter.current < b.iter.current
    ELSE \E c \in 1..Len(l.select) :
            /\ a.iter.current[l.select[c]] < b.iter.current[l.select[c]]
            /\ \A k \in 1..c - 1 : a.iter.current[l.select[k]] = b.iter.current[l.select[k]]

\* ++ of a tiled iterator that is not at the end goes on to an index of the thread behind.
LEMMA TiledRoundStep ==
    ASSUME NEW l, WellFormed(l), SharedOut(l), NEW s, Part(l, s), NEW k \in 0..Workers(l) - 1,
           ~Flat(l), NEW loop \in TiledRounds(l, s, k), ~AtEnd(l, loop)
    PROVE  /\ Increment(l, loop) \in TiledRounds(l, s, k)
           /\ Precedes(l, loop, Increment(l, loop))
<1>1. PICK n, D, sel :
         /\ n \in Nat \ {0} /\ n = Len(l.select)
         /\ D = Dims(l.begin) /\ sel = l.select /\ sel \in [1..n -> D]
  BY Fields
<1>2. loop \in TiledLoops(l, s)
  BY DEF TiledRounds
<1>3. PICK i : i = loop.iter /\ i \in TiledIters(l)
  BY <1>2 DEF TiledLoops
<1>4. Increment(l, loop) \in TiledLoops(l, s)
  BY <1>2, TiledStep
<1>5. PICK j : j = Increment(l, loop).iter
  OBVIOUS
<1>6. Advanced(l, i, j)
  BY <1>2, <1>3, <1>5, TiledAdvance
<1>7. PICK c \in 1..n :
         \A m \in 1..n : j.current[sel[m]] = IF m = c THEN i.current[sel[m]] + i.step[m]
                                             ELSE IF m > c THEN i.first[m] ELSE i.current[sel[m]]
  BY <1>1, <1>6 DEF Advanced
<1>8. j.first = i.first /\ j.step = i.step /\ j.extent = i.extent
  BY <1>6 DEF Advanced
<1>9. ASSUME NEW m \in 1..n
      PROVE  Bounded(l, s, k, m, sel[m], i) /\ Has(l, s, k, sel[m], i.current[sel[m]])
  BY <1>1, <1>3 DEF TiledRounds
<1>10. ASSUME NEW m \in 1..n PROVE Bounded(l, s, k, m, sel[m], j)
  BY <1>8, <1>9 DEF Bounded
<1>11. ASSUME NEW m \in 1..n
       PROVE  /\ i.current[sel[m]] \in Nat /\ i.step[m] \in Nat \ {0}
              /\ Has(l, s, k, sel[m], i.current[sel[m]] + i.step[m])
  <2>1. PICK d \in D : d = sel[m]
    BY <1>1
  <2>2. Has(l, s, k, d, i.current[d])
    BY <1>9, <2>1
  <2>3. i.step[m] = l.stride[d] * (IF l.layout = "strided" THEN Team(l)[d] ELSE 1)
    BY <1>9, <2>1 DEF Bounded
  <2>4. PICK y : y = i.current[d]
    OBVIOUS
  <2>5. Has(l, s, k, d, y) /\ d \in Dims(l.begin)
    BY <1>1, <2>2, <2>4
  <2>6. PICK st : st = l.stride[d] * (IF l.layout = "strided" THEN Team(l)[d] ELSE 1)
    OBVIOUS
  <2>7. y \in Nat /\ st \in Nat \ {0} /\ Has(l, s, k, d, y + st)
    BY <2>5, <2>6, HasNext
  <2> QED
    BY <2>1, <2>3, <2>4, <2>6, <2>7
<1>12. ASSUME NEW m \in 1..n PROVE Has(l, s, k, sel[m], j.current[sel[m]])
  <2>1. Has(l, s, k, sel[m], i.first[m])
    BY <1>9 DEF Bounded
  <2> QED
    BY <1>7, <1>9, <1>11, <2>1
<1>13. Increment(l, loop) \in TiledRounds(l, s, k)
  BY <1>1, <1>4, <1>5, <1>10, <1>12 DEF TiledRounds
<1>14. i.current[sel[c]] < j.current[sel[c]]
  <2>1. PICK x \in Nat, y \in Nat \ {0} : x = i.current[sel[c]] /\ y = i.step[c]
    BY <1>11
  <2>2. j.current[sel[c]] = x + y
    BY <1>7, <2>1
  <2> QED
    BY <2>1, <2>2
<1>15. \A m \in 1..c - 1 : i.current[sel[m]] = j.current[sel[m]]
  <2>1. ASSUME NEW m \in 1..c - 1 PROVE m \in 1..n /\ m # c /\ ~(m > c)
    BY <1>1
  <2> QED
    BY <1>7, <2>1
<1>16. Precedes(l, loop, Increment(l, loop))
  BY <1>1, <1>3, <1>5, <1>14, <1>15 DEF Precedes
<1> QED
  BY <1>13, <1>16

\* Two steps from the same begin that reach the same index are as many.
LEMMA StepsOnce ==
    ASSUME NEW b \in Nat, NEW m \in Nat \ {0}, NEW p \in Nat, NEW q \in Nat, b + m * p = b + m * q
    PROVE  p = q
<1>1. p < q => p * m + 0 < q * m
  BY DigitsBelow
<1>2. q < p => q * m + 0 < p * m
  BY DigitsBelow
<1>3. PICK v \in Nat, w \in Nat : v = m * p /\ w = m * q /\ p * m = v /\ q * m = w
  BY TimesNat
<1> QED
  BY <1>1, <1>2, <1>3

\* Tiled loops over the same part of a range that point to the same index are those of one
\* thread.
LEMMA TiledOnce ==
    ASSUME NEW l, WellFormed(l), SharedOut(l), NEW s, Part(l, s), ~Flat(l),
           NEW j \in 0..Workers(l) - 1, NEW k \in 0..Workers(l) - 1,
           NEW a \in TiledRounds(l, s, j), NEW b \in TiledRounds(l, s, k),
           ~AtEnd(l, a), ~AtEnd(l, b), Index(l, a) = Index(l, b)
    PROVE  j = k
<1>1. PICK n, D, sel :
         /\ n \in Nat \ {0} /\ n = Len(l.select) /\ Dims(l.select) = 1..n
         /\ D = Dims(l.begin) /\ sel = l.select /\ sel \in [1..n -> D]
  BY Fields
<1>2. a \in TiledLoops(l, s) /\ b \in TiledLoops(l, s)
  BY DEF TiledRounds
<1>3. PICK x : x = a.iter.current /\ x = b.iter.current
  BY <1>2, TiledPoint
<1>4. ASSUME NEW i \in 1..n PROVE x[sel[i]] < a.iter.extent[i] /\ x[sel[i]] < b.iter.extent[i]
  BY <1>1, <1>2, <1>3, TiledPoint
<1>5. ASSUME NEW i \in 1..n
      PROVE  a.iter.extent[i] \in Nat /\ b.iter.extent[i] \in Nat
  BY <1>1, <1>2 DEF TiledLoops, TiledIters
<1>6. ASSUME NEW i \in 1..n
      PROVE  /\ Has(l, s, j, sel[i], x[sel[i]]) /\ Bounded(l, s, j, i, sel[i], a.iter)
             /\ Has(l, s, k, sel[i], x[sel[i]]) /\ Bounded(l, s, k, i, sel[i], b.iter)
  BY <1>1, <1>3 DEF TiledRounds
<1>7. ASSUME NEW d \in Selected(l) PROVE Mine(l, j)[d] = Mine(l, k)[d]
  <2>1. PICK i \in 1..n : sel[i] = d
    BY <1>1, <1>7 DEF Selected
  <2>2. d \in Dims(l.begin)
    BY <1>1, <2>1
  <2>3. PICK f \in Nat, m \in Nat \ {0}, v \in Nat, u \in Nat \ {0}, z \in Nat :
           /\ f = s.begin[d] /\ m = l.stride[d] /\ v = Mine(l, j)[d] /\ u = Team(l)[d]
           /\ z = Extents(s)[d] /\ v \in 0..u - 1
    BY <2>2, Scale
  <2>4. PICK w \in Nat : w = Mine(l, k)[d] /\ w \in 0..u - 1
    BY <2>2, <2>3, Scale
  <2>5. PICK p \in Nat : x[d] = f + m * p /\ Starts(l, v, u, z, p)
    BY <1>6, <2>1, <2>3 DEF Has
  <2>6. PICK q \in Nat : x[d] = f + m * q /\ Starts(l, w, u, z, q)
    BY <1>6, <2>1, <2>3, <2>4 DEF Has
  <2>7. p = q
    <3>1. f + m * p = f + m * q
      BY <2>5, <2>6
    <3> QED
      BY <3>1, StepsOnce
  <2>8. PICK g \in Nat, h \in Nat : g = a.iter.extent[i] /\ h = b.iter.extent[i]
    BY <1>5
  <2>9. f + m * p < g /\ f + m * p < h
    BY <1>4, <2>1, <2>5, <2>8
  <2>10. l.layout = "contiguous" => g <= f + m * SlotBegin(v + 1, z, u)
    BY <1>6, <2>1, <2>3, <2>8 DEF Bounded
  <2>11. l.layout = "contiguous" => h <= f + m * SlotBegin(w + 1, z, u)
    BY <1>6, <2>1, <2>3, <2>4, <2>8 DEF Bounded
  <2>12. ASSUME NEW y \in Nat, NEW e \in Nat, f + m * p < e, e <= f + m * y PROVE p < y
    <3>1. SUFFICES ASSUME y <= p PROVE FALSE
      OBVIOUS
    <3>2. y * m <= p * m
      BY <3>1, TimesBoth
    <3>3. PICK r \in Nat, t \in Nat : r = m * y /\ t = m * p /\ y * m = r /\ p * m = t
      BY TimesNat
    <3>4. r <= t /\ f + t < e /\ e <= f + r
      BY <2>12, <3>2, <3>3
    <3> QED
      BY <3>3, <3>4
  <2>13. SlotBegin(v + 1, z, u) \in Nat /\ SlotBegin(w + 1, z, u) \in Nat
    <3>1. v + 1 \in Nat /\ w + 1 \in Nat
      OBVIOUS
    <3> QED
      BY <3>1, SlotNat
  <2>14. Ends(l, v, u, z, p)
    BY <2>9, <2>10, <2>12, <2>13 DEF Ends
  <2>15. Ends(l, w, u, z, p)
    BY <2>9, <2>11, <2>12, <2>13 DEF Ends
  <2>16. l.layout \in {"strided", "contiguous"}
    BY DEF WellFormed
  <2>17. v = w
    <3>1. v \in 0..u - 1 /\ w \in 0..u - 1 /\ Starts(l, v, u, z, p) /\ Starts(l, w, u, z, p)
      BY <2>3, <2>4, <2>5, <2>6, <2>7
    <3> QED
      BY <3>1, <2>14, <2>15, <2>16, OneOwner
  <2> QED
    BY <2>3, <2>4, <2>17
<1> QED
  BY <1>7, OnePlace

-----------------------------------------------------------------------------
(* Loops of all threads, directions and indices.                           *)

\* The loops of thread k over a part of a range.
Rounds(l, s, k) == IF Flat(l) THEN FlatRounds(l, s, k) ELSE TiledRounds(l, s, k)

\* begin() and end() of a thread.
LEMMA RoundOfThread ==
    ASSUME NEW l, WellFormed(l), SharedOut(l), NEW s, Part(l, s), NEW k \in 0..Workers(l) - 1
    PROVE  Loop(s, Thread(l, k)) \in Rounds(l, s, k)
<1>1. CASE Flat(l)
  BY <1>1, FlatRound DEF Rounds
<1>2. CASE ~Flat(l)
  BY <1>2, TiledRound DEF Rounds
<1> QED
  BY <1>1, <1>2

\* ++ of an iterator that is not at the end.
LEMMA RoundOn ==
    ASSUME NEW l, WellFormed(l), SharedOut(l), NEW s, Part(l, s), NEW k \in 0..Workers(l) - 1,
           NEW loop \in Rounds(l, s, k), ~AtEnd(l, loop)
    PROVE  /\ Increment(l, loop) \in Rounds(l, s, k)
           /\ Precedes(l, loop, Increment(l, loop))
<1>1. CASE Flat(l)
  <2>1. loop \in FlatRounds(l, s, k)
    BY <1>1 DEF Rounds
  <2>2. /\ Increment(l, loop) \in FlatRounds(l, s, k)
        /\ Increment(l, loop).iter.current > loop.iter.current
    BY <1>1, <2>1, FlatRoundStep
  <2>3. PICK next : next = Increment(l, loop)
    OBVIOUS
  <2>4. next.iter.current \in Nat /\ loop.iter.current \in Nat
    BY <2>1, <2>2, <2>3 DEF FlatRounds, FlatLoops
  <2>5. loop.iter.current < next.iter.current
    BY <2>2, <2>3, <2>4
  <2> QED
    BY <1>1, <2>2, <2>3, <2>5 DEF Rounds, Precedes
<1>2. CASE ~Flat(l)
  <2>1. loop \in TiledRounds(l, s, k)
    BY <1>2 DEF Rounds
  <2> QED
    BY <1>2, <2>1, TiledRoundStep DEF Rounds
<1> QED
  BY <1>1, <1>2

\* What an iterator that is not at the end points to.
LEMMA RoundPoint ==
    ASSUME NEW l, WellFormed(l), NEW s, Part(l, s), NEW k, NEW loop \in Rounds(l, s, k),
           ~AtEnd(l, loop)
    PROVE  Among(l, s, Index(l, loop))
<1>1. CASE Flat(l)
  <2>1. loop \in FlatLoops(s)
    BY <1>1 DEF Rounds, FlatRounds
  <2> QED
    BY <1>1, <2>1, FlatPoint
<1>2. CASE ~Flat(l)
  <2>1. loop \in TiledLoops(l, s)
    BY <1>2 DEF Rounds, TiledRounds
  <2>2. Index(l, loop) = loop.iter.current /\ Among(l, s, loop.iter.current)
    BY <1>2, <2>1, TiledPoint
  <2> QED
    BY <2>2
<1> QED
  BY <1>1, <1>2

\* The numbers that Precedes compares.
LEMMA Positions ==
    ASSUME NEW l, WellFormed(l), NEW s, Part(l, s), NEW k, NEW loop \in Rounds(l, s, k)
    PROVE  /\ Flat(l) => loop.iter.current \in Nat
           /\ ~Flat(l) => \A i \in 1..Len(l.select) : loop.iter.current[l.select[i]] \in Nat
<1>1. CASE Flat(l)
  BY <1>1 DEF Rounds, FlatRounds, FlatLoops
<1>2. CASE ~Flat(l)
  <2>1. PICK n, D : n = Len(l.select) /\ D = Dims(l.begin) /\ l.select \in [1..n -> D]
    BY Fields
  <2>2. loop.iter \in TiledIters(l)
    BY <1>2 DEF Rounds, TiledRounds, TiledLoops
  <2>3. loop.iter.current \in [D -> Nat]
    BY <2>1, <2>2 DEF TiledIters
  <2> QED
    BY <1>2, <2>1, <2>3
<1> QED
  BY <1>1, <1>2

\* Before what comes before.
LEMMA PrecedesOn ==
    ASSUME NEW l, WellFormed(l), NEW s, Part(l, s), NEW k,
           NEW a \in Rounds(l, s, k), NEW b \in Rounds(l, s, k), NEW c \in Rounds(l, s, k),
           Precedes(l, a, b), Precedes(l, b, c)
    PROVE  Precedes(l, a, c)
<1>1. CASE Flat(l)
  <2>1. PICK x \in Nat, y \in Nat, z \in Nat :
           x = a.iter.current /\ y = b.iter.current /\ z = c.iter.current
    BY <1>1, Positions
  <2>2. x < y /\ y < z
    BY <1>1, <2>1 DEF Precedes
  <2>3. x < z
    BY <2>2
  <2> QED
    BY <1>1, <2>1, <2>3 DEF Precedes
<1>2. CASE ~Flat(l)
  <2>1. PICK n \in Nat : n = Len(l.select)
    BY Fields
  <2>2. PICK f, g, h : /\ f = [i \in 1..n |-> a.iter.current[l.select[i]]]
                       /\ g = [i \in 1..n |-> b.iter.current[l.select[i]]]
                       /\ h = [i \in 1..n |-> c.iter.current[l.select[i]]]
    OBVIOUS
  <2>3. \A i \in 1..n : f[i] \in Nat /\ g[i] \in Nat /\ h[i] \in Nat
    BY <1>2, <2>1, <2>2, Positions
  <2>4. PICK i \in 1..n : f[i] < g[i] /\ \A m \in 1..i - 1 : f[m] = g[m]
    <3>1. PICK i \in 1..n :
             /\ a.iter.current[l.select[i]] < b.iter.current[l.select[i]]
             /\ \A m \in 1..i - 1 : a.iter.current[l.select[m]] = b.iter.current[l.select[m]]
      BY <1>2, <2>1 DEF Precedes
    <3>2. \A m \in 1..i - 1 : m \in 1..n
      BY <2>1
    <3> QED
      BY <2>2, <3>1, <3>2
  <2>5. PICK j \in 1..n : g[j] < h[j] /\ \A m \in 1..j - 1 : g[m] = h[m]
    <3>1. PICK j \in 1..n :
             /\ b.iter.current[l.select[j]] < c.iter.current[l.select[j]]
             /\ \A m \in 1..j - 1 : b.iter.current[l.select[m]] = c.iter.current[l.select[m]]
      BY <1>2, <2>1 DEF Precedes
    <3>2. \A m \in 1..j - 1 : m \in 1..n
      BY <2>1
    <3> QED
      BY <2>2, <3>1, <3>2
  <2>6. PICK p \in 1..n : p = IF i < j THEN i ELSE j
    BY <2>4, <2>5
  <2>7. f[p] < h[p]
    <3>1. CASE i < j
      <4>1. i \in 1..j - 1
        BY <2>4, <2>5, <3>1
      <4> QED
        BY <2>4, <2>5, <2>6, <3>1, <4>1
    <3>2. CASE j < i
      <4>1. j \in 1..i - 1
        BY <2>4, <2>5, <3>2
      <4> QED
        BY <2>4, <2>5, <2>6, <3>2, <4>1
    <3>3. CASE i = j
      BY <2>3, <2>4, <2>5, <2>6, <3>3
    <3> QED
      BY <2>4, <2>5, <3>1, <3>2, <3>3
  <2>8. ASSUME NEW m \in 1..p - 1 PROVE f[m] = h[m] /\ m \in 1..n
    <3>1. m \in 1..i - 1 /\ m \in 1..j - 1 /\ m \in 1..n
      BY <2>4, <2>5, <2>6
    <3> QED
      BY <2>4, <2>5, <3>1
  <2>9. /\ a.iter.current[l.select[p]] < c.iter.current[l.select[p]]
        /\ \A m \in 1..p - 1 : a.iter.current[l.select[m]] = c.iter.current[l.select[m]]
    BY <2>2, <2>7, <2>8
  <2> QED
    BY <1>2, <2>1, <2>9 DEF Precedes
<1> QED
  BY <1>1, <1>2

\* Loops over the same part of a range that point to the same index are those of one thread, and
\* none comes before the other.
LEMMA RoundOnce ==
    ASSUME NEW l, WellFormed(l), SharedOut(l), NEW s, Part(l, s),
           NEW j \in 0..Workers(l) - 1, NEW k \in 0..Workers(l) - 1,
           NEW a \in Rounds(l, s, j), NEW b \in Rounds(l, s, k),
           ~AtEnd(l, a), ~AtEnd(l, b), Index(l, a) = Index(l, b)
    PROVE  j = k /\ ~Precedes(l, a, b)
<1>1. CASE Flat(l)
  <2>1. a \in FlatRounds(l, s, j) /\ b \in FlatRounds(l, s, k)
    BY <1>1 DEF Rounds
  <2>2. j = k /\ a.iter.current = b.iter.current
    BY <1>1, <2>1, FlatOnce
  <2>3. a.iter.current \in Nat
    BY <1>1, Positions
  <2> QED
    BY <1>1, <2>2, <2>3 DEF Precedes
<1>2. CASE ~Flat(l)
  <2>1. a \in TiledRounds(l, s, j) /\ b \in TiledRounds(l, s, k)
    BY <1>2 DEF Rounds
  <2>2. j = k
    BY <1>2, <2>1, TiledOnce
  <2>3. a.iter.current = b.iter.current
    BY <1>2 DEF Index
  <2>4. \A i \in 1..Len(l.select) : a.iter.current[l.select[i]] \in Nat
    BY <1>2, Positions
  <2>5. ~Precedes(l, a, b)
    BY <1>2, <2>3, <2>4 DEF Precedes
  <2> QED
    BY <2>2, <2>5
<1> QED
  BY <1>1, <1>2

\* The boundary directions of a launch.
Directions(l) == IF l.lower = <<>> THEN {FirstDirection(l)} ELSE Direction(l)

\* How far a direction is in one dimension.
Rank(x) == IF x = "lower" THEN 0 ELSE IF x = "middle" THEN 1 ELSE 2

\* Direction e is iterated before direction f.
Before(l, e, f) ==
    \E c \in Dims(l.begin) : Rank(e[c]) < Rank(f[c]) /\ \A d \in 1..c - 1 : e[d] = f[d]

\* No direction is iterated before itself.
LEMMA NotBefore == ASSUME NEW l, NEW e PROVE ~Before(l, e, e)
<1>1. \A c : Rank(e[c]) \in Nat
  BY DEF Rank
<1> QED
  BY <1>1 DEF Before

\* Before what comes before.
LEMMA BeforeOn ==
    ASSUME NEW l, WellFormed(l), NEW e, NEW f, NEW g, Before(l, e, f), Before(l, f, g)
    PROVE  Before(l, e, g)
<1>1. PICK n \in Nat : Dims(l.begin) = 1..n
  BY Fields
<1>2. PICK i \in 1..n : Rank(e[i]) < Rank(f[i]) /\ \A d \in 1..i - 1 : e[d] = f[d]
  BY <1>1 DEF Before
<1>3. PICK j \in 1..n : Rank(f[j]) < Rank(g[j]) /\ \A d \in 1..j - 1 : f[d] = g[d]
  BY <1>1 DEF Before
<1>4. PICK p \in 1..n : p = IF i < j THEN i ELSE j
  BY <1>2, <1>3
<1>5. Rank(e[p]) < Rank(g[p])
  <2>1. CASE i < j
    <3>1. i \in 1..j - 1
      BY <1>2, <1>3, <2>1
    <3>2. f[i] = g[i]
      BY <1>3, <3>1
    <3> QED
      BY <1>2, <1>4, <2>1, <3>2
  <2>2. CASE j < i
    <3>1. j \in 1..i - 1
      BY <1>2, <1>3, <2>2
    <3>2. e[j] = f[j]
      BY <1>2, <3>1
    <3> QED
      BY <1>3, <1>4, <2>2, <3>2
  <2>3. CASE i = j
    <3>1. PICK x \in Nat, y \in Nat, z \in Nat : x = Rank(e[i]) /\ y = Rank(f[i]) /\ z = Rank(g[i])
      BY DEF Rank
    <3>2. x < y /\ y < z
      BY <1>2, <1>3, <2>3, <3>1
    <3>3. x < z
      BY <3>2
    <3> QED
      BY <1>4, <2>3, <3>1, <3>3
  <2> QED
    BY <1>2, <1>3, <2>1, <2>2, <2>3
<1>6. ASSUME NEW d \in 1..p - 1 PROVE e[d] = g[d]
  <2>1. d \in 1..i - 1 /\ d \in 1..j - 1
    BY <1>2, <1>3, <1>4
  <2> QED
    BY <1>2, <1>3, <2>1
<1> QED
  BY <1>1, <1>5, <1>6 DEF Before

\* The direction that follows comes later.
LEMMA DirectionOn ==
    ASSUME NEW l, WellFormed(l), NEW dir \in Direction(l), NextDirection(dir)[1] # "oob"
    PROVE  Before(l, dir, NextDirection(dir))
<1>1. PICK n \in Nat : n = Len(l.begin) /\ Dims(l.begin) = 1..n /\ 1 \in 1..n
  BY FirstDimension
<1>2. dir \in [1..n -> {"lower", "middle", "upper"}]
  BY <1>1 DEF Direction
<1>3. Len(dir) = n /\ Dims(dir) = 1..n
  BY <1>2, Vector
<1>4. PICK open, c : open = {d \in Dims(dir) : dir[d] # "upper"} /\ c = Max(open)
  OBVIOUS
<1>5. open # {}
  <2>1. SUFFICES ASSUME open = {} PROVE FALSE
    OBVIOUS
  <2>2. NextDirection(dir) = OutOfBounds(n)
    BY <1>3, <1>4, <2>1 DEF NextDirection
  <2> QED
    BY <1>1, <2>2 DEF OutOfBounds
<1>6. c \in open
  <2>1. open \in SUBSET (1..n)
    BY <1>3, <1>4
  <2> QED
    BY <1>1, <1>4, <1>5, <2>1, Largest
<1>7. c \in 1..n /\ dir[c] \in {"lower", "middle"}
  BY <1>2, <1>3, <1>4, <1>6
<1>8. PICK next : next = NextDirection(dir)
  OBVIOUS
<1>9. next = [d \in 1..n |->
                 IF d < c THEN dir[d]
                 ELSE IF d > c THEN "lower"
                 ELSE IF dir[d] = "lower" THEN "middle" ELSE "upper"]
  BY <1>3, <1>4, <1>5, <1>8 DEF NextDirection
<1>10. next[c] = IF dir[c] = "lower" THEN "middle" ELSE "upper"
  BY <1>7, <1>9
<1>11. Rank(dir[c]) < Rank(next[c])
  BY <1>7, <1>10 DEF Rank
<1>12. \A d \in 1..c - 1 : dir[d] = next[d]
  <2>1. ASSUME NEW d \in 1..c - 1 PROVE d \in 1..n /\ d < c
    BY <1>7
  <2> QED
    BY <1>9, <2>1
<1> QED
  BY <1>1, <1>7, <1>8, <1>11, <1>12 DEF Before

\* Where the part in a direction begins and ends in a dimension.
BeginIn(l, dir, d) ==
    IF dir[d] = "lower" THEN l.begin[d]
    ELSE IF dir[d] = "middle" THEN l.begin[d] + l.lower[d] ELSE l.end[d] - l.upper[d]

EndIn(l, dir, d) ==
    IF dir[d] = "lower" THEN l.begin[d] + l.lower[d]
    ELSE IF dir[d] = "middle" THEN l.end[d] - l.upper[d] ELSE l.end[d]

\* It begins and ends there.
LEMMA BoundsIn ==
    ASSUME NEW l, WellFormed(l), l.lower # <<>>, NEW dir \in Direction(l), NEW d \in Dims(l.begin)
    PROVE  /\ DirectionSubRange(l, dir).begin[d] = BeginIn(l, dir, d)
           /\ DirectionSubRange(l, dir).end[d] = EndIn(l, dir, d)
<1>1. PICK n, D : n \in Nat /\ n = Len(l.begin) /\ D = 1..n /\ D = Dims(l.begin)
  BY Fields
<1>2. dir \in [1..n -> {"lower", "middle", "upper"}]
  BY <1>1 DEF Direction
<1>3. Dims(dir) = D
  BY <1>1, <1>2, Vector
<1>4. PICK b, g :
         /\ b = [c \in D |-> CASE dir[c] = "lower" -> l.begin[c]
                               [] dir[c] = "middle" -> l.begin[c] + l.lower[c]
                               [] dir[c] = "upper" -> l.end[c] - l.upper[c]]
         /\ g = [c \in D |-> CASE dir[c] = "lower" -> l.begin[c] + l.lower[c]
                               [] dir[c] = "middle" -> l.end[c] - l.upper[c]
                               [] dir[c] = "upper" -> l.end[c]]
  OBVIOUS
<1>5. PICK s : s = DirectionSubRange(l, dir)
  OBVIOUS
<1>6. s = [l EXCEPT !.begin = b, !.end = g]
  BY <1>3, <1>4, <1>5 DEF DirectionSubRange
<1>7. s.begin = b /\ s.end = g
  BY <1>6 DEF WellFormed
<1>8. d \in D /\ dir[d] \in {"lower", "middle", "upper"}
  BY <1>1, <1>2
<1>9. b[d] = BeginIn(l, dir, d) /\ g[d] = EndIn(l, dir, d)
  BY <1>4, <1>8 DEF BeginIn, EndIn
<1> QED
  BY <1>5, <1>7, <1>9

\* The parts of a range in different directions have no index in common.
LEMMA DirectionsApart ==
    ASSUME NEW l, WellFormed(l), NEW e \in Directions(l), NEW f \in Directions(l), NEW x,
           Among(l, DirectionSubRange(l, e), x), Among(l, DirectionSubRange(l, f), x)
    PROVE  e = f
<1>1. CASE l.lower = <<>>
  BY <1>1 DEF Directions
<1>2. CASE l.lower # <<>>
  <2>1. PICK n, D : n \in Nat /\ n = Len(l.begin) /\ D = 1..n /\ D = Dims(l.begin)
    BY Fields
  <2>2. /\ e \in [D -> {"lower", "middle", "upper"}] /\ f \in [D -> {"lower", "middle", "upper"}]
        /\ e \in Direction(l) /\ f \in Direction(l)
    BY <1>2, <2>1 DEF Directions, Direction
  <2>3. l.lower \in Seq(Nat) /\ l.upper \in Seq(Nat) /\ Len(l.lower) = n /\ Len(l.upper) = n
    BY <1>2, <2>1 DEF WellFormed, Vec
  <2>4. \A d \in D : d \in Selected(l) /\ l.lower[d] + l.upper[d] <= l.end[d] - l.begin[d]
    BY <1>2, <2>1 DEF WellFormed, Selected
  <2>5. ASSUME NEW dir \in Direction(l), Among(l, DirectionSubRange(l, dir), x), NEW d \in D,
               BeginIn(l, dir, d) \in Nat
        PROVE  x[d] \in Nat /\ BeginIn(l, dir, d) <= x[d] /\ x[d] < EndIn(l, dir, d)
    <3>1. d \in Selected(l) /\ d \in Dims(l.begin)
      BY <2>1, <2>4
    <3>2. PICK s : s = DirectionSubRange(l, dir)
      OBVIOUS
    <3>3. s.begin[d] = BeginIn(l, dir, d) /\ s.end[d] = EndIn(l, dir, d)
      BY <1>2, <3>1, <3>2, BoundsIn
    <3>4. x[d] \in Nat /\ Aligned(x[d], s.begin[d], l.stride[d]) /\ x[d] < s.end[d]
      BY <2>5, <3>1, <3>2 DEF Among
    <3>5. PICK q \in Nat : x[d] = s.begin[d] + l.stride[d] * q
      BY <3>4 DEF Aligned
    <3>6. PICK m \in Nat : m = l.stride[d]
      BY <3>1, Fields
    <3>7. PICK p \in Nat : p = m * q
      BY TimesNat
    <3> QED
      BY <2>5, <3>3, <3>4, <3>5, <3>6, <3>7
  <2>6. ASSUME NEW d \in D PROVE e[d] = f[d]
    <3>1. PICK b \in Nat, g \in Nat, lo \in Nat, up \in Nat :
             b = l.begin[d] /\ g = l.end[d] /\ lo = l.lower[d] /\ up = l.upper[d]
      <4>1. l.begin[d] \in Nat /\ l.end[d] \in Nat
        BY <2>1, Fields
      <4>2. d \in 1..Len(l.lower) /\ d \in 1..Len(l.upper)
        BY <2>1, <2>3
      <4>3. l.lower[d] \in Nat
        BY <2>3, <4>2
      <4>4. l.upper[d] \in Nat
        BY <2>3, <4>2
      <4> QED
        BY <4>1, <4>3, <4>4
    <3>2. lo + up <= g - b
      BY <2>4, <3>1
    <3>3. e[d] \in {"lower", "middle", "upper"} /\ f[d] \in {"lower", "middle", "upper"}
      BY <2>2
    <3>4. PICK u, v, w, z : /\ u = BeginIn(l, e, d) /\ v = EndIn(l, e, d)
                            /\ w = BeginIn(l, f, d) /\ z = EndIn(l, f, d)
      OBVIOUS
    <3>5. \/ e[d] = "lower" /\ u = b /\ v = b + lo
          \/ e[d] = "middle" /\ u = b + lo /\ v = g - up
          \/ e[d] = "upper" /\ u = g - up /\ v = g
      BY <3>1, <3>3, <3>4 DEF BeginIn, EndIn
    <3>6. \/ f[d] = "lower" /\ w = b /\ z = b + lo
          \/ f[d] = "middle" /\ w = b + lo /\ z = g - up
          \/ f[d] = "upper" /\ w = g - up /\ z = g
      BY <3>1, <3>3, <3>4 DEF BeginIn, EndIn
    <3>7. u \in Nat /\ w \in Nat
      BY <3>2, <3>5, <3>6
    <3>8. x[d] \in Nat /\ u <= x[d] /\ x[d] < v
      BY <2>2, <2>5, <3>4, <3>7
    <3>9. x[d] \in Nat /\ w <= x[d] /\ x[d] < z
      BY <2>2, <2>5, <3>4, <3>7
    <3>10. PICK y \in Nat : y = x[d] /\ u <= y /\ y < v /\ w <= y /\ y < z
      BY <3>8, <3>9
    <3> QED
      BY <3>2, <3>5, <3>6, <3>10
  <2> QED
    BY <2>2, <2>6
<1> QED
  BY <1>1, <1>2

-----------------------------------------------------------------------------
(* No index is visited twice.                                              *)

\* Thread k, at a loop over the part in direction e, is done with it when thread w is at a loop
\* over the part in direction f: directions, threads and indices follow one another.
Earlier(l, e, k, a, f, w, loop) ==
    \/ Before(l, e, f)
    \/ e = f /\ k < w
    \/ e = f /\ k = w /\ Precedes(l, a, loop)

\* Index x was visited before thread w is at a loop over the part in direction f.
Visited(l, x, f, w, loop) ==
    \E e \in Directions(l), k \in 0..Workers(l) - 1 :
        \E a \in Rounds(l, DirectionSubRange(l, e), k) :
            ~AtEnd(l, a) /\ Index(l, a) = x /\ Earlier(l, e, k, a, f, w, loop)

\* The part of a range in a direction.
LEMMA PartOf ==
    ASSUME NEW l, WellFormed(l), NEW e \in Directions(l) PROVE Part(l, DirectionSubRange(l, e))
  BY SubRange DEF Directions

\* An index that a loop points to was not visited before.
LEMMA NotVisited ==
    ASSUME NEW l, WellFormed(l), SharedOut(l), NEW f \in Directions(l),
           NEW w \in 0..Workers(l) - 1, NEW loop \in Rounds(l, DirectionSubRange(l, f), w),
           ~AtEnd(l, loop)
    PROVE  ~Visited(l, Index(l, loop), f, w, loop)
<1>1. SUFFICES ASSUME Visited(l, Index(l, loop), f, w, loop) PROVE FALSE
  OBVIOUS
<1>2. PICK e \in Directions(l), k \in 0..Workers(l) - 1 :
         \E a \in Rounds(l, DirectionSubRange(l, e), k) :
            ~AtEnd(l, a) /\ Index(l, a) = Index(l, loop) /\ Earlier(l, e, k, a, f, w, loop)
  BY <1>1 DEF Visited
<1>3. PICK a \in Rounds(l, DirectionSubRange(l, e), k) :
         ~AtEnd(l, a) /\ Index(l, a) = Index(l, loop) /\ Earlier(l, e, k, a, f, w, loop)
  BY <1>2
<1>4. Among(l, DirectionSubRange(l, e), Index(l, a))
  BY <1>3, PartOf, RoundPoint
<1>5. Among(l, DirectionSubRange(l, f), Index(l, loop))
  BY PartOf, RoundPoint
<1>6. e = f
  BY <1>3, <1>4, <1>5, DirectionsApart
<1>7. PICK s : s = DirectionSubRange(l, f) /\ Part(l, s)
  BY PartOf
<1>8. a \in Rounds(l, s, k) /\ loop \in Rounds(l, s, w)
  BY <1>6, <1>7
<1>9. k = w /\ ~Precedes(l, a, loop)
  BY <1>3, <1>7, <1>8, RoundOnce
<1>10. ~Before(l, e, f)
  BY <1>6, NotBefore
<1> QED
  BY <1>3, <1>9, <1>10 DEF Earlier

\* What was visited stays visited after ++.
LEMMA VisitedOn ==
    ASSUME NEW l, WellFormed(l), SharedOut(l), NEW f \in Directions(l),
           NEW w \in 0..Workers(l) - 1, NEW loop \in Rounds(l, DirectionSubRange(l, f), w),
           ~AtEnd(l, loop), NEW x, Visited(l, x, f, w, loop) \/ x = Index(l, loop)
    PROVE  Visited(l, x, f, w, Increment(l, loop))
<1>1. PICK s, next : /\ s = DirectionSubRange(l, f) /\ Part(l, s) /\ next = Increment(l, loop)
                     /\ loop \in Rounds(l, s, w)
  BY PartOf
<1>2. next \in Rounds(l, s, w) /\ Precedes(l, loop, next)
  BY <1>1, RoundOn
<1>3. CASE x = Index(l, loop)
  <2>1. Earlier(l, f, w, loop, f, w, next)
    BY <1>2 DEF Earlier
  <2> QED
    BY <1>1, <1>3, <2>1 DEF Visited
<1>4. CASE Visited(l, x, f, w, loop)
  <2>1. PICK e \in Directions(l), k \in 0..Workers(l) - 1 :
           \E a \in Rounds(l, DirectionSubRange(l, e), k) :
              ~AtEnd(l, a) /\ Index(l, a) = x /\ Earlier(l, e, k, a, f, w, loop)
    BY <1>4 DEF Visited
  <2>2. PICK a \in Rounds(l, DirectionSubRange(l, e), k) :
           ~AtEnd(l, a) /\ Index(l, a) = x /\ Earlier(l, e, k, a, f, w, loop)
    BY <2>1
  <2>3. Earlier(l, e, k, a, f, w, next)
    <3>1. CASE Before(l, e, f) \/ (e = f /\ k < w)
      BY <3>1 DEF Earlier
    <3>2. CASE e = f /\ k = w /\ Precedes(l, a, loop)
      <4>1. a \in Rounds(l, s, w)
        BY <1>1, <2>2, <3>2
      <4>2. Precedes(l, a, next)
        BY <1>1, <1>2, <3>2, <4>1, PrecedesOn
      <4> QED
        BY <3>2, <4>2 DEF Earlier
    <3> QED
      BY <2>2, <3>1, <3>2 DEF Earlier
  <2>4. Visited(l, x, f, w, next)
    BY <2>2, <2>3 DEF Visited
  <2> QED
    BY <1>1, <2>4
<1> QED
  BY <1>3, <1>4

\* What was visited stays visited when the next thread begins.
LEMMA VisitedByThread ==
    ASSUME NEW l, WellFormed(l), NEW f, NEW w \in 0..Workers(l) - 1, NEW loop, NEW next,
           NEW x, Visited(l, x, f, w, loop)
    PROVE  Visited(l, x, f, w + 1, next)
<1>1. Workers(l) \in Nat
  BY Threads
<1>2. PICK e \in Directions(l), k \in 0..Workers(l) - 1 :
         \E a \in Rounds(l, DirectionSubRange(l, e), k) :
            ~AtEnd(l, a) /\ Index(l, a) = x /\ Earlier(l, e, k, a, f, w, loop)
  BY DEF Visited
<1>3. PICK a \in Rounds(l, DirectionSubRange(l, e), k) :
         ~AtEnd(l, a) /\ Index(l, a) = x /\ Earlier(l, e, k, a, f, w, loop)
  BY <1>2
<1>4. Before(l, e, f) \/ (e = f /\ (k < w \/ k = w))
  BY <1>3 DEF Earlier
<1>5. k < w \/ k = w => k < w + 1
  BY <1>1
<1>6. Earlier(l, e, k, a, f, w + 1, next)
  BY <1>4, <1>5 DEF Earlier
<1> QED
  BY <1>3, <1>6 DEF Visited

\* What was visited stays visited when the next direction begins.
LEMMA VisitedByDirection ==
    ASSUME NEW l, WellFormed(l), NEW f, NEW w, NEW loop, NEW g, NEW v, NEW next,
           Before(l, f, g), NEW x, Visited(l, x, f, w, loop)
    PROVE  Visited(l, x, g, v, next)
<1>1. PICK e \in Directions(l), k \in 0..Workers(l) - 1 :
         \E a \in Rounds(l, DirectionSubRange(l, e), k) :
            ~AtEnd(l, a) /\ Index(l, a) = x /\ Earlier(l, e, k, a, f, w, loop)
  BY DEF Visited
<1>2. PICK a \in Rounds(l, DirectionSubRange(l, e), k) :
         ~AtEnd(l, a) /\ Index(l, a) = x /\ Earlier(l, e, k, a, f, w, loop)
  BY <1>1
<1>3. Before(l, e, f) \/ e = f
  BY <1>2 DEF Earlier
<1>4. Before(l, e, g)
  BY <1>3, BeforeOn
<1>5. Earlier(l, e, k, a, g, v, next)
  BY <1>4 DEF Earlier
<1> QED
  BY <1>2, <1>5 DEF Visited

\* An index that is counted for the first time.
LEMMA CountedOnce ==
    ASSUME NEW bag, NEW x, x \notin BagToSet(bag), \A y \in BagToSet(bag) : bag[y] = 1
    PROVE  \A y \in BagToSet(Count(bag, {x})) : Count(bag, {x})[y] = 1
<1>1. {y \in {x} : y \notin BagToSet(bag) \/ bag[y] < MaxVisits} = {x}
  OBVIOUS
<1>2. Count(bag, {x}) = bag (+) SetToBag({x})
  BY <1>1 DEF Count
<1>3. PICK b : b = bag (+) SetToBag({x})
  OBVIOUS
<1>4. b = [y \in DOMAIN bag \cup {x} |->
              (IF y \in DOMAIN bag THEN bag[y] ELSE 0) + (IF y \in {x} THEN 1 ELSE 0)]
  BY <1>3 DEF (+), SetToBag
<1>5. ASSUME NEW y \in DOMAIN bag \cup {x} PROVE b[y] = 1
  <2>1. b[y] = (IF y \in DOMAIN bag THEN bag[y] ELSE 0) + (IF y \in {x} THEN 1 ELSE 0)
    BY <1>4
  <2>2. CASE y = x
    <3>1. y \notin DOMAIN bag
      BY <2>2 DEF BagToSet
    <3> QED
      BY <2>1, <2>2, <3>1
  <2>3. CASE y # x
    <3>1. y \in DOMAIN bag /\ bag[y] = 1
      BY <2>3 DEF BagToSet
    <3> QED
      BY <2>1, <2>3, <3>1
  <2> QED
    BY <2>2, <2>3
<1>6. BagToSet(b) = DOMAIN bag \cup {x}
  BY <1>4 DEF BagToSet
<1> QED
  BY <1>2, <1>3, <1>5, <1>6

\* A direction is not past the end, and one is when there is no direction to follow.
LEMMA NotFinished ==
    ASSUME NEW l, WellFormed(l), NEW f \in Directions(l)
    PROVE  f[1] # "oob" /\ (l.lower = <<>> => OutOfBounds(Len(f))[1] = "oob")
<1>1. PICK n \in Nat : n = Len(l.begin) /\ Dims(l.begin) = 1..n /\ 1 \in 1..n
  BY FirstDimension
<1>2. f \in [1..n -> {"lower", "middle", "upper"}]
  BY <1>1 DEF Directions, Direction, FirstDirection
<1>3. Len(f) = n
  BY <1>2, Vector
<1> QED
  BY <1>1, <1>2, <1>3 DEF OutOfBounds

\* The threads follow one another, and each index that was visited was visited by a thread that
\* is done with it.
SharesInv ==
    /\ launch \in Launches
    /\ worker \in 0..Workers(launch) - 1
    /\ Finished \/ /\ direction \in Directions(launch)
                   /\ it \in Rounds(launch, DirectionSubRange(launch, direction), worker)
                   /\ \A x \in BagToSet(visits) : Visited(launch, x, direction, worker, it)
    /\ NoIndexTwice

\* The first loop.
LEMMA SharesInit ==
    ASSUME \A l \in Launches : SharedOut(l), Init PROVE SharesInv
<1>1. /\ launch \in Launches /\ WellFormed(launch) /\ SharedOut(launch)
      /\ worker = 0 /\ visits = EmptyBag /\ direction = FirstDirection(launch)
      /\ it = Loop(DirectionSubRange(launch, direction), Thread(launch, 0))
  BY IdxMapAssumption DEF Init
<1>2. direction \in Directions(launch)
  BY <1>1 DEF FirstDirection, Direction, Directions
<1>3. worker \in 0..Workers(launch) - 1
  <2>1. Workers(launch) \in Nat \ {0}
    BY <1>1, Threads
  <2> QED
    BY <1>1, <2>1
<1>4. it \in Rounds(launch, DirectionSubRange(launch, direction), worker)
  BY <1>1, <1>2, <1>3, PartOf, RoundOfThread
<1>5. BagToSet(visits) = {}
  BY <1>1 DEF BagToSet, EmptyBag, SetToBag
<1> QED
  BY <1>1, <1>2, <1>3, <1>4, <1>5 DEF SharesInv, NoIndexTwice

\* Every step keeps the loops apart.
LEMMA SharesStep ==
    ASSUME \A l \in Launches : SharedOut(l), SharesInv, [Next]_vars PROVE SharesInv'
<1>1. /\ launch \in Launches /\ WellFormed(launch) /\ SharedOut(launch) /\ NoIndexTwice
      /\ worker \in 0..Workers(launch) - 1
  BY IdxMapAssumption DEF SharesInv
<1>2. Workers(launch) \in Nat \ {0}
  BY <1>1, Threads
<1>3. PICK s : s = DirectionSubRange(launch, direction)
  OBVIOUS
<1>4. ASSUME ~Finished
      PROVE  /\ direction \in Directions(launch)
             /\ it \in Rounds(launch, s, worker) /\ Part(launch, s)
             /\ \A x \in BagToSet(visits) : Visited(launch, x, direction, worker, it)
  <2>1. direction \in Directions(launch)
    BY <1>4 DEF SharesInv
  <2> QED
    BY <1>1, <1>3, <1>4, <2>1, PartOf DEF SharesInv
<1>5. CASE Visit
  <2>1. /\ launch' = launch /\ direction' = direction /\ worker' = worker
        /\ ~Finished /\ ~AtEnd(launch, it)
        /\ visits' = Count(visits, {Index(launch, it)}) /\ it' = Increment(launch, it)
    BY <1>5 DEF Visit
  <2>2. it' \in Rounds(launch, s, worker)
    BY <1>1, <1>4, <2>1, RoundOn
  <2>3. ~Visited(launch, Index(launch, it), direction, worker, it)
    BY <1>1, <1>3, <1>4, <2>1, NotVisited
  <2>4. Index(launch, it) \notin BagToSet(visits)
    BY <1>4, <2>1, <2>3
  <2>5. NoIndexTwice'
    <3>1. \A y \in BagToSet(visits) : visits[y] = 1
      BY <1>1 DEF NoIndexTwice
    <3>2. \A y \in BagToSet(visits') : visits'[y] = 1
      BY <2>1, <2>4, <3>1, CountedOnce
    <3> QED
      BY <3>2 DEF NoIndexTwice
  <2>6. ASSUME NEW x \in BagToSet(visits') PROVE Visited(launch, x, direction, worker, it')
    <3>1. x \in BagToSet(visits) \/ x = Index(launch, it)
      BY <2>1, Counted
    <3>2. Visited(launch, x, direction, worker, it) \/ x = Index(launch, it)
      BY <1>4, <2>1, <3>1
    <3>3. Visited(launch, x, direction, worker, Increment(launch, it))
      BY <1>1, <1>3, <1>4, <2>1, <3>2, VisitedOn
    <3> QED
      BY <2>1, <3>3
  <2> QED
    BY <1>1, <1>3, <1>4, <2>1, <2>2, <2>5, <2>6 DEF SharesInv
<1>6. CASE NextThread
  <2>1. /\ launch' = launch /\ direction' = direction /\ visits' = visits /\ ~Finished
        /\ worker + 1 < Workers(launch) /\ worker' = worker + 1
        /\ it' = Loop(s, Thread(launch, worker + 1))
    BY <1>3, <1>6 DEF NextThread, Workers
  <2>2. worker + 1 \in 0..Workers(launch) - 1
    BY <1>1, <1>2, <2>1
  <2>3. it' \in Rounds(launch, s, worker + 1)
    BY <1>1, <1>4, <2>1, <2>2, RoundOfThread
  <2>4. ASSUME NEW x \in BagToSet(visits') PROVE Visited(launch, x, direction, worker + 1, it')
    <3>1. Visited(launch, x, direction, worker, it)
      BY <1>4, <2>1, <2>4
    <3> QED
      BY <1>1, <3>1, VisitedByThread
  <2>5. NoIndexTwice'
    BY <1>1, <2>1 DEF NoIndexTwice
  <2> QED
    BY <1>1, <1>3, <1>4, <2>1, <2>2, <2>3, <2>4, <2>5 DEF SharesInv
<1>7. CASE EndOfDirection
  <2>1. /\ launch' = launch /\ visits' = visits /\ worker' = 0 /\ ~Finished
        /\ direction' = IF launch.lower = <<>> THEN OutOfBounds(Len(direction))
                        ELSE NextDirection(direction)
        /\ it' = IF direction'[1] = "oob" THEN it
                 ELSE Loop(DirectionSubRange(launch, direction'), Thread(launch, 0))
    BY <1>7 DEF EndOfDirection
  <2>2. 0 \in 0..Workers(launch) - 1
    BY <1>2
  <2>3. NoIndexTwice'
    BY <1>1, <2>1 DEF NoIndexTwice
  <2>4. CASE direction'[1] = "oob"
    BY <1>1, <2>1, <2>2, <2>3, <2>4 DEF SharesInv, Finished
  <2>5. CASE direction'[1] # "oob"
    <3>1. launch.lower # <<>>
      BY <1>1, <1>4, <2>1, <2>5, NotFinished
    <3>2. direction \in Direction(launch)
      BY <1>4, <2>1, <3>1 DEF Directions
    <3>3. PICK dir : dir = direction' /\ dir = NextDirection(direction) /\ dir[1] # "oob"
      BY <2>1, <2>5, <3>1
    <3>4. dir \in Directions(launch)
      BY <1>1, <3>1, <3>2, <3>3, DirectionStep DEF Directions
    <3>5. it' = Loop(DirectionSubRange(launch, dir), Thread(launch, 0))
      BY <2>1, <3>3
    <3>6. it' \in Rounds(launch, DirectionSubRange(launch, dir), 0)
      BY <1>1, <2>2, <3>4, <3>5, PartOf, RoundOfThread
    <3>7. Before(launch, direction, dir)
      BY <1>1, <3>2, <3>3, DirectionOn
    <3>8. ASSUME NEW x \in BagToSet(visits') PROVE Visited(launch, x, dir, 0, it')
      <4>1. Visited(launch, x, direction, worker, it)
        BY <1>4, <2>1, <3>8
      <4> QED
        BY <1>1, <3>7, <4>1, VisitedByDirection
    <3> QED
      BY <1>1, <2>1, <2>2, <2>3, <3>3, <3>4, <3>6, <3>8 DEF SharesInv
  <2> QED
    BY <2>4, <2>5
<1>8. CASE UNCHANGED vars
  BY <1>8 DEF vars, SharesInv, Finished, NoIndexTwice
<1> QED
  BY <1>5, <1>6, <1>7, <1>8 DEF Next

\* "each value is only set by a single thread and not twice" (test of makeIdxMap): if MapTo
\* numbers the threads and the index type holds the end of the loops (SharedOut), no index is
\* visited twice, neither by two threads nor in two boundary directions nor by one loop.
THEOREM IndicesAreVisitedOnce ==
    ASSUME \A l \in Launches : SharedOut(l) PROVE Spec => []NoIndexTwice
<1>1. Init => SharesInv
  BY SharesInit
<1>2. SharesInv /\ [Next]_vars => SharesInv'
  BY SharesStep
<1>3. SharesInv => NoIndexTwice
  BY DEF SharesInv
<1> QED
  BY <1>1, <1>2, <1>3, PTL DEF Spec

-----------------------------------------------------------------------------
(* Every index is visited.                                                 *)

\* What is a multiple of m behind a is one behind b, if b is such a multiple before it.
LEMMA AlignedFrom ==
    ASSUME NEW a \in Nat, NEW b \in Nat, NEW y \in Nat, NEW m \in Nat \ {0},
           a <= b, b <= y, (b - a) % m = 0, (y - a) % m = 0
    PROVE  Aligned(y, b, m)
<1>1. PICK p \in Nat : b - a = m * p
  <2>1. PICK c \in Nat : c = b - a
    OBVIOUS
  <2>2. PICK r \in Nat : r = c \div m /\ c = m * r + (c % m)
    BY Division
  <2>3. c % m = 0 /\ m * r \in Nat
    BY <2>1, TimesNat
  <2>4. c = m * r
    BY <2>2, <2>3
  <2> QED
    BY <2>1, <2>4
<1>2. PICK q \in Nat : y - a = m * q
  <2>1. PICK c \in Nat : c = y - a
    OBVIOUS
  <2>2. PICK r \in Nat : r = c \div m /\ c = m * r + (c % m)
    BY Division
  <2>3. c % m = 0 /\ m * r \in Nat
    BY <2>1, TimesNat
  <2>4. c = m * r
    BY <2>2, <2>3
  <2> QED
    BY <2>1, <2>4
<1>3. PICK v \in Nat, w \in Nat : v = m * p /\ w = m * q /\ v <= w /\ p * m = v /\ q * m = w
  <2>1. m * p \in Nat /\ m * q \in Nat
    BY TimesNat
  <2> QED
    BY <1>1, <1>2, <2>1
<1>4. p <= q
  <2>1. SUFFICES ASSUME q < p PROVE FALSE
    OBVIOUS
  <2>2. q * m + 0 < p * m
    BY <2>1, DigitsBelow
  <2> QED
    BY <1>3, <2>2
<1>5. PICK r \in Nat : q = p + r
  BY <1>4
<1>6. m * q = m * p + m * r
  BY <1>5
<1>7. m * r \in Nat
  BY TimesNat
<1>8. y = b + m * r
  BY <1>1, <1>2, <1>6, <1>7, <1>3
<1> QED
  BY <1>8 DEF Aligned

\* Of the numbers that a thread has, none is between one and the next step.
LEMMA StartsGap ==
    ASSUME NEW l, NEW m \in Nat, NEW u \in Nat \ {0}, NEW n \in Nat, NEW p \in Nat, NEW q \in Nat,
           Starts(l, m, u, n, p), Starts(l, m, u, n, q),
           p < q + (IF l.layout = "strided" THEN u ELSE 1)
    PROVE  p <= q
<1>1. CASE l.layout = "strided"
  <2>1. PICK a \in Nat, b \in Nat : p = m + u * a /\ q = m + u * b
    BY <1>1 DEF Starts
  <2>2. SUFFICES ASSUME b < a PROVE FALSE
    <3>1. SUFFICES ASSUME a <= b PROVE p <= q
      OBVIOUS
    <3>2. a * u <= b * u
      BY <3>1, TimesLess
    <3>3. PICK v \in Nat, w \in Nat : v = a * u /\ w = b * u /\ u * a = v /\ u * b = w
      BY TimesNat
    <3> QED
      BY <2>1, <3>2, <3>3
  <2>3. (b + 1) * u <= a * u
    BY <2>2, TimesLess
  <2>4. PICK v \in Nat, w \in Nat : v = a * u /\ w = b * u /\ u * a = v /\ u * b = w
    BY TimesNat
  <2>5. (b + 1) * u = w + u
    BY <2>4
  <2> QED
    BY <1>1, <2>1, <2>3, <2>4, <2>5
<1>2. CASE l.layout # "strided"
  BY <1>2
<1> QED
  BY <1>1, <1>2

\* One of u threads has number q of n.
Owned(l, u, n, q) == \E m \in 0..u - 1 : Starts(l, m, u, n, q) /\ Ends(l, m, u, n, q)

\* Every number is one that some thread has.
LEMMA SomeOwner ==
    ASSUME NEW l, l.layout \in {"strided", "contiguous"}, NEW u \in Nat \ {0}, NEW n \in Nat,
           NEW q \in Nat, q < n
    PROVE  Owned(l, u, n, q)
<1>1. CASE l.layout = "strided"
  <2>1. PICK m \in Nat, r \in Nat : q = u * r + m /\ m < u
    BY Division
  <2>2. m \in 0..u - 1
    BY <2>1
  <2>3. q = m + u * r
    <3>1. u * r \in Nat
      BY TimesNat
    <3> QED
      BY <2>1, <3>1
  <2> QED
    BY <1>1, <2>2, <2>3 DEF Starts, Ends, Owned
<1>2. CASE l.layout = "contiguous"
  <2>1. q \in 0..n - 1
    OBVIOUS
  <2>2. PICK m \in 0..u - 1 : SlotBegin(m, n, u) <= q /\ q < SlotBegin(m + 1, n, u)
    BY <2>1, SlotsCover
  <2> QED
    BY <1>2, <2>2 DEF Starts, Ends, Owned
<1> QED
  BY <1>1, <1>2

\* A part has all the indices that fit.
LEMMA ExtentsCover ==
    ASSUME NEW l, WellFormed(l), SharedOut(l), NEW s, Part(l, s), NEW d \in Dims(l.begin),
           NEW q \in Nat, l.stride[d] * q < Distance(s)[d]
    PROVE  q < Extents(s)[d]
<1>1. PICK a \in Nat, m \in Nat \ {0}, f \in Nat, g \in Nat, h \in Nat, e \in Nat :
         /\ a = Distance(s)[d] /\ m = l.stride[d] /\ f = s.begin[d] /\ g = s.end[d]
         /\ h = l.begin[d] /\ e = l.end[d]
  <2>1. Distance(s)[d] \in Nat
    BY ExtentsOfPart
  <2> QED
    BY <2>1, Fields DEF Part
<1>2. f + a = g /\ g <= e
  <2>1. f + a = g
    BY <1>1, ExtentsOfPart
  <2> QED
    BY <1>1, <2>1 DEF Part
<1>3. e + m <= Modulus /\ Modulus \in Nat
  <2>1. CASE Flat(l)
    BY <1>1, <2>1, IdxMapAssumption DEF SharedOut
  <2>2. CASE ~Flat(l)
    <3>1. l.traverse = "tiled"
      BY <2>2 DEF WellFormed, Flat
    <3>2. e + Product(l.count) * m <= Modulus
      BY <1>1, <3>1 DEF WellFormed
    <3>3. PICK c \in Nat \ {0} : c = Product(l.count)
      BY Threads DEF Workers
    <3>4. 1 * m <= c * m
      BY TimesLess
    <3>5. c * m \in Nat /\ 1 * m = m
      BY TimesNat
    <3>6. Modulus \in Nat
      BY IdxMapAssumption
    <3> QED
      BY <3>2, <3>3, <3>4, <3>5, <3>6
  <2> QED
    BY <2>1, <2>2
<1>4. PICK b \in Nat : b = a + m - 1 /\ b < Modulus
  BY <1>2, <1>3
<1>5. Wrap(b) = b
  BY <1>3, <1>4 DEF Wrap
<1>6. Extents(s)[d] = b \div m
  <2>1. Dims(s.begin) = Dims(l.begin)
    <3>1. PICK n \in Nat : n = Len(l.begin) /\ Dims(l.begin) = 1..n
      BY Fields
    <3>2. s.begin \in [1..n -> Nat]
      BY <3>1 DEF Part
    <3> QED
      BY <3>1, <3>2, Vector
  <2>2. Extents(s)[d] = DivCeil(a, m)
    BY <1>1, <2>1 DEF Extents, Part
  <2> QED
    BY <1>4, <1>5, <2>2 DEF DivCeil
<1>7. PICK c \in Nat, r \in Nat : c = b \div m /\ b = m * c + r /\ r < m
  BY Division
<1>8. SUFFICES ASSUME c <= q PROVE FALSE
  BY <1>6, <1>7
<1>9. c * m <= q * m
  BY <1>8, TimesLess
<1>10. PICK v \in Nat, w \in Nat : v = c * m /\ w = q * m /\ m * c = v /\ m * q = w
  BY TimesNat
<1>11. w < a
  BY <1>1, <1>10
<1> QED
  BY <1>4, <1>7, <1>9, <1>10, <1>11

\* Every thread has its number.
LEMMA SomeThread ==
    ASSUME NEW l, WellFormed(l), NEW t \in Box(l)
    PROVE  \E k \in 0..Workers(l) - 1 : Thread(l, k) = t
<1>1. PICK n, e : n = Len(e) /\ e = l.count
  OBVIOUS
<1>2. n \in Nat /\ e \in [1..n -> Nat] /\ Dims(l.begin) = 1..n
  <2>1. l.count \in [Dims(l.begin) -> Nat \ {0}] /\ Len(l.count) = Len(l.begin)
    BY Fields
  <2>2. Dims(l.begin) = 1..Len(l.begin) /\ Len(l.begin) \in Nat
    BY Fields
  <2> QED
    BY <1>1, <2>1, <2>2
<1>3. t \in [1..n -> Nat] /\ \A d \in 1..n : t[d] < e[d]
  BY <1>1, <1>2 DEF Box
<1>4. PICK k \in Nat : k = Linearize(e, t) /\ k < Product(e) /\ MapToND(e, k) = t
  BY <1>2, <1>3, MapOfLinearize
<1>5. Workers(l) \in Nat /\ Workers(l) = Product(e)
  BY <1>1, Threads DEF Workers
<1>6. k \in 0..Workers(l) - 1
  BY <1>4, <1>5
<1> QED
  BY <1>1, <1>4, <1>6 DEF Thread

\* Every place of a team is that of a thread.
LEMMA SomePlace ==
    ASSUME NEW l, WellFormed(l), SharedOut(l), NEW m \in [Dims(l.begin) -> Nat],
           \A d \in Selected(l) : m[d] < Team(l)[d]
    PROVE  \E k \in 0..Workers(l) - 1 : \A d \in Selected(l) : Mine(l, k)[d] = m[d]
<1>1. PICK D, x : D = Dims(l.begin) /\ x = l.select[1]
  OBVIOUS
<1>2. l.count \in [D -> Nat \ {0}] /\ x \in D /\ x \in Selected(l) /\ Selected(l) \subseteq D
  <2>1. l.count \in [D -> Nat \ {0}]
    BY <1>1, Fields
  <2>2. l.select \in [Dims(l.select) -> D]
    BY <1>1, Fields
  <2> QED
    BY <1>1, <2>1, <2>2, Joining DEF Selected
<1>3. PICK o \in D : /\ o = x \/ o \in Others(l)
                     /\ \A v \in Box(l) : Joined(l, x, o, v)
  BY <1>1, TeamForm
<1>4. PICK c \in Nat \ {0}, e \in Nat \ {0}, w \in Nat :
         c = l.count[x] /\ e = l.count[o] /\ w = m[x]
  BY <1>1, <1>2, <1>3
<1>5. Thread(l, 0) \in Box(l)
  <2>1. Workers(l) \in Nat \ {0}
    BY Threads
  <2>2. 0 \in 0..Workers(l) - 1
    BY <2>1
  <2> QED
    BY <2>2, Threads
<1>6. Team(l) = [d \in D |-> IF d \in Others(l) THEN 1
                             ELSE IF d = x THEN IF o = x THEN c ELSE e * c ELSE l.count[d]]
  BY <1>1, <1>3, <1>4, <1>5 DEF Joined, Team
<1>7. \A d \in Selected(l) : d \in D /\ d \notin Others(l)
  BY <1>2 DEF Others
<1>8. w < IF o = x THEN c ELSE e * c
  <2>1. m[x] < Team(l)[x]
    BY <1>2
  <2>2. Team(l)[x] = IF o = x THEN c ELSE e * c
    BY <1>2, <1>6, <1>7
  <2> QED
    BY <1>4, <2>1, <2>2
<1>9. PICK q \in Nat, r \in Nat : q = w \div c /\ w = c * q + r /\ r < c
  BY Division
<1>10. o # x => q < e
  BY <1>8, <1>9, QuotientBound
<1>11. PICK t : t = [d \in D |-> IF d \in Selected(l) /\ d # x THEN m[d]
                                ELSE IF d = x THEN IF o = x THEN w ELSE r
                                ELSE IF d = o THEN q ELSE 0]
  OBVIOUS
<1>12. o # x => o \notin Selected(l)
  BY <1>3 DEF Others
<1>13. ASSUME NEW d \in D PROVE t[d] \in Nat /\ t[d] < l.count[d]
  <2>1. l.count[d] \in Nat \ {0}
    BY <1>2
  <2>2. CASE d \in Selected(l) /\ d # x
    <3>1. t[d] = m[d] /\ m[d] \in Nat /\ m[d] < Team(l)[d]
      BY <1>1, <1>11, <2>2
    <3>2. Team(l)[d] = l.count[d]
      BY <1>6, <1>7, <2>2
    <3> QED
      BY <3>1, <3>2
  <2>3. CASE d = x
    BY <1>4, <1>8, <1>9, <1>11, <2>3
  <2>4. CASE d \notin Selected(l) /\ d # x
    <3>1. t[d] = IF d = o THEN q ELSE 0
      BY <1>11, <2>4
    <3>2. CASE d = o
      BY <1>4, <1>9, <1>10, <2>4, <3>1, <3>2
    <3>3. CASE d # o
      BY <2>1, <3>1, <3>3
    <3> QED
      BY <3>2, <3>3
  <2> QED
    BY <2>2, <2>3, <2>4
<1>14. t \in Box(l)
  <2>1. t \in [D -> Nat]
    BY <1>11, <1>13
  <2> QED
    BY <1>1, <1>13, <2>1 DEF Box
<1>15. Joined(l, x, o, t)
  BY <1>3, <1>14
<1>16. ASSUME NEW d \in Selected(l) PROVE MapTo(l, t).idx[d] = m[d]
  <2>1. CASE d # x
    <3>1. MapTo(l, t).idx[d] = t[d]
      BY <1>1, <1>7, <1>15, <2>1 DEF Joined
    <3> QED
      BY <1>7, <1>11, <2>1, <3>1
  <2>2. CASE d = x
    <3>1. MapTo(l, t).idx[x] = t[x] + (IF o = x THEN 0 ELSE t[o] * c)
      BY <1>4, <1>15 DEF Joined
    <3>2. CASE o = x
      <4>1. t[x] = w
        BY <1>2, <1>11, <3>2
      <4> QED
        BY <1>4, <2>2, <3>1, <3>2, <4>1
    <3>3. CASE o # x
      <4>1. t[x] = r /\ t[o] = q
        BY <1>2, <1>11, <1>12, <3>3
      <4>2. PICK y \in Nat : y = c * q /\ y = q * c
        BY TimesNat
      <4>3. MapTo(l, t).idx[x] = r + y
        BY <3>1, <3>3, <4>1, <4>2
      <4>4. w = r + y
        BY <1>9, <4>2
      <4> QED
        BY <1>4, <2>2, <4>3, <4>4
    <3> QED
      BY <3>2, <3>3
  <2> QED
    BY <2>1, <2>2
<1>17. PICK k \in 0..Workers(l) - 1 : Thread(l, k) = t
  BY <1>14, SomeThread
<1> QED
  BY <1>16, <1>17 DEF Mine

\* Every number of the threads is that of one.
LEMMA SomeNumber ==
    ASSUME NEW l, WellFormed(l), SharedOut(l), NEW w \in 0..Numbers(l) - 1
    PROVE  \E k \in 0..Workers(l) - 1 : Number(l, k) = w
<1>1. PICK n, sel, D : /\ n \in Nat /\ n = Len(l.select) /\ sel = l.select /\ D = Dims(l.begin)
                       /\ Dims(l.select) = 1..n /\ sel \in [1..n -> D]
  BY Fields
<1>2. Team(l) \in [D -> Nat \ {0}]
  <2>1. 0 \in 0..Workers(l) - 1
    <3>1. Workers(l) \in Nat \ {0}
      BY Threads
    <3> QED
      BY <3>1
  <2> QED
    BY <1>1, <2>1, Whole, InTeam
<1>3. PICK e : e = Pick(Team(l), sel)
  OBVIOUS
<1>4. e \in Seq(Nat \ {0}) /\ Len(e) = n /\ \A i \in 1..n : e[i] = Team(l)[sel[i]]
  <2>1. Team(l) \in [Dims(l.begin) -> Nat \ {0}]
    BY <1>1, <1>2
  <2>2. Pick(Team(l), l.select) \in Seq(Nat \ {0})
    BY <2>1, PickVector
  <2>3. Pick(Team(l), l.select) \in [1..Len(l.select) -> Nat \ {0}]
    BY <2>1, PickVector
  <2>4. \A i \in 1..Len(l.select) : Pick(Team(l), l.select)[i] = Team(l)[l.select[i]]
    BY DEF Pick, Dims
  <2>5. e = Pick(Team(l), l.select)
    BY <1>1, <1>3
  <2>6. e \in Seq(Nat \ {0}) /\ e \in [1..n -> Nat \ {0}]
    BY <1>1, <2>2, <2>3, <2>5
  <2>7. ASSUME NEW i \in 1..n PROVE e[i] = Team(l)[sel[i]]
    BY <1>1, <2>4, <2>5
  <2>8. Len(e) = n
    BY <1>1, <2>6
  <2> QED
    BY <2>6, <2>7, <2>8
<1>5. w \in Nat /\ w < Product(e)
  <2>1. Numbers(l) \in Nat /\ Numbers(l) = Product(e)
    BY <1>1, <1>3, OneNumber DEF Numbers
  <2> QED
    BY <2>1
<1>6. PICK y : y = MapToND(e, w)
  OBVIOUS
<1>7. y \in [1..n -> Nat] /\ \A i \in 1..n : y[i] < e[i]
  BY <1>4, <1>5, <1>6, MapToNDInRange
<1>8. Linearize(e, y) = w
  BY <1>4, <1>5, <1>6, LinearizeOfMap
<1>9. PICK m : m = [d \in D |-> IF d \in Selected(l) THEN y[CHOOSE i \in 1..n : sel[i] = d] ELSE 0]
  OBVIOUS
<1>10. ASSUME NEW i \in 1..n PROVE sel[i] \in D /\ m[sel[i]] = y[i]
  <2>1. PICK d : d = sel[i] /\ d \in D
    BY <1>1
  <2>2. \A j \in 1..n : sel[j] = d => j = i
    BY <1>1, <2>1 DEF WellFormed
  <2>3. (CHOOSE j \in 1..n : sel[j] = d) = i
    BY <2>1, <2>2
  <2>4. d \in Selected(l)
    BY <1>1, <2>1 DEF Selected
  <2> QED
    BY <1>9, <2>1, <2>3, <2>4
<1>11. ASSUME NEW d \in Selected(l) PROVE \E i \in 1..n : sel[i] = d
  BY <1>1 DEF Selected
<1>12. m \in [D -> Nat]
  <2>1. ASSUME NEW d \in D PROVE m[d] \in Nat
    <3>1. CASE d \in Selected(l)
      BY <1>7, <1>10, <1>11, <3>1
    <3>2. CASE d \notin Selected(l)
      BY <1>9, <3>2
    <3> QED
      BY <3>1, <3>2
  <2> QED
    BY <1>9, <2>1
<1>13. PICK k \in 0..Workers(l) - 1 : \A d \in Selected(l) : Mine(l, k)[d] = m[d]
  <2>1. ASSUME NEW d \in Selected(l) PROVE m[d] < Team(l)[d]
    <3>1. PICK i \in 1..n : sel[i] = d
      BY <1>11
    <3>2. m[d] = y[i] /\ y[i] < e[i] /\ e[i] = Team(l)[d]
      BY <1>4, <1>7, <1>10, <3>1
    <3> QED
      BY <3>2
  <2> QED
    BY <1>1, <1>12, <2>1, SomePlace
<1>14. Pick(Mine(l, k), sel) = y
  <2>1. Pick(Mine(l, k), sel) = [i \in 1..n |-> Mine(l, k)[sel[i]]]
    BY <1>1 DEF Pick
  <2>2. ASSUME NEW i \in 1..n PROVE Mine(l, k)[sel[i]] = y[i]
    <3>1. sel[i] \in Selected(l)
      BY <1>1 DEF Selected
    <3> QED
      BY <1>10, <1>13, <3>1
  <2> QED
    BY <1>7, <2>1, <2>2
<1>15. Number(l, k) = w
  BY <1>1, <1>3, <1>8, <1>14 DEF Number
<1> QED
  BY <1>15

\* In each dimension, an index of a part of a range is one of those that are counted.
LEMMA Digit ==
    ASSUME NEW l, WellFormed(l), SharedOut(l), NEW s, Part(l, s), NEW x, Among(l, s, x),
           NEW d \in Selected(l)
    PROVE  /\ d \in Dims(l.begin) /\ x[d] \in Nat
           /\ \E q \in Nat : x[d] = s.begin[d] + l.stride[d] * q /\ q < Extents(s)[d]
<1>1. d \in Dims(l.begin)
  BY Fields DEF Selected
<1>2. PICK y \in Nat, b \in Nat, e \in Nat, m \in Nat \ {0}, z \in Nat :
         /\ y = x[d] /\ b = s.begin[d] /\ e = s.end[d] /\ m = l.stride[d] /\ z = Distance(s)[d]
  <2>1. Distance(s)[d] \in Nat
    BY <1>1, ExtentsOfPart
  <2> QED
    BY <1>1, <2>1, Fields DEF Part, Among
<1>3. Aligned(y, b, m) /\ y < e
  BY <1>1, <1>2 DEF Among
<1>4. PICK q \in Nat : y = b + m * q
  BY <1>3 DEF Aligned
<1>5. b + z = e
  BY <1>1, <1>2, ExtentsOfPart
<1>6. PICK p \in Nat : p = m * q
  BY TimesNat
<1>7. m * q < z
  BY <1>3, <1>4, <1>5, <1>6
<1>8. q < Extents(s)[d]
  BY <1>1, <1>2, <1>7, ExtentsCover
<1> QED
  BY <1>1, <1>2, <1>4, <1>8

\* Every index of a part of a range that is traversed flat is one that a thread has.
LEMMA FlatAt ==
    ASSUME NEW l, WellFormed(l), SharedOut(l), NEW s, Part(l, s), Flat(l), NEW x, Among(l, s, x)
    PROVE  \E k \in 0..Workers(l) - 1 : \E a \in FlatRounds(l, s, k) :
              ~AtEnd(l, a) /\ Index(l, a) = x
<1>1. PICK n, sel, D : /\ n \in Nat /\ n = Len(l.select) /\ sel = l.select /\ D = Dims(l.begin)
                       /\ Dims(l.select) = 1..n /\ sel \in [1..n -> D]
  BY Fields
<1>2. \A i \in 1..n : sel[i] \in Selected(l)
  BY <1>1 DEF Selected
<1>3. \A i \in 1..n : \E q \in Nat :
         /\ x[sel[i]] = s.begin[sel[i]] + l.stride[sel[i]] * q /\ q < Extents(s)[sel[i]]
  BY <1>2, Digit
<1>4. PICK y : y = [i \in 1..n |-> CHOOSE q \in Nat :
                       /\ x[sel[i]] = s.begin[sel[i]] + l.stride[sel[i]] * q
                       /\ q < Extents(s)[sel[i]]]
  OBVIOUS
<1>5. \A i \in 1..n : /\ y[i] \in Nat /\ x[sel[i]] = s.begin[sel[i]] + l.stride[sel[i]] * y[i]
                      /\ y[i] < Extents(s)[sel[i]]
  BY <1>3, <1>4
<1>6. y \in [1..n -> Nat]
  BY <1>4, <1>5
<1>7. PICK e : e = Pick(Extents(s), sel)
  OBVIOUS
<1>8. e \in [1..n -> Nat] /\ \A i \in 1..n : e[i] = Extents(s)[sel[i]]
  <2>1. Extents(s) \in [Dims(l.begin) -> Nat]
    BY ExtentsOfPart
  <2>2. Pick(Extents(s), l.select) \in [1..Len(l.select) -> Nat]
    BY <2>1, PickVector
  <2>3. \A i \in 1..Len(l.select) : Pick(Extents(s), l.select)[i] = Extents(s)[l.select[i]]
    BY DEF Pick, Dims
  <2> QED
    BY <1>1, <1>7, <2>2, <2>3
<1>9. \A i \in 1..n : y[i] < e[i]
  BY <1>5, <1>8
<1>10. PICK p \in Nat : p = Linearize(e, y) /\ p < Product(e) /\ MapToND(e, p) = y
  BY <1>1, <1>6, <1>8, <1>9, MapOfLinearize
<1>11. PICK z \in Nat, u \in Nat \ {0} : z = Size(s) /\ z = Product(e) /\ u = Numbers(l)
  <2>1. Size(s) = Product(e)
    BY <1>1, <1>7 DEF Size, Part
  <2>2. Size(s) \in Nat
    BY SizeNat
  <2>3. Numbers(l) \in Nat \ {0}
    BY OneNumber
  <2>4. Product(e) \in Nat
    BY <2>1, <2>2
  <2> QED
    BY <2>1, <2>3, <2>4
<1>12. PICK w \in 0..u - 1 : Starts(l, w, u, z, p) /\ Ends(l, w, u, z, p)
  <2>1. l.layout \in {"strided", "contiguous"}
    BY DEF WellFormed
  <2>2. p < z
    BY <1>10, <1>11
  <2>3. Owned(l, u, z, p)
    BY <2>1, <2>2, SomeOwner
  <2> QED
    BY <2>3 DEF Owned
<1>13. PICK k \in 0..Workers(l) - 1 : Number(l, k) = w
  BY <1>11, <1>12, SomeNumber
<1>14. PICK i, a : /\ i = [offset |-> s.begin, extent |-> e, current |-> p,
                           step |-> IF l.layout = "strided" THEN u ELSE 1]
                   /\ a = [iter |-> i, end |-> p + 1]
  OBVIOUS
<1>15. a \in FlatLoops(s)
  <2>1. s.select = sel
    BY <1>1 DEF Part
  <2>2. p + 1 \in 0..Product(e)
    BY <1>10, <1>11
  <2>3. i \in [offset : {s.begin}, extent : {Pick(Extents(s), s.select)}, current : Nat, step : Nat]
    BY <1>7, <1>14, <2>1
  <2>4. p + 1 \in 0..Product(Pick(Extents(s), s.select))
    BY <1>7, <2>1, <2>2
  <2> QED
    BY <1>14, <2>3, <2>4 DEF FlatLoops
<1>16. l.layout = "contiguous" => p + 1 <= SlotBegin(w + 1, z, u)
  <2>1. w + 1 \in Nat
    OBVIOUS
  <2>2. SlotBegin(w + 1, z, u) \in Nat
    BY <2>1, SlotNat
  <2> QED
    BY <1>12, <2>2 DEF Ends
<1>17. a \in FlatRounds(l, s, k)
  BY <1>11, <1>12, <1>13, <1>14, <1>15, <1>16 DEF FlatRounds
<1>18. ~AtEnd(l, a)
  BY <1>14 DEF AtEnd
<1>19. PICK v : v = Index(l, a)
  OBVIOUS
<1>20. Among(l, s, v) /\ \A j \in 1..n : v[sel[j]] = s.begin[sel[j]] + l.stride[sel[j]] * y[j]
  <2>1. Pick(Extents(s), l.select) = e /\ a.iter.current = p
    BY <1>1, <1>7, <1>14
  <2> QED
    BY <1>1, <1>10, <1>15, <1>18, <1>19, <2>1, FlatPoint
<1>21. ASSUME NEW d \in D PROVE v[d] = x[d]
  <2>1. CASE d \in Selected(l)
    <3>1. PICK j \in 1..n : sel[j] = d
      BY <1>1, <2>1 DEF Selected
    <3> QED
      BY <1>5, <1>20, <3>1
  <2>2. CASE d \notin Selected(l)
    BY <1>1, <1>20, <2>2 DEF Among
  <2> QED
    BY <2>1, <2>2
<1>22. v = x
  <2>1. v \in [D -> Nat] /\ x \in [D -> Nat]
    BY <1>1, <1>20 DEF Among
  <2> QED
    BY <1>21, <2>1
<1> QED
  BY <1>17, <1>18, <1>19, <1>22

\* Every index of a part of a range that is traversed tiled is one that a thread has.
LEMMA TiledAt ==
    ASSUME NEW l, WellFormed(l), SharedOut(l), NEW s, Part(l, s), ~Flat(l), NEW x, Among(l, s, x)
    PROVE  \E k \in 0..Workers(l) - 1 : \E a \in TiledRounds(l, s, k) :
              ~AtEnd(l, a) /\ Index(l, a) = x
<1>1. PICK n, sel, D : /\ n \in Nat \ {0} /\ n = Len(l.select) /\ sel = l.select
                       /\ D = Dims(l.begin) /\ Dims(l.select) = 1..n /\ sel \in [1..n -> D]
  BY Fields
<1>2. \A i \in 1..n : sel[i] \in Selected(l) /\ sel[i] \in D
  BY <1>1 DEF Selected
<1>3. 0 \in 0..Workers(l) - 1
  <2>1. Workers(l) \in Nat \ {0}
    BY Threads
  <2> QED
    BY <2>1
<1>4. Team(l) \in [D -> Nat \ {0}]
  BY <1>1, <1>3, InTeam
\* the place of the thread
<1>5. ASSUME NEW d \in Selected(l)
      PROVE  \E m \in Nat : /\ m < Team(l)[d]
                            /\ \E q \in Nat : /\ x[d] = s.begin[d] + l.stride[d] * q
                                              /\ Starts(l, m, Team(l)[d], Extents(s)[d], q)
                                              /\ Ends(l, m, Team(l)[d], Extents(s)[d], q)
  <2>1. d \in Dims(l.begin)
    BY Digit
  <2>2. PICK q \in Nat : x[d] = s.begin[d] + l.stride[d] * q /\ q < Extents(s)[d]
    BY Digit
  <2>3. PICK u \in Nat \ {0}, z \in Nat : u = Team(l)[d] /\ z = Extents(s)[d]
    BY <1>3, <2>1, Scale
  <2>4. l.layout \in {"strided", "contiguous"}
    BY DEF WellFormed
  <2>5. PICK m \in 0..u - 1 : Starts(l, m, u, z, q) /\ Ends(l, m, u, z, q)
    <3>1. Owned(l, u, z, q)
      BY <2>2, <2>3, <2>4, SomeOwner
    <3> QED
      BY <3>1 DEF Owned
  <2>6. m \in Nat /\ m < u
    BY <2>5
  <2> QED
    BY <2>2, <2>3, <2>5, <2>6
<1> DEFINE Owner(d, m) ==
              /\ m < Team(l)[d]
              /\ \E q \in Nat : /\ x[d] = s.begin[d] + l.stride[d] * q
                                /\ Starts(l, m, Team(l)[d], Extents(s)[d], q)
                                /\ Ends(l, m, Team(l)[d], Extents(s)[d], q)
<1>6. \A d \in Selected(l) : \E m \in Nat : Owner(d, m)
  BY <1>5
<1> HIDE DEF Owner
<1>7. PICK f : f = [d \in D |-> IF d \in Selected(l) THEN CHOOSE m \in Nat : Owner(d, m) ELSE 0]
  OBVIOUS
<1>8. Selected(l) \subseteq D
  BY <1>1 DEF Selected
<1>9. \A d \in Selected(l) : f[d] \in Nat /\ Owner(d, f[d])
  BY <1>6, <1>7, <1>8
<1>10. f \in [D -> Nat]
  <2>1. \A d \in D : f[d] \in Nat
    BY <1>7, <1>9
  <2> QED
    BY <1>7, <2>1
<1>11. PICK k \in 0..Workers(l) - 1 : \A d \in Selected(l) : Mine(l, k)[d] = f[d]
  <2>1. \A d \in Selected(l) : f[d] < Team(l)[d]
    BY <1>9 DEF Owner
  <2> QED
    BY <1>1, <1>10, <2>1, SomePlace
<1>12. ASSUME NEW d \in Selected(l)
       PROVE  \E q \in Nat : /\ x[d] = s.begin[d] + l.stride[d] * q
                             /\ Starts(l, Mine(l, k)[d], Team(l)[d], Extents(s)[d], q)
                             /\ Ends(l, Mine(l, k)[d], Team(l)[d], Extents(s)[d], q)
  BY <1>9, <1>11 DEF Owner
\* the loop
<1>13. PICK i, a : /\ i = [first |-> [j \in 1..n |-> x[sel[j]]],
                           extent |-> [j \in 1..n |-> x[sel[j]] + 1],
                           step |-> [j \in 1..n |->
                                       l.stride[sel[j]]
                                       * (IF l.layout = "strided" THEN Team(l)[sel[j]] ELSE 1)],
                           current |-> x]
                   /\ a = [iter |-> i, end |-> x[sel[1]] + 1]
  OBVIOUS
<1>14. x \in [D -> Nat]
  BY <1>1 DEF Among
<1>15. PICK c \in Nat : c = Product(l.count) /\ 1 <= c /\ \A d \in D : Team(l)[d] <= c
  <2>1. Workers(l) \in Nat \ {0}
    BY Threads
  <2>2. \A d \in D : Team(l)[d] <= Product(l.count)
    <3>1. Thread(l, 0) \in [Dims(l.begin) -> Nat]
      BY ThreadVector
    <3>2. PICK m : m = MapTo(l, Thread(l, 0))
      OBVIOUS
    <3>3. \A d \in Dims(l.begin) : m.num[d] <= Product(l.count)
      BY <3>1, <3>2, Whole, Mapped
    <3> QED
      BY <1>1, <3>2, <3>3 DEF Team
  <2> QED
    BY <2>1, <2>2 DEF Workers
<1>16. ASSUME NEW j \in 1..n
       PROVE  /\ i.first[j] = x[sel[j]] /\ i.extent[j] = x[sel[j]] + 1
              /\ i.step[j] = l.stride[sel[j]]
                             * (IF l.layout = "strided" THEN Team(l)[sel[j]] ELSE 1)
              /\ i.step[j] \in Nat
              /\ \E p \in 0..Product(l.count) : i.step[j] = l.stride[sel[j]] * p
  <2>1. PICK m \in Nat, u \in Nat : m = l.stride[sel[j]] /\ u = Team(l)[sel[j]] /\ u <= c
    BY <1>1, <1>2, <1>4, <1>15, Fields
  <2>2. PICK p \in Nat : p = IF l.layout = "strided" THEN u ELSE 1
    BY <2>1
  <2>3. p \in 0..Product(l.count)
    BY <1>15, <2>1, <2>2
  <2>4. i.step[j] = m * p
    BY <1>13, <2>1, <2>2
  <2>5. m * p \in Nat
    BY TimesNat
  <2> QED
    BY <1>13, <2>1, <2>2, <2>3, <2>4, <2>5
<1>17. i \in TiledIters(l)
  <2>1. i.first \in [1..n -> Nat] /\ i.extent \in [1..n -> Nat]
    BY <1>2, <1>13, <1>14
  <2>2. i.step \in [1..n -> Nat]
    <3>1. i.step = [j \in 1..n |-> i.step[j]]
      BY <1>13
    <3> QED
      BY <1>16, <3>1
  <2> QED
    BY <1>1, <1>13, <1>14, <2>1, <2>2 DEF TiledIters
<1>18. OnIndices(l, s, i)
  <2>1. ASSUME NEW j \in 1..n
        PROVE  /\ Aligned(i.first[j], s.begin[sel[j]], l.stride[sel[j]])
               /\ i.extent[j] <= s.end[sel[j]]
    <3>1. Aligned(x[sel[j]], s.begin[sel[j]], l.stride[sel[j]]) /\ x[sel[j]] < s.end[sel[j]]
      BY <1>1, <1>2 DEF Among
    <3>2. PICK y \in Nat, z \in Nat : y = x[sel[j]] /\ z = s.end[sel[j]]
      BY <1>1, <1>2, <1>14 DEF Part
    <3> QED
      BY <1>16, <3>1, <3>2
  <2> QED
    BY <1>1, <1>16, <2>1 DEF OnIndices
<1>19. Valid(l, s, i)
  <2>1. ASSUME NEW j \in 2..n
        PROVE  i.first[j] < i.extent[j] /\ i.current[sel[j]] < i.extent[j]
    <3>1. j \in 1..n
      OBVIOUS
    <3>2. PICK y \in Nat : y = x[sel[j]]
      BY <1>2, <1>14, <3>1
    <3> QED
      BY <1>13, <1>16, <3>1, <3>2
  <2>2. \A d \in D : IF d \in Selected(l) THEN Aligned(i.current[d], s.begin[d], l.stride[d])
                     ELSE i.current[d] = s.begin[d]
    BY <1>1, <1>13 DEF Among
  <2> QED
    BY <1>1, <2>1, <2>2 DEF Valid
<1>20. PICK y \in Nat : y = x[sel[1]] /\ 1 \in 1..n
  BY <1>1, <1>2, <1>14
<1>21. a \in TiledLoops(l, s)
  <2>1. a \in [iter : TiledIters(l), end : Nat]
    BY <1>13, <1>17, <1>20
  <2>2. a.end = a.iter.extent[1]
    BY <1>13, <1>16, <1>20
  <2> QED
    BY <1>13, <1>18, <1>19, <2>1, <2>2 DEF TiledLoops
<1>22. ~AtEnd(l, a)
  BY <1>1, <1>13, <1>20 DEF AtEnd
<1>23. ASSUME NEW j \in 1..n
       PROVE  Has(l, s, k, sel[j], x[sel[j]]) /\ Bounded(l, s, k, j, sel[j], i)
  <2>1. PICK d \in D : d = sel[j] /\ d \in Selected(l)
    BY <1>2
  <2>2. PICK q \in Nat : /\ x[d] = s.begin[d] + l.stride[d] * q
                         /\ Starts(l, Mine(l, k)[d], Team(l)[d], Extents(s)[d], q)
                         /\ Ends(l, Mine(l, k)[d], Team(l)[d], Extents(s)[d], q)
    BY <1>12, <2>1
  <2>3. Has(l, s, k, d, x[d])
    BY <2>2 DEF Has
  <2>4. PICK b \in Nat, m \in Nat \ {0}, w \in Nat, u \in Nat \ {0}, z \in Nat :
           /\ b = s.begin[d] /\ m = l.stride[d] /\ w = Mine(l, k)[d] /\ u = Team(l)[d]
           /\ z = Extents(s)[d]
    BY <1>1, Scale
  <2>5. l.layout = "contiguous" => x[d] + 1 <= b + m * SlotBegin(w + 1, z, u)
    <3>1. SUFFICES ASSUME l.layout = "contiguous" PROVE x[d] + 1 <= b + m * SlotBegin(w + 1, z, u)
      OBVIOUS
    <3>2. w + 1 \in Nat
      OBVIOUS
    <3>3. PICK g \in Nat : g = SlotBegin(w + 1, z, u)
      BY <3>2, SlotNat
    <3>4. q < g
      BY <2>2, <2>4, <3>1, <3>3 DEF Ends
    <3>5. q * m + 0 < g * m
      BY <3>4, DigitsBelow
    <3>6. PICK v \in Nat, h \in Nat : v = m * q /\ h = m * g /\ q * m = v /\ g * m = h
      BY TimesNat
    <3>7. x[d] = b + v
      BY <2>2, <2>4, <3>6
    <3> QED
      BY <3>3, <3>5, <3>6, <3>7
  <2>6. i.first[j] = x[d] /\ i.extent[j] = x[d] + 1
        /\ i.step[j] = l.stride[d] * (IF l.layout = "strided" THEN Team(l)[d] ELSE 1)
    BY <1>16, <2>1
  <2>7. Bounded(l, s, k, j, d, i)
    BY <2>3, <2>4, <2>5, <2>6 DEF Bounded
  <2> QED
    BY <2>1, <2>3, <2>7
<1>24. a \in TiledRounds(l, s, k)
  BY <1>1, <1>13, <1>21, <1>23 DEF TiledRounds
<1>25. Index(l, a) = x
  BY <1>13 DEF Index
<1> QED
  BY <1>22, <1>24, <1>25

\* What a thread has begins and ends with the loop that it begins.
LEMMA FlatSpan ==
    ASSUME NEW l, WellFormed(l), SharedOut(l), NEW s, Part(l, s), NEW k \in 0..Workers(l) - 1,
           Flat(l), NEW a \in FlatRounds(l, s, k), ~AtEnd(l, a), NEW b, b = Loop(s, Thread(l, k))
    PROVE  b.iter.current <= a.iter.current /\ a.iter.current < b.end
<1>1. PICK w, u, n : w = Number(l, k) /\ u = Numbers(l) /\ n = Size(s)
  OBVIOUS
<1>2. w \in Nat /\ u \in Nat \ {0} /\ n \in Nat
  <2>1. Number(l, k) \in 0..Numbers(l) - 1 /\ Numbers(l) \in Nat \ {0}
    BY OneNumber
  <2> QED
    BY <1>1, <2>1, SizeNat
<1>3. /\ b.iter.current = IF l.layout = "strided" THEN w ELSE SlotBegin(w, n, u)
      /\ b.end = IF l.layout = "strided" THEN n ELSE Less(SlotBegin(w + 1, n, u), n)
  BY <1>1, FlatBounds
<1>4. a \in FlatLoops(s) /\ s.select = l.select
  BY DEF FlatRounds, Part
<1>5. PICK c \in Nat, e \in Nat : c = a.iter.current /\ e = a.end /\ c < e /\ e <= n
  <2>1. a.iter.current \in Nat /\ a.end \in 0..n
    BY <1>1, <1>4 DEF FlatLoops, Size
  <2>2. ~(a.iter.current >= a.end)
    BY DEF AtEnd
  <2> QED
    BY <1>2, <2>1, <2>2
<1>6. Starts(l, w, u, n, c) /\ (l.layout = "contiguous" => e <= SlotBegin(w + 1, n, u))
  BY <1>1, <1>5 DEF FlatRounds
<1>7. CASE l.layout = "strided"
  <2>1. PICK r \in Nat : c = w + u * r
    BY <1>6, <1>7 DEF Starts
  <2>2. u * r \in Nat
    BY <1>2, TimesNat
  <2> QED
    BY <1>2, <1>3, <1>5, <1>7, <2>1, <2>2
<1>8. CASE l.layout # "strided"
  <2>1. SlotBegin(w, n, u) <= c /\ e <= SlotBegin(w + 1, n, u)
    BY <1>6, <1>8 DEF Starts, WellFormed
  <2>2. w + 1 \in Nat
    BY <1>2
  <2>3. SlotBegin(w, n, u) \in Nat /\ SlotBegin(w + 1, n, u) \in Nat
    BY <1>2, <2>2, SlotNat
  <2> QED
    BY <1>2, <1>3, <1>5, <1>8, <2>1, <2>3 DEF Less
<1> QED
  BY <1>7, <1>8

\* The same in one dimension of a tiled loop.
LEMMA TiledSpan ==
    ASSUME NEW l, WellFormed(l), SharedOut(l), NEW s, Part(l, s), NEW k \in 0..Workers(l) - 1,
           ~Flat(l), NEW a \in TiledRounds(l, s, k), ~AtEnd(l, a), NEW i \in 1..Len(l.select)
    PROVE  LET d == l.select[i]
           IN  /\ Has(l, s, k, d, a.iter.current[d])
               /\ a.iter.current[d] \in Nat
               /\ FirstOf(l, s, k, d) \in Nat /\ FirstOf(l, s, k, d) <= a.iter.current[d]
               /\ LastOf(l, s, k, d) \in Nat /\ a.iter.current[d] < LastOf(l, s, k, d)
<1>1. PICK n, D, sel :
         /\ n \in Nat \ {0} /\ n = Len(l.select) /\ Dims(l.select) = 1..n
         /\ D = Dims(l.begin) /\ sel = l.select /\ sel \in [1..n -> D]
  BY Fields
<1>2. PICK d \in D : d = sel[i]
  BY <1>1
<1>3. a \in TiledLoops(l, s) /\ a.iter \in TiledIters(l) /\ Bounded(l, s, k, i, d, a.iter)
      /\ Has(l, s, k, d, a.iter.current[d])
  BY <1>1, <1>2 DEF TiledRounds, TiledLoops
<1>4. PICK x \in Nat, e \in Nat : x = a.iter.current[d] /\ e = a.iter.extent[i] /\ x < e
  <2>1. a.iter.current[d] \in Nat /\ a.iter.extent[i] \in Nat
    BY <1>1, <1>2, <1>3 DEF TiledIters
  <2>2. a.iter.current[d] < a.iter.extent[i]
    BY <1>1, <1>2, <1>3, TiledPoint
  <2> QED
    BY <2>1, <2>2
<1>5. PICK b \in Nat, m \in Nat \ {0}, w \in Nat, u \in Nat \ {0}, z \in Nat, y \in Nat :
         /\ b = s.begin[d] /\ m = l.stride[d] /\ w = Mine(l, k)[d] /\ u = Team(l)[d]
         /\ z = Extents(s)[d] /\ y = Distance(s)[d]
  BY <1>1, Scale
<1>6. PICK q \in Nat : x = b + m * q /\ Starts(l, w, u, z, q)
  BY <1>3, <1>4, <1>5 DEF Has
<1>7. PICK f \in Nat, g \in Nat : f = SlotBegin(w, z, u) /\ g = SlotBegin(w + 1, z, u)
  <2>1. w + 1 \in Nat
    OBVIOUS
  <2> QED
    BY <2>1, SlotNat
<1>8. PICK p \in Nat : p = IF l.layout = "strided" THEN w ELSE f
  OBVIOUS
<1>9. p <= q
  <2>1. CASE l.layout = "strided"
    <3>1. PICK r \in Nat : q = w + u * r
      BY <1>6, <2>1 DEF Starts
    <3>2. u * r \in Nat
      BY TimesNat
    <3> QED
      BY <1>8, <2>1, <3>1, <3>2
  <2>2. CASE l.layout # "strided"
    BY <1>6, <1>7, <1>8, <2>2 DEF Starts
  <2> QED
    BY <2>1, <2>2
<1>10. p * m <= q * m
  BY <1>9, TimesLess
<1>11. PICK v \in Nat, h \in Nat : v = m * p /\ h = m * q /\ p * m = v /\ q * m = h
  BY TimesNat
<1>12. FirstOf(l, s, k, d) = b + v
  BY <1>5, <1>7, <1>8, <1>11 DEF FirstOf
<1>13. PICK t \in Nat : t = m * g
  BY TimesNat
<1>14. LastOf(l, s, k, d) = b + (IF l.layout = "strided" THEN y ELSE Less(y, t))
  BY <1>5, <1>7, <1>13 DEF LastOf
<1>15. e <= b + y
  <2>1. OnIndices(l, s, a.iter)
    BY <1>3 DEF TiledLoops
  <2>2. e <= s.end[d]
    BY <1>1, <1>2, <1>4, <2>1 DEF OnIndices
  <2>3. s.end[d] = b + y
    BY <1>1, <1>5, ExtentsOfPart
  <2> QED
    BY <2>2, <2>3
<1>16. l.layout = "contiguous" => e <= b + t
  BY <1>3, <1>4, <1>5, <1>7, <1>13 DEF Bounded
<1>17. l.layout \in {"strided", "contiguous"}
  BY DEF WellFormed
<1>18. LastOf(l, s, k, d) \in Nat /\ x < LastOf(l, s, k, d)
  <2>1. x < b + y
    BY <1>4, <1>15
  <2>2. CASE l.layout = "strided"
    <3>1. LastOf(l, s, k, d) = b + y
      BY <1>14, <2>2
    <3>2. b + y \in Nat
      OBVIOUS
    <3> QED
      BY <2>1, <3>1, <3>2
  <2>3. CASE l.layout = "contiguous"
    <3>1. LastOf(l, s, k, d) = b + Less(y, t)
      BY <1>14, <2>3
    <3>2. x < b + t
      BY <1>4, <1>16, <2>3
    <3>3. PICK c \in Nat : c = Less(y, t) /\ (c = y \/ c = t)
      BY DEF Less
    <3>4. LastOf(l, s, k, d) = b + c
      BY <3>1, <3>3
    <3>5. x < b + c /\ b + c \in Nat
      BY <2>1, <3>2, <3>3
    <3> QED
      BY <3>4, <3>5
  <2> QED
    BY <1>17, <2>2, <2>3
<1>19. FirstOf(l, s, k, d) \in Nat /\ FirstOf(l, s, k, d) <= x
  BY <1>6, <1>10, <1>11, <1>12
<1> QED
  BY <1>1, <1>2, <1>3, <1>4, <1>18, <1>19

\* Every index of a part of a range is one that a thread has.
LEMMA RoundAt ==
    ASSUME NEW l, WellFormed(l), SharedOut(l), NEW s, Part(l, s), NEW x, Among(l, s, x)
    PROVE  \E k \in 0..Workers(l) - 1 : \E a \in Rounds(l, s, k) :
              ~AtEnd(l, a) /\ Index(l, a) = x
<1>1. CASE Flat(l)
  BY <1>1, FlatAt DEF Rounds
<1>2. CASE ~Flat(l)
  BY <1>2, TiledAt DEF Rounds
<1> QED
  BY <1>1, <1>2

\* A loop of thread k over a part that ends where the thread's loop is to end.
Entire(l, s, k, loop) ==
    /\ loop \in Rounds(l, s, k)
    /\ IF Flat(l) THEN loop.end = Loop(s, Thread(l, k)).end
       ELSE \A i \in 1..Len(l.select) : /\ loop.iter.first[i] = FirstOf(l, s, k, l.select[i])
                                        /\ loop.iter.extent[i] = LastOf(l, s, k, l.select[i])

\* The loop that a thread begins does.
LEMMA EntireOfThread ==
    ASSUME NEW l, WellFormed(l), SharedOut(l), NEW s, Part(l, s), NEW k \in 0..Workers(l) - 1
    PROVE  Entire(l, s, k, Loop(s, Thread(l, k)))
<1>1. PICK loop : loop = Loop(s, Thread(l, k))
  OBVIOUS
<1>2. loop \in Rounds(l, s, k)
  BY <1>1, RoundOfThread
<1>3. CASE Flat(l)
  BY <1>1, <1>2, <1>3 DEF Entire
<1>4. CASE ~Flat(l)
  <2>1. \A i \in 1..Len(l.select) : /\ loop.iter.first[i] = FirstOf(l, s, k, l.select[i])
                                    /\ loop.iter.extent[i] = LastOf(l, s, k, l.select[i])
    BY <1>1, <1>4, TiledBounds
  <2> QED
    BY <1>1, <1>2, <1>4, <2>1 DEF Entire
<1> QED
  BY <1>3, <1>4

\* ++ does not change it.
LEMMA EntireOn ==
    ASSUME NEW l, WellFormed(l), SharedOut(l), NEW s, Part(l, s), NEW k \in 0..Workers(l) - 1,
           NEW loop, Entire(l, s, k, loop), ~AtEnd(l, loop)
    PROVE  Entire(l, s, k, Increment(l, loop))
<1>1. PICK next : next = Increment(l, loop)
  OBVIOUS
<1>2. loop \in Rounds(l, s, k)
  BY DEF Entire
<1>3. next \in Rounds(l, s, k)
  BY <1>1, <1>2, RoundOn
<1>4. CASE Flat(l)
  <2>1. loop \in FlatLoops(s)
    BY <1>2, <1>4 DEF Rounds, FlatRounds
  <2>2. next.end = loop.end
    BY <1>1, <2>1 DEF Increment, FlatLoops
  <2> QED
    BY <1>1, <1>3, <1>4, <2>2 DEF Entire
<1>5. CASE ~Flat(l)
  <2>1. loop \in TiledLoops(l, s)
    BY <1>2, <1>5 DEF Rounds, TiledRounds
  <2>2. Advanced(l, loop.iter, next.iter)
    BY <1>1, <1>5, <2>1, TiledAdvance
  <2>3. next.iter.first = loop.iter.first /\ next.iter.extent = loop.iter.extent
    BY <2>2 DEF Advanced
  <2> QED
    BY <1>1, <1>3, <1>5, <2>3 DEF Entire
<1> QED
  BY <1>4, <1>5

\* No index of a thread is before the loop that it begins.
LEMMA NoneBefore ==
    ASSUME NEW l, WellFormed(l), SharedOut(l), NEW s, Part(l, s), NEW k \in 0..Workers(l) - 1,
           NEW a \in Rounds(l, s, k), ~AtEnd(l, a)
    PROVE  ~Precedes(l, a, Loop(s, Thread(l, k)))
<1>1. PICK b : b = Loop(s, Thread(l, k))
  OBVIOUS
<1>2. CASE Flat(l)
  <2>1. a \in FlatRounds(l, s, k)
    BY <1>2 DEF Rounds
  <2>2. b.iter.current <= a.iter.current
    BY <1>1, <1>2, <2>1, FlatSpan
  <2>3. a.iter.current \in Nat /\ b.iter.current \in Nat
    BY <1>1, <1>2, RoundOfThread, Positions
  <2> QED
    BY <1>1, <1>2, <2>2, <2>3 DEF Precedes
<1>3. CASE ~Flat(l)
  <2>1. a \in TiledRounds(l, s, k)
    BY <1>3 DEF Rounds
  <2>2. PICK n \in Nat \ {0} : n = Len(l.select)
    BY Fields
  <2>3. ASSUME NEW i \in 1..n
        PROVE  LET d == l.select[i]
               IN  /\ a.iter.current[d] \in Nat
                   /\ FirstOf(l, s, k, d) \in Nat /\ FirstOf(l, s, k, d) <= a.iter.current[d]
                   /\ LastOf(l, s, k, d) \in Nat /\ a.iter.current[d] < LastOf(l, s, k, d)
    BY <1>3, <2>1, <2>2, TiledSpan
  <2>4. ASSUME NEW i \in 1..n
        PROVE  /\ b.iter.first[i] = FirstOf(l, s, k, l.select[i])
               /\ b.iter.extent[i] = LastOf(l, s, k, l.select[i])
    BY <1>1, <1>3, <2>2, TiledBounds
  <2>5. ASSUME NEW i \in 2..n PROVE b.iter.first[i] < b.iter.extent[i]
    <3>1. i \in 1..n
      OBVIOUS
    <3>2. PICK d : d = l.select[i]
      OBVIOUS
    <3>3. PICK x \in Nat, f \in Nat, g \in Nat :
             x = a.iter.current[d] /\ f = FirstOf(l, s, k, d) /\ g = LastOf(l, s, k, d)
             /\ f <= x /\ x < g
      BY <2>3, <3>1, <3>2
    <3>4. f < g
      BY <3>3
    <3> QED
      BY <2>4, <3>1, <3>2, <3>3, <3>4
  <2>6. \A i \in 1..n : b.iter.current[l.select[i]] = b.iter.first[i]
    BY <1>1, <1>3, <2>2, <2>5, TiledBounds
  <2>7. ASSUME NEW i \in 1..n PROVE ~(a.iter.current[l.select[i]] < b.iter.current[l.select[i]])
    <3>1. PICK d : d = l.select[i]
      OBVIOUS
    <3>2. PICK x \in Nat, f \in Nat :
             x = a.iter.current[d] /\ f = FirstOf(l, s, k, d) /\ f <= x
      BY <2>3, <3>1
    <3>3. b.iter.current[d] = f
      BY <2>4, <2>6, <3>1, <3>2
    <3> QED
      BY <3>1, <3>2, <3>3
  <2> QED
    BY <1>1, <1>3, <2>2, <2>7 DEF Precedes
<1> QED
  BY <1>2, <1>3

\* Every index of a thread is before the end of its loop.
LEMMA AllBefore ==
    ASSUME NEW l, WellFormed(l), SharedOut(l), NEW s, Part(l, s), NEW k \in 0..Workers(l) - 1,
           NEW a \in Rounds(l, s, k), ~AtEnd(l, a),
           NEW loop, Entire(l, s, k, loop), AtEnd(l, loop)
    PROVE  Precedes(l, a, loop)
<1>1. loop \in Rounds(l, s, k)
  BY DEF Entire
<1>2. CASE Flat(l)
  <2>1. a \in FlatRounds(l, s, k)
    BY <1>2 DEF Rounds
  <2>2. PICK b : b = Loop(s, Thread(l, k))
    OBVIOUS
  <2>3. a.iter.current < b.end /\ b.end = loop.end
    BY <1>2, <2>1, <2>2, FlatSpan DEF Entire
  <2>4. loop.iter.current >= loop.end
    BY <1>2 DEF AtEnd
  <2>5. PICK x \in Nat, y \in Nat, e \in Nat :
           x = a.iter.current /\ y = loop.iter.current /\ e = loop.end
    <3>1. loop.end \in Nat
      <4>1. loop.end \in 0..Size(s)
        BY <1>1, <1>2 DEF Rounds, FlatRounds, FlatLoops, Size
      <4>2. Size(s) \in Nat
        BY SizeNat
      <4> QED
        BY <4>1, <4>2
    <3> QED
      BY <1>1, <1>2, <3>1, Positions
  <2>6. x < y
    BY <2>3, <2>4, <2>5
  <2> QED
    BY <1>2, <2>5, <2>6 DEF Precedes
<1>3. CASE ~Flat(l)
  <2>1. a \in TiledRounds(l, s, k)
    BY <1>3 DEF Rounds
  <2>2. 1 \in 1..Len(l.select)
    BY Fields
  <2>3. PICK d : d = l.select[1]
    OBVIOUS
  <2>4. PICK x \in Nat, g \in Nat : x = a.iter.current[d] /\ g = LastOf(l, s, k, d) /\ x < g
    BY <1>3, <2>1, <2>2, <2>3, TiledSpan
  <2>5. loop.end = loop.iter.extent[1] /\ loop.iter.extent[1] = g
    BY <1>1, <1>3, <2>2, <2>3, <2>4 DEF Entire, Rounds, TiledRounds, TiledLoops
  <2>6. loop.iter.current[d] >= g
    BY <1>3, <2>3, <2>5 DEF AtEnd
  <2>7. PICK y \in Nat : y = loop.iter.current[d]
    BY <1>1, <1>3, <2>2, <2>3, Positions
  <2>8. x < y
    BY <2>4, <2>6, <2>7
  <2>9. \A m \in 1..1 - 1 : a.iter.current[l.select[m]] = loop.iter.current[l.select[m]]
    OBVIOUS
  <2> QED
    BY <1>3, <2>2, <2>3, <2>4, <2>7, <2>8, <2>9 DEF Precedes
<1> QED
  BY <1>2, <1>3

\* Of the indices that a thread has in a dimension, none is between one and the next step.
LEMMA HasGap ==
    ASSUME NEW l, WellFormed(l), SharedOut(l), NEW s, Part(l, s), NEW k \in 0..Workers(l) - 1,
           NEW d \in Dims(l.begin), NEW x, NEW y, Has(l, s, k, d, x), Has(l, s, k, d, y),
           x < y + l.stride[d] * (IF l.layout = "strided" THEN Team(l)[d] ELSE 1)
    PROVE  x <= y
<1>1. PICK b \in Nat, m \in Nat \ {0}, w \in Nat, u \in Nat \ {0}, z \in Nat :
         /\ b = s.begin[d] /\ m = l.stride[d] /\ w = Mine(l, k)[d] /\ u = Team(l)[d]
         /\ z = Extents(s)[d]
  BY Scale
<1>2. PICK p \in Nat : x = b + m * p /\ Starts(l, w, u, z, p)
  BY <1>1 DEF Has
<1>3. PICK q \in Nat : y = b + m * q /\ Starts(l, w, u, z, q)
  BY <1>1 DEF Has
<1>4. PICK st \in Nat : st = IF l.layout = "strided" THEN u ELSE 1
  OBVIOUS
<1>5. PICK v \in Nat, h \in Nat, g \in Nat :
         v = m * p /\ h = m * q /\ g = m * st /\ p * m = v /\ q * m = h /\ st * m = g
  BY TimesNat
<1>6. x < y + m * st
  BY <1>1, <1>4
<1>7. v < h + g
  BY <1>2, <1>3, <1>5, <1>6
<1>8. p < q + st
  <2>1. SUFFICES ASSUME q + st <= p PROVE FALSE
    OBVIOUS
  <2>2. (q + st) * m <= p * m
    BY <2>1, TimesLess
  <2>3. (q + st) * m = q * m + st * m
    OBVIOUS
  <2> QED
    BY <1>5, <1>7, <2>2, <2>3
<1>9. p <= q
  BY <1>2, <1>3, <1>4, <1>8, StartsGap
<1>10. p * m <= q * m
  BY <1>9, TimesLess
<1> QED
  BY <1>2, <1>3, <1>5, <1>10

\* ++ of a flat iterator leaves out no index of its thread.
LEMMA FlatBetween ==
    ASSUME NEW l, WellFormed(l), SharedOut(l), NEW s, Part(l, s), NEW k \in 0..Workers(l) - 1,
           Flat(l), NEW a \in FlatRounds(l, s, k), NEW loop \in FlatRounds(l, s, k),
           ~AtEnd(l, loop), Precedes(l, a, Increment(l, loop))
    PROVE  Precedes(l, a, loop) \/ Index(l, a) = Index(l, loop)
<1>1. PICK w, u, n : w = Number(l, k) /\ u = Numbers(l) /\ n = Size(s)
  OBVIOUS
<1>2. w \in Nat /\ u \in Nat \ {0} /\ n \in Nat
  <2>1. Number(l, k) \in 0..Numbers(l) - 1 /\ Numbers(l) \in Nat \ {0}
    BY OneNumber
  <2> QED
    BY <1>1, <2>1, SizeNat
<1>3. a \in FlatLoops(s) /\ loop \in FlatLoops(s)
  BY DEF FlatRounds
<1>4. PICK x \in Nat, y \in Nat : x = a.iter.current /\ y = loop.iter.current
  BY <1>3 DEF FlatLoops
<1>5. PICK st \in Nat : st = (IF l.layout = "strided" THEN u ELSE 1) /\ loop.iter.step = st
  BY <1>1, <1>2 DEF FlatRounds
<1>6. Starts(l, w, u, n, x) /\ Starts(l, w, u, n, y)
  BY <1>1, <1>4 DEF FlatRounds
<1>7. Increment(l, loop).iter.current = Wrap(y + st)
  <2>1. loop.iter \in [offset : {s.begin}, extent : {Pick(Extents(s), s.select)},
                       current : Nat, step : Nat]
    BY <1>3 DEF FlatLoops
  <2>2. PICK i : i = FlatNext(loop.iter)
    OBVIOUS
  <2>3. i.current = Wrap(y + st)
    BY <1>4, <1>5, <2>1, <2>2 DEF FlatNext
  <2>4. Increment(l, loop).iter = i
    BY <1>3, <2>2 DEF Increment, FlatLoops
  <2> QED
    BY <2>3, <2>4
<1>8. Wrap(y + st) <= y + st /\ Wrap(y + st) \in Nat
  <2>1. PICK c \in Nat : c = y + st
    OBVIOUS
  <2>2. Modulus \in Nat \ {0}
    BY IdxMapAssumption
  <2>3. c % Modulus <= c /\ c % Modulus \in Nat
    BY <2>2
  <2> QED
    BY <2>1, <2>3 DEF Wrap
<1>9. x < Wrap(y + st)
  BY <1>4, <1>7 DEF Precedes
<1>10. x < y + st
  BY <1>8, <1>9
<1>11. x <= y
  BY <1>2, <1>5, <1>6, <1>10, StartsGap
<1>12. CASE x < y
  BY <1>4, <1>12 DEF Precedes
<1>13. CASE x = y
  <2>1. a.iter.offset = loop.iter.offset /\ a.iter.extent = loop.iter.extent
    BY <1>3 DEF FlatLoops
  <2>2. FlatIndex(l, a.iter) = FlatIndex(l, loop.iter)
    BY <1>4, <1>13, <2>1 DEF FlatIndex
  <2> QED
    BY <2>2 DEF Index
<1> QED
  BY <1>11, <1>12, <1>13

\* The same for a tiled iterator.
LEMMA TiledBetween ==
    ASSUME NEW l, WellFormed(l), SharedOut(l), NEW s, Part(l, s), NEW k \in 0..Workers(l) - 1,
           ~Flat(l), NEW a \in TiledRounds(l, s, k), ~AtEnd(l, a),
           NEW loop, Entire(l, s, k, loop), ~AtEnd(l, loop), Precedes(l, a, Increment(l, loop))
    PROVE  Precedes(l, a, loop) \/ Index(l, a) = Index(l, loop)
<1>1. PICK n, D, sel :
         /\ n \in Nat \ {0} /\ n = Len(l.select) /\ Dims(l.select) = 1..n
         /\ D = Dims(l.begin) /\ sel = l.select /\ sel \in [1..n -> D]
  BY Fields
<1>2. loop \in TiledRounds(l, s, k) /\ loop \in TiledLoops(l, s) /\ a \in TiledLoops(l, s)
  BY DEF Entire, Rounds, TiledRounds
<1>3. PICK i, j : i = loop.iter /\ j = Increment(l, loop).iter
  OBVIOUS
<1>4. Advanced(l, i, j)
  BY <1>2, <1>3, TiledAdvance
<1>5. PICK f, g, h : /\ f = [m \in 1..n |-> a.iter.current[sel[m]]]
                     /\ g = [m \in 1..n |-> i.current[sel[m]]]
                     /\ h = [m \in 1..n |-> j.current[sel[m]]]
  OBVIOUS
<1>6. PICK c \in 1..n :
         /\ \A m \in 1..n : m > c => i.extent[m] <= i.current[sel[m]] + i.step[m]
         /\ \A m \in 1..n : j.current[sel[m]] = IF m = c THEN i.current[sel[m]] + i.step[m]
                                                ELSE IF m > c THEN i.first[m] ELSE i.current[sel[m]]
  BY <1>1, <1>4 DEF Advanced
<1>7. PICK p \in 1..n : f[p] < h[p] /\ \A m \in 1..p - 1 : f[m] = h[m]
  <2>1. PICK p \in 1..n :
           /\ a.iter.current[sel[p]] < j.current[sel[p]]
           /\ \A m \in 1..p - 1 : a.iter.current[sel[m]] = j.current[sel[m]]
    BY <1>1, <1>3 DEF Precedes
  <2>2. \A m \in 1..p - 1 : m \in 1..n
    BY <1>1
  <2> QED
    BY <1>5, <2>1, <2>2
<1>8. ASSUME NEW m \in 1..n
      PROVE  /\ f[m] \in Nat /\ g[m] \in Nat /\ i.first[m] <= f[m] /\ f[m] < i.extent[m]
             /\ i.first[m] \in Nat /\ i.extent[m] \in Nat
             /\ i.step[m] \in Nat /\ (f[m] < g[m] + i.step[m] => f[m] <= g[m])
  <2>1. PICK d \in D : d = sel[m]
    BY <1>1
  <2>2. /\ Has(l, s, k, d, a.iter.current[d]) /\ a.iter.current[d] \in Nat
        /\ FirstOf(l, s, k, d) \in Nat /\ FirstOf(l, s, k, d) <= a.iter.current[d]
        /\ LastOf(l, s, k, d) \in Nat /\ a.iter.current[d] < LastOf(l, s, k, d)
    BY <1>1, <2>1, TiledSpan
  <2>3. i.first[m] = FirstOf(l, s, k, d) /\ i.extent[m] = LastOf(l, s, k, d)
    BY <1>1, <1>3, <2>1 DEF Entire
  <2>4. /\ Has(l, s, k, d, i.current[d]) /\ Bounded(l, s, k, m, d, i)
        /\ i.current[d] \in Nat /\ i.step[m] \in Nat
    <3>1. i \in TiledIters(l)
      BY <1>2, <1>3 DEF TiledLoops
    <3>2. i.current[d] \in Nat /\ i.step[m] \in Nat
      BY <1>1, <3>1 DEF TiledIters
    <3>3. Has(l, s, k, d, i.current[d]) /\ Bounded(l, s, k, m, d, i)
      BY <1>1, <1>2, <1>3, <2>1 DEF TiledRounds
    <3> QED
      BY <3>2, <3>3
  <2>5. i.step[m] = l.stride[d] * (IF l.layout = "strided" THEN Team(l)[d] ELSE 1)
    BY <2>4 DEF Bounded
  <2>6. f[m] = a.iter.current[d] /\ g[m] = i.current[d]
    BY <1>5, <2>1
  <2>7. PICK x, y : x = f[m] /\ y = g[m] /\ Has(l, s, k, d, x) /\ Has(l, s, k, d, y)
    BY <2>2, <2>4, <2>6
  <2>8. ASSUME x < y + i.step[m] PROVE x <= y
    <3>1. x < y + l.stride[d] * (IF l.layout = "strided" THEN Team(l)[d] ELSE 1)
      BY <2>5, <2>8
    <3> QED
      BY <1>1, <2>7, <3>1, HasGap
  <2> QED
    BY <2>2, <2>3, <2>4, <2>6, <2>7, <2>8
<1>9. \A m \in 1..n : h[m] = IF m = c THEN g[m] + i.step[m]
                             ELSE IF m > c THEN i.first[m] ELSE g[m]
  BY <1>1, <1>5, <1>6
<1>10. p <= c
  <2>1. SUFFICES ASSUME p > c PROVE FALSE
    BY <1>1
  <2>2. h[p] = i.first[p]
    BY <1>1, <1>9, <2>1
  <2> QED
    BY <1>7, <1>8, <2>2
<1>11. \/ \E m \in 1..n : f[m] < g[m] /\ \A q \in 1..m - 1 : f[q] = g[q]
       \/ \A m \in 1..n : f[m] = g[m]
  <2>1. ASSUME NEW m \in 1..p - 1 PROVE f[m] = g[m] /\ m \in 1..n
    <3>1. m \in 1..n /\ m # c /\ ~(m > c)
      BY <1>1, <1>10
    <3> QED
      BY <1>7, <1>9, <3>1
  <2>2. CASE p < c
    <3>1. h[p] = g[p]
      BY <1>1, <1>9, <2>2
    <3> QED
      BY <1>7, <2>1, <3>1
  <2>3. CASE p = c
    <3>1. f[p] <= g[p]
      <4>1. h[p] = g[p] + i.step[p]
        BY <1>9, <2>3
      <4> QED
        BY <1>7, <1>8, <4>1
    <3>2. ASSUME NEW m \in 1..n, m > p PROVE f[m] <= g[m]
      <4>1. i.extent[m] <= g[m] + i.step[m]
        BY <1>5, <1>6, <2>3, <3>2
      <4>2. f[m] < g[m] + i.step[m]
        <5>1. PICK x \in Nat, e \in Nat, y \in Nat, st \in Nat :
                 x = f[m] /\ e = i.extent[m] /\ y = g[m] /\ st = i.step[m] /\ x < e
          BY <1>8
        <5> QED
          BY <4>1, <5>1
      <4> QED
        BY <1>8, <4>2
    <3>3. ASSUME NEW m \in 1..n PROVE f[m] <= g[m] /\ f[m] \in Nat /\ g[m] \in Nat
      <4>1. CASE m < p
        <5>1. m \in 1..p - 1
          BY <1>1, <4>1
        <5>2. f[m] = g[m]
          BY <2>1, <5>1
        <5> QED
          BY <1>8, <5>2
      <4>2. CASE m >= p
        <5>1. m = p \/ m > p
          BY <1>1, <4>2
        <5> QED
          BY <1>8, <3>1, <3>2, <5>1
      <4> QED
        BY <1>1, <4>1, <4>2
    <3>4. PICK S : S = {m \in 1..n : f[m] # g[m]}
      OBVIOUS
    <3>5. CASE S = {}
      BY <3>4, <3>5
    <3>6. CASE S # {}
      <4>1. PICK m \in S : \A q \in 1..m - 1 : q \notin S
        <5>1. S \in SUBSET (1..n)
          BY <3>4
        <5> QED
          BY <1>1, <3>6, <5>1, Smallest
      <4>2. m \in 1..n /\ f[m] < g[m]
        BY <3>3, <3>4, <4>1
      <4>3. ASSUME NEW q \in 1..m - 1 PROVE f[q] = g[q]
        <5>1. q \in 1..n
          BY <1>1, <4>2
        <5> QED
          BY <3>4, <4>1, <5>1
      <4> QED
        BY <4>2, <4>3
    <3> QED
      BY <3>5, <3>6
  <2> QED
    BY <1>1, <1>10, <2>2, <2>3
<1>12. CASE \E m \in 1..n : f[m] < g[m] /\ \A q \in 1..m - 1 : f[q] = g[q]
  <2>1. PICK m \in 1..n : f[m] < g[m] /\ \A q \in 1..m - 1 : f[q] = g[q]
    BY <1>12
  <2>2. \A q \in 1..m - 1 : q \in 1..n
    BY <1>1
  <2>3. /\ a.iter.current[sel[m]] < loop.iter.current[sel[m]]
        /\ \A q \in 1..m - 1 : a.iter.current[sel[q]] = loop.iter.current[sel[q]]
    BY <1>3, <1>5, <2>1, <2>2
  <2> QED
    BY <1>1, <2>3 DEF Precedes
<1>13. CASE \A m \in 1..n : f[m] = g[m]
  <2>1. /\ Index(l, a) = a.iter.current /\ Among(l, s, a.iter.current)
        /\ Index(l, loop) = loop.iter.current /\ Among(l, s, loop.iter.current)
    BY <1>2, TiledPoint
  <2>2. ASSUME NEW d \in D PROVE a.iter.current[d] = loop.iter.current[d]
    <3>1. CASE d \in Selected(l)
      <4>1. PICK m \in 1..n : sel[m] = d
        BY <1>1, <3>1 DEF Selected
      <4> QED
        BY <1>3, <1>5, <1>13, <4>1
    <3>2. CASE d \notin Selected(l)
      BY <1>1, <2>1, <3>2 DEF Among
    <3> QED
      BY <3>1, <3>2
  <2>3. a.iter.current \in [D -> Nat] /\ loop.iter.current \in [D -> Nat]
    BY <1>1, <2>1 DEF Among
  <2>4. a.iter.current = loop.iter.current
    BY <2>2, <2>3
  <2> QED
    BY <2>1, <2>4
<1> QED
  BY <1>11, <1>12, <1>13

\* ++ leaves out no index of the thread.
LEMMA NoneBetween ==
    ASSUME NEW l, WellFormed(l), SharedOut(l), NEW s, Part(l, s), NEW k \in 0..Workers(l) - 1,
           NEW a \in Rounds(l, s, k), ~AtEnd(l, a),
           NEW loop, Entire(l, s, k, loop), ~AtEnd(l, loop), Precedes(l, a, Increment(l, loop))
    PROVE  Precedes(l, a, loop) \/ Index(l, a) = Index(l, loop)
<1>1. loop \in Rounds(l, s, k)
  BY DEF Entire
<1>2. CASE Flat(l)
  BY <1>1, <1>2, FlatBetween DEF Rounds
<1>3. CASE ~Flat(l)
  BY <1>3, TiledBetween DEF Rounds
<1> QED
  BY <1>2, <1>3

\* What was visited after ++ was visited before it or is the index that ++ goes on from.
LEMMA VisitedBack ==
    ASSUME NEW l, WellFormed(l), SharedOut(l), NEW f \in Directions(l),
           NEW w \in 0..Workers(l) - 1, NEW loop, Entire(l, DirectionSubRange(l, f), w, loop),
           ~AtEnd(l, loop), NEW x, Visited(l, x, f, w, Increment(l, loop))
    PROVE  Visited(l, x, f, w, loop) \/ x = Index(l, loop)
<1>1. PICK s : s = DirectionSubRange(l, f) /\ Part(l, s)
  BY PartOf
<1>2. PICK e \in Directions(l), k \in 0..Workers(l) - 1 :
         \E a \in Rounds(l, DirectionSubRange(l, e), k) :
            ~AtEnd(l, a) /\ Index(l, a) = x /\ Earlier(l, e, k, a, f, w, Increment(l, loop))
  BY DEF Visited
<1>3. PICK a \in Rounds(l, DirectionSubRange(l, e), k) :
         ~AtEnd(l, a) /\ Index(l, a) = x /\ Earlier(l, e, k, a, f, w, Increment(l, loop))
  BY <1>2
<1>4. CASE Before(l, e, f) \/ (e = f /\ k < w)
  <2>1. Earlier(l, e, k, a, f, w, loop)
    BY <1>4 DEF Earlier
  <2> QED
    BY <1>3, <2>1 DEF Visited
<1>5. CASE e = f /\ k = w /\ Precedes(l, a, Increment(l, loop))
  <2>1. a \in Rounds(l, s, w) /\ Entire(l, s, w, loop)
    BY <1>1, <1>3, <1>5
  <2>2. Precedes(l, a, loop) \/ Index(l, a) = Index(l, loop)
    BY <1>1, <1>3, <1>5, <2>1, NoneBetween
  <2>3. CASE Precedes(l, a, loop)
    <3>1. Earlier(l, e, k, a, f, w, loop)
      BY <1>5, <2>3 DEF Earlier
    <3> QED
      BY <1>3, <3>1 DEF Visited
  <2> QED
    BY <1>3, <2>2, <2>3
<1> QED
  BY <1>3, <1>4, <1>5 DEF Earlier

\* What was visited when a thread begins was visited when the thread before it ended.
LEMMA VisitedByThreadBack ==
    ASSUME NEW l, WellFormed(l), SharedOut(l), NEW f \in Directions(l),
           NEW w \in 0..Workers(l) - 1, w + 1 \in 0..Workers(l) - 1,
           NEW loop, Entire(l, DirectionSubRange(l, f), w, loop), AtEnd(l, loop),
           NEW x, Visited(l, x, f, w + 1, Loop(DirectionSubRange(l, f), Thread(l, w + 1)))
    PROVE  Visited(l, x, f, w, loop)
<1>1. PICK s : s = DirectionSubRange(l, f) /\ Part(l, s)
  BY PartOf
<1>2. PICK next : next = Loop(s, Thread(l, w + 1))
  OBVIOUS
<1>3. PICK e \in Directions(l), k \in 0..Workers(l) - 1 :
         \E a \in Rounds(l, DirectionSubRange(l, e), k) :
            ~AtEnd(l, a) /\ Index(l, a) = x /\ Earlier(l, e, k, a, f, w + 1, next)
  BY <1>1, <1>2 DEF Visited
<1>4. PICK a \in Rounds(l, DirectionSubRange(l, e), k) :
         ~AtEnd(l, a) /\ Index(l, a) = x /\ Earlier(l, e, k, a, f, w + 1, next)
  BY <1>3
<1>5. Workers(l) \in Nat
  BY Threads
<1>6. Earlier(l, e, k, a, f, w, loop)
  <2>1. CASE Before(l, e, f)
    BY <2>1 DEF Earlier
  <2>2. CASE e = f /\ k < w
    BY <2>2 DEF Earlier
  <2>3. CASE e = f /\ k = w
    <3>1. a \in Rounds(l, s, w) /\ Entire(l, s, w, loop)
      BY <1>1, <1>4, <2>3
    <3>2. Precedes(l, a, loop)
      BY <1>1, <1>4, <3>1, AllBefore
    <3> QED
      BY <2>3, <3>2 DEF Earlier
  <2>4. CASE e = f /\ k = w + 1 /\ Precedes(l, a, next)
    <3>1. a \in Rounds(l, s, w + 1)
      BY <1>1, <1>4, <2>4
    <3>2. ~Precedes(l, a, next)
      BY <1>1, <1>2, <1>4, <3>1, NoneBefore
    <3> QED
      BY <2>4, <3>2
  <2>5. k < w + 1 => k < w \/ k = w
    BY <1>5
  <2> QED
    BY <1>4, <2>1, <2>2, <2>3, <2>4, <2>5 DEF Earlier
<1> QED
  BY <1>4, <1>6 DEF Visited

\* Ranks are numbers that tell the directions apart.
LEMMA Ranks ==
    ASSUME NEW x \in {"lower", "middle", "upper"}, NEW y \in {"lower", "middle", "upper"}
    PROVE  /\ Rank(x) \in 0..2 /\ (Rank(x) = Rank(y) => x = y)
           /\ Rank("lower") = 0 /\ Rank("upper") = 2
           /\ (x # "upper" => Rank(IF x = "lower" THEN "middle" ELSE "upper") = Rank(x) + 1)
  BY DEF Rank

\* Of two directions, the one that is nowhere further comes first.
LEMMA NotFurther ==
    ASSUME NEW l, WellFormed(l), NEW e \in Direction(l), NEW f \in Direction(l),
           \A d \in Dims(l.begin) : Rank(e[d]) <= Rank(f[d])
    PROVE  Before(l, e, f) \/ e = f
<1>1. PICK n \in Nat : Dims(l.begin) = 1..n
  BY Fields
<1>2. PICK S : S = {d \in 1..n : e[d] # f[d]}
  OBVIOUS
<1>3. e \in [1..n -> {"lower", "middle", "upper"}] /\ f \in [1..n -> {"lower", "middle", "upper"}]
  BY <1>1 DEF Direction
<1>4. CASE S = {}
  BY <1>2, <1>3, <1>4
<1>5. CASE S # {}
  <2>1. PICK c \in S : \A d \in 1..c - 1 : d \notin S
    <3>1. S \in SUBSET (1..n)
      BY <1>2
    <3> QED
      BY <1>5, <3>1, Smallest
  <2>2. c \in 1..n /\ e[c] # f[c]
    BY <1>2, <2>1
  <2>3. Rank(e[c]) < Rank(f[c])
    <3>1. PICK x, y : x = e[c] /\ y = f[c] /\ Rank(x) <= Rank(y)
      BY <1>1, <2>2
    <3>2. x \in {"lower", "middle", "upper"} /\ y \in {"lower", "middle", "upper"} /\ x # y
      BY <1>3, <2>2, <3>1
    <3>3. Rank(x) \in 0..2 /\ Rank(y) \in 0..2 /\ Rank(x) # Rank(y)
      BY <3>2, Ranks
    <3> QED
      BY <3>1, <3>3
  <2>4. ASSUME NEW d \in 1..c - 1 PROVE e[d] = f[d]
    <3>1. d \in 1..n
      BY <1>1, <2>2
    <3> QED
      BY <1>2, <2>1, <3>1
  <2> QED
    BY <1>1, <2>2, <2>3, <2>4 DEF Before
<1> QED
  BY <1>4, <1>5

\* No direction is between one and the direction that follows it.
LEMMA DirectionBetween ==
    ASSUME NEW l, WellFormed(l), NEW f \in Direction(l), NextDirection(f)[1] # "oob",
           NEW e \in Direction(l), Before(l, e, NextDirection(f))
    PROVE  Before(l, e, f) \/ e = f
<1>1. PICK n \in Nat : n = Len(l.begin) /\ Dims(l.begin) = 1..n /\ 1 \in 1..n
  BY FirstDimension
<1>2. /\ f \in [1..n -> {"lower", "middle", "upper"}]
      /\ e \in [1..n -> {"lower", "middle", "upper"}]
  BY <1>1 DEF Direction
<1>3. Len(f) = n /\ Dims(f) = 1..n
  BY <1>2, Vector
<1>4. PICK open, c : open = {d \in Dims(f) : f[d] # "upper"} /\ c = Max(open)
  OBVIOUS
<1>5. open # {}
  <2>1. SUFFICES ASSUME open = {} PROVE FALSE
    OBVIOUS
  <2>2. NextDirection(f) = OutOfBounds(n)
    BY <1>3, <1>4, <2>1 DEF NextDirection
  <2> QED
    BY <1>1, <2>2 DEF OutOfBounds
<1>6. c \in open /\ \A d \in open : d <= c
  <2>1. open \in SUBSET (1..n)
    BY <1>3, <1>4
  <2> QED
    BY <1>1, <1>4, <1>5, <2>1, Largest
<1>7. c \in 1..n /\ f[c] # "upper" /\ \A d \in 1..n : d > c => f[d] = "upper"
  <2>1. c \in 1..n /\ f[c] # "upper"
    BY <1>3, <1>4, <1>6
  <2>2. ASSUME NEW d \in 1..n, d > c PROVE f[d] = "upper"
    <3>1. ~(d <= c)
      BY <1>1, <2>1, <2>2
    <3>2. d \notin open
      BY <1>6, <3>1
    <3> QED
      BY <1>3, <1>4, <3>2
  <2> QED
    BY <2>1, <2>2
<1>8. PICK g : g = NextDirection(f)
  OBVIOUS
<1>9. g = [d \in 1..n |-> IF d < c THEN f[d]
                          ELSE IF d > c THEN "lower"
                          ELSE IF f[d] = "lower" THEN "middle" ELSE "upper"]
  BY <1>3, <1>4, <1>5, <1>8 DEF NextDirection
<1>10. PICK p \in 1..n : Rank(e[p]) < Rank(g[p]) /\ \A d \in 1..p - 1 : e[d] = g[d]
  BY <1>1, <1>8 DEF Before
<1>11. \A d \in 1..n : Rank(e[d]) \in 0..2 /\ Rank(f[d]) \in 0..2
  BY <1>2, Ranks
<1>12. p <= c
  <2>1. SUFFICES ASSUME p > c PROVE FALSE
    BY <1>1, <1>7
  <2>2. g[p] = "lower"
    BY <1>1, <1>7, <1>9, <2>1
  <2>3. Rank(g[p]) = 0
    BY <2>2 DEF Rank
  <2> QED
    BY <1>10, <1>11, <2>3
<1>13. ASSUME NEW d \in 1..p - 1 PROVE e[d] = f[d] /\ d \in 1..n
  <2>1. d \in 1..n /\ d < c
    BY <1>1, <1>7, <1>12
  <2> QED
    BY <1>9, <1>10, <2>1
<1>14. CASE p < c
  <2>1. Rank(e[p]) < Rank(f[p])
    BY <1>9, <1>10, <1>14
  <2> QED
    BY <1>1, <1>13, <2>1 DEF Before
<1>15. CASE p = c
  <2>1. Rank(g[c]) = Rank(f[c]) + 1
    <3>1. g[c] = IF f[c] = "lower" THEN "middle" ELSE "upper"
      BY <1>7, <1>9
    <3>2. f[c] \in {"lower", "middle", "upper"} /\ f[c] # "upper"
      BY <1>2, <1>7
    <3> QED
      BY <3>1, <3>2, Ranks
  <2>2. ASSUME NEW d \in 1..n PROVE Rank(e[d]) <= Rank(f[d])
    <3>1. CASE d < c
      <4>1. d \in 1..p - 1
        BY <1>1, <1>7, <1>15, <3>1
      <4>2. e[d] = f[d]
        BY <1>13, <4>1
      <4> QED
        BY <1>11, <4>2
    <3>2. CASE d = c
      BY <1>10, <1>11, <1>15, <2>1, <3>2
    <3>3. CASE d > c
      <4>1. Rank(f[d]) = 2
        BY <1>7, <3>3 DEF Rank
      <4> QED
        BY <1>11, <4>1
    <3> QED
      BY <1>1, <1>7, <3>1, <3>2, <3>3
  <2> QED
    BY <1>1, <2>2, NotFurther
<1> QED
  BY <1>1, <1>7, <1>12, <1>14, <1>15

\* What was visited when a direction begins was visited when the one before it ended.
LEMMA VisitedByDirectionBack ==
    ASSUME NEW l, WellFormed(l), SharedOut(l), l.lower # <<>>, NEW f \in Direction(l),
           NextDirection(f)[1] # "oob",
           NEW loop, Entire(l, DirectionSubRange(l, f), Workers(l) - 1, loop), AtEnd(l, loop),
           NEW x, Visited(l, x, NextDirection(f), 0,
                          Loop(DirectionSubRange(l, NextDirection(f)), Thread(l, 0)))
    PROVE  Visited(l, x, f, Workers(l) - 1, loop)
<1>1. PICK g : g = NextDirection(f) /\ g \in Directions(l) /\ f \in Directions(l)
  BY DirectionStep DEF Directions
<1>2. PICK s, t : /\ s = DirectionSubRange(l, f) /\ Part(l, s)
                  /\ t = DirectionSubRange(l, g) /\ Part(l, t)
  BY <1>1, PartOf
<1>3. PICK next : next = Loop(t, Thread(l, 0))
  OBVIOUS
<1>4. PICK e \in Directions(l), k \in 0..Workers(l) - 1 :
         \E a \in Rounds(l, DirectionSubRange(l, e), k) :
            ~AtEnd(l, a) /\ Index(l, a) = x /\ Earlier(l, e, k, a, g, 0, next)
  BY <1>1, <1>2, <1>3 DEF Visited
<1>5. PICK a \in Rounds(l, DirectionSubRange(l, e), k) :
         ~AtEnd(l, a) /\ Index(l, a) = x /\ Earlier(l, e, k, a, g, 0, next)
  BY <1>4
<1>6. PICK w \in 0..Workers(l) - 1 : w = Workers(l) - 1 /\ (k < w \/ k = w) /\ ~(k < 0)
  <2>1. Workers(l) \in Nat \ {0}
    BY Threads
  <2> QED
    BY <2>1
<1>7. Earlier(l, e, k, a, f, w, loop)
  <2>1. CASE Before(l, e, g)
    <3>1. Before(l, e, f) \/ e = f
      BY <1>1, <2>1, DirectionBetween DEF Directions
    <3>2. CASE Before(l, e, f)
      BY <3>2 DEF Earlier
    <3>3. CASE e = f /\ k < w
      BY <3>3 DEF Earlier
    <3>4. CASE e = f /\ k = w
      <4>1. a \in Rounds(l, s, w) /\ Entire(l, s, w, loop)
        BY <1>2, <1>5, <1>6, <3>4
      <4>2. Precedes(l, a, loop)
        BY <1>2, <1>5, <4>1, AllBefore
      <4> QED
        BY <3>4, <4>2 DEF Earlier
    <3> QED
      BY <1>6, <3>1, <3>2, <3>3, <3>4
  <2>2. CASE e = g /\ k = 0 /\ Precedes(l, a, next)
    <3>1. a \in Rounds(l, t, 0) /\ 0 \in 0..Workers(l) - 1
      BY <1>2, <1>5, <2>2
    <3>2. ~Precedes(l, a, next)
      BY <1>2, <1>3, <1>5, <3>1, NoneBefore
    <3> QED
      BY <2>2, <3>2
  <2> QED
    BY <1>5, <1>6, <2>1, <2>2 DEF Earlier
<1> QED
  BY <1>5, <1>6, <1>7 DEF Visited

\* Nothing was visited before the first loop.
LEMMA NoneVisited ==
    ASSUME NEW l, WellFormed(l), SharedOut(l), NEW f, f = FirstDirection(l), f \in Directions(l),
           NEW x
    PROVE  ~Visited(l, x, f, 0, Loop(DirectionSubRange(l, f), Thread(l, 0)))
<1>1. PICK s : s = DirectionSubRange(l, f) /\ Part(l, s)
  BY PartOf
<1>2. PICK next : next = Loop(s, Thread(l, 0))
  OBVIOUS
<1>3. SUFFICES ASSUME Visited(l, x, f, 0, next) PROVE FALSE
  BY <1>1, <1>2
<1>4. PICK e \in Directions(l), k \in 0..Workers(l) - 1 :
         \E a \in Rounds(l, DirectionSubRange(l, e), k) :
            ~AtEnd(l, a) /\ Index(l, a) = x /\ Earlier(l, e, k, a, f, 0, next)
  BY <1>3 DEF Visited
<1>5. PICK a \in Rounds(l, DirectionSubRange(l, e), k) :
         ~AtEnd(l, a) /\ Index(l, a) = x /\ Earlier(l, e, k, a, f, 0, next)
  BY <1>4
<1>6. ~Before(l, e, f)
  <2>1. CASE l.lower = <<>>
    BY <2>1, NotBefore DEF Directions
  <2>2. CASE l.lower # <<>>
    <3>1. \A c \in Dims(l.begin) : Rank(f[c]) = 0
      BY <2>2 DEF FirstDirection, Rank
    <3>2. \A c : Rank(e[c]) \in Nat
      BY DEF Rank
    <3> QED
      BY <3>1, <3>2 DEF Before
  <2> QED
    BY <2>1, <2>2
<1>7. e = f /\ k = 0 /\ Precedes(l, a, next)
  <2>1. ~(k < 0)
    OBVIOUS
  <2> QED
    BY <1>5, <1>6, <2>1 DEF Earlier
<1>8. a \in Rounds(l, s, 0) /\ 0 \in 0..Workers(l) - 1
  BY <1>1, <1>5, <1>7
<1>9. ~Precedes(l, a, next)
  BY <1>1, <1>2, <1>5, <1>8, NoneBefore
<1> QED
  BY <1>7, <1>9

\* Every index of a range is one of the part in some direction.
LEMMA DirectionsCover ==
    ASSUME NEW l, WellFormed(l), NEW x \in [Dims(l.begin) -> Nat], IsIndex(l, x)
    PROVE  \E e \in Directions(l) : Among(l, DirectionSubRange(l, e), x)
<1>1. PICK n, D : n \in Nat /\ n = Len(l.begin) /\ D = 1..n /\ D = Dims(l.begin)
  BY Fields
<1>2. Dims(x) = D
  BY <1>1, Vector
<1>3. \A d \in D : IF d \in Selected(l)
                   THEN /\ l.begin[d] <= x[d] /\ x[d] < l.end[d]
                        /\ (x[d] - l.begin[d]) % l.stride[d] = 0
                   ELSE x[d] = l.begin[d]
  BY <1>2 DEF IsIndex, Selected
<1>4. ASSUME NEW s, Part(l, s), NEW d \in D, d \in Selected(l), s.begin[d] <= x[d]
      PROVE  Aligned(x[d], s.begin[d], l.stride[d])
  <2>1. PICK a \in Nat, b \in Nat, y \in Nat, m \in Nat \ {0} :
           a = l.begin[d] /\ b = s.begin[d] /\ y = x[d] /\ m = l.stride[d]
    BY <1>1, <1>4, Fields DEF Part
  <2>2. a <= b /\ (b - a) % m = 0
    BY <1>1, <1>4, <2>1 DEF Part
  <2>3. b <= y /\ (y - a) % m = 0
    BY <1>3, <1>4, <2>1
  <2>4. Aligned(y, b, m)
    BY <2>2, <2>3, AlignedFrom
  <2> QED
    BY <2>1, <2>4
<1>5. CASE l.lower = <<>>
  <2>1. FirstDirection(l) \in Directions(l) /\ DirectionSubRange(l, FirstDirection(l)) = l
    BY <1>5 DEF Directions, DirectionSubRange
  <2>2. Among(l, l, x)
    BY <1>1, <1>3, <1>4, Whole DEF Among
  <2> QED
    BY <2>1, <2>2
<1>6. CASE l.lower # <<>>
  <2>1. l.lower \in Seq(Nat) /\ l.upper \in Seq(Nat) /\ Len(l.lower) = n /\ Len(l.upper) = n
    BY <1>1, <1>6 DEF WellFormed, Vec
  <2>2. \A d \in D : d \in Selected(l) /\ l.lower[d] + l.upper[d] <= l.end[d] - l.begin[d]
    BY <1>1, <1>6 DEF WellFormed, Selected
  <2>3. PICK e : e = [d \in D |-> IF x[d] < l.begin[d] + l.lower[d] THEN "lower"
                                  ELSE IF x[d] < l.end[d] - l.upper[d] THEN "middle" ELSE "upper"]
    OBVIOUS
  <2>4. e \in Direction(l) /\ e \in Directions(l)
    BY <1>1, <1>6, <2>3 DEF Direction, Directions
  <2>5. PICK s : s = DirectionSubRange(l, e) /\ Part(l, s)
    BY <2>4, PartOf
  <2>6. ASSUME NEW d \in D PROVE s.begin[d] <= x[d] /\ x[d] < s.end[d]
    <3>1. s.begin[d] = BeginIn(l, e, d) /\ s.end[d] = EndIn(l, e, d)
      BY <1>1, <1>6, <2>4, <2>5, BoundsIn
    <3>2. PICK b \in Nat, g \in Nat, lo \in Nat, up \in Nat, y \in Nat :
             b = l.begin[d] /\ g = l.end[d] /\ lo = l.lower[d] /\ up = l.upper[d] /\ y = x[d]
      <4>1. l.begin[d] \in Nat /\ l.end[d] \in Nat /\ x[d] \in Nat
        BY <1>1, Fields
      <4>2. l.lower[d] \in Nat /\ l.upper[d] \in Nat
        BY <1>1, <2>1
      <4> QED
        BY <4>1, <4>2
    <3>3. b <= y /\ y < g
      BY <1>3, <2>2, <3>2
    <3>4. e[d] = IF y < b + lo THEN "lower" ELSE IF y < g - up THEN "middle" ELSE "upper"
      BY <2>3, <3>2
    <3>5. CASE y < b + lo
      <4>1. s.begin[d] = b /\ s.end[d] = b + lo
        BY <3>1, <3>2, <3>4, <3>5 DEF BeginIn, EndIn
      <4> QED
        BY <3>2, <3>3, <3>5, <4>1
    <3>6. CASE ~(y < b + lo) /\ y < g - up
      <4>1. s.begin[d] = b + lo /\ s.end[d] = g - up
        BY <3>1, <3>2, <3>4, <3>6 DEF BeginIn, EndIn
      <4> QED
        BY <3>2, <3>6, <4>1
    <3>7. CASE ~(y < b + lo) /\ ~(y < g - up)
      <4>1. s.begin[d] = g - up /\ s.end[d] = g
        BY <3>1, <3>2, <3>4, <3>7 DEF BeginIn, EndIn
      <4> QED
        BY <3>2, <3>3, <3>7, <4>1
    <3> QED
      BY <3>5, <3>6, <3>7
  <2>7. \A d \in D : Aligned(x[d], s.begin[d], l.stride[d])
    BY <1>4, <2>2, <2>5, <2>6
  <2>8. Among(l, s, x)
    BY <1>1, <2>2, <2>6, <2>7 DEF Among
  <2> QED
    BY <2>4, <2>5, <2>8
<1> QED
  BY <1>5, <1>6

\* No direction comes after the last one.
LEMMA LastDirection ==
    ASSUME NEW l, WellFormed(l), NEW f \in Directions(l),
           l.lower = <<>> \/ NextDirection(f)[1] = "oob", NEW e \in Directions(l)
    PROVE  Before(l, e, f) \/ e = f
<1>1. CASE l.lower = <<>>
  BY <1>1 DEF Directions
<1>2. CASE l.lower # <<>>
  <2>1. PICK n \in Nat : n = Len(l.begin) /\ Dims(l.begin) = 1..n /\ 1 \in 1..n
    BY FirstDimension
  <2>2. e \in Direction(l) /\ f \in Direction(l)
    BY <1>2 DEF Directions
  <2>3. /\ f \in [1..n -> {"lower", "middle", "upper"}]
        /\ e \in [1..n -> {"lower", "middle", "upper"}]
    BY <2>1, <2>2 DEF Direction
  <2>4. Len(f) = n /\ Dims(f) = 1..n
    BY <2>3, Vector
  <2>5. PICK open, c : open = {d \in Dims(f) : f[d] # "upper"} /\ c = Max(open)
    OBVIOUS
  <2>6. open = {}
    <3>1. SUFFICES ASSUME open # {} PROVE FALSE
      OBVIOUS
    <3>2. NextDirection(f) =
             [d \in 1..n |->
                   IF d < c THEN f[d]
                   ELSE IF d > c THEN "lower"
                   ELSE IF f[d] = "lower" THEN "middle" ELSE "upper"]
      BY <2>4, <2>5, <3>1 DEF NextDirection
    <3>3. NextDirection(f) \in [1..n -> {"lower", "middle", "upper"}]
      BY <2>3, <3>2
    <3>4. NextDirection(f)[1] = "oob"
      BY <1>2
    <3> QED
      BY <2>1, <3>3, <3>4
  <2>7. ASSUME NEW d \in 1..n PROVE Rank(e[d]) <= Rank(f[d])
    <3>1. f[d] = "upper"
      BY <2>4, <2>5, <2>6
    <3>2. Rank(f[d]) = 2 /\ Rank(e[d]) \in 0..2
      BY <2>3, <3>1, Ranks
    <3> QED
      BY <3>2
  <2> QED
    BY <2>1, <2>2, <2>7, NotFurther
<1> QED
  BY <1>1, <1>2

\* When the last thread ends its loop over the part in the last direction, every index was visited.
LEMMA AllVisited ==
    ASSUME NEW l, WellFormed(l), SharedOut(l), NEW f \in Directions(l),
           l.lower = <<>> \/ NextDirection(f)[1] = "oob",
           NEW w \in 0..Workers(l) - 1, w + 1 = Workers(l),
           NEW loop, Entire(l, DirectionSubRange(l, f), w, loop), AtEnd(l, loop),
           NEW x \in [Dims(l.begin) -> Nat], IsIndex(l, x)
    PROVE  Visited(l, x, f, w, loop)
<1>1. PICK e \in Directions(l) : Among(l, DirectionSubRange(l, e), x)
  BY DirectionsCover
<1>2. PICK k \in 0..Workers(l) - 1 : \E a \in Rounds(l, DirectionSubRange(l, e), k) :
         ~AtEnd(l, a) /\ Index(l, a) = x
  BY <1>1, PartOf, RoundAt
<1>3. PICK a \in Rounds(l, DirectionSubRange(l, e), k) : ~AtEnd(l, a) /\ Index(l, a) = x
  BY <1>2
<1>4. k < w \/ k = w
  <2>1. Workers(l) \in Nat
    BY Threads
  <2> QED
    BY <2>1
<1>5. Before(l, e, f) \/ e = f
  BY LastDirection
<1>6. Earlier(l, e, k, a, f, w, loop)
  <2>1. CASE Before(l, e, f) \/ (e = f /\ k < w)
    BY <2>1 DEF Earlier
  <2>2. CASE e = f /\ k = w
    <3>1. PICK s : s = DirectionSubRange(l, f) /\ Part(l, s)
      BY PartOf
    <3>2. a \in Rounds(l, s, w) /\ Entire(l, s, w, loop)
      BY <1>3, <2>2, <3>1
    <3>3. Precedes(l, a, loop)
      BY <1>3, <3>1, <3>2, AllBefore
    <3> QED
      BY <2>2, <3>3 DEF Earlier
  <2> QED
    BY <1>4, <1>5, <2>1, <2>2
<1> QED
  BY <1>3, <1>6 DEF Visited

\* Count keeps what was visited and adds the index.
LEMMA CountKeeps ==
    ASSUME NEW bag, NEW x, NEW y, y \in BagToSet(bag) \/ y = x
    PROVE  y \in BagToSet(Count(bag, {x}))
  BY DEF Count, BagToSet, (+), SetToBag

\* The loops are not cut short, and each index that is behind the loop was visited.
CoversInv ==
    /\ launch \in Launches
    /\ worker \in 0..Workers(launch) - 1
    /\ ~Finished => /\ direction \in Directions(launch)
                    /\ Entire(launch, DirectionSubRange(launch, direction), worker, it)
                    /\ \A x : Visited(launch, x, direction, worker, it) => x \in BagToSet(visits)
    /\ Finished => \A x \in [Dims(launch.begin) -> Nat] :
                      IsIndex(launch, x) => x \in BagToSet(visits)

\* The first loop.
LEMMA CoversInit ==
    ASSUME \A l \in Launches : SharedOut(l), Init PROVE CoversInv
<1>1. /\ launch \in Launches /\ WellFormed(launch) /\ SharedOut(launch)
      /\ worker = 0 /\ visits = EmptyBag /\ direction = FirstDirection(launch)
      /\ it = Loop(DirectionSubRange(launch, direction), Thread(launch, 0))
  BY IdxMapAssumption DEF Init
<1>2. direction \in Directions(launch)
  BY <1>1 DEF FirstDirection, Direction, Directions
<1>3. worker \in 0..Workers(launch) - 1
  <2>1. Workers(launch) \in Nat \ {0}
    BY <1>1, Threads
  <2> QED
    BY <1>1, <2>1
<1>4. Entire(launch, DirectionSubRange(launch, direction), worker, it)
  BY <1>1, <1>2, <1>3, PartOf, EntireOfThread
<1>5. ASSUME NEW x PROVE ~Visited(launch, x, direction, worker, it)
  BY <1>1, <1>2, NoneVisited
<1>6. ~Finished
  BY <1>1, <1>2, NotFinished DEF Finished
<1> QED
  BY <1>1, <1>2, <1>3, <1>4, <1>5, <1>6 DEF CoversInv

\* Every step leaves out no index.
LEMMA CoversStep ==
    ASSUME \A l \in Launches : SharedOut(l), CoversInv, [Next]_vars PROVE CoversInv'
<1>1. /\ launch \in Launches /\ WellFormed(launch) /\ SharedOut(launch)
      /\ worker \in 0..Workers(launch) - 1
  BY IdxMapAssumption DEF CoversInv
<1>2. Workers(launch) \in Nat \ {0}
  BY <1>1, Threads
<1>3. PICK s : s = DirectionSubRange(launch, direction)
  OBVIOUS
<1>4. ASSUME ~Finished
      PROVE  /\ direction \in Directions(launch) /\ Part(launch, s)
             /\ Entire(launch, s, worker, it)
             /\ \A x : Visited(launch, x, direction, worker, it) => x \in BagToSet(visits)
  <2>1. direction \in Directions(launch)
    BY <1>4 DEF CoversInv
  <2> QED
    BY <1>1, <1>3, <1>4, <2>1, PartOf DEF CoversInv
<1>5. CASE Visit
  <2>1. /\ launch' = launch /\ direction' = direction /\ worker' = worker
        /\ ~Finished /\ ~AtEnd(launch, it)
        /\ visits' = Count(visits, {Index(launch, it)}) /\ it' = Increment(launch, it)
    BY <1>5 DEF Visit
  <2>2. Entire(launch, s, worker, it')
    BY <1>1, <1>4, <2>1, EntireOn
  <2>3. ASSUME NEW x, Visited(launch, x, direction, worker, it') PROVE x \in BagToSet(visits')
    <3>1. Visited(launch, x, direction, worker, Increment(launch, it))
      BY <2>1, <2>3
    <3>2. Visited(launch, x, direction, worker, it) \/ x = Index(launch, it)
      BY <1>1, <1>3, <1>4, <2>1, <3>1, VisitedBack
    <3>3. x \in BagToSet(visits) \/ x = Index(launch, it)
      BY <1>4, <2>1, <3>2
    <3> QED
      BY <2>1, <3>3, CountKeeps
  <2>4. ~Finished'
    BY <2>1 DEF Finished
  <2> QED
    BY <1>1, <1>3, <1>4, <2>1, <2>2, <2>3, <2>4 DEF CoversInv
<1>6. CASE NextThread
  <2>1. /\ launch' = launch /\ direction' = direction /\ visits' = visits
        /\ ~Finished /\ AtEnd(launch, it)
        /\ worker + 1 < Workers(launch) /\ worker' = worker + 1
        /\ it' = Loop(s, Thread(launch, worker + 1))
    BY <1>3, <1>6 DEF NextThread, Workers
  <2>2. worker + 1 \in 0..Workers(launch) - 1
    BY <1>1, <1>2, <2>1
  <2>3. Entire(launch, s, worker + 1, it')
    BY <1>1, <1>4, <2>1, <2>2, EntireOfThread
  <2>4. ASSUME NEW x, Visited(launch, x, direction, worker + 1, it') PROVE x \in BagToSet(visits')
    <3>1. Visited(launch, x, direction, worker, it)
      BY <1>1, <1>3, <1>4, <2>1, <2>2, <2>4, VisitedByThreadBack
    <3> QED
      BY <1>4, <2>1, <3>1
  <2>5. ~Finished'
    BY <2>1 DEF Finished
  <2> QED
    BY <1>1, <1>3, <1>4, <2>1, <2>2, <2>3, <2>4, <2>5 DEF CoversInv
<1>7. CASE EndOfDirection
  <2>1. /\ launch' = launch /\ visits' = visits /\ worker' = 0
        /\ ~Finished /\ AtEnd(launch, it) /\ worker + 1 = Workers(launch)
        /\ direction' = IF launch.lower = <<>> THEN OutOfBounds(Len(direction))
                        ELSE NextDirection(direction)
        /\ it' = IF direction'[1] = "oob" THEN it
                 ELSE Loop(DirectionSubRange(launch, direction'), Thread(launch, 0))
    BY <1>7 DEF EndOfDirection, Workers
  <2>2. 0 \in 0..Workers(launch) - 1
    BY <1>2
  <2>3. CASE direction'[1] = "oob"
    <3>1. Finished'
      BY <2>3 DEF Finished
    <3>2. launch.lower = <<>> \/ NextDirection(direction)[1] = "oob"
      BY <2>1, <2>3
    <3>3. ASSUME NEW x \in [Dims(launch.begin) -> Nat], IsIndex(launch, x)
          PROVE  x \in BagToSet(visits)
      <4>1. Visited(launch, x, direction, worker, it)
        BY <1>1, <1>3, <1>4, <2>1, <3>2, <3>3, AllVisited
      <4> QED
        BY <1>4, <2>1, <4>1
    <3> QED
      BY <1>1, <2>1, <2>2, <3>1, <3>3 DEF CoversInv
  <2>4. CASE direction'[1] # "oob"
    <3>1. launch.lower # <<>>
      BY <1>1, <1>4, <2>1, <2>4, NotFinished
    <3>2. direction \in Direction(launch)
      BY <1>4, <2>1, <3>1 DEF Directions
    <3>3. PICK dir : dir = direction' /\ dir = NextDirection(direction) /\ dir[1] # "oob"
      BY <2>1, <2>4, <3>1
    <3>4. dir \in Directions(launch)
      BY <1>1, <3>1, <3>2, <3>3, DirectionStep DEF Directions
    <3>5. it' = Loop(DirectionSubRange(launch, dir), Thread(launch, 0))
      BY <2>1, <3>3
    <3>6. Entire(launch, DirectionSubRange(launch, dir), 0, it')
      BY <1>1, <2>2, <3>4, <3>5, PartOf, EntireOfThread
    <3>7. Workers(launch) - 1 = worker
      BY <1>1, <1>2, <2>1
    <3>8. ASSUME NEW x, Visited(launch, x, dir, 0, it') PROVE x \in BagToSet(visits')
      <4>1. Visited(launch, x, direction, Workers(launch) - 1, it)
        BY <1>1, <1>3, <1>4, <2>1, <3>1, <3>2, <3>3, <3>5, <3>7, <3>8, VisitedByDirectionBack
      <4> QED
        BY <1>4, <2>1, <3>7, <4>1
    <3>9. ~Finished'
      BY <2>4 DEF Finished
    <3> QED
      BY <1>1, <2>1, <2>2, <3>3, <3>4, <3>6, <3>8, <3>9 DEF CoversInv
  <2> QED
    BY <2>3, <2>4
<1>8. CASE UNCHANGED vars
  BY <1>8 DEF vars, CoversInv, Finished
<1> QED
  BY <1>5, <1>6, <1>7, <1>8 DEF Next

\* "All elements in out are processed by the worker group independently of the parallelism
\* specified" (tutorial): under the same conditions no index is left out.
THEOREM IndicesAreAllVisited ==
    ASSUME \A l \in Launches : SharedOut(l) PROVE Spec => []AllIndicesVisited
<1>1. Init => CoversInv
  BY CoversInit
<1>2. CoversInv /\ [Next]_vars => CoversInv'
  BY CoversStep
<1>3. CoversInv => AllIndicesVisited
  <2>1. SUFFICES ASSUME CoversInv, Finished,
                        NEW x \in [Dims(launch.begin)
                                   -> 0..Max({launch.end[d] : d \in Dims(launch.end)})],
                        IsIndex(launch, x)
                 PROVE  x \in BagToSet(visits)
    BY DEF AllIndicesVisited
  <2>2. \A i : \A y \in 0..i : y \in Nat
    OBVIOUS
  <2>3. x \in [Dims(launch.begin) -> Nat]
    BY <2>1, <2>2
  <2> QED
    BY <2>1, <2>3 DEF CoversInv
<1> QED
  BY <1>1, <1>2, <1>3, PTL DEF Spec
=============================================================================
