---------------------------- MODULE VectorsProofs ----------------------------
(***************************************************************************)
(* Induction, arithmetic and the operators of Vectors, for the proofs      *)
(* about index maps, memory and scans.  Product, Linearize, MapToND and    *)
(* the sums are recursive functions.  That they exist, and what they       *)
(* compute, is shown by induction on a set (SetInduction).                 *)
(***************************************************************************)
EXTENDS Vectors, WellFoundedInduction, SequenceTheorems, FiniteSetTheorems, TLAPS

\* What division and remainder are about.
LEMMA Division ==
    ASSUME NEW n \in Nat, NEW s \in Nat \ {0}
    PROVE  /\ n \div s \in Nat /\ n % s \in Nat
           /\ n = s * (n \div s) + (n % s)
           /\ n % s < s
OBVIOUS

\* Induction over a set: a set with zero and the successors of its numbers has all

\* natural numbers.  The library states induction for an operator; this form follows from the
\* well-foundedness of < and is what the lemmas about recursive functions rest on.
LEMMA SetInduction ==
    ASSUME NEW S, 0 \in S, \A n \in Nat : n \in S => n + 1 \in S
    PROVE  Nat \subseteq S
<1> DEFINE R == OpToRel(<, Nat)
           T == Nat \ S
<1>1. SUFFICES ASSUME T # {} PROVE FALSE
  OBVIOUS
<1>2. IsWellFoundedOn(R, Nat)
  BY NatLessThanWellFounded
<1>3. T \subseteq Nat
  OBVIOUS
<1>4. \A x, y \in Nat : x < y => <<x, y>> \in R
  BY DEF OpToRel
<1> HIDE DEF R
<1>5. PICK x \in T : \A y \in T : <<y, x>> \notin R
  BY <1>1, <1>2, <1>3, WFMin
<1>6. x # 0 /\ x - 1 \in Nat /\ x - 1 < x
  OBVIOUS
<1>7. x - 1 \in T
  BY <1>6
<1> QED
  BY <1>4, <1>5, <1>6, <1>7

\* A vector of length n.
LEMMA Vector ==
    ASSUME NEW S, NEW n \in Nat, NEW v \in [1..n -> S]
    PROVE  v \in Seq(S) /\ Len(v) = n /\ Dims(v) = 1..n
  BY DEF Dims

\* g are the products of the first components of v, up to n of them.
ProductsOf(v, g, n) == g = [d \in 0..n |-> IF d = 0 THEN 1 ELSE g[d - 1] * v[d]]

\* The recursive function of Product exists.
LEMMA ProductsExist ==
    ASSUME NEW v, NEW n \in Nat PROVE \E g : ProductsOf(v, g, n)
<1> DEFINE S == {m \in Nat : \E g : ProductsOf(v, g, m)}
<1>1. 0 \in S
  <2>1. ProductsOf(v, [d \in 0..0 |-> 1], 0)
    BY DEF ProductsOf
  <2> QED
    BY <2>1
<1>2. ASSUME NEW m \in S PROVE m + 1 \in S
  <2>1. PICK g : ProductsOf(v, g, m)
    OBVIOUS
  <2> DEFINE h == [d \in 0..m + 1 |-> IF d = m + 1 THEN g[m] * v[m + 1] ELSE g[d]]
  <2>2. ProductsOf(v, h, m + 1)
    <3>1. g = [d \in 0..m |-> IF d = 0 THEN 1 ELSE g[d - 1] * v[d]]
      BY <2>1 DEF ProductsOf
    <3>2. ASSUME NEW d \in 0..m + 1 PROVE h[d] = IF d = 0 THEN 1 ELSE h[d - 1] * v[d]
      <4>1. CASE d = m + 1
        BY <4>1
      <4>2. CASE d \in 0..m
        <5>1. g[d] = IF d = 0 THEN 1 ELSE g[d - 1] * v[d]
          BY <3>1, <4>2
        <5>2. h[d] = g[d]
          BY <4>2
        <5>3. d # 0 => d - 1 \in 0..m /\ h[d - 1] = g[d - 1]
          BY <4>2
        <5> QED
          BY <5>1, <5>2, <5>3
      <4> QED
        BY <4>1, <4>2
    <3>3. h = [d \in 0..m + 1 |-> h[d]]
      OBVIOUS
    <3> HIDE DEF h
    <3> QED
      BY <3>2, <3>3 DEF ProductsOf
  <2> QED
    BY <2>2
<1>3. Nat \subseteq S
  BY <1>1, <1>2, SetInduction
<1> QED
  BY <1>3

\* What Product computes.
LEMMA ProductDef ==
    ASSUME NEW v, Len(v) \in Nat
    PROVE  \E g : ProductsOf(v, g, Len(v)) /\ Product(v) = g[Len(v)]
  BY ProductsExist DEF Product, ProductsOf

\* The products are determined.
LEMMA ProductsStep ==
    ASSUME NEW v, NEW g, NEW n \in Nat, ProductsOf(v, g, n)
    PROVE  g[0] = 1 /\ \A d \in 1..n : g[d] = g[d - 1] * v[d]
<1>1. \A d \in 0..n : g[d] = IF d = 0 THEN 1 ELSE g[d - 1] * v[d]
  BY DEF ProductsOf
<1> QED
  BY <1>1

\* Induction up to n.
LEMMA Fewer ==
    ASSUME NEW n \in Nat, NEW S \in SUBSET (0..n), 0 \in S, \A d \in 1..n : d - 1 \in S => d \in S
    PROVE  S = 0..n /\ n \in S
<1> DEFINE T == {d \in Nat : d <= n => d \in S}
<1>1. 0 \in T
  OBVIOUS
<1>2. \A d \in Nat : d \in T => d + 1 \in T
  <2>1. ASSUME NEW d \in T, d + 1 <= n PROVE d + 1 \in S
    <3>1. d \in Nat /\ d <= n /\ d \in S /\ d + 1 \in 1..n /\ (d + 1) - 1 = d
      BY <2>1
    <3> QED
      BY <3>1
  <2> QED
    BY <2>1
<1>3. Nat \subseteq T
  BY <1>1, <1>2, SetInduction
<1>4. ASSUME NEW d \in 0..n PROVE d \in S
  <2>1. d \in T /\ d <= n
    BY <1>3
  <2> QED
    BY <2>1
<1>5. 0..n \subseteq S
  BY <1>4
<1>6. n \in 0..n
  OBVIOUS
<1> QED
  BY <1>5, <1>6

\* Products of natural numbers.
LEMMA TimesNat ==
    ASSUME NEW a \in Nat, NEW b \in Nat
    PROVE  a * b \in Nat /\ (a # 0 /\ b # 0 => a * b # 0)
  OBVIOUS

\* Multiplication is monotone.
LEMMA TimesLess ==
    ASSUME NEW a \in Nat, NEW b \in Nat, NEW c \in Nat, a <= b
    PROVE  a * c <= b * c
OBVIOUS

\* Multiplication is monotone in both factors.
LEMMA TimesBoth ==
    ASSUME NEW a \in Nat, NEW b \in Nat, NEW c \in Nat, NEW d \in Nat, a <= b, c <= d
    PROVE  a * c <= b * d
<1>1. a * c <= b * c
  OBVIOUS
<1>2. b * c <= b * d
  OBVIOUS
<1> QED
  BY <1>1, <1>2, TimesNat

\* Products of naturals are naturals, of positive numbers positive, and grow with their factors.
LEMMA ProductNat ==
    ASSUME NEW v \in Seq(Nat)
    PROVE  /\ Product(v) \in Nat
           /\ (\A d \in Dims(v) : v[d] # 0) <=> Product(v) # 0
<1>1. PICK n \in Nat : n = Len(v)
  OBVIOUS
<1>2. PICK g : ProductsOf(v, g, n) /\ Product(v) = g[n]
  BY <1>1, ProductDef
<1>3. g[0] = 1 /\ \A d \in 1..n : g[d] = g[d - 1] * v[d]
  BY <1>2, ProductsStep
<1>4. \A d \in 1..n : v[d] \in Nat
  BY <1>1
<1> DEFINE S == {d \in 0..n : g[d] \in Nat /\ ((\A e \in 1..d : v[e] # 0) <=> g[d] # 0)}
<1>5. ASSUME NEW d \in 1..n, d - 1 \in S PROVE d \in S
  <2>1. PICK a \in Nat, b \in Nat : a = g[d - 1] /\ b = v[d]
    BY <1>4, <1>5
  <2>2. g[d] = a * b
    BY <1>3, <2>1
  <2>3. (\A e \in 1..d - 1 : v[e] # 0) <=> a # 0
    BY <1>5, <2>1
  <2>4. (\A e \in 1..d : v[e] # 0) <=> a # 0 /\ b # 0
    BY <2>1, <2>3
  <2>5. a * b \in Nat /\ (a * b # 0 <=> a # 0 /\ b # 0)
    BY TimesNat
  <2> QED
    BY <2>2, <2>4, <2>5
<1>6. 0 \in S
  BY <1>3
<1>7. S \subseteq 0..n
  OBVIOUS
<1> HIDE DEF S
<1>8. n \in S
  BY <1>5, <1>6, <1>7, Fewer
<1> USE DEF S
<1>9. g[n] \in Nat /\ ((\A e \in 1..n : v[e] # 0) <=> g[n] # 0)
  BY <1>8
<1>10. Dims(v) = 1..n
  BY <1>1 DEF Dims
<1> QED
  BY <1>2, <1>9, <1>10

\* The product grows with its factors.
LEMMA ProductLess ==
    ASSUME NEW v \in Seq(Nat), NEW w \in Seq(Nat), Len(v) = Len(w), \A d \in Dims(v) : v[d] <= w[d]
    PROVE  Product(v) <= Product(w)
<1>1. PICK n \in Nat : n = Len(v)
  OBVIOUS
<1>2. PICK g : ProductsOf(v, g, n) /\ Product(v) = g[n]
  BY <1>1, ProductDef
<1>3. PICK h : ProductsOf(w, h, n) /\ Product(w) = h[n]
  BY <1>1, ProductDef
<1>4. /\ g[0] = 1 /\ \A d \in 1..n : g[d] = g[d - 1] * v[d]
      /\ h[0] = 1 /\ \A d \in 1..n : h[d] = h[d - 1] * w[d]
  BY <1>2, <1>3, ProductsStep
<1> DEFINE S == {d \in 0..n : g[d] \in Nat /\ h[d] \in Nat /\ g[d] <= h[d]}
<1>5. ASSUME NEW d \in 1..n, d - 1 \in S PROVE d \in S
  <2>1. PICK a \in Nat, b \in Nat, x \in Nat, y \in Nat :
           a = g[d - 1] /\ b = h[d - 1] /\ x = v[d] /\ y = w[d]
    BY <1>1, <1>5
  <2>2. g[d] = a * x /\ h[d] = b * y
    BY <1>4, <2>1
  <2>3. a <= b /\ x <= y
    BY <1>1, <1>5, <2>1 DEF Dims
  <2>4. a * x <= b * y /\ a * x \in Nat /\ b * y \in Nat
    BY <2>3, TimesBoth, TimesNat
  <2> QED
    BY <2>2, <2>4
<1>6. 0 \in S
  BY <1>4
<1>7. S \subseteq 0..n
  OBVIOUS
<1> HIDE DEF S
<1>8. n \in S
  BY <1>5, <1>6, <1>7, Fewer
<1> USE DEF S
<1> QED
  BY <1>2, <1>3, <1>8

\* The components of v from the k-th one on.
LEMMA Rest ==
    ASSUME NEW S, NEW v \in Seq(S), NEW k \in 1..Len(v) + 1
    PROVE  /\ SubSeq(v, k, Len(v)) \in Seq(S)
           /\ Len(SubSeq(v, k, Len(v))) = Len(v) + 1 - k
           /\ \A i \in 1..Len(v) + 1 - k : SubSeq(v, k, Len(v))[i] = v[i + k - 1]
<1>1. CASE k <= Len(v)
  BY <1>1, SubSeqProperties
<1>2. CASE k = Len(v) + 1
  BY <1>2, SubSeqProperties
<1> QED
  BY <1>1, <1>2

\* The product of the components from the k-th one on.
Pitch(v, k) == Product(SubSeq(v, k + 1, Len(v)))

\* Each dimension multiplies the pitch of the next faster one by its extent.
LEMMA PitchStep ==
    ASSUME NEW v \in Seq(Nat)
    PROVE  /\ \A k \in 0..Len(v) : Pitch(v, k) \in Nat
           /\ Pitch(v, Len(v)) = 1
           /\ \A k \in 1..Len(v) : Pitch(v, k - 1) = v[k] * Pitch(v, k)
<1>1. PICK n \in Nat : n = Len(v)
  OBVIOUS
<1>2. ASSUME NEW k \in 0..n PROVE Pitch(v, k) \in Nat
  <2>1. k + 1 \in 1..n + 1
    OBVIOUS
  <2>2. SubSeq(v, k + 1, Len(v)) \in Seq(Nat)
    BY <1>1, <2>1, Rest
  <2> QED
    BY <2>2, ProductNat DEF Pitch
<1>3. Pitch(v, n) = 1
  <2>1. PICK s : s = SubSeq(v, n + 1, Len(v))
    OBVIOUS
  <2>2. s \in Seq(Nat) /\ Len(s) = 0
    BY <1>1, <2>1, Rest
  <2>3. PICK g : ProductsOf(s, g, 0) /\ Product(s) = g[0]
    BY <2>2, ProductDef
  <2>4. g[0] = 1
    BY <2>3, ProductsStep
  <2> QED
    BY <2>1, <2>3, <2>4 DEF Pitch
<1>4. ASSUME NEW k \in 1..n PROVE Pitch(v, k - 1) = v[k] * Pitch(v, k)
  <2>1. PICK s, t : s = SubSeq(v, k, n) /\ t = SubSeq(v, k + 1, n)
    OBVIOUS
  <2>2. PICK m \in Nat, p \in Nat : m = n - k /\ p = m + 1
    OBVIOUS
  <2>3. /\ s \in Seq(Nat) /\ Len(s) = p /\ \A i \in 1..p : s[i] = v[i + k - 1]
        /\ t \in Seq(Nat) /\ Len(t) = m /\ \A i \in 1..m : t[i] = v[i + k]
    <3>1. PICK l \in 1..n + 1 : l = k + 1
      OBVIOUS
    <3>2. k \in 1..n + 1 /\ n + 1 - k = p /\ n + 1 - l = m /\ \A i \in 1..m : i + l - 1 = i + k
      BY <2>2, <3>1
    <3>3. t = SubSeq(v, l, n)
      BY <2>1, <3>1
    <3>4. s \in Seq(Nat) /\ Len(s) = n + 1 - k /\ \A i \in 1..n + 1 - k : s[i] = v[i + k - 1]
      BY <1>1, <2>1, <3>2, Rest
    <3>5. t \in Seq(Nat) /\ Len(t) = n + 1 - l /\ \A i \in 1..n + 1 - l : t[i] = v[i + l - 1]
      BY <1>1, <3>1, <3>3, Rest
    <3> QED
      BY <3>2, <3>4, <3>5
  <2>4. PICK g : ProductsOf(s, g, p) /\ Product(s) = g[p]
    BY <2>3, ProductDef
  <2>5. PICK h : ProductsOf(t, h, m) /\ Product(t) = h[m]
    BY <2>3, ProductDef
  <2>6. /\ g[0] = 1 /\ \A d \in 1..p : g[d] = g[d - 1] * s[d]
        /\ h[0] = 1 /\ \A d \in 1..m : h[d] = h[d - 1] * t[d]
    BY <2>4, <2>5, ProductsStep
  <2> DEFINE S == {d \in 0..m : h[d] \in Nat /\ g[d + 1] = v[k] * h[d]}
  <2>7. v[k] \in Nat
    BY <1>1
  <2>8. 0 \in S
    <3>0. 1 \in 1..p /\ 1 + k - 1 = k /\ 1 - 1 = 0
      BY <2>2
    <3>1. g[1] = g[0] * s[1] /\ s[1] = v[k]
      BY <2>3, <2>6, <3>0
    <3> QED
      BY <2>6, <2>7, <3>1
  <2>9. ASSUME NEW d \in 1..m, d - 1 \in S PROVE d \in S
    <3>1. PICK a \in Nat, b \in Nat, c \in Nat : a = h[d - 1] /\ b = v[k] /\ c = v[d + k]
      BY <1>1, <2>2, <2>7, <2>9
    <3>2. h[d] = a * c
      BY <2>3, <2>6, <3>1
    <3>3. g[d + 1] = (b * a) * c
      <4>1. d + 1 \in 1..p /\ (d + 1) - 1 = d /\ (d - 1) + 1 = d /\ (d + 1) + k - 1 = d + k
        BY <2>2
      <4>2. g[d + 1] = g[d] * s[d + 1] /\ s[d + 1] = v[d + k]
        BY <2>3, <2>6, <4>1
      <4>3. g[d] = v[k] * h[d - 1]
        BY <2>9, <4>1
      <4> QED
        BY <3>1, <4>2, <4>3
    <3>4. (b * a) * c = b * (a * c) /\ a * c \in Nat
      OBVIOUS
    <3>5. g[d + 1] = v[k] * h[d] /\ h[d] \in Nat
      BY <3>1, <3>2, <3>3, <3>4
    <3> QED
      BY <3>5
  <2>10. S \subseteq 0..m
    OBVIOUS
  <2> HIDE DEF S
  <2>11. m \in S
    BY <2>8, <2>9, <2>10, Fewer
  <2> USE DEF S
  <2>12. g[p] = v[k] * h[m]
    BY <2>2, <2>11
  <2>13. (k - 1) + 1 = k
    OBVIOUS
  <2> QED
    BY <1>1, <2>1, <2>4, <2>5, <2>12, <2>13 DEF Pitch
<1> QED
  BY <1>1, <1>2, <1>3, <1>4

\* The product is that of all components.
LEMMA PitchOfAll ==
    ASSUME NEW v \in Seq(Nat) PROVE Pitch(v, 0) = Product(v)
<1>1. SubSeq(v, 1, Len(v)) = v /\ 0 + 1 = 1
  BY SubSeqFull
<1> QED
  BY <1>1 DEF Pitch
\* r are what is left of l after the division by the first pitches of e, up to n of them.
RestsOf(e, l, r, n) == r = [d \in 1..n |-> IF d = 1 THEN l ELSE r[d - 1] % Pitch(e, d - 1)]

\* The recursive function of MapToND exists.
LEMMA RestsExist ==
    ASSUME NEW e, NEW l, NEW n \in Nat PROVE \E r : RestsOf(e, l, r, n)
<1> DEFINE S == {m \in Nat : \E r : RestsOf(e, l, r, m)}
<1>1. 0 \in S
  <2>1. RestsOf(e, l, [d \in 1..0 |-> 0], 0)
    BY DEF RestsOf
  <2> QED
    BY <2>1
<1>2. ASSUME NEW m \in S PROVE m + 1 \in S
  <2>1. PICK r : RestsOf(e, l, r, m)
    OBVIOUS
  <2> DEFINE h == [d \in 1..m + 1 |->
                      IF d = m + 1 THEN (IF d = 1 THEN l ELSE r[m] % Pitch(e, m)) ELSE r[d]]
  <2>2. RestsOf(e, l, h, m + 1)
    <3>1. r = [d \in 1..m |-> IF d = 1 THEN l ELSE r[d - 1] % Pitch(e, d - 1)]
      BY <2>1 DEF RestsOf
    <3>2. ASSUME NEW d \in 1..m + 1 PROVE h[d] = IF d = 1 THEN l ELSE h[d - 1] % Pitch(e, d - 1)
      <4>1. CASE d = m + 1
        BY <4>1
      <4>2. CASE d \in 1..m
        <5>1. r[d] = IF d = 1 THEN l ELSE r[d - 1] % Pitch(e, d - 1)
          BY <3>1, <4>2
        <5>2. h[d] = r[d]
          BY <4>2
        <5>3. d # 1 => d - 1 \in 1..m /\ h[d - 1] = r[d - 1]
          BY <4>2
        <5> QED
          BY <5>1, <5>2, <5>3
      <4> QED
        BY <4>1, <4>2
    <3>3. h = [d \in 1..m + 1 |-> h[d]]
      OBVIOUS
    <3> HIDE DEF h
    <3> QED
      BY <3>2, <3>3 DEF RestsOf
  <2> QED
    BY <2>2
<1>3. Nat \subseteq S
  BY <1>1, <1>2, SetInduction
<1> QED
  BY <1>3

\* What MapToND computes.
LEMMA MapToNDDef ==
    ASSUME NEW e, NEW l, Len(e) \in Nat
    PROVE  \E r : /\ RestsOf(e, l, r, Len(e))
                  /\ MapToND(e, l) = [d \in 1..Len(e) |-> r[d] \div Pitch(e, d)]
<1> DEFINE n == Len(e)
           f == CHOOSE f : f = [d \in 1..n |-> IF d = 1 THEN l ELSE f[d - 1] % Pitch(e, d - 1)]
<1>0. \E r : RestsOf(e, l, r, n)
  BY RestsExist
<1>1. \E r : r = [d \in 1..n |-> IF d = 1 THEN l ELSE r[d - 1] % Pitch(e, d - 1)]
  BY <1>0 DEF RestsOf
<1>2. f = [d \in 1..n |-> IF d = 1 THEN l ELSE f[d - 1] % Pitch(e, d - 1)]
  BY <1>1
<1>3. MapToND(e, l) = [d \in 1..n |-> f[d] \div Pitch(e, d)]
  BY DEF MapToND, Pitch
<1> QED
  BY <1>2, <1>3 DEF RestsOf

\* A number below c multiples of b has a quotient below c.
LEMMA QuotientBound ==
    ASSUME NEW a \in Nat, NEW b \in Nat \ {0}, NEW c \in Nat, a < c * b
    PROVE  a \div b < c
<1>1. PICK q \in Nat, r \in Nat : q = a \div b /\ r = a % b /\ a = b * q + r /\ r < b
  BY Division
<1>2. SUFFICES ASSUME c <= q PROVE FALSE
  BY <1>1
<1>3. c * b <= q * b
  BY <1>2, TimesBoth
<1>4. q * b = b * q
  OBVIOUS
<1>5. c * b \in Nat /\ b * q \in Nat
  BY TimesNat
<1> QED
  BY <1>1, <1>3, <1>4, <1>5

\* The components of a position are naturals, and less than the extents if the position is

\* less than their product.
LEMMA MapToNDInRange ==
    ASSUME NEW e \in Seq(Nat \ {0}), NEW l \in Nat
    PROVE  /\ MapToND(e, l) \in [1..Len(e) -> Nat]
           /\ l < Product(e) => \A d \in 1..Len(e) : MapToND(e, l)[d] < e[d]
<1>1. PICK n \in Nat : n = Len(e)
  OBVIOUS
<1>2. e \in Seq(Nat) /\ \A d \in 1..n : e[d] \in Nat \ {0}
  BY <1>1
<1>3. PICK r : RestsOf(e, l, r, n) /\ MapToND(e, l) = [d \in 1..n |-> r[d] \div Pitch(e, d)]
  <2>1. Len(e) \in Nat
    BY <1>1
  <2>2. PICK r : /\ RestsOf(e, l, r, Len(e))
                 /\ MapToND(e, l) = [d \in 1..Len(e) |-> r[d] \div Pitch(e, d)]
    BY <2>1, MapToNDDef
  <2> QED
    BY <1>1, <2>2
<1>4. \A d \in 1..n : r[d] = IF d = 1 THEN l ELSE r[d - 1] % Pitch(e, d - 1)
  BY <1>3 DEF RestsOf
<1>5. /\ \A k \in 0..n : Pitch(e, k) \in Nat
      /\ \A k \in 1..n : Pitch(e, k - 1) = e[k] * Pitch(e, k)
      /\ Pitch(e, 0) = Product(e)
  BY <1>1, <1>2, PitchStep, PitchOfAll
<1>6. \A k \in 0..n : Pitch(e, k) # 0
  <2>1. ASSUME NEW k \in 0..n PROVE Pitch(e, k) # 0
    <3>0. PICK j \in 1..n + 1 : j = k + 1
      OBVIOUS
    <3>1. PICK s : s = SubSeq(e, j, n) /\ j = k + 1
      BY <3>0
    <3>2. s \in Seq(Nat \ {0})
      BY <1>1, <3>1, Rest
    <3>3. s \in Seq(Nat) /\ \A d \in Dims(s) : s[d] # 0
      BY <3>2 DEF Dims
    <3>4. Product(s) # 0
      BY <3>3, ProductNat
    <3> QED
      BY <1>1, <3>1, <3>4 DEF Pitch
  <2> QED
    BY <2>1
<1> DEFINE S == {k \in 0..n : k # 0 => r[k] \in Nat /\ (l < Product(e) => r[k] < Pitch(e, k - 1))}
<1>7. ASSUME NEW k \in 1..n, k - 1 \in S PROVE k \in S
  <2>1. CASE k = 1
    BY <1>4, <1>5, <2>1
  <2>2. CASE k # 1
    <3>0. k - 1 \in 0..n /\ k - 1 # 0
      BY <2>2
    <3>10. r[k - 1] \in Nat
      BY <1>7, <3>0
    <3>11. Pitch(e, k - 1) \in Nat \ {0}
      BY <1>5, <1>6, <3>0
    <3>1. PICK p \in Nat \ {0}, a \in Nat : p = Pitch(e, k - 1) /\ a = r[k - 1]
      BY <3>10, <3>11
    <3>2. r[k] = a % p
      BY <1>4, <2>2, <3>1
    <3>3. a % p \in Nat /\ a % p < p
      BY Division
    <3> QED
      BY <3>1, <3>2, <3>3
  <2> QED
    BY <2>1, <2>2
<1>8. 0 \in S /\ S \subseteq 0..n
  OBVIOUS
<1> HIDE DEF S
<1>9. S = 0..n
  BY <1>7, <1>8, Fewer
<1> USE DEF S
<1>10. ASSUME NEW d \in 1..n
       PROVE  r[d] \div Pitch(e, d) \in Nat /\ (l < Product(e) => r[d] \div Pitch(e, d) < e[d])
  <2>1. d \in S
    BY <1>9
  <2>10. r[d] \in Nat /\ (l < Product(e) => r[d] < Pitch(e, d - 1))
    BY <2>1
  <2>11. Pitch(e, d) \in Nat \ {0} /\ Pitch(e, d - 1) = e[d] * Pitch(e, d)
    BY <1>5, <1>6
  <2>2. PICK a \in Nat, p \in Nat \ {0}, c \in Nat : a = r[d] /\ p = Pitch(e, d) /\ c = e[d]
    BY <1>2, <2>10, <2>11
  <2>3. a \div p \in Nat
    BY Division
  <2>4. l < Product(e) => a < c * p
    BY <2>2, <2>10, <2>11
  <2>5. l < Product(e) => a \div p < c
    BY <2>4, QuotientBound
  <2> QED
    BY <2>2, <2>3, <2>5
<1> QED
  BY <1>1, <1>3, <1>10

\* A product of which all factors but one are 1.
LEMMA ProductOfOne ==
    ASSUME NEW v \in Seq(Nat), NEW k \in 1..Len(v), \A d \in 1..Len(v) : d # k => v[d] = 1
    PROVE  Product(v) = v[k]
<1>1. PICK n \in Nat : n = Len(v)
  OBVIOUS
<1>2. PICK g : ProductsOf(v, g, n) /\ Product(v) = g[n]
  BY <1>1, ProductDef
<1>3. g[0] = 1 /\ \A d \in 1..n : g[d] = g[d - 1] * v[d]
  BY <1>2, ProductsStep
<1>4. PICK x \in Nat : x = v[k]
  BY <1>1
<1> DEFINE S == {d \in 0..n : g[d] = IF d < k THEN 1 ELSE x}
<1>5. ASSUME NEW d \in 1..n, d - 1 \in S PROVE d \in S
  <2>1. g[d - 1] = IF d - 1 < k THEN 1 ELSE x
    BY <1>5
  <2>2. v[d] = IF d = k THEN x ELSE 1
    BY <1>1, <1>4
  <2>3. g[d] = g[d - 1] * v[d]
    BY <1>3
  <2>4. 1 * 1 = 1 /\ 1 * x = x /\ x * 1 = x
    OBVIOUS
  <2>5. d < k \/ d = k \/ d > k
    BY <1>1
  <2> QED
    BY <1>1, <2>1, <2>2, <2>3, <2>4, <2>5
<1>6. 0 \in S /\ S \subseteq 0..n
  BY <1>1, <1>3
<1> HIDE DEF S
<1>7. n \in S
  BY <1>5, <1>6, Fewer
<1> USE DEF S
<1>8. ~(n < k)
  BY <1>1
<1> QED
  BY <1>2, <1>4, <1>7, <1>8
\* g are the positions of the first components of x in the extents e, up to n of them.
LinearsOf(e, x, g, n) == g = [d \in 0..n |-> IF d = 0 THEN 0 ELSE g[d - 1] * e[d] + x[d]]

\* The recursive function of Linearize exists.
LEMMA LinearsExist ==
    ASSUME NEW e, NEW x, NEW n \in Nat PROVE \E g : LinearsOf(e, x, g, n)
<1> DEFINE S == {m \in Nat : \E g : LinearsOf(e, x, g, m)}
<1>1. 0 \in S
  <2>1. LinearsOf(e, x, [d \in 0..0 |-> 0], 0)
    BY DEF LinearsOf
  <2> QED
    BY <2>1
<1>2. ASSUME NEW m \in S PROVE m + 1 \in S
  <2>1. PICK g : LinearsOf(e, x, g, m)
    OBVIOUS
  <2> DEFINE h == [d \in 0..m + 1 |-> IF d = m + 1 THEN g[m] * e[m + 1] + x[m + 1] ELSE g[d]]
  <2>2. LinearsOf(e, x, h, m + 1)
    <3>1. g = [d \in 0..m |-> IF d = 0 THEN 0 ELSE g[d - 1] * e[d] + x[d]]
      BY <2>1 DEF LinearsOf
    <3>2. ASSUME NEW d \in 0..m + 1 PROVE h[d] = IF d = 0 THEN 0 ELSE h[d - 1] * e[d] + x[d]
      <4>1. CASE d = m + 1
        BY <4>1
      <4>2. CASE d \in 0..m
        <5>1. g[d] = IF d = 0 THEN 0 ELSE g[d - 1] * e[d] + x[d]
          BY <3>1, <4>2
        <5>2. h[d] = g[d]
          BY <4>2
        <5>3. d # 0 => d - 1 \in 0..m /\ h[d - 1] = g[d - 1]
          BY <4>2
        <5> QED
          BY <5>1, <5>2, <5>3
      <4> QED
        BY <4>1, <4>2
    <3>3. h = [d \in 0..m + 1 |-> h[d]]
      OBVIOUS
    <3> HIDE DEF h
    <3> QED
      BY <3>2, <3>3 DEF LinearsOf
  <2> QED
    BY <2>2
<1>3. Nat \subseteq S
  BY <1>1, <1>2, SetInduction
<1> QED
  BY <1>3

\* What Linearize computes.
LEMMA LinearizeDef ==
    ASSUME NEW e, NEW x, NEW n \in Nat, n = Len(x)
    PROVE  \E g : LinearsOf(e, x, g, n) /\ Linearize(e, x) = g[n]
<1> DEFINE f == CHOOSE f : f = [d \in 0..n |-> IF d = 0 THEN 0 ELSE f[d - 1] * e[d] + x[d]]
<1>0. \E g : g = [d \in 0..n |-> IF d = 0 THEN 0 ELSE g[d - 1] * e[d] + x[d]]
  <2>1. \E g : LinearsOf(e, x, g, n)
    BY LinearsExist
  <2> QED
    BY <2>1 DEF LinearsOf
<1>3. f = [d \in 0..n |-> IF d = 0 THEN 0 ELSE f[d - 1] * e[d] + x[d]]
  BY <1>0
<1>4. Linearize(e, x) = f[n]
  BY DEF Linearize
<1> HIDE DEF f
<1>1. PICK g : LinearsOf(e, x, g, n) /\ Linearize(e, x) = g[n]
  BY <1>3, <1>4 DEF LinearsOf
<1> QED
  BY <1>1

\* A position is a natural number.
LEMMA LinearizeNat ==
    ASSUME NEW n \in Nat, NEW e \in [1..n -> Nat], NEW x \in [1..n -> Nat]
    PROVE  Linearize(e, x) \in Nat
<1>1. n = Len(x)
  BY Vector
<1>6. PICK g : LinearsOf(e, x, g, n) /\ Linearize(e, x) = g[n]
  BY <1>1, LinearizeDef
<1>2. g[0] = 0 /\ \A d \in 1..n : g[d] = g[d - 1] * e[d] + x[d]
  <2>1. \A d \in 0..n : g[d] = IF d = 0 THEN 0 ELSE g[d - 1] * e[d] + x[d]
    BY <1>6 DEF LinearsOf
  <2> QED
    BY <2>1
<1> DEFINE S == {d \in 0..n : g[d] \in Nat}
<1>3. ASSUME NEW d \in 1..n, d - 1 \in S PROVE d \in S
  <2>1. PICK a \in Nat, b \in Nat, c \in Nat : a = g[d - 1] /\ b = e[d] /\ c = x[d]
    BY <1>3
  <2>2. g[d] = a * b + c
    BY <1>2, <2>1
  <2>3. PICK p \in Nat : p = a * b
    BY TimesNat
  <2>5. p + c \in Nat
    OBVIOUS
  <2>4. g[d] \in Nat
    BY <2>2, <2>3, <2>5
  <2> QED
    BY <2>4
<1>4. 0 \in S /\ S \subseteq 0..n
  BY <1>2
<1> HIDE DEF S
<1>5. n \in S
  BY <1>3, <1>4, Fewer
<1> QED
  BY <1>6, <1>5 DEF S

\* The largest element of a set of components.
LEMMA Largest ==
    ASSUME NEW n \in Nat, NEW S \in SUBSET (1..n), S # {}
    PROVE  Max(S) \in S /\ \A d \in S : d <= Max(S)
<1> DEFINE T == {m \in 0..n : (\E d \in S : d <= m) => \E d \in S : \A c \in S : c <= m => c <= d}
<1>1. 0 \in T /\ T \subseteq 0..n
  OBVIOUS
<1>2. ASSUME NEW m \in 1..n, m - 1 \in T PROVE m \in T
  <2>1. CASE m \in S
    BY <2>1
  <2>2. CASE m \notin S
    <3>1. \A d \in S : d <= m <=> d <= m - 1
      BY <2>2
    <3> QED
      BY <1>2, <3>1
  <2> QED
    BY <2>1, <2>2
<1> HIDE DEF T
<1>3. n \in T
  BY <1>1, <1>2, Fewer
<1>4. PICK e \in S : e \in 1..n
  OBVIOUS
<1>5. \E d \in S : \A c \in S : c <= n => c <= d
  BY <1>3, <1>4 DEF T
<1>6. PICK d \in S : \A c \in S : c <= n => c <= d
  BY <1>5
<1>7. \A c \in S : c <= d /\ c \in Nat
  BY <1>6
<1>8. \A c \in S : d >= c
  BY <1>7
<1>9. PICK m : m = CHOOSE y \in S : \A c \in S : y >= c
  OBVIOUS
<1>10. m \in S /\ \A c \in S : m >= c
  BY <1>8, <1>9
<1>11. m = Max(S)
  BY <1>9 DEF Max
<1>12. \A c \in S : c <= m
  BY <1>10
<1> QED
  BY <1>10, <1>11, <1>12

\* Division is unique.
LEMMA DivisionUnique ==
    ASSUME NEW q \in Nat, NEW m \in Nat \ {0}, NEW r \in Nat, r < m, NEW a \in Nat, a = m * q + r
    PROVE  a \div m = q /\ a % m = r
<1>1. PICK p \in Nat, t \in Nat : p = a \div m /\ t = a % m /\ a = m * p + t /\ t < m
  BY Division
<1>2. CASE p = q
  BY <1>1, <1>2
<1>3. CASE p < q
  <2>1. m * (p + 1) <= m * q
    <3>1. m * (p + 1) = (p + 1) * m /\ m * q = q * m /\ p + 1 <= q
      BY <1>3
    <3> QED
      BY <3>1, TimesBoth
  <2>2. m * (p + 1) = m * p + m /\ m * p \in Nat /\ m * q \in Nat
    BY TimesNat
  <2> QED
    BY <1>1, <2>1, <2>2
<1>4. CASE q < p
  <2>1. m * (q + 1) <= m * p
    <3>1. m * (q + 1) = (q + 1) * m /\ m * p = p * m /\ q + 1 <= p
      BY <1>4
    <3> QED
      BY <3>1, TimesBoth
  <2>2. m * (q + 1) = m * q + m /\ m * p \in Nat /\ m * q \in Nat
    BY TimesNat
  <2> QED
    BY <1>1, <2>1, <2>2
<1> QED
  BY <1>2, <1>3, <1>4

\* Multiples of m leave no rest.
LEMMA MultipleRest ==
    ASSUME NEW m \in Nat \ {0}, NEW c \in Nat PROVE (m * c) % m = 0
<1>1. m * c \in Nat /\ m * c = m * c + 0
  BY TimesNat
<1> QED
  BY <1>1, DivisionUnique

\* What is a multiple of m.
LEMMA Multiples ==
    ASSUME NEW a \in Nat, NEW b \in Nat, NEW m \in Nat \ {0}, a % m = 0
    PROVE  (a + m * b) % m = 0
<1>1. PICK q \in Nat : a = m * q
  BY Division
<1>2. a + m * b = m * (q + b)
  BY <1>1
<1>3. PICK c \in Nat : c = q + b
  OBVIOUS
<1>4. (m * c) % m = 0
  BY MultipleRest
<1> QED
  BY <1>2, <1>3, <1>4

-----------------------------------------------------------------------------
(* Sums.                                                                   *)

\* f is the sum of t[o] * c over the elements o of any subset of S.
SumsOf(t, c, S, f) ==
    f = [s \in SUBSET S |->
            IF s = {} THEN 0
            ELSE LET x == CHOOSE y \in s : TRUE IN t[x] * c + f[s \ {x}]]

\* the sum
SumOver(t, c, S) == (CHOOSE f : SumsOf(t, c, S, f))[S]

\* The subsets of S that have n elements or less.
Small(S, n) == {s \in SUBSET S : Cardinality(s) <= n}

\* One element less makes a subset smaller.
LEMMA OneSmaller ==
    ASSUME NEW S, IsFiniteSet(S), NEW n \in Nat, NEW s \in Small(S, n + 1), NEW x \in s
    PROVE  s \ {x} \in Small(S, n)
<1>1. s \in SUBSET S /\ Cardinality(s) <= n + 1
  BY DEF Small
<1>2. IsFiniteSet(s)
  BY <1>1, FS_Subset
<1>3. Cardinality(s \ {x}) = Cardinality(s) - 1 /\ Cardinality(s) \in Nat
  BY <1>2, FS_RemoveElement, FS_CardinalityType
<1> QED
  BY <1>1, <1>3 DEF Small

\* The sums of the subsets exist.
LEMMA SumsExist ==
    ASSUME NEW t, NEW c, NEW S, IsFiniteSet(S) PROVE \E f : SumsOf(t, c, S, f)
<1> DEFINE Sum(s, f) == IF s = {} THEN 0
                        ELSE LET x == CHOOSE y \in s : TRUE IN t[x] * c + f[s \ {x}]
           N == {n \in Nat : \E f : f = [s \in Small(S, n) |-> Sum(s, f)]}
<1>1. 0 \in N
  <2>1. ASSUME NEW s \in Small(S, 0) PROVE s = {}
    <3>1. s \in SUBSET S /\ Cardinality(s) <= 0
      BY DEF Small
    <3>2. IsFiniteSet(s)
      BY <3>1, FS_Subset
    <3>3. Cardinality(s) = 0
      BY <3>1, <3>2, FS_CardinalityType
    <3> QED
      BY <3>2, <3>3, FS_EmptySet
  <2> DEFINE f == [s \in Small(S, 0) |-> 0]
  <2>2. f = [s \in Small(S, 0) |-> Sum(s, f)]
    BY <2>1
  <2> QED
    BY <2>2
<1>2. ASSUME NEW n \in N PROVE n + 1 \in N
  <2>1. PICK f : f = [s \in Small(S, n) |-> Sum(s, f)]
    OBVIOUS
  <2> DEFINE h == [s \in Small(S, n + 1) |-> Sum(s, f)]
  <2>2. ASSUME NEW s \in Small(S, n) PROVE s \in Small(S, n + 1) /\ h[s] = f[s]
    <3>1. s \in Small(S, n + 1)
      <4>1. s \in SUBSET S /\ Cardinality(s) <= n /\ IsFiniteSet(s)
        BY FS_Subset DEF Small
      <4>2. Cardinality(s) \in Nat
        BY <4>1, FS_CardinalityType
      <4> QED
        BY <4>1, <4>2 DEF Small
    <3>2. h[s] = Sum(s, f)
      BY <3>1
    <3>3. f[s] = Sum(s, f)
      BY <2>1
    <3> QED
      BY <3>1, <3>2, <3>3
  <2>3. ASSUME NEW s \in Small(S, n + 1) PROVE Sum(s, f) = Sum(s, h)
    <3>1. CASE s = {}
      BY <3>1
    <3>2. CASE s # {}
      <4>1. PICK x : x = CHOOSE y \in s : TRUE
        OBVIOUS
      <4>2. x \in s
        BY <3>2, <4>1
      <4>3. s \ {x} \in Small(S, n)
        BY <4>2, OneSmaller
      <4>4. h[s \ {x}] = f[s \ {x}]
        BY <2>2, <4>3
      <4> HIDE DEF h
      <4> QED
        BY <3>2, <4>1, <4>4
    <3> QED
      BY <3>1, <3>2
  <2>4. h = [s \in Small(S, n + 1) |-> Sum(s, f)]
    OBVIOUS
  <2>5. h = [s \in Small(S, n + 1) |-> Sum(s, h)]
    <3> HIDE DEF h, Sum
    <3> QED
      BY <2>3, <2>4
  <2>6. n + 1 \in Nat
    OBVIOUS
  <2> HIDE DEF h, Sum
  <2> QED
    BY <2>5, <2>6
<1>3. Nat \subseteq N
  <2> HIDE DEF N
  <2> QED
    BY <1>1, <1>2, SetInduction
<1>4. Cardinality(S) \in Nat
  BY FS_CardinalityType
<1>5. SUBSET S = Small(S, Cardinality(S))
  BY FS_Subset DEF Small
<1>6. Cardinality(S) \in N
  <2> HIDE DEF N
  <2> QED
    BY <1>3, <1>4
<1>7. PICK f : f = [s \in SUBSET S |-> Sum(s, f)]
  <2> HIDE DEF Sum
  <2> QED
    BY <1>5, <1>6
<1> QED
  BY <1>7 DEF SumsOf

\* A sum of naturals is one.
LEMMA SumNat ==
    ASSUME NEW t, NEW c \in Nat, NEW S, IsFiniteSet(S), \A x \in S : t[x] \in Nat
    PROVE  SumOver(t, c, S) \in Nat
<1>1. PICK f : f = CHOOSE g : SumsOf(t, c, S, g)
  OBVIOUS
<1>2. SumsOf(t, c, S, f)
  BY <1>1, SumsExist
<1> DEFINE N == {n \in Nat : \A s \in Small(S, n) : f[s] \in Nat}
<1>3. ASSUME NEW s \in SUBSET S
      PROVE  f[s] = IF s = {} THEN 0 ELSE LET x == CHOOSE y \in s : TRUE IN t[x] * c + f[s \ {x}]
  BY <1>2 DEF SumsOf
<1>4. 0 \in N
  <2>1. ASSUME NEW s \in Small(S, 0) PROVE f[s] \in Nat
    <3>1. s \in SUBSET S /\ Cardinality(s) <= 0 /\ IsFiniteSet(s)
      BY FS_Subset DEF Small
    <3>2. Cardinality(s) = 0
      BY <3>1, FS_CardinalityType
    <3>3. s = {}
      BY <3>1, <3>2, FS_EmptySet
    <3>4. f[s] = IF s = {} THEN 0 ELSE LET x == CHOOSE y \in s : TRUE IN t[x] * c + f[s \ {x}]
      BY <1>3, <3>1
    <3>5. f[s] = 0
      BY <3>3, <3>4, Zenon
    <3> QED
      BY <3>5
  <2> QED
    BY <2>1
<1>5. ASSUME NEW n \in N PROVE n + 1 \in N
  <2>1. ASSUME NEW s \in Small(S, n + 1) PROVE f[s] \in Nat
    <3>1. s \in SUBSET S
      BY DEF Small
    <3>2. CASE s = {}
      <4>1. f[s] = IF s = {} THEN 0
                   ELSE LET x == CHOOSE y \in s : TRUE IN t[x] * c + f[s \ {x}]
        BY <1>3, <3>1
      <4>2. f[s] = 0
        BY <3>2, <4>1, Zenon
      <4> QED
        BY <4>2
    <3>3. CASE s # {}
      <4>1. PICK x : x = CHOOSE y \in s : TRUE
        OBVIOUS
      <4>2. x \in s
        BY <3>3, <4>1
      <4>3. f[s \ {x}] \in Nat
        BY <4>2, OneSmaller
      <4>4. f[s] = t[x] * c + f[s \ {x}]
        BY <1>3, <3>1, <3>3, <4>1
      <4>5. PICK a \in Nat : a = t[x]
        BY <3>1, <4>2
      <4> QED
        BY <4>3, <4>4, <4>5, TimesNat
    <3> QED
      BY <3>2, <3>3
  <2> QED
    BY <2>1
<1>6. Nat \subseteq N
  <2> HIDE DEF N
  <2> QED
    BY <1>4, <1>5, SetInduction
<1>7. Cardinality(S) \in N
  BY <1>6, FS_CardinalityType
<1>8. S \in Small(S, Cardinality(S))
  BY FS_CardinalityType DEF Small
<1> QED
  BY <1>1, <1>7, <1>8 DEF SumOver

\* Numbers below a multiple: q before m and r before b make q * b + r come before m * b.
LEMMA DigitsBelow ==
    ASSUME NEW q \in Nat, NEW m \in Nat, NEW b \in Nat, NEW r \in Nat, q < m, r < b
    PROVE  q * b + r \in Nat /\ m * b \in Nat /\ q * b + r < m * b
<1>1. (q + 1) * b <= m * b
  BY TimesBoth
<1>2. (q + 1) * b = q * b + b
  OBVIOUS
<1>3. PICK x \in Nat, y \in Nat : x = q * b /\ y = m * b
  BY TimesNat
<1> QED
  BY <1>1, <1>2, <1>3

\* The positions of a space are numbered from zero, without a gap above.
LEMMA LinearizeBelow ==
    ASSUME NEW n \in Nat, NEW e \in [1..n -> Nat], NEW x \in [1..n -> Nat],
           \A d \in 1..n : x[d] < e[d]
    PROVE  Linearize(e, x) < Product(e)
<1>1. n = Len(x) /\ n = Len(e)
  BY Vector
<1>2. PICK g : /\ Linearize(e, x) = g[n]
               /\ g[0] = 0 /\ \A d \in 1..n : g[d] = g[d - 1] * e[d] + x[d]
  <2>1. PICK f : LinearsOf(e, x, f, n) /\ Linearize(e, x) = f[n]
    BY <1>1, LinearizeDef
  <2>2. \A d \in 0..n : f[d] = IF d = 0 THEN 0 ELSE f[d - 1] * e[d] + x[d]
    BY <2>1 DEF LinearsOf
  <2>3. f[0] = 0 /\ \A d \in 1..n : f[d] = f[d - 1] * e[d] + x[d]
    BY <2>2
  <2> QED
    BY <2>1, <2>3
<1>3. PICK h : ProductsOf(e, h, n) /\ Product(e) = h[n]
  BY <1>1, ProductDef
<1>4. h[0] = 1 /\ \A d \in 1..n : h[d] = h[d - 1] * e[d]
  BY <1>3, ProductsStep
<1> DEFINE S == {d \in 0..n : g[d] \in Nat /\ h[d] \in Nat /\ g[d] < h[d]}
<1>5. ASSUME NEW d \in 1..n, d - 1 \in S PROVE d \in S
  <2>1. PICK a \in Nat, m \in Nat, b \in Nat, c \in Nat :
           a = g[d - 1] /\ m = h[d - 1] /\ b = e[d] /\ c = x[d] /\ a < m /\ c < b
    BY <1>5
  <2>2. g[d] = a * b + c /\ h[d] = m * b
    BY <1>2, <1>4, <2>1
  <2>3. a * b + c \in Nat /\ m * b \in Nat /\ a * b + c < m * b
    BY <2>1, DigitsBelow
  <2> QED
    BY <2>2, <2>3
<1>6. 0 \in S /\ S \subseteq 0..n
  BY <1>2, <1>4
<1> HIDE DEF S
<1>7. n \in S
  BY <1>5, <1>6, Fewer
<1> QED
  BY <1>2, <1>3, <1>7 DEF S

\* Two positions of a space with the same number are the same.
LEMMA LinearizeOnce ==
    ASSUME NEW n \in Nat, NEW e \in [1..n -> Nat], NEW x \in [1..n -> Nat], NEW y \in [1..n -> Nat],
           \A d \in 1..n : x[d] < e[d] /\ y[d] < e[d], Linearize(e, x) = Linearize(e, y)
    PROVE  x = y
<1>1. n = Len(x) /\ n = Len(y)
  BY Vector
<1>2. PICK g : /\ Linearize(e, x) = g[n]
               /\ g[0] = 0 /\ \A d \in 1..n : g[d] = g[d - 1] * e[d] + x[d]
  <2>1. PICK f : LinearsOf(e, x, f, n) /\ Linearize(e, x) = f[n]
    BY <1>1, LinearizeDef
  <2>2. \A d \in 0..n : f[d] = IF d = 0 THEN 0 ELSE f[d - 1] * e[d] + x[d]
    BY <2>1 DEF LinearsOf
  <2>3. f[0] = 0 /\ \A d \in 1..n : f[d] = f[d - 1] * e[d] + x[d]
    BY <2>2
  <2> QED
    BY <2>1, <2>3
<1>3. PICK h : /\ Linearize(e, y) = h[n]
               /\ h[0] = 0 /\ \A d \in 1..n : h[d] = h[d - 1] * e[d] + y[d]
  <2>1. PICK f : LinearsOf(e, y, f, n) /\ Linearize(e, y) = f[n]
    BY <1>1, LinearizeDef
  <2>2. \A d \in 0..n : f[d] = IF d = 0 THEN 0 ELSE f[d - 1] * e[d] + y[d]
    BY <2>1 DEF LinearsOf
  <2>3. f[0] = 0 /\ \A d \in 1..n : f[d] = f[d - 1] * e[d] + y[d]
    BY <2>2
  <2> QED
    BY <2>1, <2>3
<1> DEFINE N == {d \in 0..n : g[d] \in Nat /\ h[d] \in Nat}
<1>4. ASSUME NEW d \in 1..n, d - 1 \in N PROVE d \in N
  <2>1. PICK a \in Nat, b \in Nat, m \in Nat, p \in Nat, q \in Nat :
           a = g[d - 1] /\ b = h[d - 1] /\ m = e[d] /\ p = x[d] /\ q = y[d]
    BY <1>4
  <2>2. g[d] = a * m + p /\ h[d] = b * m + q
    BY <1>2, <1>3, <2>1
  <2>3. a * m \in Nat /\ b * m \in Nat
    BY TimesNat
  <2> QED
    BY <2>2, <2>3
<1>5. 0 \in N /\ N \subseteq 0..n
  BY <1>2, <1>3
<1> HIDE DEF N
<1>6. N = 0..n
  BY <1>4, <1>5, Fewer
\* from the last component to the first
<1> DEFINE S == {c \in 0..n : g[n - c] = h[n - c] /\ \A d \in n - c + 1..n : x[d] = y[d]}
<1>7. ASSUME NEW c \in 1..n, c - 1 \in S PROVE c \in S
  <2>1. PICK d \in 1..n : d = n - (c - 1) /\ d - 1 = n - c
    OBVIOUS
  <2>2. g[d] = h[d] /\ \A j \in d + 1..n : x[j] = y[j]
    BY <1>7, <2>1
  <2> HIDE DEF S
  <2>3. d - 1 \in N
    BY <1>6
  <2>4. PICK a \in Nat, b \in Nat, m \in Nat, p \in Nat, q \in Nat :
           /\ a = g[d - 1] /\ b = h[d - 1] /\ m = e[d] /\ p = x[d] /\ q = y[d]
           /\ p < m /\ q < m
    BY <2>3 DEF N
  <2>5. a * m + p = b * m + q
    BY <1>2, <1>3, <2>2, <2>4
  <2>6. p < m /\ q < m
    BY <2>4
  <2>7. a = b /\ p = q
    <3>1. a < b => a * m + p < b * m
      BY <2>6, DigitsBelow
    <3>2. b < a => b * m + q < a * m
      BY <2>6, DigitsBelow
    <3>3. PICK u \in Nat, w \in Nat : u = a * m /\ w = b * m
      BY TimesNat
    <3>4. a = b
      BY <2>5, <3>1, <3>2, <3>3
    <3> QED
      BY <2>5, <3>3, <3>4
  <2>8. g[n - c] = h[n - c]
    BY <2>1, <2>4, <2>7
  <2>9. \A j \in n - c + 1..n : x[j] = y[j]
    <3>1. ASSUME NEW j \in n - c + 1..n PROVE j = d \/ j \in d + 1..n
      BY <2>1
    <3> QED
      BY <2>2, <2>4, <2>7, <3>1
  <2> QED
    BY <2>8, <2>9 DEF S
<1>8. 0 \in S /\ S \subseteq 0..n
  <2>1. n - 0 = n /\ n - 0 + 1..n = {} /\ 0 \in 0..n
    OBVIOUS
  <2>2. g[n] = h[n]
    BY <1>2, <1>3
  <2>3. 0 \in S
    BY <2>1, <2>2
  <2> QED
    BY <2>3
<1> HIDE DEF S
<1>9. n \in S
  BY <1>7, <1>8, Fewer
<1>10. n - n + 1 = 1
  OBVIOUS
<1>11. \A d \in 1..n : x[d] = y[d]
  BY <1>9, <1>10 DEF S
<1> QED
  BY <1>11

\* A number is that of the position it is mapped to.
LEMMA LinearizeOfMap ==
    ASSUME NEW e \in Seq(Nat \ {0}), NEW l \in Nat, l < Product(e)
    PROVE  Linearize(e, MapToND(e, l)) = l
<1>1. PICK n \in Nat : n = Len(e)
  OBVIOUS
<1>2. PICK x : x = MapToND(e, l)
  OBVIOUS
<1>3. x \in [1..n -> Nat]
  BY <1>1, <1>2, MapToNDInRange
<1>4. n = Len(x)
  BY <1>3, Vector
<1>5. PICK g : /\ Linearize(e, x) = g[n]
               /\ g[0] = 0 /\ \A d \in 1..n : g[d] = g[d - 1] * e[d] + x[d]
  <2>1. PICK f : LinearsOf(e, x, f, n) /\ Linearize(e, x) = f[n]
    BY <1>4, LinearizeDef
  <2>2. \A d \in 0..n : f[d] = IF d = 0 THEN 0 ELSE f[d - 1] * e[d] + x[d]
    BY <2>1 DEF LinearsOf
  <2>3. f[0] = 0 /\ \A d \in 1..n : f[d] = f[d - 1] * e[d] + x[d]
    BY <2>2
  <2> QED
    BY <2>1, <2>3
<1>6. PICK r : RestsOf(e, l, r, n) /\ x = [d \in 1..n |-> r[d] \div Pitch(e, d)]
  BY <1>1, <1>2, MapToNDDef
<1>7. \A d \in 1..n : r[d] = IF d = 1 THEN l ELSE r[d - 1] % Pitch(e, d - 1)
  BY <1>6 DEF RestsOf
<1>8. e \in Seq(Nat)
  OBVIOUS
<1>9. /\ \A k \in 0..n : Pitch(e, k) \in Nat
      /\ Pitch(e, n) = 1
      /\ \A k \in 1..n : Pitch(e, k - 1) = e[k] * Pitch(e, k)
      /\ Pitch(e, 0) = Product(e)
  BY <1>1, <1>8, PitchStep, PitchOfAll
<1>10. Product(e) \in Nat \ {0}
  BY <1>8, ProductNat
<1> DEFINE Pos == {d \in 0..n : Pitch(e, d) # 0}
<1>11. ASSUME NEW d \in 1..n, d - 1 \in Pos PROVE d \in Pos
  <2>1. PICK a \in Nat, p \in Nat : a = e[d] /\ p = Pitch(e, d)
    BY <1>1, <1>9
  <2>2. a * p # 0
    BY <1>9, <1>11, <2>1
  <2>3. p # 0
    BY <2>2
  <2> QED
    BY <2>1, <2>3
<1>12. 0 \in Pos /\ Pos \subseteq 0..n
  BY <1>9, <1>10
<1> HIDE DEF Pos
<1>13. Pos = 0..n
  BY <1>11, <1>12, Fewer
<1>14. \A d \in 0..n : Pitch(e, d) \in Nat \ {0}
  BY <1>9, <1>13 DEF Pos
\* what is left after the first d components
<1> DEFINE Left(d) == IF d = 0 THEN l ELSE r[d] % Pitch(e, d)
           S == {d \in 0..n : g[d] \in Nat /\ Left(d) \in Nat /\ l = g[d] * Pitch(e, d) + Left(d)
                              /\ (d # 0 => Left(d) < Pitch(e, d))}
<1>15. ASSUME NEW d \in 1..n, d - 1 \in S PROVE d \in S
  <2>1. r[d] = Left(d - 1)
    BY <1>7
  <2>2. g[d - 1] \in Nat /\ Left(d - 1) \in Nat /\ l = g[d - 1] * Pitch(e, d - 1) + Left(d - 1)
    BY <1>15
  <2>3. d \in 0..n
    OBVIOUS
  <2> HIDE DEF Left
  <2>4. PICK a \in Nat, m \in Nat, p \in Nat \ {0}, t \in Nat :
           a = g[d - 1] /\ m = e[d] /\ p = Pitch(e, d) /\ t = r[d]
    BY <1>1, <1>14, <2>1, <2>2, <2>3
  <2>5. PICK q \in Nat, w \in Nat : q = t \div p /\ w = t % p /\ t = p * q + w /\ w < p
    BY Division
  <2>6. x[d] = q
    BY <1>6, <2>4, <2>5
  <2>7. g[d] = a * m + q
    BY <1>5, <2>4, <2>6
  <2>8. Left(d) = w
    BY <2>4, <2>5 DEF Left
  <2>9. l = a * (m * p) + t
    BY <1>9, <2>1, <2>2, <2>4
  <2>10. a * m \in Nat
    BY TimesNat
  <2>11. (a * m + q) * p = a * (m * p) + p * q
    <3>1. (a * m + q) * p = (a * m) * p + q * p
      BY <2>10
    <3>2. (a * m) * p = a * (m * p) /\ q * p = p * q
      OBVIOUS
    <3> QED
      BY <3>1, <3>2
  <2>12. PICK y \in Nat, z \in Nat : y = a * (m * p) /\ z = p * q
    <3>1. m * p \in Nat
      BY TimesNat
    <3> QED
      BY <3>1, TimesNat
  <2>13. l = (a * m + q) * p + w
    BY <2>5, <2>9, <2>11, <2>12
  <2>14. a * m + q \in Nat
    BY <2>10
  <2>15. g[d] \in Nat /\ Left(d) \in Nat /\ l = g[d] * Pitch(e, d) + Left(d) /\ Left(d) < Pitch(e, d)
    BY <2>4, <2>5, <2>7, <2>8, <2>13, <2>14
  <2> QED
    BY <2>3, <2>15
<1>16. 0 \in S /\ S \subseteq 0..n
  <2>1. g[0] = 0 /\ Left(0) = l /\ Pitch(e, 0) \in Nat
    BY <1>5, <1>9
  <2>2. 0 * Pitch(e, 0) = 0
    BY <2>1
  <2> HIDE DEF Left
  <2>3. 0 \in S
    BY <2>1, <2>2
  <2> QED
    BY <2>3
<1> HIDE DEF S, Left
<1>17. n \in S
  BY <1>15, <1>16, Fewer
<1>18. g[n] \in Nat /\ Left(n) \in Nat /\ l = g[n] * 1 + Left(n) /\ (n # 0 => Left(n) < 1)
  BY <1>9, <1>17 DEF S
<1>19. n = 0 => Left(n) = 0
  <2>1. n = 0 => l < 1
    BY <1>9
  <2> QED
    BY <2>1 DEF Left
<1> QED
  BY <1>2, <1>5, <1>18, <1>19

\* So no two numbers are mapped to the same position.
LEMMA MapToNDOnce ==
    ASSUME NEW e \in Seq(Nat \ {0}), NEW j \in Nat, NEW k \in Nat, j < Product(e), k < Product(e),
           MapToND(e, j) = MapToND(e, k)
    PROVE  j = k
<1>1. Linearize(e, MapToND(e, j)) = j /\ Linearize(e, MapToND(e, k)) = k
  BY LinearizeOfMap
<1> QED
  BY <1>1

\* A product of which all factors but two are 1.
LEMMA ProductOfTwo ==
    ASSUME NEW v \in Seq(Nat), NEW j \in 1..Len(v), NEW k \in 1..Len(v), j < k,
           \A d \in 1..Len(v) : d # j /\ d # k => v[d] = 1
    PROVE  Product(v) = v[j] * v[k]
<1>1. PICK n \in Nat : n = Len(v)
  OBVIOUS
<1>2. PICK g : ProductsOf(v, g, n) /\ Product(v) = g[n]
  BY <1>1, ProductDef
<1>3. g[0] = 1 /\ \A d \in 1..n : g[d] = g[d - 1] * v[d]
  BY <1>2, ProductsStep
<1>4. PICK x \in Nat, y \in Nat, z \in Nat : x = v[j] /\ y = v[k] /\ z = x * y
  BY <1>1, TimesNat
<1> DEFINE S == {d \in 0..n : g[d] = IF d < j THEN 1 ELSE IF d < k THEN x ELSE z}
<1>5. ASSUME NEW d \in 1..n, d - 1 \in S PROVE d \in S
  <2>1. g[d - 1] = IF d - 1 < j THEN 1 ELSE IF d - 1 < k THEN x ELSE z
    BY <1>5
  <2>2. v[d] = IF d = j THEN x ELSE IF d = k THEN y ELSE 1
    BY <1>1, <1>4
  <2>3. g[d] = g[d - 1] * v[d]
    BY <1>3
  <2>4. 1 * 1 = 1 /\ 1 * x = x /\ x * 1 = x /\ z * 1 = z /\ x * y = z
    BY <1>4
  <2>5. PICK u, w : u = g[d - 1] /\ w = v[d] /\ g[d] = u * w
    BY <2>3
  <2>6. \/ d < j /\ u = 1 /\ w = 1
        \/ d = j /\ u = 1 /\ w = x
        \/ j < d /\ d < k /\ u = x /\ w = 1
        \/ d = k /\ u = x /\ w = y
        \/ k < d /\ u = z /\ w = 1
    BY <1>1, <2>1, <2>2, <2>5
  <2>7. PICK p : p = g[d] /\ p = u * w
    BY <2>5
  <2>8. \/ d < j /\ p = 1
        \/ ~(d < j) /\ d < k /\ p = x
        \/ ~(d < j) /\ ~(d < k) /\ p = z
    <3>1. CASE d < j /\ u = 1 /\ w = 1
      BY <2>4, <2>7, <3>1
    <3>2. CASE d = j /\ u = 1 /\ w = x
      BY <1>1, <2>4, <2>7, <3>2
    <3>3. CASE j < d /\ d < k /\ u = x /\ w = 1
      BY <1>1, <2>4, <2>7, <3>3
    <3>4. CASE d = k /\ u = x /\ w = y
      BY <1>1, <2>4, <2>7, <3>4
    <3>5. CASE k < d /\ u = z /\ w = 1
      BY <1>1, <2>4, <2>7, <3>5
    <3> QED
      BY <2>6, <3>1, <3>2, <3>3, <3>4, <3>5
  <2>9. g[d] = IF d < j THEN 1 ELSE IF d < k THEN x ELSE z
    BY <2>7, <2>8
  <2> QED
    BY <2>9
<1>6. 0 \in S /\ S \subseteq 0..n
  BY <1>1, <1>3
<1> HIDE DEF S
<1>7. n \in S
  BY <1>5, <1>6, Fewer
<1> USE DEF S
<1>8. ~(n < j) /\ ~(n < k)
  BY <1>1
<1> QED
  BY <1>2, <1>4, <1>7, <1>8

\* A sum of which all terms but one are 0.
LEMMA SumOfOne ==
    ASSUME NEW t, NEW c \in Nat, NEW S, IsFiniteSet(S), NEW o, NEW u \in Nat, u = t[o],
           \A x \in S : x # o => t[x] = 0
    PROVE  SumOver(t, c, S) = IF o \in S THEN u * c ELSE 0
<1>1. PICK f : f = CHOOSE g : SumsOf(t, c, S, g)
  OBVIOUS
<1>2. SumsOf(t, c, S, f)
  BY <1>1, SumsExist
<1>3. ASSUME NEW s \in SUBSET S
      PROVE  f[s] = IF s = {} THEN 0 ELSE LET x == CHOOSE y \in s : TRUE IN t[x] * c + f[s \ {x}]
  BY <1>2 DEF SumsOf
<1>4. PICK a \in Nat : a = u * c
  BY TimesNat
<1> DEFINE N == {n \in Nat : \A s \in Small(S, n) : f[s] = IF o \in s THEN a ELSE 0}
<1>5. 0 \in N
  <2>1. ASSUME NEW s \in Small(S, 0) PROVE f[s] = IF o \in s THEN a ELSE 0
    <3>1. s \in SUBSET S /\ Cardinality(s) <= 0 /\ IsFiniteSet(s)
      BY FS_Subset DEF Small
    <3>2. Cardinality(s) = 0
      BY <3>1, FS_CardinalityType
    <3>3. s = {}
      BY <3>1, <3>2, FS_EmptySet
    <3>4. f[s] = IF s = {} THEN 0 ELSE LET x == CHOOSE y \in s : TRUE IN t[x] * c + f[s \ {x}]
      BY <1>3, <3>1
    <3>5. f[s] = 0
      BY <3>3, <3>4, Zenon
    <3> QED
      BY <3>3, <3>5
  <2> QED
    BY <2>1
<1>6. ASSUME NEW n \in N PROVE n + 1 \in N
  <2>1. ASSUME NEW s \in Small(S, n + 1) PROVE f[s] = IF o \in s THEN a ELSE 0
    <3>1. s \in SUBSET S
      BY DEF Small
    <3>2. CASE s = {}
      <4>1. f[s] = IF s = {} THEN 0
                   ELSE LET x == CHOOSE y \in s : TRUE IN t[x] * c + f[s \ {x}]
        BY <1>3, <3>1
      <4>2. f[s] = 0
        BY <3>2, <4>1, Zenon
      <4> QED
        BY <3>2, <4>2
    <3>3. CASE s # {}
      <4>1. PICK x : x = CHOOSE y \in s : TRUE
        OBVIOUS
      <4>2. x \in s
        BY <3>3, <4>1
      <4>3. s \ {x} \in Small(S, n)
        BY <4>2, OneSmaller
      <4>4. f[s \ {x}] = IF o \in s \ {x} THEN a ELSE 0
        BY <4>3
      <4>5. f[s] = t[x] * c + f[s \ {x}]
        BY <1>3, <3>1, <3>3, <4>1
      <4>6. CASE x = o
        <5>1. f[s \ {x}] = 0 /\ t[x] * c = a
          BY <1>4, <4>4, <4>6
        <5>2. a + 0 = a
          OBVIOUS
        <5> QED
          BY <4>2, <4>5, <4>6, <5>1, <5>2
      <4>7. CASE x # o
        <5>1. t[x] = 0
          BY <3>1, <4>2, <4>7
        <5>2. 0 * c = 0
          OBVIOUS
        <5>3. PICK w \in Nat : w = f[s \ {x}]
          BY <4>4
        <5>4. f[s] = 0 + w
          BY <4>5, <5>1, <5>2, <5>3
        <5>5. f[s] = w
          BY <5>4
        <5> QED
          BY <4>4, <4>7, <5>3, <5>5
      <4> QED
        BY <4>6, <4>7
    <3> QED
      BY <3>2, <3>3
  <2> QED
    BY <2>1
<1>7. Nat \subseteq N
  <2> HIDE DEF N
  <2> QED
    BY <1>5, <1>6, SetInduction
<1>8. Cardinality(S) \in N
  BY <1>7, FS_CardinalityType
<1>9. S \in Small(S, Cardinality(S))
  BY FS_CardinalityType DEF Small
<1>10. f[S] = IF o \in S THEN a ELSE 0
  BY <1>8, <1>9
<1> QED
  BY <1>1, <1>4, <1>10 DEF SumOver

\* A vector whose components are not zero.
LEMMA PositiveVector ==
    ASSUME NEW D, NEW v \in [D -> Nat], \A d \in D : v[d] > 0 PROVE v \in [D -> Nat \ {0}]
<1>1. \A d \in D : v[d] \in Nat \ {0}
  OBVIOUS
<1> QED
  BY <1>1

\* Every position of a space is the one that its number is mapped to.
LEMMA MapOfLinearize ==
    ASSUME NEW n \in Nat, NEW e \in [1..n -> Nat], NEW x \in [1..n -> Nat],
           \A d \in 1..n : x[d] < e[d]
    PROVE  /\ e \in Seq(Nat \ {0}) /\ Len(e) = n
           /\ Linearize(e, x) \in Nat /\ Linearize(e, x) < Product(e)
           /\ MapToND(e, Linearize(e, x)) = x
<1>1. e \in Seq(Nat \ {0}) /\ Len(e) = n
  <2>1. \A d \in 1..n : e[d] \in Nat \ {0}
    OBVIOUS
  <2> QED
    BY <2>1, PositiveVector, Vector
<1>2. Linearize(e, x) \in Nat /\ Linearize(e, x) < Product(e)
  BY LinearizeNat, LinearizeBelow
<1>3. PICK y : y = MapToND(e, Linearize(e, x))
  OBVIOUS
<1>4. y \in [1..n -> Nat] /\ \A d \in 1..n : y[d] < e[d]
  BY <1>1, <1>2, <1>3, MapToNDInRange
<1>5. Linearize(e, y) = Linearize(e, x)
  BY <1>1, <1>2, <1>3, LinearizeOfMap
<1>6. \A d \in 1..n : x[d] < e[d] /\ y[d] < e[d]
  BY <1>4
<1>7. x = y
  BY <1>4, <1>5, <1>6, LinearizeOnce
<1> QED
  BY <1>1, <1>2, <1>3, <1>7

\* A set of positions has a smallest one.
LEMMA Smallest ==
    ASSUME NEW n \in Nat, NEW S \in SUBSET (1..n), S # {}
    PROVE  \E d \in S : \A c \in 1..d - 1 : c \notin S
<1> DEFINE T == {m \in Nat : (\E d \in S : d <= m) => \E d \in S : \A c \in 1..d - 1 : c \notin S}
<1>1. 0 \in T
  OBVIOUS
<1>2. ASSUME NEW m \in Nat, m \in T PROVE m + 1 \in T
  <2>1. CASE \E d \in S : d <= m
    BY <1>2, <2>1
  <2>2. CASE ~\E d \in S : d <= m
    <3>1. SUFFICES ASSUME NEW d \in S, d <= m + 1
                   PROVE  \A c \in 1..d - 1 : c \notin S
      OBVIOUS
    <3>2. ASSUME NEW c \in 1..d - 1 PROVE c \notin S
      <4>1. c <= m
        BY <3>1
      <4> QED
        BY <2>2, <4>1
    <3> QED
      BY <3>2
  <2> QED
    BY <2>1, <2>2
<1> HIDE DEF T
<1>3. Nat \subseteq T
  BY <1>1, <1>2, SetInduction
<1>4. PICK m \in S : m \in 1..n
  OBVIOUS
<1>5. m \in Nat /\ m <= m
  BY <1>4
<1> QED
  BY <1>3, <1>4, <1>5 DEF T
=============================================================================
