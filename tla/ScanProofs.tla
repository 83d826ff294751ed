----------------------------- MODULE ScanProofs -----------------------------
(***************************************************************************)
(* Scans of any size in any shape: no kernel accesses an element behind    *)
(* the end of its level, the buffer is as large as the recursion needs,    *)
(* and between two barriers no thread accesses shared memory that another  *)
(* one writes.                                                             *)
(***************************************************************************)
EXTENDS Scan, VectorsProofs

-----------------------------------------------------------------------------
(* Chunks and levels.                                                      *)

\* How many chunks of b there are in a elements.
LEMMA Chunks ==
    ASSUME NEW a \in Nat, NEW b \in Nat \ {0}
    PROVE  /\ DivCeil(a, b) \in Nat
           /\ a <= DivCeil(a, b) * b
           /\ \A c \in Nat : c < DivCeil(a, b) => c * b < a
<1>1. PICK x \in Nat : x = a + b - 1
  OBVIOUS
<1>2. PICK q \in Nat, r \in Nat : q = x \div b /\ r = x % b /\ x = b * q + r /\ r < b
  BY Division
<1>3. DivCeil(a, b) = q
  BY <1>1, <1>2 DEF DivCeil
<1>4. PICK p \in Nat : p = b * q /\ p = q * b
  BY TimesNat
<1>5. a <= p
  BY <1>1, <1>2, <1>4
<1>6. ASSUME NEW c \in Nat, c < q PROVE c * b < a
  <2>1. (c + 1) * b <= q * b
    BY <1>6, TimesLess
  <2>2. (c + 1) * b = c * b + b
    OBVIOUS
  <2>3. PICK y \in Nat : y = c * b
    BY TimesNat
  <2>4. y + b <= p
    BY <1>4, <2>1, <2>2, <2>3
  <2> QED
    BY <1>1, <1>2, <1>4, <2>3, <2>4
<1> QED
  BY <1>3, <1>4, <1>5, <1>6

\* Chunks of more than one element are fewer than the elements.
LEMMA FewerChunks ==
    ASSUME NEW a \in Nat, NEW b \in Nat \ {0, 1}
    PROVE  /\ DivCeil(a, b) \in Nat /\ DivCeil(a, b) <= a
           /\ a > 1 => DivCeil(a, b) < a
<1>1. PICK q \in Nat : q = DivCeil(a, b)
  BY Chunks
<1>2. \A c \in Nat : c < q => c * b < a
  BY <1>1, Chunks
<1>3. CASE q = 0
  BY <1>1, <1>3
<1>4. CASE q # 0
  <2>1. PICK c \in Nat : q = c + 1
    <3>1. q - 1 \in Nat /\ q = (q - 1) + 1
      BY <1>4
    <3> QED
      BY <3>1
  <2>2. c * b < a
    BY <1>2, <2>1
  <2>3. c * 2 <= c * b
    <3>1. 2 * c <= b * c /\ 2 * c = c * 2 /\ b * c = c * b
      BY TimesLess
    <3> QED
      BY <3>1
  <2>4. PICK y \in Nat : y = c * b
    BY TimesNat
  <2>5. c + c <= y /\ y < a
    BY <2>2, <2>3, <2>4
  <2> QED
    BY <1>1, <2>1, <2>5
<1> QED
  BY <1>3, <1>4

\* f are the sizes of the levels of l, up to level k.
SizesOf(l, f, k) ==
    f = [i \in 0..k |-> IF i = 0 THEN l.n ELSE DivCeil(f[i - 1], l.threads * l.els)]

\* The size of level k.
SizeOf(l, k) ==
    LET size[i \in 0..k] == IF i = 0 THEN l.n ELSE DivCeil(size[i - 1], l.threads * l.els)
    IN  size[k]

\* The recursive function of Size exists.
LEMMA SizesExist ==
    ASSUME NEW l, NEW k \in Nat PROVE \E f : SizesOf(l, f, k)
<1> DEFINE S == {m \in Nat : \E f : SizesOf(l, f, m)}
<1>1. 0 \in S
  <2>1. SizesOf(l, [i \in 0..0 |-> l.n], 0)
    BY DEF SizesOf
  <2> QED
    BY <2>1
<1>2. ASSUME NEW m \in S PROVE m + 1 \in S
  <2>1. PICK f : SizesOf(l, f, m)
    OBVIOUS
  <2> DEFINE h == [i \in 0..m + 1 |->
                      IF i = m + 1 THEN DivCeil(f[m], l.threads * l.els) ELSE f[i]]
  <2>2. SizesOf(l, h, m + 1)
    <3>1. f = [i \in 0..m |-> IF i = 0 THEN l.n ELSE DivCeil(f[i - 1], l.threads * l.els)]
      BY <2>1 DEF SizesOf
    <3>2. ASSUME NEW i \in 0..m + 1
          PROVE  h[i] = IF i = 0 THEN l.n ELSE DivCeil(h[i - 1], l.threads * l.els)
      <4>1. CASE i = m + 1
        BY <4>1
      <4>2. CASE i \in 0..m
        <5>1. f[i] = IF i = 0 THEN l.n ELSE DivCeil(f[i - 1], l.threads * l.els)
          BY <3>1, <4>2
        <5>2. h[i] = f[i]
          BY <4>2
        <5>3. i # 0 => i - 1 \in 0..m /\ h[i - 1] = f[i - 1]
          BY <4>2
        <5> QED
          BY <5>1, <5>2, <5>3
      <4> QED
        BY <4>1, <4>2
    <3>3. h = [i \in 0..m + 1 |-> h[i]]
      OBVIOUS
    <3> HIDE DEF h
    <3> QED
      BY <3>2, <3>3 DEF SizesOf
  <2> QED
    BY <2>2
<1>3. Nat \subseteq S
  BY <1>1, <1>2, SetInduction
<1> QED
  BY <1>3

\* What Size computes.
LEMMA SizeDef ==
    ASSUME NEW l, NEW k \in Nat PROVE \E f : SizesOf(l, f, k) /\ SizeOf(l, k) = f[k]
<1> DEFINE f == CHOOSE f : f = [i \in 0..k |-> IF i = 0 THEN l.n ELSE DivCeil(f[i - 1], l.threads * l.els)]
<1>1. \E g : g = [i \in 0..k |-> IF i = 0 THEN l.n ELSE DivCeil(g[i - 1], l.threads * l.els)]
  <2>1. \E g : SizesOf(l, g, k)
    BY SizesExist
  <2> QED
    BY <2>1 DEF SizesOf
<1>2. f = [i \in 0..k |-> IF i = 0 THEN l.n ELSE DivCeil(f[i - 1], l.threads * l.els)]
  BY <1>1
<1>3. SizeOf(l, k) = f[k]
  BY DEF SizeOf
<1> HIDE DEF f
<1> QED
  BY <1>2, <1>3 DEF SizesOf

\* The sizes of the levels.
LEMMA SizesStep ==
    ASSUME NEW l, NEW f, NEW k \in Nat, SizesOf(l, f, k)
    PROVE  f[0] = l.n /\ \A i \in 1..k : f[i] = DivCeil(f[i - 1], l.threads * l.els)
<1>1. \A i \in 0..k : f[i] = IF i = 0 THEN l.n ELSE DivCeil(f[i - 1], l.threads * l.els)
  BY DEF SizesOf
<1> QED
  BY <1>1

\* Each level has as many elements as the level before it has chunks.
LEMMA SizeStep ==
    ASSUME NEW l, NEW k \in Nat
    PROVE  SizeOf(l, 0) = l.n /\ SizeOf(l, k + 1) = DivCeil(SizeOf(l, k), l.threads * l.els)
<1>1. SizeOf(l, 0) = l.n
  <2>1. PICK f : SizesOf(l, f, 0) /\ SizeOf(l, 0) = f[0]
    BY SizeDef
  <2> QED
    BY <2>1, SizesStep
<1>2. PICK f : SizesOf(l, f, k) /\ SizeOf(l, k) = f[k]
  BY SizeDef
<1>3. PICK m \in Nat : m = k + 1
  OBVIOUS
<1>4. PICK g : SizesOf(l, g, m) /\ SizeOf(l, m) = g[m]
  BY SizeDef
<1>5. f[0] = l.n /\ \A i \in 1..k : f[i] = DivCeil(f[i - 1], l.threads * l.els)
  BY <1>2, SizesStep
<1>6. g[0] = l.n /\ \A i \in 1..m : g[i] = DivCeil(g[i - 1], l.threads * l.els)
  BY <1>4, SizesStep
<1> DEFINE S == {i \in 0..k : f[i] = g[i]}
<1>7. ASSUME NEW i \in 1..k, i - 1 \in S PROVE i \in S
  <2>1. i \in 1..m /\ f[i - 1] = g[i - 1]
    BY <1>3, <1>7
  <2> QED
    BY <1>5, <1>6, <2>1
<1>8. 0 \in S /\ S \subseteq 0..k
  BY <1>5, <1>6
<1> HIDE DEF S
<1>9. k \in S
  BY <1>7, <1>8, Fewer
<1>10. f[k] = g[k]
  BY <1>9 DEF S
<1>11. m \in 1..m /\ m - 1 = k
  BY <1>3
<1>12. g[m] = DivCeil(g[k], l.threads * l.els)
  BY <1>6, <1>11
<1> QED
  BY <1>1, <1>2, <1>3, <1>4, <1>10, <1>12

\* What is assumed of the shape of a scan.
LEMMA ShapeFacts ==
    ASSUME launch \in Launches
    PROVE  /\ launch.n \in Nat \ {0}
           /\ launch.threads \in Nat \ {0} /\ launch.els \in Nat \ {0}
           /\ launch.blocks \in Nat \ {0}
           /\ launch.simd \in Nat \ {0} /\ launch.packs \in Nat \ {0}
           /\ Chunk \in Nat \ {0, 1}
<1>1. /\ launch.n \in Nat \ {0}
      /\ \A x \in {launch.blocks, launch.threads, launch.els, launch.mini, launch.warp,
                   launch.simd, launch.packs} : x \in Nat \ {0}
      /\ launch.threads * launch.els > 1
  BY ScanAssumption
<1>2. launch.threads * launch.els \in Nat
  BY <1>1, TimesNat
<1> QED
  BY <1>1, <1>2 DEF Chunk

\* The sizes of the levels of the running scan.
LEMMA Sizes ==
    ASSUME launch \in Launches, NEW k \in Nat
    PROVE  /\ Size(0) = launch.n /\ Size(k) \in Nat /\ Size(k) <= launch.n
           /\ Size(k + 1) = DivCeil(Size(k), Chunk) /\ NumChunks(k) = Size(k + 1)
           /\ Size(k + 1) \in Nat /\ Size(k + 1) <= Size(k)
<1> DEFINE S == {i \in Nat : Size(i) \in Nat /\ Size(i) <= launch.n}
<1>1. ASSUME NEW i \in Nat PROVE Size(i) = SizeOf(launch, i)
  BY DEF Size, SizeOf, Chunk
<1>2. ASSUME NEW i \in Nat PROVE Size(0) = launch.n /\ Size(i + 1) = DivCeil(Size(i), Chunk)
  <2>1. i + 1 \in Nat /\ 0 \in Nat
    OBVIOUS
  <2>2. Size(0) = SizeOf(launch, 0) /\ Size(i) = SizeOf(launch, i)
        /\ Size(i + 1) = SizeOf(launch, i + 1)
    BY <1>1, <2>1
  <2> QED
    BY <2>2, SizeStep DEF Chunk
<1>3. Chunk \in Nat \ {0, 1} /\ launch.n \in Nat
  BY ShapeFacts
<1>4. 0 \in S
  BY <1>2, <1>3
<1>5. ASSUME NEW i \in S PROVE i + 1 \in S /\ Size(i + 1) <= Size(i)
  <2>1. i \in Nat /\ Size(i) \in Nat /\ Size(i) <= launch.n
    OBVIOUS
  <2>2. Size(i + 1) = DivCeil(Size(i), Chunk)
    BY <1>2, <2>1
  <2>3. Size(i + 1) \in Nat /\ Size(i + 1) <= Size(i)
    BY <1>3, <2>1, <2>2, FewerChunks
  <2> QED
    BY <1>3, <2>1, <2>3
<1> HIDE DEF S
<1>6. Nat \subseteq S
  <2>1. \A i \in Nat : i \in S => i + 1 \in S
    BY <1>5
  <2> QED
    BY <1>4, <2>1, SetInduction
<1>7. k \in S /\ k + 1 \in S /\ Size(k + 1) <= Size(k)
  BY <1>5, <1>6
<1>8. Size(k) \in Nat /\ Size(k) <= launch.n /\ Size(k + 1) \in Nat
  BY <1>7 DEF S
<1> QED
  BY <1>2, <1>7, <1>8 DEF NumChunks

-----------------------------------------------------------------------------
(* What the kernels access.                                                *)

\* A thread copies elements of the level only: a chunk that is copied without a check is full.
LEMMA CopiedInLevel ==
    ASSUME launch \in Launches, level \in Nat, NEW c \in Nat, NEW t \in Thread,
           c < NumChunks(level)
    PROVE  Copied(c, t) \subseteq 0..Size(level) - 1
<1>1. PICK n \in Nat, m \in Nat \ {0, 1}, e \in Nat \ {0}, w \in Nat \ {0} :
        n = Size(level) /\ m = Chunk /\ e = launch.els /\ w = launch.threads
  BY ShapeFacts, Sizes
<1>2. m = w * e /\ t \in Nat /\ t + 1 <= w
  BY <1>1 DEF Chunk, Thread
<1>3. NumChunks(level) = DivCeil(n, m) /\ DivCeil(n, m) \in Nat
  BY <1>1, Sizes, Chunks
<1>4. \A d \in Nat : d < DivCeil(n, m) => d * m < n
  BY <1>1, Chunks
<1>5. PICK first \in Nat : first = c * m + t * e
  <2>1. c * m \in Nat /\ t * e \in Nat
    BY <1>1, <1>2, TimesNat
  <2> QED
    BY <2>1
<1>6. PICK next \in Nat : next = (c + 1) * m /\ next = c * m + m
  <2>1. (c + 1) * m \in Nat
    BY TimesNat
  <2>2. (c + 1) * m = c * m + m
    BY <1>1
  <2> QED
    BY <2>1, <2>2
<1>7. first + e <= next
  <2>1. (t + 1) * e <= w * e
    BY <1>1, <1>2, TimesLess
  <2>2. (t + 1) * e = t * e + e
    BY <1>1, <1>2
  <2>3. PICK x \in Nat, y \in Nat : x = t * e /\ y = c * m
    BY <1>1, <1>2, TimesNat
  <2>4. x + e <= m
    BY <1>2, <2>1, <2>2, <2>3
  <2> QED
    BY <1>5, <1>6, <2>3, <2>4
<1>8. ASSUME NEW i \in Copied(c, t) PROVE i \in 0..n - 1
  <2>1. i \in first..first + e - 1 /\ (Guarded(c) => i < n)
    BY <1>1, <1>5, <1>8 DEF Copied
  <2>2. CASE Guarded(c)
    BY <2>1, <2>2
  <2>3. CASE c + 1 < DivCeil(n, m)
    <3>1. next < n
      BY <1>4, <1>6, <2>3
    <3> QED
      BY <1>7, <2>1, <3>1
  <2>4. CASE ~Guarded(c) /\ ~(c + 1 < DivCeil(n, m))
    <3>1. c = DivCeil(n, m) - 1
      BY <1>3, <2>4
    <3>2. ((n - 1) % m) + 1 = m
      BY <1>1, <1>3, <2>4, <3>1 DEF Guarded
    <3>3. c * m < n /\ c * m \in Nat
      BY <1>1, <1>3, <1>4, TimesNat
    <3>4. PICK r \in Nat : r = n - 1
      BY <3>3
    <3>5. PICK q \in Nat : r = m * q + (r % m) /\ q = r \div m
      BY Division
    <3>6. n = m * q + m
      <4>1. PICK x \in Nat : x = m * q
        BY TimesNat
      <4>2. r % m \in Nat /\ (r % m) + 1 = m
        BY <3>2, <3>4, Division
      <4> QED
        BY <3>4, <3>5, <4>1, <4>2
    <3>7. n = (q + 1) * m
      BY <3>6
    <3>8. c < q + 1
      <4>1. ASSUME q + 1 <= c PROVE FALSE
        <5>1. (q + 1) * m <= c * m
          BY <4>1, TimesLess
        <5> QED
          BY <3>3, <3>7, <5>1
      <4> QED
        BY <4>1
    <3>9. next <= n
      <4>1. (c + 1) * m <= (q + 1) * m
        BY <3>8, TimesLess
      <4> QED
        BY <1>6, <3>7, <4>1
    <3> QED
      BY <1>7, <2>1, <3>9
  <2> QED
    BY <2>2, <2>3, <2>4
<1> QED
  BY <1>1, <1>8

\* The elements done in SIMD packs are elements of the level and fill their packs.
LEMMA PackedEndFits ==
    ASSUME launch \in Launches, level \in Nat
    PROVE  /\ PackedEnd \in Nat /\ PackedEnd <= Size(level)
           /\ \E x \in Nat : PackedEnd = x * launch.simd
<1>1. PICK n \in Nat, s \in Nat \ {0}, p \in Nat \ {0}, v \in Nat \ {0}, w \in Nat \ {0} :
        n = Size(level) /\ s = launch.simd /\ p = launch.packs /\ v = launch.blocks
        /\ w = launch.threads
  BY ShapeFacts, Sizes
<1>2. PICK a \in Nat \ {0}, b \in Nat \ {0} : a = s * p /\ b = v * w
  BY TimesNat
<1>3. PICK q \in Nat : q = n \div a /\ q * a <= n
  <2>1. n \div a \in Nat /\ n = a * (n \div a) + (n % a) /\ n % a \in Nat
    BY Division
  <2>2. PICK d \in Nat : d = n \div a
    BY <2>1
  <2>3. PICK x \in Nat : x = a * d /\ x = d * a
    BY TimesNat
  <2> QED
    BY <2>1, <2>2, <2>3
<1>4. PICK r \in Nat : r = q \div b /\ r * b <= q
  <2>1. q \div b \in Nat /\ q = b * (q \div b) + (q % b) /\ q % b \in Nat
    BY Division
  <2>2. PICK d \in Nat : d = q \div b
    BY <2>1
  <2>3. PICK x \in Nat : x = b * d /\ x = d * b
    BY TimesNat
  <2> QED
    BY <2>1, <2>2, <2>3
<1>5. PICK end \in Nat : end = r * a * b /\ end = (r * b) * a /\ end = (r * p * b) * s
  <2>1. r * a \in Nat
    BY TimesNat
  <2>2. r * a * b \in Nat
    BY <2>1, TimesNat
  <2>3. r * a * b = (r * b) * a
    OBVIOUS
  <2>4. r * a * b = (r * p * b) * s
    BY <1>2
  <2> QED
    BY <2>2, <2>3, <2>4
<1>6. end <= n
  <2>1. r * b \in Nat
    BY TimesNat
  <2>2. (r * b) * a <= q * a
    BY <1>4, <2>1, TimesLess
  <2>3. PICK x \in Nat : x = q * a
    BY TimesNat
  <2> QED
    BY <1>3, <1>5, <2>2, <2>3
<1>7. PackedEnd = IF s = 1 THEN 0 ELSE end
  BY <1>1, <1>2, <1>3, <1>4, <1>5 DEF PackedEnd, NumBlocks
<1>8. r * p * b \in Nat /\ 0 = 0 * s
  <2>1. r * p \in Nat
    BY TimesNat
  <2> QED
    BY <2>1, TimesNat
<1> QED
  BY <1>1, <1>5, <1>6, <1>7, <1>8

-----------------------------------------------------------------------------
(* The buffer.                                                             *)

\* f are the buffer sizes of scans of up to n elements in chunks of m.
BufferSizesOf(f, m, n) ==
    f = [e \in 0..n |-> IF e <= 1 THEN 0 ELSE e + f[DivCeil(e, m)]]

\* The recursive function of ScanBufferSize exists: fewer elements are left at each level.
LEMMA BufferSizesExist ==
    ASSUME NEW m \in Nat \ {0, 1}, NEW n \in Nat PROVE \E f : BufferSizesOf(f, m, n)
<1> DEFINE S == {k \in Nat : \E f : BufferSizesOf(f, m, k)}
<1>1. 0 \in S
  <2>1. BufferSizesOf([e \in 0..0 |-> 0], m, 0)
    BY DEF BufferSizesOf
  <2> QED
    BY <2>1
<1>2. ASSUME NEW k \in S PROVE k + 1 \in S
  <2>1. PICK f : BufferSizesOf(f, m, k)
    OBVIOUS
  <2>2. PICK last : last = IF k + 1 <= 1 THEN 0 ELSE (k + 1) + f[DivCeil(k + 1, m)]
    OBVIOUS
  <2> DEFINE h == [e \in 0..k + 1 |-> IF e = k + 1 THEN last ELSE f[e]]
  <2>3. BufferSizesOf(h, m, k + 1)
    <3>1. f = [e \in 0..k |-> IF e <= 1 THEN 0 ELSE e + f[DivCeil(e, m)]]
      BY <2>1 DEF BufferSizesOf
    <3>2. ASSUME NEW e \in 0..k + 1
          PROVE  h[e] = IF e <= 1 THEN 0 ELSE e + h[DivCeil(e, m)]
      <4>1. e > 1 => h[DivCeil(e, m)] = f[DivCeil(e, m)]
        <5>1. e > 1 => DivCeil(e, m) \in Nat /\ DivCeil(e, m) < e
          BY FewerChunks
        <5> QED
          BY <5>1
      <4>2. CASE e = k + 1
        BY <2>2, <4>1, <4>2
      <4>3. CASE e \in 0..k
        <5>1. f[e] = IF e <= 1 THEN 0 ELSE e + f[DivCeil(e, m)]
          BY <3>1, <4>3
        <5>2. h[e] = f[e]
          BY <4>3
        <5> QED
          BY <4>1, <5>1, <5>2
      <4> QED
        BY <4>2, <4>3
    <3>3. h = [e \in 0..k + 1 |-> h[e]]
      OBVIOUS
    <3> HIDE DEF h
    <3> QED
      BY <3>2, <3>3 DEF BufferSizesOf
  <2> QED
    BY <2>3
<1>3. Nat \subseteq S
  BY <1>1, <1>2, SetInduction
<1> QED
  BY <1>3

\* What ScanBufferSize computes.
LEMMA BufferSizeDef ==
    ASSUME NEW l, l.n \in Nat, l.threads * l.els \in Nat \ {0, 1}
    PROVE  \E f : /\ BufferSizesOf(f, l.threads * l.els, l.n)
                  /\ ScanBufferSize(l) = f[DivCeil(l.n, l.threads * l.els)]
<1> DEFINE f == CHOOSE f : f = [e \in 0..l.n |-> IF e <= 1 THEN 0
                                              ELSE e + f[DivCeil(e, l.threads * l.els)]]
<1>1. \E g : g = [e \in 0..l.n |-> IF e <= 1 THEN 0
                                   ELSE e + g[DivCeil(e, l.threads * l.els)]]
  <2>1. \E g : BufferSizesOf(g, l.threads * l.els, l.n)
    BY BufferSizesExist
  <2> QED
    BY <2>1 DEF BufferSizesOf
<1>2. f = [e \in 0..l.n |-> IF e <= 1 THEN 0 ELSE e + f[DivCeil(e, l.threads * l.els)]]
  BY <1>1
<1>3. ScanBufferSize(l) = f[DivCeil(l.n, l.threads * l.els)]
  BY DEF ScanBufferSize
<1> HIDE DEF f
<1> QED
  BY <1>2, <1>3 DEF BufferSizesOf

\* A buffer holds at least its first level.
LEMMA BufferSizes ==
    ASSUME NEW m \in Nat \ {0, 1}, NEW n \in Nat, NEW f, BufferSizesOf(f, m, n), NEW k \in 0..n
    PROVE  /\ f[k] \in Nat
           /\ k > 1 => /\ DivCeil(k, m) \in 0..n
                       /\ f[k] = k + f[DivCeil(k, m)] /\ f[k] >= k
<1> DEFINE S == {d \in 0..n : \A e \in 0..d : f[e] \in Nat}
<1>1. ASSUME NEW e \in 0..n
      PROVE  /\ f[e] = IF e <= 1 THEN 0 ELSE e + f[DivCeil(e, m)]
             /\ e > 1 => DivCeil(e, m) \in Nat /\ DivCeil(e, m) < e
  <2>1. f = [i \in 0..n |-> IF i <= 1 THEN 0 ELSE i + f[DivCeil(i, m)]]
    BY DEF BufferSizesOf
  <2>2. f[e] = IF e <= 1 THEN 0 ELSE e + f[DivCeil(e, m)]
    BY <2>1
  <2>3. e > 1 => DivCeil(e, m) \in Nat /\ DivCeil(e, m) < e
    BY FewerChunks
  <2> QED
    BY <2>2, <2>3
<1>2. 0 \in S
  <2>1. f[0] = 0 /\ 0 \in 0..n
    BY <1>1
  <2> QED
    BY <2>1
<1>3. ASSUME NEW d \in 1..n, d - 1 \in S PROVE d \in S
  <2>1. \A e \in 0..d - 1 : f[e] \in Nat
    BY <1>3
  <2>2. f[d] \in Nat
    <3>1. d \in 0..n
      OBVIOUS
    <3>2. CASE d <= 1
      BY <1>1, <3>1, <3>2
    <3>3. CASE d > 1
      <4>1. DivCeil(d, m) \in 0..d - 1 /\ f[d] = d + f[DivCeil(d, m)]
        BY <1>1, <3>1, <3>3
      <4> QED
        BY <2>1, <4>1
    <3> QED
      BY <3>2, <3>3
  <2>3. \A e \in 0..d : e = d \/ e \in 0..d - 1
    OBVIOUS
  <2> QED
    BY <2>1, <2>2, <2>3
<1>4. n \in S
  <2>1. S \in SUBSET (0..n)
    OBVIOUS
  <2> HIDE DEF S
  <2> QED
    BY <1>2, <1>3, <2>1, Fewer
<1>5. ASSUME NEW e \in 0..n PROVE f[e] \in Nat
  BY <1>4
<1>6. f[k] \in Nat
  BY <1>5
<1>7. ASSUME k > 1
      PROVE  DivCeil(k, m) \in 0..n /\ f[k] = k + f[DivCeil(k, m)] /\ f[k] >= k
  <2>1. DivCeil(k, m) \in 0..n /\ f[k] = k + f[DivCeil(k, m)]
    BY <1>1, <1>7
  <2>2. f[DivCeil(k, m)] \in Nat
    BY <1>5, <2>1
  <2> QED
    BY <2>1, <2>2
<1> QED
  BY <1>6, <1>7

\* g are the places of the levels in the buffer, up to level k.
BasesOf(g, k) == g = [i \in 1..k |-> IF i = 1 THEN 0 ELSE g[i - 1] + Size(i - 1)]

\* The recursive function of Base exists.
LEMMA BasesExist ==
    ASSUME NEW k \in Nat \ {0} PROVE \E g : BasesOf(g, k)
<1> DEFINE S == {m \in Nat : \E g : BasesOf(g, m)}
<1>1. 0 \in S
  <2>1. BasesOf([i \in 1..0 |-> 0], 0)
    BY DEF BasesOf
  <2> QED
    BY <2>1
<1>2. ASSUME NEW m \in S PROVE m + 1 \in S
  <2>1. PICK g : BasesOf(g, m)
    OBVIOUS
  <2> DEFINE h == [i \in 1..m + 1 |->
                      IF i = m + 1 THEN (IF i = 1 THEN 0 ELSE g[m] + Size(m)) ELSE g[i]]
  <2>2. BasesOf(h, m + 1)
    <3>1. g = [i \in 1..m |-> IF i = 1 THEN 0 ELSE g[i - 1] + Size(i - 1)]
      BY <2>1 DEF BasesOf
    <3>2. ASSUME NEW i \in 1..m + 1
          PROVE  h[i] = IF i = 1 THEN 0 ELSE h[i - 1] + Size(i - 1)
      <4>1. i # 1 => i - 1 \in 1..m /\ h[i - 1] = g[i - 1]
        OBVIOUS
      <4>2. CASE i = m + 1
        <5>1. i - 1 = m
          BY <4>2
        <5> QED
          BY <4>1, <4>2, <5>1
      <4>3. CASE i \in 1..m
        <5>1. g[i] = IF i = 1 THEN 0 ELSE g[i - 1] + Size(i - 1)
          BY <3>1, <4>3
        <5>2. h[i] = g[i]
          BY <4>3
        <5> QED
          BY <4>1, <5>1, <5>2
      <4> QED
        BY <4>2, <4>3
    <3>3. h = [i \in 1..m + 1 |-> h[i]]
      OBVIOUS
    <3> HIDE DEF h
    <3> QED
      BY <3>2, <3>3 DEF BasesOf
  <2> QED
    BY <2>2
<1>3. Nat \subseteq S
  BY <1>1, <1>2, SetInduction
<1> QED
  BY <1>3

\* What Base computes.
LEMMA BaseDef ==
    ASSUME NEW k \in Nat \ {0}
    PROVE  \E g : /\ g[1] = 0 /\ Base(k) = g[k]
                  /\ \A i \in 2..k : g[i] = g[i - 1] + Size(i - 1)
<1> DEFINE g == CHOOSE g : g = [i \in 1..k |-> IF i = 1 THEN 0 ELSE g[i - 1] + Size(i - 1)]
<1>1. \E h : h = [i \in 1..k |-> IF i = 1 THEN 0 ELSE h[i - 1] + Size(i - 1)]
  <2>1. \E h : BasesOf(h, k)
    BY BasesExist
  <2> QED
    BY <2>1 DEF BasesOf
<1>2. g = [i \in 1..k |-> IF i = 1 THEN 0 ELSE g[i - 1] + Size(i - 1)]
  BY <1>1
<1>3. Base(k) = g[k]
  BY DEF Base
<1> HIDE DEF g
<1>4. \A i \in 1..k : g[i] = IF i = 1 THEN 0 ELSE g[i - 1] + Size(i - 1)
  BY <1>2
<1>5. 1 \in 1..k /\ \A i \in 2..k : i \in 1..k /\ i # 1
  OBVIOUS
<1> QED
  BY <1>3, <1>4, <1>5

\* Each level lies behind the level before it.
LEMMA BaseStep ==
    ASSUME NEW k \in Nat \ {0} PROVE Base(1) = 0 /\ Base(k + 1) = Base(k) + Size(k)
<1>1. Base(1) = 0
  BY BaseDef
<1>2. PICK f : /\ f[1] = 0 /\ Base(k) = f[k]
               /\ \A i \in 2..k : f[i] = f[i - 1] + Size(i - 1)
  BY BaseDef
<1>3. PICK m \in Nat \ {0} : m = k + 1
  OBVIOUS
<1>4. PICK g : /\ g[1] = 0 /\ Base(m) = g[m]
               /\ \A i \in 2..m : g[i] = g[i - 1] + Size(i - 1)
  BY BaseDef
<1> DEFINE S == {i \in 0..k - 1 : f[i + 1] = g[i + 1]}
<1>5. ASSUME NEW i \in 1..k - 1, i - 1 \in S PROVE i \in S
  <2>1. f[i] = g[i]
    BY <1>5
  <2>2. i + 1 \in 2..k /\ i + 1 \in 2..m /\ (i + 1) - 1 = i
    BY <1>3
  <2>3. f[i + 1] = f[i] + Size(i) /\ g[i + 1] = g[i] + Size(i)
    BY <1>2, <1>4, <2>2
  <2> QED
    BY <2>1, <2>3
<1>6. 0 \in S /\ S \subseteq 0..k - 1
  BY <1>2, <1>4
<1> HIDE DEF S
<1>7. k - 1 \in S
  BY <1>5, <1>6, Fewer
<1>8. f[k] = g[k]
  BY <1>7 DEF S
<1>9. m \in 2..m /\ m - 1 = k
  BY <1>3
<1> QED
  BY <1>1, <1>2, <1>3, <1>4, <1>8, <1>9

\* The levels that are left fit behind the base of their first.
LEMMA LevelsFit ==
    ASSUME launch \in Launches, NEW k \in Nat \ {0}, Size(k) > 1
    PROVE  Base(k) + Size(k) <= ScanBufferSize(launch) /\ ScanBufferSize(launch) \in Nat
           /\ Base(k) \in Nat
<1>1. PICK n \in Nat, m \in Nat \ {0, 1} :
        n = launch.n /\ m = Chunk /\ m = launch.threads * launch.els
  BY ShapeFacts DEF Chunk
<1>2. PICK f : BufferSizesOf(f, m, n) /\ ScanBufferSize(launch) = f[DivCeil(n, m)]
  BY <1>1, BufferSizeDef
<1>3. ASSUME NEW i \in Nat PROVE Size(i) \in 0..n
  BY <1>1, Sizes
<1> DEFINE S == {i \in Nat : Size(i + 1) > 1 =>
                     Base(i + 1) \in Nat /\ f[Size(1)] = Base(i + 1) + f[Size(i + 1)]}
<1>4. 0 \in S
  <2>1. Base(1) = 0 /\ Size(1) \in 0..n
    BY <1>3, BaseStep
  <2>2. f[Size(1)] \in Nat
    BY <1>2, <2>1, BufferSizes
  <2> QED
    BY <2>1, <2>2
<1>5. ASSUME NEW i \in S PROVE i + 1 \in S
  <2>1. PICK j \in Nat \ {0} : j = i + 1
    OBVIOUS
  <2>2. Size(j + 1) = DivCeil(Size(j), m) /\ Size(j + 1) <= Size(j)
    BY <1>1, <2>1, Sizes
  <2>3. Size(j) \in 0..n /\ Size(j + 1) \in 0..n
    BY <1>3, <2>1
  <2>4. ASSUME Size(j + 1) > 1
        PROVE  Base(j + 1) \in Nat /\ f[Size(1)] = Base(j + 1) + f[Size(j + 1)]
    <3>1. Size(j) > 1
      BY <2>2, <2>3, <2>4
    <3>2. Base(j) \in Nat /\ f[Size(1)] = Base(j) + f[Size(j)]
      BY <2>1, <3>1
    <3>3. f[Size(j)] = Size(j) + f[Size(j + 1)]
      BY <1>2, <2>2, <2>3, <3>1, BufferSizes
    <3>4. f[Size(j + 1)] \in Nat
      BY <1>2, <2>3, BufferSizes
    <3>5. Base(j + 1) = Base(j) + Size(j)
      BY <2>1, BaseStep
    <3> QED
      BY <2>3, <3>2, <3>3, <3>4, <3>5
  <2> QED
    BY <2>1, <2>4
<1> HIDE DEF S
<1>6. Nat \subseteq S
  <2>1. \A i \in Nat : i \in S => i + 1 \in S
    BY <1>5
  <2> QED
    BY <1>4, <2>1, SetInduction
<1>7. Base(k) \in Nat /\ f[Size(1)] = Base(k) + f[Size(k)]
  <2>1. PICK i \in Nat : i + 1 = k
    <3>1. k - 1 \in Nat /\ (k - 1) + 1 = k
      OBVIOUS
    <3> QED
      BY <3>1
  <2>2. i \in S
    BY <1>6, <2>1
  <2> QED
    BY <2>1, <2>2 DEF S
<1>8. Size(k) \in 0..n /\ Size(1) \in 0..n
  BY <1>3
<1>9. f[Size(k)] >= Size(k) /\ f[Size(k)] \in Nat /\ f[Size(1)] \in Nat
  BY <1>2, <1>8, BufferSizes
<1>10. Size(1) = DivCeil(n, m)
  <2>1. Size(0) = n /\ Size(0 + 1) = DivCeil(Size(0), m) /\ 0 + 1 = 1
    BY <1>1, Sizes
  <2> QED
    BY <2>1
<1> QED
  BY <1>2, <1>7, <1>8, <1>9, <1>10

-----------------------------------------------------------------------------
(* The invariant.                                                          *)

\* The threads of the blocks work on chunks.
Progress == [Block -> [Thread -> [chunk : Nat, phase : Nat, todo : SUBSET Int]]]

\* The shape does not change, and neither does the size of the buffer.
BufferInv ==
    /\ launch \in Launches /\ level \in Nat
    /\ DOMAIN buf = 0..ScanBufferSize(launch) - 1

\* A thread that has something to do has a chunk; packs are done before single elements, whole.
AccessInv ==
    /\ launch \in Launches /\ level \in Nat
    /\ th \in Progress
    /\ \A b \in Block, t \in Thread : th[b][t].todo # {} => th[b][t].chunk < NumChunks(level)
    /\ added \in Nat
    /\ added <= PackedEnd => \E x \in Nat : added = x * launch.simd
    /\ AccessesInBounds

\* The phases are numbers.
LEMMA TodoInt == ASSUME NEW t, NEW phase PROVE Todo(t, phase) \in SUBSET Int
BY DEF Todo

\* A thread that begins a chunk.
LEMMA StartKeeps ==
    ASSUME NEW t, NEW c \in Nat, NEW k
    PROVE  /\ Start(t, c, k) \in [chunk : Nat, phase : Nat, todo : SUBSET Int]
           /\ Start(t, c, k).todo # {} => Start(t, c, k).chunk < NumChunks(k)
BY TodoInt DEF Start

\* Sizes depend on the shape only.
LEMMA SameShape ==
    ASSUME launch' = launch, level' = level
    PROVE  /\ Block' = Block /\ Thread' = Thread /\ Size(level)' = Size(level)
           /\ NumChunks(level)' = NumChunks(level) /\ PackedEnd' = PackedEnd /\ Progress' = Progress
BY DEF Block, NumBlocks, Thread, Size, NumChunks, PackedEnd, Chunk, Progress

\* A kernel starts.
LEMMA LaunchKeeps ==
    ASSUME AccessInv, BufferInv, NEW s, NEW k \in Nat, Launch(s, k) PROVE AccessInv' /\ BufferInv'
<1>1. /\ launch' = launch /\ level' = k /\ accessed' = {} /\ added' = 0 /\ buf' = buf
      /\ th' = [b \in Block |-> [t \in Thread |-> Start(t, b, k)]]
  BY DEF Launch
<1>2. Block' = Block /\ Thread' = Thread /\ Progress' = Progress
  BY <1>1 DEF Block, NumBlocks, Thread, Progress
<1>3. NumChunks(level)' = NumChunks(k)
  BY <1>1 DEF NumChunks, Size, Chunk
<1>4. \A b \in Block : b \in Nat
  BY DEF Block
<1>5. th' \in Progress /\ \A b \in Block, t \in Thread :
                              th'[b][t].todo # {} => th'[b][t].chunk < NumChunks(k)
  BY <1>1, <1>4, StartKeeps DEF Progress
<1>6. launch.simd \in Nat /\ 0 = 0 * launch.simd
  <2>1. launch.simd \in Nat
    BY ShapeFacts DEF AccessInv
  <2> QED
    BY <2>1
<1>7. BufferInv'
  <2>1. ScanBufferSize(launch)' = ScanBufferSize(launch)
    BY <1>1
  <2> QED
    BY <1>1, <2>1 DEF BufferInv
<1>8. AccessInv'
  <2>1. added' \in Nat /\ \E x \in Nat : added' = x * launch'.simd
    BY <1>1, <1>6
  <2> QED
    BY <1>1, <1>2, <1>3, <1>5, <2>1 DEF AccessInv, AccessesInBounds
<1> QED
  BY <1>7, <1>8

\* A thread that has done an element, in a kernel that goes on.
LEMMA ElementKeeps ==
    ASSUME AccessInv, NEW b \in Block, NEW t \in Thread,
           launch' = launch, level' = level, added' = added,
           th' = [th EXCEPT ![b][t].todo = @ \ {Elem(b, t)}],
           accessed' \subseteq 0..Size(level) - 1
    PROVE  AccessInv'
<1>1. /\ Block' = Block /\ Thread' = Thread /\ Size(level)' = Size(level)
      /\ NumChunks(level)' = NumChunks(level) /\ PackedEnd' = PackedEnd /\ Progress' = Progress
  BY SameShape
<1>2. th \in Progress
  BY DEF AccessInv
<1>3. th' \in Progress /\ \A c \in Block, u \in Thread :
        th'[c][u].todo \subseteq th[c][u].todo /\ th'[c][u].chunk = th[c][u].chunk
  BY <1>2 DEF Progress
<1>4. \A c \in Block, u \in Thread : th'[c][u].todo # {} => th'[c][u].chunk < NumChunks(level)
  BY <1>3 DEF AccessInv
<1> QED
  BY <1>1, <1>3, <1>4 DEF AccessInv, AccessesInBounds

\* The threads of a block go on with the next phase or chunk.
LEMMA SyncKeeps ==
    ASSUME AccessInv, NEW b \in Block, SyncBlockThreads(b) PROVE AccessInv'
<1>1. /\ launch' = launch /\ level' = level /\ added' = added /\ accessed' = accessed
      /\ th' = [th EXCEPT ![b] = [t \in Thread |-> After(t, @[t])]]
      /\ \A t \in Thread : th[b][t].chunk < NumChunks(level)
  BY DEF SyncBlockThreads
<1>2. /\ Block' = Block /\ Thread' = Thread /\ Size(level)' = Size(level)
      /\ NumChunks(level)' = NumChunks(level) /\ PackedEnd' = PackedEnd /\ Progress' = Progress
  BY <1>1, SameShape
<1>3. th \in Progress /\ NumBlocks \in Nat
  BY ShapeFacts DEF AccessInv, NumBlocks
<1>4. ASSUME NEW t \in Thread
      PROVE  /\ After(t, th[b][t]) \in [chunk : Nat, phase : Nat, todo : SUBSET Int]
             /\ After(t, th[b][t]).todo # {} => After(t, th[b][t]).chunk < NumChunks(level)
  <2>1. PICK state : state = th[b][t] /\ state \in [chunk : Nat, phase : Nat, todo : SUBSET Int]
                     /\ state.chunk < NumChunks(level)
    BY <1>1, <1>3 DEF Progress
  <2>2. CASE state.phase < WriteBackPhase
    <3>1. After(t, state) = [state EXCEPT !.phase = @ + 1, !.todo = Todo(t, state.phase + 1)]
      BY <2>2 DEF After
    <3>2. PICK todo \in SUBSET Int : todo = Todo(t, state.phase + 1)
      BY TodoInt
    <3>3. PICK next : next = After(t, state)
                      /\ next = [state EXCEPT !.phase = @ + 1, !.todo = todo]
      BY <3>1, <3>2
    <3>4. next \in [chunk : Nat, phase : Nat, todo : SUBSET Int]
      <4>1. state.phase \in Nat /\ state.phase + 1 \in Nat
        BY <2>1
      <4>2. PICK phase \in Nat : phase = state.phase + 1
        BY <4>1
      <4>3. next = [[state EXCEPT !.phase = phase] EXCEPT !.todo = todo]
        BY <2>1, <3>3, <4>2
      <4>4. [state EXCEPT !.phase = phase] \in [chunk : Nat, phase : Nat, todo : SUBSET Int]
        BY <2>1
      <4> QED
        BY <3>2, <4>3, <4>4
    <3>5. next.chunk = state.chunk
      BY <2>1, <3>3
    <3> QED
      BY <2>1, <3>3, <3>4, <3>5
  <2>3. CASE ~(state.phase < WriteBackPhase)
    <3>1. After(t, state) = Start(t, state.chunk + NumBlocks, level)
      BY <2>3 DEF After
    <3>2. state.chunk + NumBlocks \in Nat
      BY <1>3, <2>1
    <3> QED
      BY <2>1, <3>1, <3>2, StartKeeps
  <2> QED
    BY <2>2, <2>3
<1>5. th' \in Progress
  <2>1. [t \in Thread |-> After(t, th[b][t])]
            \in [Thread -> [chunk : Nat, phase : Nat, todo : SUBSET Int]]
    BY <1>4
  <2>2. th' = [th EXCEPT ![b] = [t \in Thread |-> After(t, th[b][t])]]
    BY <1>1, <1>3 DEF Progress
  <2> QED
    BY <1>3, <2>1, <2>2 DEF Progress
<1>6. ASSUME NEW c \in Block, NEW t \in Thread, th'[c][t].todo # {}
      PROVE  th'[c][t].chunk < NumChunks(level)
  <2>1. CASE c = b
    <3>1. th'[c][t] = After(t, th[b][t])
      BY <1>1, <1>3, <2>1 DEF Progress
    <3> QED
      BY <1>4, <1>6, <3>1
  <2>2. CASE c # b
    <3>1. th'[c][t] = th[c][t]
      BY <1>1, <1>3, <2>2 DEF Progress
    <3> QED
      BY <1>6, <3>1 DEF AccessInv
  <2> QED
    BY <2>1, <2>2
<1> QED
  BY <1>1, <1>2, <1>5, <1>6 DEF AccessInv, AccessesInBounds

\* A pack, or an element, takes its increment.
LEMMA AddKeeps == ASSUME AccessInv, AddPack PROVE AccessInv'
<1>1. PICK width : /\ width = IF added < PackedEnd THEN launch.simd ELSE 1
                   /\ added < Size(level) /\ added' = added + width
                   /\ accessed' = accessed \cup (added..added + width - 1)
  BY DEF AddPack
<1>2. launch' = launch /\ level' = level /\ th' = th
  BY DEF AddPack
<1>3. /\ Block' = Block /\ Thread' = Thread /\ Size(level)' = Size(level)
      /\ NumChunks(level)' = NumChunks(level) /\ PackedEnd' = PackedEnd /\ Progress' = Progress
  BY <1>2, SameShape
<1>4. PICK n \in Nat, s \in Nat \ {0}, end \in Nat :
        n = Size(level) /\ s = launch.simd /\ end = PackedEnd
  BY ShapeFacts, Sizes, PackedEndFits DEF AccessInv
<1>5. added \in Nat /\ (added <= end => \E x \in Nat : added = x * s)
  BY <1>4 DEF AccessInv
<1>6. end <= n /\ \E x \in Nat : end = x * s
  BY <1>4, PackedEndFits DEF AccessInv
<1>7. CASE added < end
  <2>1. PICK x \in Nat, y \in Nat : added = x * s /\ end = y * s
    BY <1>4, <1>5, <1>6, <1>7
  <2>2. x < y
    <3>1. ASSUME y <= x PROVE FALSE
      <4>1. y * s <= x * s
        BY <3>1, TimesLess
      <4> QED
        BY <1>4, <1>5, <1>7, <2>1, <4>1
    <3> QED
      BY <3>1
  <2>3. (x + 1) * s <= y * s /\ (x + 1) * s = x * s + s
    <3>1. (x + 1) * s <= y * s
      BY <2>2, TimesLess
    <3> QED
      BY <3>1
  <2>4. added' = (x + 1) * s /\ added' = added + s /\ added' <= end
    BY <1>1, <1>4, <1>7, <2>1, <2>3
  <2>5. accessed' \subseteq 0..n - 1
    <3>1. accessed \subseteq 0..n - 1
      BY <1>4 DEF AccessInv, AccessesInBounds
    <3>2. added..added + s - 1 \subseteq 0..n - 1
      BY <1>4, <1>5, <1>6, <2>4
    <3>3. accessed' = accessed \cup (added..added + s - 1)
      BY <1>1, <1>4, <1>7
    <3> QED
      BY <3>1, <3>2, <3>3
  <2>6. added' \in Nat /\ \E z \in Nat : added' = z * s
    <3>1. added' \in Nat
      BY <1>4, <1>5, <2>4
    <3> QED
      BY <2>4, <3>1
  <2> QED
    BY <1>2, <1>3, <1>4, <2>5, <2>6 DEF AccessInv, AccessesInBounds
<1>8. CASE ~(added < end)
  <2>1. added' = added + 1 /\ accessed' = accessed \cup (added..added)
    BY <1>1, <1>4, <1>5, <1>8
  <2>2. accessed' \subseteq 0..n - 1
    <3>1. accessed \subseteq 0..n - 1
      BY <1>4 DEF AccessInv, AccessesInBounds
    <3>2. added..added \subseteq 0..n - 1
      BY <1>1, <1>4, <1>5
    <3> QED
      BY <2>1, <3>1, <3>2
  <2>3. added' \in Nat /\ ~(added' <= end)
    BY <1>4, <1>5, <1>8, <2>1
  <2> QED
    BY <1>2, <1>3, <1>4, <2>2, <2>3 DEF AccessInv, AccessesInBounds
<1> QED
  BY <1>7, <1>8

\* A thread that copies elements.
LEMMA CopyKeeps ==
    ASSUME AccessInv, NEW b \in Block, NEW t \in Thread, th[b][t].todo # {}
    PROVE  accessed \cup Copied(th[b][t].chunk, t) \subseteq 0..Size(level) - 1
<1>1. th[b][t].chunk \in Nat /\ th[b][t].chunk < NumChunks(level)
  BY DEF AccessInv, Progress
<1>2. Copied(th[b][t].chunk, t) \subseteq 0..Size(level) - 1
  BY <1>1, CopiedInLevel DEF AccessInv
<1> QED
  BY <1>2 DEF AccessInv, AccessesInBounds

\* Every step keeps the invariant.
LEMMA ScanStep == ASSUME AccessInv, BufferInv, [Next]_vars PROVE AccessInv' /\ BufferInv'
<1>1. ASSUME NEW b \in Block, NEW t \in Thread, Load(b, t) \/ WriteBack(b, t)
      PROVE  AccessInv' /\ BufferInv'
  <2>1. /\ launch' = launch /\ level' = level /\ added' = added /\ DOMAIN buf' = DOMAIN buf
        /\ th[b][t].todo # {} /\ th' = [th EXCEPT ![b][t].todo = @ \ {Elem(b, t)}]
        /\ accessed' = accessed \cup Copied(th[b][t].chunk, t)
    <3>1. CASE Load(b, t)
      BY <3>1 DEF Load, At, Step
    <3>2. CASE WriteBack(b, t)
      BY <3>2 DEF WriteBack, At, Step
    <3> QED
      BY <1>1, <3>1, <3>2
  <2>2. accessed' \subseteq 0..Size(level) - 1
    BY <2>1, CopyKeeps
  <2>3. AccessInv'
    BY <2>1, <2>2, ElementKeeps
  <2> QED
    BY <2>1, <2>3 DEF BufferInv
<1>2. ASSUME NEW b \in Block, NEW t \in Thread,
             UpSweep(b, t) \/ SaveRoot(b, t) \/ DownSweep(b, t)
      PROVE  AccessInv' /\ BufferInv'
  <2>1. /\ launch' = launch /\ level' = level /\ added' = added /\ DOMAIN buf' = DOMAIN buf
        /\ th' = [th EXCEPT ![b][t].todo = @ \ {Elem(b, t)}] /\ accessed' = accessed
    <3>1. CASE UpSweep(b, t)
      BY <3>1 DEF UpSweep, Step
    <3>2. CASE SaveRoot(b, t)
      BY <3>2 DEF SaveRoot, Step
    <3>3. CASE DownSweep(b, t)
      BY <3>3 DEF DownSweep, Step
    <3> QED
      BY <1>2, <3>1, <3>2, <3>3
  <2>2. AccessInv'
    BY <2>1, ElementKeeps DEF AccessInv, AccessesInBounds
  <2> QED
    BY <2>1, <2>2 DEF BufferInv
<1>3. ASSUME NEW b \in Block, SyncBlockThreads(b) PROVE AccessInv' /\ BufferInv'
  <2>1. launch' = launch /\ level' = level /\ buf' = buf
    BY <1>3 DEF SyncBlockThreads
  <2> QED
    BY <1>3, <2>1, SyncKeeps DEF BufferInv
<1>4. CASE ScanKernelEnds \/ AddKernelEnds
  <2>1. PICK s, k : k \in Nat /\ Launch(s, k)
    <3>1. level \in Nat
      BY DEF BufferInv
    <3>2. level + 1 \in Nat /\ 0 \in Nat /\ (level > 0 => level - 1 \in Nat)
      BY <3>1
    <3> QED
      BY <1>4, <3>2 DEF ScanKernelEnds, AddKernelEnds
  <2> QED
    BY <2>1, LaunchKeeps
<1>5. CASE AddPack
  <2>1. launch' = launch /\ level' = level /\ DOMAIN buf' = DOMAIN buf
    BY <1>5 DEF AddPack
  <2> QED
    BY <1>5, <2>1, AddKeeps DEF BufferInv
<1>6. CASE UNCHANGED vars
  <2>1. /\ launch' = launch /\ level' = level /\ added' = added /\ buf' = buf /\ th' = th
        /\ accessed' = accessed
    BY <1>6 DEF vars
  <2> QED
    BY <2>1, SameShape DEF AccessInv, BufferInv, AccessesInBounds
<1> QED
  BY <1>1, <1>2, <1>3, <1>4, <1>5, <1>6 DEF Next

\* The first kernel of a scan.
LEMMA ScanInit == ASSUME Init PROVE AccessInv /\ BufferInv
<1>1. /\ launch \in Launches /\ level = 0 /\ accessed = {} /\ added = 0
      /\ buf = [i \in 0..ScanBufferSize(launch) - 1 |-> Junk]
      /\ th = [b \in Block |-> [t \in Thread |-> Start(t, b, 0)]]
  BY DEF Init
<1>2. \A b \in Block : b \in Nat
  BY DEF Block
<1>3. th \in Progress /\ \A b \in Block, t \in Thread :
                             th[b][t].todo # {} => th[b][t].chunk < NumChunks(level)
  BY <1>1, <1>2, StartKeeps DEF Progress
<1>4. launch.simd \in Nat
  BY <1>1, ShapeFacts
<1>5. \E x \in Nat : added = x * launch.simd
  <2>1. 0 = 0 * launch.simd
    BY <1>4
  <2> QED
    BY <1>1, <2>1
<1> QED
  BY <1>1, <1>3, <1>5 DEF AccessInv, BufferInv, AccessesInBounds

\* The buffer that the invariant knows is large enough for the level that follows.
LEMMA BufferIsEnough == ASSUME BufferInv PROVE BufferSuffices
<1>1. SUFFICES ASSUME ~LastLevel(level)
               PROVE  Base(level + 1) + NumChunks(level) <= Cardinality(DOMAIN buf)
  BY DEF BufferSuffices
<1>2. launch \in Launches /\ level \in Nat /\ DOMAIN buf = 0..ScanBufferSize(launch) - 1
  BY DEF BufferInv
<1>3. PICK k \in Nat \ {0} : k = level + 1
  BY <1>2
<1>4. NumChunks(level) = Size(k) /\ Size(k) \in Nat
  BY <1>2, <1>3, Sizes
<1>5. Size(k) > 1
  BY <1>1, <1>4 DEF LastLevel
<1>6. Base(k) + Size(k) <= ScanBufferSize(launch) /\ ScanBufferSize(launch) \in Nat
  BY <1>2, <1>5, LevelsFit
<1>7. PICK s \in Nat : s = ScanBufferSize(launch)
  BY <1>6
<1>8. Cardinality(0..s - 1) = s
  <2>1. 0 \in Int /\ s - 1 \in Int
    BY <1>7
  <2>2. Cardinality(0..s - 1) = IF 0 > s - 1 THEN 0 ELSE (s - 1) - 0 + 1
    BY <2>1, FS_Interval
  <2> QED
    BY <1>7, <2>2
<1> QED
  BY <1>2, <1>3, <1>4, <1>6, <1>7, <1>8

-----------------------------------------------------------------------------
(* Shared memory.                                                          *)

\* The sweeps of a chunk and their offsets.
LEMMA SweepFacts ==
    ASSUME launch \in Launches
    PROVE  /\ Sweeps \in Nat
           /\ \A u \in 0..Sweeps : 2^u \in Nat \ {0}
           /\ launch.warp \in Nat \ {0} /\ launch.threads \in Nat \ {0}
           /\ launch.els \div launch.mini \in Nat
           /\ MiniBlocks \in Nat \ {0}
<1>1. /\ launch.warp \in Nat \ {0} /\ launch.threads \in Nat \ {0}
      /\ launch.els \in Nat \ {0} /\ launch.mini \in Nat \ {0}
  <2>1. \A x \in {launch.blocks, launch.threads, launch.els, launch.mini, launch.warp,
                  launch.simd, launch.packs} : x \in Nat \ {0}
    BY ScanAssumption
  <2> QED
    BY <2>1
<1>2. /\ \E u \in 0..MiniBlocks : 2^u = MiniBlocks
      /\ \A u \in 0..Log2(MiniBlocks) : 2^u \in Nat \ {0}
  BY SweepAssumption, Zenon DEF MiniBlocks, Chunk
<1>3. Sweeps \in 0..MiniBlocks /\ 2^Sweeps = MiniBlocks
  BY <1>2, Zenon DEF Sweeps, Log2
<1>4. Sweeps \in Nat
  BY <1>3
<1>5. \A u \in 0..Sweeps : 2^u \in Nat \ {0}
  BY <1>2, Zenon DEF Sweeps
<1>6. Sweeps \in 0..Sweeps
  BY <1>4
<1>7. MiniBlocks \in Nat \ {0}
  BY <1>3, <1>5, <1>6, Zenon
<1>8. launch.els \div launch.mini \in Nat
  BY <1>1, Division
<1> QED
  BY <1>1, <1>4, <1>5, <1>7, <1>8, Zenon

\* Padding keeps addresses apart.
LEMMA PaddedApart ==
    ASSUME launch \in Launches, NEW i \in Nat, NEW j \in Nat, Padded(i) = Padded(j)
    PROVE  i = j
<1>1. PICK w \in Nat \ {0} : w = launch.warp
  BY SweepFacts
<1>2. ASSUME NEW a \in Nat, NEW b \in Nat, a < b PROVE a + a \div w < b + b \div w
  <2>1. PICK p \in Nat, x \in Nat : p = a \div w /\ x = a % w /\ a = w * p + x
    BY Division
  <2>2. PICK q \in Nat, y \in Nat : q = b \div w /\ y = b % w /\ b = w * q + y /\ y < w
    BY Division
  <2>3. PICK c \in Nat, d \in Nat : c = w * p /\ c = p * w /\ d = w * q /\ d = q * w
    BY TimesNat
  <2>4. p <= q
    <3>1. ASSUME q + 1 <= p PROVE FALSE
      <4>1. (q + 1) * w <= p * w
        BY <3>1, TimesLess
      <4>2. (q + 1) * w = q * w + w
        OBVIOUS
      <4>3. d + w <= c
        BY <2>3, <4>1, <4>2
      <4> QED
        BY <1>2, <2>1, <2>2, <2>3, <4>3
    <3> QED
      BY <3>1
  <2> QED
    BY <1>2, <2>1, <2>2, <2>4
<1>3. Padded(i) = i + i \div w /\ Padded(j) = j + j \div w
  BY <1>1 DEF Padded
<1>4. ~(i < j) /\ ~(j < i)
  <2>1. i \div w \in Nat /\ j \div w \in Nat
    BY Division
  <2>2. PICK a \in Nat, b \in Nat : a = i \div w /\ b = j \div w
    BY <2>1
  <2>3. i + a = j + b
    BY <1>3, <2>2
  <2>4. i < j => i + a < j + b
    BY <1>2, <2>2
  <2>5. j < i => j + b < i + a
    BY <1>2, <2>2
  <2> QED
    BY <2>3, <2>4, <2>5
<1> QED
  BY <1>4

\* A product of numbers that differ by one or more.
LEMMA TimesApart ==
    ASSUME NEW o \in Nat \ {0}, NEW a \in Nat, NEW b \in Nat, o * a = o * b PROVE a = b
<1>1. ASSUME NEW x \in Nat, NEW y \in Nat, x < y PROVE o * x # o * y
  <2>1. (x + 1) * o <= y * o
    BY <1>1, TimesLess
  <2>2. (x + 1) * o = x * o + o /\ x * o = o * x /\ y * o = o * y
    OBVIOUS
  <2>3. PICK c \in Nat, d \in Nat : c = o * x /\ d = o * y
    BY TimesNat
  <2>4. c + o <= d
    BY <2>1, <2>2, <2>3
  <2> QED
    BY <2>3, <2>4
<1> QED
  BY <1>1

\* The cells of a sweep's elements.
LEMMA CellsApart ==
    ASSUME NEW o \in Nat \ {0}, NEW d \in Nat, NEW e \in Nat, NEW j \in {1, 2}, NEW k \in {1, 2}
    PROVE  /\ o * (2 * d + j) - 1 \in Nat
           /\ o * (2 * d + j) - 1 = o * (2 * e + k) - 1 => d = e
<1>1. PICK x \in Nat \ {0}, y \in Nat \ {0} : x = 2 * d + j /\ y = 2 * e + k
  OBVIOUS
<1>2. o * x \in Nat \ {0} /\ o * y \in Nat \ {0}
  BY TimesNat
<1>3. o * x = o * y => x = y
  BY TimesApart
<1>4. x = y => d = e
  BY <1>1
<1> QED
  BY <1>1, <1>2, <1>3, <1>4

\* The offset of a sweep: an up-sweep's, or a down-sweep's.
Offset(p) == IF p \in 1..Sweeps THEN 2^(p - 1) ELSE 2^(2 * Sweeps + 1 - p)

\* What thread t may touch in phase p, in which some thread writes.
MayTouch(t, p) ==
    IF p = 0
    THEN {Padded(t * (launch.els \div launch.mini) + j) :
             j \in 0..launch.els \div launch.mini - 1}
    ELSE IF p = Root THEN {a \in {Padded(MiniBlocks - 1)} : t = 0}
    ELSE {Padded(Offset(p) * (2 * x[1] + x[2]) - 1) :
             x \in {e \in Nat : e % launch.threads = t} \X {1, 2}}

\* Offsets are positive.
LEMMA OffsetFacts ==
    ASSUME launch \in Launches, NEW p \in 0..WriteBackPhase,
           p # 0, p # Root, p # WriteBackPhase
    PROVE  Offset(p) \in Nat \ {0}
<1>1. PICK s \in Nat : s = Sweeps
  BY SweepFacts
<1>2. Root = s + 1 /\ WriteBackPhase = 2 * s + 2
  BY <1>1 DEF Root, WriteBackPhase
<1>3. CASE p \in 1..s
  <2>1. p - 1 \in 0..s
    BY <1>1, <1>3
  <2>2. 2^(p - 1) \in Nat \ {0}
    BY <1>1, <2>1, SweepFacts, Zenon
  <2> QED
    BY <1>1, <1>3, <2>2, Zenon DEF Offset
<1>4. CASE p \notin 1..s
  <2>1. 2 * s + 1 - p \in 0..s
    BY <1>1, <1>2, <1>4
  <2>2. 2^(2 * s + 1 - p) \in Nat \ {0}
    BY <1>1, <2>1, SweepFacts, Zenon
  <2> QED
    BY <1>1, <1>4, <2>2, Zenon DEF Offset
<1> QED
  BY <1>3, <1>4

\* Two threads touch different cells.
LEMMA ThreadsApart ==
    ASSUME launch \in Launches, NEW t \in Thread, NEW u \in Thread,
           NEW p \in 0..WriteBackPhase, p # WriteBackPhase,
           NEW a, a \in MayTouch(t, p), a \in MayTouch(u, p)
    PROVE  t = u
<1>1. t \in Nat /\ u \in Nat
  BY ShapeFacts DEF Thread
<1>2. CASE p = 0
  <2>1. PICK m \in Nat : m = launch.els \div launch.mini
    BY SweepFacts
  <2>2. PICK i \in 0..m - 1, j \in 0..m - 1 : a = Padded(t * m + i) /\ a = Padded(u * m + j)
    BY <1>2, <2>1 DEF MayTouch
  <2>3. PICK x \in Nat, y \in Nat : x = t * m /\ y = u * m
    BY <1>1, TimesNat
  <2>4. x + i = y + j
    <3>1. x + i \in Nat /\ y + j \in Nat
      BY <2>1, <2>2, <2>3
    <3>2. Padded(x + i) = Padded(y + j)
      BY <2>2, <2>3
    <3> QED
      BY <3>1, <3>2, PaddedApart
  <2>5. ASSUME NEW b \in Nat, NEW c \in Nat, b < c PROVE b * m + m <= c * m
    <3>1. (b + 1) * m <= c * m
      BY <2>5, TimesLess
    <3>2. (b + 1) * m = b * m + m
      OBVIOUS
    <3> QED
      BY <3>1, <3>2
  <2>6. ~(t < u)
    <3>1. ASSUME t < u PROVE FALSE
      <4>1. x + m <= y
        BY <1>1, <2>3, <2>5, <3>1
      <4> QED
        BY <2>1, <2>2, <2>3, <2>4, <4>1
    <3> QED
      BY <3>1
  <2>7. ~(u < t)
    <3>1. ASSUME u < t PROVE FALSE
      <4>1. y + m <= x
        BY <1>1, <2>3, <2>5, <3>1
      <4> QED
        BY <2>1, <2>2, <2>3, <2>4, <4>1
    <3> QED
      BY <3>1
  <2> QED
    BY <1>1, <2>6, <2>7
<1>3. CASE p # 0 /\ p = Root
  BY <1>3 DEF MayTouch
<1>4. CASE p # 0 /\ p # Root
  <2>1. PICK o \in Nat \ {0} : o = Offset(p)
    BY <1>4, OffsetFacts
  <2>2. PICK x \in {e \in Nat : e % launch.threads = t} \X {1, 2},
             y \in {e \in Nat : e % launch.threads = u} \X {1, 2} :
               a = Padded(o * (2 * x[1] + x[2]) - 1) /\ a = Padded(o * (2 * y[1] + y[2]) - 1)
    BY <1>4, <2>1 DEF MayTouch
  <2>3. PICK d \in Nat, e \in Nat, j \in {1, 2}, k \in {1, 2} :
          d = x[1] /\ j = x[2] /\ e = y[1] /\ k = y[2]
    BY <2>2
  <2>4. PICK b \in Nat, c \in Nat : b = o * (2 * d + j) - 1 /\ c = o * (2 * e + k) - 1
    <3>1. o * (2 * d + j) - 1 \in Nat /\ o * (2 * e + k) - 1 \in Nat
      BY CellsApart
    <3> QED
      BY <3>1
  <2>5. b = c
    <3>1. Padded(b) = Padded(c)
      BY <2>2, <2>3, <2>4
    <3> QED
      BY <3>1, PaddedApart
  <2>6. d = e
    BY <2>4, <2>5, CellsApart
  <2> QED
    BY <2>2, <2>3, <2>6
<1> QED
  BY <1>2, <1>3, <1>4

\* A set of natural numbers has a least one.
LEMMA Least == ASSUME NEW S \in SUBSET Nat, S # {} PROVE Min(S) \in S
<1> DEFINE R == OpToRel(<, Nat)
<1>1. IsWellFoundedOn(R, Nat)
  BY NatLessThanWellFounded
<1>2. \A x, y \in Nat : x < y => <<x, y>> \in R
  BY DEF OpToRel
<1> HIDE DEF R
<1>3. PICK x \in S : \A y \in S : <<y, x>> \notin R
  BY <1>1, WFMin
<1>4. ASSUME NEW y \in S PROVE x <= y
  <2>1. x \in Nat /\ y \in Nat /\ ~(y < x)
    BY <1>2, <1>3
  <2> QED
    BY <2>1
<1> QED
  BY <1>4, Zenon DEF Min

\* x, an access of shared memory, is one that its thread may do in phase p.
Allowed(x, p) ==
    /\ x[1] \in Thread
    /\ p = WriteBackPhase => x[3] = "read"
    /\ p # WriteBackPhase => x[2] \in MayTouch(x[1], p)

\* The threads of a block are in the same phase and touch what is theirs.
RaceInv ==
    /\ DOMAIN touched = Block
    /\ \A b \in Block : \E p \in 0..WriteBackPhase : \A t \in Thread :
          th[b][t].phase = p /\ th[b][t].todo \subseteq Todo(t, p)
    /\ \A b \in Block : \A x \in touched[b] : Allowed(x, th[b][x[1]].phase)

\* What is shared by the threads depends on the shape only.
LEMMA SamePhases ==
    ASSUME launch' = launch
    PROVE  /\ Block' = Block /\ Thread' = Thread /\ WriteBackPhase' = WriteBackPhase
           /\ \A t, p : Todo(t, p)' = Todo(t, p) /\ MayTouch(t, p)' = MayTouch(t, p)
           /\ \A x, p : Allowed(x, p)' = Allowed(x, p)
<1>1. Block' = Block /\ Thread' = Thread
  BY DEF Block, NumBlocks, Thread
<1>2. Chunk' = Chunk
  BY DEF Chunk
<1>3. MiniBlocks' = MiniBlocks
  BY <1>2 DEF MiniBlocks
<1>4. Sweeps' = Sweeps
  BY <1>3, Zenon DEF Sweeps
<1>5. Root' = Root /\ WriteBackPhase' = WriteBackPhase
  BY <1>4, Zenon DEF Root, WriteBackPhase
<1>6. ASSUME NEW t, NEW p PROVE Todo(t, p)' = Todo(t, p) /\ MayTouch(t, p)' = MayTouch(t, p)
  <2>1. Work(p)' = Work(p)
    BY <1>3, <1>4, <1>5, Zenon DEF Work
  <2>2. Todo(t, p)' = Todo(t, p)
    BY <2>1, Zenon DEF Todo
  <2>3. Offset(p)' = Offset(p)
    BY <1>4, Zenon DEF Offset
  <2>4. \A i : Padded(i)' = Padded(i)
    BY Zenon DEF Padded
  <2>5. MayTouch(t, p)' = MayTouch(t, p)
    BY <1>3, <1>5, <2>3, <2>4, Zenon DEF MayTouch
  <2> QED
    BY <2>2, <2>5
<1>7. ASSUME NEW x, NEW p PROVE Allowed(x, p)' = Allowed(x, p)
  BY <1>1, <1>5, <1>6, Zenon DEF Allowed
<1> QED
  BY <1>1, <1>5, <1>6, <1>7, Zenon

\* A step of a thread that touches what is its own.
LEMMA StepKeeps ==
    ASSUME AccessInv, RaceInv, NEW b \in Block, NEW t \in Thread, NEW reads, NEW writes,
           launch' = launch, Step(b, t, reads, writes),
           th[b][t].phase = WriteBackPhase => writes = {},
           th[b][t].phase # WriteBackPhase => reads \cup writes \subseteq MayTouch(t, th[b][t].phase)
    PROVE  RaceInv'
<1>1. /\ Block' = Block /\ Thread' = Thread /\ WriteBackPhase' = WriteBackPhase
      /\ \A u, p : Todo(u, p)' = Todo(u, p)
      /\ \A x, p : Allowed(x, p)' = Allowed(x, p)
  BY SamePhases
<1>2. /\ th' = [th EXCEPT ![b][t].todo = @ \ {Elem(b, t)}]
      /\ touched' = [touched EXCEPT ![b] = @ \cup ({t} \X reads \X {"read"})
                                             \cup ({t} \X writes \X {"write"})]
  BY DEF Step
<1>3. th \in Progress /\ DOMAIN touched = Block
  BY DEF AccessInv, RaceInv
<1>4. \A c \in Block, u \in Thread : th'[c][u].phase = th[c][u].phase
                                     /\ th'[c][u].todo \subseteq th[c][u].todo
  BY <1>2, <1>3 DEF Progress
<1>5. \A c \in Block : \E p \in 0..WriteBackPhase : \A u \in Thread :
         th'[c][u].phase = p /\ th'[c][u].todo \subseteq Todo(u, p)
  <2>1. ASSUME NEW c \in Block
        PROVE  \E p \in 0..WriteBackPhase : \A u \in Thread :
                   th'[c][u].phase = p /\ th'[c][u].todo \subseteq Todo(u, p)
    <3>1. PICK p \in 0..WriteBackPhase : \A u \in Thread :
            th[c][u].phase = p /\ th[c][u].todo \subseteq Todo(u, p)
      BY DEF RaceInv
    <3> QED
      BY <1>4, <3>1
  <2> QED
    BY <2>1
<1>6. ASSUME NEW c \in Block, NEW x \in touched'[c] PROVE Allowed(x, th'[c][x[1]].phase)
  <2>1. CASE x \in touched[c]
    <3>1. Allowed(x, th[c][x[1]].phase)
      BY <2>1 DEF RaceInv
    <3>2. x[1] \in Thread
      BY <3>1 DEF Allowed
    <3> QED
      BY <1>4, <3>1, <3>2
  <2>2. CASE x \notin touched[c]
    <3>1. c = b /\ (x \in {t} \X reads \X {"read"} \/ x \in {t} \X writes \X {"write"})
      BY <1>2, <1>3, <1>6, <2>2
    <3>2. x[1] = t /\ ((x[2] \in reads /\ x[3] = "read") \/ x[2] \in writes)
      BY <3>1
    <3>3. th'[c][x[1]].phase = th[b][t].phase
      BY <1>4, <3>1, <3>2
    <3>4. Allowed(x, th[b][t].phase)
      BY <3>2 DEF Allowed
    <3> QED
      BY <3>3, <3>4
  <2> QED
    BY <2>1, <2>2
<1>7. DOMAIN touched' = Block
  BY <1>2, <1>3
<1> QED
  BY <1>1, <1>5, <1>6, <1>7 DEF RaceInv

\* The element of a step.
LEMMA ElementOf ==
    ASSUME AccessInv, RaceInv, NEW b \in Block, NEW t \in Thread, th[b][t].todo # {}
    PROVE  \E p \in 0..WriteBackPhase, e \in Nat :
              /\ p = th[b][t].phase /\ e = Elem(b, t)
              /\ e \in 0..Work(p) - 1 /\ e % launch.threads = t
<1>1. PICK p \in 0..WriteBackPhase : th[b][t].phase = p /\ th[b][t].todo \subseteq Todo(t, p)
  BY DEF RaceInv
<1>2. \A e \in Todo(t, p) : e \in Nat /\ e \in 0..Work(p) - 1 /\ e % launch.threads = t
  BY DEF Todo
<1>3. th[b][t].todo \in SUBSET Nat
  BY <1>1, <1>2
<1>4. Elem(b, t) \in th[b][t].todo
  BY <1>3, Least DEF Elem
<1> QED
  BY <1>1, <1>2, <1>4

\* A thread's step in a sweep.
LEMMA SweepKeeps ==
    ASSUME AccessInv, RaceInv, NEW b \in Block, NEW t \in Thread, UpSweep(b, t) \/ DownSweep(b, t)
    PROVE  RaceInv'
<1>1. PICK s \in Nat : s = Sweeps
  BY SweepFacts DEF AccessInv
<1>2. Root = s + 1 /\ WriteBackPhase = 2 * s + 2
  BY <1>1, Zenon DEF Root, WriteBackPhase
<1>3. th[b][t].todo # {}
  BY DEF UpSweep, DownSweep, At
<1>4. PICK p, e :
        /\ p \in 0..WriteBackPhase /\ e \in Nat /\ p = th[b][t].phase /\ e = Elem(b, t)
        /\ e % launch.threads = t
  BY <1>3, ElementOf
<1>5. PICK o : o = Offset(p)
  OBVIOUS
<1>6. PICK left, right : /\ left = Padded(o * (2 * e + 1) - 1)
                         /\ right = Padded(o * (2 * e + 2) - 1)
  OBVIOUS
<1>7. /\ p # 0 /\ p # Root /\ p # WriteBackPhase /\ launch' = launch
      /\ \/ Step(b, t, {left, right}, {right})
         \/ Step(b, t, {left, right}, {left, right})
  <2>1. CASE UpSweep(b, t)
    <3>1. p \in 1..Sweeps
      BY <1>4, <2>1, Zenon DEF UpSweep, At
    <3>2. o = 2^(p - 1)
      BY <1>5, <3>1, Zenon DEF Offset
    <3>3. Step(b, t, {left, right}, {right}) /\ launch' = launch
      BY <1>4, <1>6, <2>1, <3>2, Zenon DEF UpSweep
    <3> QED
      BY <1>1, <1>2, <3>1, <3>3
  <2>2. CASE DownSweep(b, t)
    <3>1. p \in Root + 1..2 * Sweeps + 1
      BY <1>4, <2>2, Zenon DEF DownSweep, At
    <3>2. p \notin 1..Sweeps
      BY <1>1, <1>2, <3>1
    <3>3. o = 2^(2 * Sweeps + 1 - p)
      BY <1>5, <3>2, Zenon DEF Offset
    <3>4. Step(b, t, {left, right}, {left, right}) /\ launch' = launch
      BY <1>4, <1>6, <2>2, <3>3, Zenon DEF DownSweep
    <3> QED
      BY <1>1, <1>2, <3>1, <3>4
  <2> QED
    BY <2>1, <2>2
<1>8. {left, right} \subseteq MayTouch(t, p)
  <2>1. PICK E : E = {i \in Nat : i % launch.threads = t} \X {1, 2}
    OBVIOUS
  <2>2. <<e, 1>> \in E /\ <<e, 2>> \in E
    BY <1>4, <2>1
  <2>3. MayTouch(t, p) = {Padded(o * (2 * x[1] + x[2]) - 1) : x \in E}
    BY <1>5, <1>7, <2>1, Zenon DEF MayTouch
  <2>4. left \in MayTouch(t, p)
    <3>1. left = Padded(o * (2 * <<e, 1>>[1] + <<e, 1>>[2]) - 1)
      BY <1>6
    <3> QED
      BY <2>2, <2>3, <3>1
  <2>5. right \in MayTouch(t, p)
    <3>1. right = Padded(o * (2 * <<e, 2>>[1] + <<e, 2>>[2]) - 1)
      BY <1>6
    <3> QED
      BY <2>2, <2>3, <3>1
  <2> QED
    BY <2>4, <2>5
<1> QED
  BY <1>4, <1>7, <1>8, StepKeeps

\* A thread's step in another phase.
LEMMA OtherPhaseKeeps ==
    ASSUME AccessInv, RaceInv, NEW b \in Block, NEW t \in Thread,
           Load(b, t) \/ SaveRoot(b, t) \/ WriteBack(b, t)
    PROVE  RaceInv'
<1>1. PICK s \in Nat : s = Sweeps
  BY SweepFacts DEF AccessInv
<1>2. Root = s + 1 /\ WriteBackPhase = 2 * s + 2
  BY <1>1, Zenon DEF Root, WriteBackPhase
<1>3. PICK p : p = th[b][t].phase
  OBVIOUS
<1>4. CASE Load(b, t)
  <2>1. PICK m : m = launch.els \div launch.mini
    OBVIOUS
  <2>2. p = 0 /\ launch' = launch
    BY <1>3, <1>4 DEF Load, At
  <2>3. Step(b, t, {}, {Padded(t * m + j) : j \in 0..m - 1})
    BY <1>4, <2>1 DEF Load
  <2>4. MayTouch(t, p) = {Padded(t * m + j) : j \in 0..m - 1}
    BY <2>1, <2>2, Zenon DEF MayTouch
  <2>5. p # WriteBackPhase
    BY <1>2, <2>2
  <2> QED
    BY <1>3, <2>2, <2>3, <2>4, <2>5, StepKeeps
<1>5. CASE SaveRoot(b, t)
  <2>1. p = Root /\ launch' = launch /\ th[b][t].todo # {}
    BY <1>3, <1>5 DEF SaveRoot, At
  <2>2. Step(b, t, {Padded(MiniBlocks - 1)}, {Padded(MiniBlocks - 1)})
    BY <1>5 DEF SaveRoot
  <2>3. p # 0 /\ p \notin 1..Sweeps /\ p \notin {0, WriteBackPhase} /\ p # WriteBackPhase
    BY <1>1, <1>2, <2>1
  <2>4. Work(p) = 1
    BY <2>1, <2>3, Zenon DEF Work
  <2>5. t = 0
    <3>1. PICK x \in 0..WriteBackPhase, e \in Nat :
             /\ x = th[b][t].phase /\ e = Elem(b, t)
             /\ e \in 0..Work(x) - 1 /\ e % launch.threads = t
      BY <2>1, ElementOf
    <3>2. e \in 0..Work(p) - 1 /\ e % launch.threads = t
      BY <1>3, <3>1
    <3>3. e = 0
      BY <2>4, <3>2
    <3>4. PICK n \in Nat \ {0} : n = launch.threads
      BY SweepFacts DEF AccessInv
    <3>5. 0 % n = 0
      BY Division
    <3> QED
      BY <3>2, <3>3, <3>4, <3>5
  <2>6. MayTouch(t, p) = {Padded(MiniBlocks - 1)}
    BY <2>1, <2>3, <2>5 DEF MayTouch
  <2> QED
    BY <1>3, <2>1, <2>2, <2>3, <2>6, StepKeeps
<1>6. CASE WriteBack(b, t)
  <2>1. p = WriteBackPhase /\ launch' = launch
    BY <1>3, <1>6 DEF WriteBack, At
  <2>2. PICK reads : Step(b, t, reads, {})
    BY <1>6 DEF WriteBack
  <2> QED
    BY <1>3, <2>1, <2>2, StepKeeps
<1> QED
  BY <1>4, <1>5, <1>6

\* The barrier: all threads are in the phase that follows, and nothing is touched yet.
LEMMA BarrierKeeps ==
    ASSUME AccessInv, RaceInv, NEW b \in Block, SyncBlockThreads(b) PROVE RaceInv'
<1>1. /\ launch' = launch /\ touched' = [touched EXCEPT ![b] = {}]
      /\ th' = [th EXCEPT ![b] = [t \in Thread |-> After(t, @[t])]]
  BY DEF SyncBlockThreads
<1>2. /\ Block' = Block /\ Thread' = Thread /\ WriteBackPhase' = WriteBackPhase
      /\ \A t, p : Todo(t, p)' = Todo(t, p)
      /\ \A x, p : Allowed(x, p)' = Allowed(x, p)
  BY <1>1, SamePhases
<1>3. th \in Progress /\ DOMAIN touched = Block /\ WriteBackPhase \in Nat
  <2>1. PICK s \in Nat : s = Sweeps
    BY SweepFacts DEF AccessInv
  <2>2. WriteBackPhase = 2 * s + 2
    BY <2>1, Zenon DEF WriteBackPhase
  <2> QED
    BY <2>1, <2>2 DEF AccessInv, RaceInv
<1>4. PICK p \in 0..WriteBackPhase : \A t \in Thread : th[b][t].phase = p
  BY DEF RaceInv
<1>5. PICK n \in 0..WriteBackPhase : n = IF p < WriteBackPhase THEN p + 1 ELSE 0
  BY <1>3, <1>4
<1>6. ASSUME NEW t \in Thread
      PROVE  th'[b][t].phase = n /\ th'[b][t].todo \subseteq Todo(t, n)
  <2>1. PICK state : state = th[b][t] /\ state \in [chunk : Nat, phase : Nat, todo : SUBSET Int]
                     /\ state.phase = p
    BY <1>3, <1>4 DEF Progress
  <2>2. th'[b][t] = After(t, state)
    BY <1>1, <1>3, <2>1 DEF Progress
  <2>3. CASE p < WriteBackPhase
    <3>1. After(t, state) = [state EXCEPT !.phase = @ + 1, !.todo = Todo(t, p + 1)]
      BY <2>1, <2>3 DEF After
    <3>2. PICK todo : todo = Todo(t, p + 1)
      OBVIOUS
    <3>3. After(t, state).phase = p + 1 /\ After(t, state).todo = todo
      BY <2>1, <3>1, <3>2
    <3> QED
      BY <1>5, <2>2, <2>3, <3>2, <3>3
  <2>4. CASE ~(p < WriteBackPhase)
    <3>1. After(t, state) = Start(t, state.chunk + NumBlocks, level)
      BY <2>1, <2>4 DEF After
    <3>2. Start(t, state.chunk + NumBlocks, level).phase = 0
          /\ Start(t, state.chunk + NumBlocks, level).todo \subseteq Todo(t, 0)
      BY DEF Start
    <3> QED
      BY <1>5, <2>2, <2>4, <3>1, <3>2
  <2> QED
    BY <2>3, <2>4
<1>7. \A c \in Block : c # b => th'[c] = th[c] /\ touched'[c] = touched[c]
  BY <1>1, <1>3 DEF Progress
<1>8. touched'[b] = {} /\ DOMAIN touched' = Block
  BY <1>1, <1>3
<1>9. ASSUME NEW c \in Block
      PROVE  \E q \in 0..WriteBackPhase : \A t \in Thread :
                 th'[c][t].phase = q /\ th'[c][t].todo \subseteq Todo(t, q)
  <2>1. CASE c = b
    BY <1>6, <2>1
  <2>2. CASE c # b
    BY <1>7, <2>2 DEF RaceInv
  <2> QED
    BY <2>1, <2>2
<1>10. ASSUME NEW c \in Block, NEW x \in touched'[c] PROVE Allowed(x, th'[c][x[1]].phase)
  <2>1. c # b
    BY <1>8, <1>10
  <2> QED
    BY <1>7, <1>10, <2>1 DEF RaceInv
<1> QED
  BY <1>2, <1>8, <1>9, <1>10 DEF RaceInv

\* A kernel starts with no accesses.
LEMMA LaunchTouchesNothing ==
    ASSUME AccessInv, NEW s, NEW k, Launch(s, k) PROVE RaceInv'
<1>1. /\ launch' = launch /\ touched' = [b \in Block |-> {}]
      /\ th' = [b \in Block |-> [t \in Thread |-> Start(t, b, k)]]
  BY DEF Launch
<1>2. /\ Block' = Block /\ Thread' = Thread /\ WriteBackPhase' = WriteBackPhase
      /\ \A t, p : Todo(t, p)' = Todo(t, p)
  BY <1>1, SamePhases
<1>3. 0 \in 0..WriteBackPhase
  <2>1. PICK n \in Nat : n = Sweeps
    BY SweepFacts DEF AccessInv
  <2>2. WriteBackPhase = 2 * n + 2
    BY <2>1, Zenon DEF WriteBackPhase
  <2> QED
    BY <2>1, <2>2
<1>4. \A b \in Block, t \in Thread : th'[b][t].phase = 0 /\ th'[b][t].todo \subseteq Todo(t, 0)
  BY <1>1 DEF Start
<1>5. DOMAIN touched' = Block /\ \A b \in Block : touched'[b] = {}
  BY <1>1
<1> QED
  BY <1>2, <1>3, <1>4, <1>5 DEF RaceInv

\* Every step keeps the threads apart.
LEMMA RaceStep == ASSUME AccessInv, RaceInv, [Next]_vars PROVE RaceInv'
<1>1. ASSUME NEW b \in Block, NEW t \in Thread,
             Load(b, t) \/ UpSweep(b, t) \/ SaveRoot(b, t) \/ DownSweep(b, t) \/ WriteBack(b, t)
      PROVE  RaceInv'
  BY <1>1, SweepKeeps, OtherPhaseKeeps
<1>2. ASSUME NEW b \in Block, SyncBlockThreads(b) PROVE RaceInv'
  BY <1>2, BarrierKeeps
<1>3. CASE ScanKernelEnds \/ AddKernelEnds
  <2>1. PICK s, k : Launch(s, k)
    BY <1>3 DEF ScanKernelEnds, AddKernelEnds
  <2> QED
    BY <2>1, LaunchTouchesNothing
<1>4. ASSUME launch' = launch, th' = th, touched' = touched PROVE RaceInv'
  <2>1. /\ Block' = Block /\ Thread' = Thread /\ WriteBackPhase' = WriteBackPhase
        /\ \A t, p : Todo(t, p)' = Todo(t, p)
        /\ \A x, p : Allowed(x, p)' = Allowed(x, p)
    BY <1>4, SamePhases
  <2> QED
    BY <1>4, <2>1 DEF RaceInv
<1>5. CASE AddPack
  BY <1>4, <1>5 DEF AddPack
<1>6. CASE UNCHANGED vars
  BY <1>4, <1>6 DEF vars
<1> QED
  BY <1>1, <1>2, <1>3, <1>5, <1>6 DEF Next

\* A scan starts with no accesses.
LEMMA RaceInit == ASSUME Init PROVE RaceInv
<1>1. /\ launch \in Launches /\ touched = [b \in Block |-> {}]
      /\ th = [b \in Block |-> [t \in Thread |-> Start(t, b, 0)]]
  BY DEF Init
<1>2. 0 \in 0..WriteBackPhase
  <2>1. PICK n \in Nat : n = Sweeps
    BY <1>1, SweepFacts
  <2>2. WriteBackPhase = 2 * n + 2
    BY <2>1, Zenon DEF WriteBackPhase
  <2> QED
    BY <2>1, <2>2
<1>3. \A b \in Block, t \in Thread : th[b][t].phase = 0 /\ th[b][t].todo \subseteq Todo(t, 0)
  BY <1>1 DEF Start
<1> QED
  BY <1>1, <1>2, <1>3 DEF RaceInv

\* Threads that touch what is theirs do not race.
LEMMA NoRace == ASSUME AccessInv, RaceInv PROVE NoSharedRace
<1>1. SUFFICES ASSUME NEW b \in Block, NEW x \in touched[b], NEW y \in touched[b],
                      x[2] = y[2], x[3] = "write"
               PROVE  x[1] = y[1]
  BY DEF NoSharedRace
<1>2. PICK p \in 0..WriteBackPhase : \A t \in Thread : th[b][t].phase = p
  BY DEF RaceInv
<1>3. Allowed(x, th[b][x[1]].phase) /\ Allowed(y, th[b][y[1]].phase)
  BY DEF RaceInv
<1>4. x[1] \in Thread /\ y[1] \in Thread /\ Allowed(x, p) /\ Allowed(y, p)
  BY <1>2, <1>3 DEF Allowed
<1>5. p # WriteBackPhase
  BY <1>1, <1>4 DEF Allowed
<1>6. x[2] \in MayTouch(x[1], p) /\ x[2] \in MayTouch(y[1], p)
  BY <1>1, <1>4, <1>5 DEF Allowed
<1> QED
  BY <1>2, <1>4, <1>5, <1>6, ThreadsApart DEF AccessInv

-----------------------------------------------------------------------------
(* The theorems.                                                           *)

\* No kernel of a scan accesses an element behind the end of its level (ScanBlocksKernel copies
\* full chunks without a check, ScanAddIncrementsKernel adds in SIMD packs), for any number of
\* elements and any shape.
THEOREM AccessesAreInBounds == Spec => []AccessesInBounds
<1>1. Init => AccessInv /\ BufferInv
  BY ScanInit
<1>2. AccessInv /\ BufferInv /\ [Next]_vars => (AccessInv /\ BufferInv)'
  BY ScanStep
<1>3. AccessInv => AccessesInBounds
  BY DEF AccessInv
<1> QED
  BY <1>1, <1>2, <1>3, PTL DEF Spec

\* The buffer that scanBufferSize asks for has room for the sums of every level of the
\* recursion, for any number of elements and any chunk size.
THEOREM BufferIsLargeEnough == Spec => []BufferSuffices
<1>1. Init => AccessInv /\ BufferInv
  BY ScanInit
<1>2. AccessInv /\ BufferInv /\ [Next]_vars => (AccessInv /\ BufferInv)'
  BY ScanStep
<1>3. BufferInv => BufferSuffices
  BY BufferIsEnough
<1> QED
  BY <1>1, <1>2, <1>3, PTL DEF Spec

\* In no sweep, and not when a block goes on to its next chunk, does a thread of ScanBlocksKernel
\* access shared memory that another thread writes without a barrier between, in any shape.
THEOREM SweepsDoNotRace == Spec => []NoSharedRace
<1>1. Init => AccessInv /\ BufferInv /\ RaceInv
  BY ScanInit, RaceInit
<1>2. AccessInv /\ BufferInv /\ RaceInv /\ [Next]_vars => (AccessInv /\ BufferInv /\ RaceInv)'
  BY ScanStep, RaceStep
<1>3. AccessInv /\ RaceInv => NoSharedRace
  BY NoRace
<1> QED
  BY <1>1, <1>2, <1>3, PTL DEF Spec
=============================================================================
