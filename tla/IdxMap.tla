------------------------------- MODULE IdxMap -------------------------------
(***************************************************************************)
(* onAcc::makeIdxMap: how the threads of a worker group share the indices  *)
(* of a range.  Every thread iterates over a container (FlatIdxContainer   *)
(* or TiledIdxContainer) with a strided or a contiguous layout, over all   *)
(* dimensions or over a selection of them; a stencil kernel does so for    *)
(* each of the 3^n boundary directions of the range.                       *)
(*                                                                         *)
(* Threads share nothing but the elements they visit, and counting visits  *)
(* commutes, so they are run one after the other.  A vector is a sequence  *)
(* with the slowest dimension first; dimension d here is d - 1 in the code.*)
(***************************************************************************)
EXTENDS Naturals, Sequences, FiniteSets, Bags, FiniteSetsExt, Vectors

CONSTANTS Launches,     \* what may be iterated, by which threads and how
          Modulus,      \* bound: IdxType holds 0 .. Modulus - 1
          MaxVisits     \* bound: the visits of an index are counted up to here

Vec == Seq(Nat)

\* What a launch is: a range and the number of threads in each dimension, the
\* dimensions that are selected, and halos if the range is split into boundary
\* directions.
WellFormed(l) ==
    /\ l \in [begin : Vec, end : Vec, stride : Vec, count : Vec, select : Vec,
              traverse : {"flat", "tiled"}, layout : {"strided", "contiguous"},
              lower : Vec, upper : Vec]
    /\ \A v \in {l.begin, l.end, l.stride, l.count} : Len(v) = Len(l.begin)
    /\ \A d \in Dims(l.begin) : l.begin[d] <= l.end[d] /\ l.stride[d] > 0 /\ l.count[d] > 0
    /\ l.select # <<>> /\ \A k \in Dims(l.select) : l.select[k] \in Dims(l.begin)
    /\ \A j, k \in Dims(l.select) : l.select[j] = l.select[k] => j = k
    \* halos fit into the range and keep its stride; all dimensions are selected
    /\ l.lower # <<>> =>
          /\ Len(l.lower) = Len(l.begin) /\ Len(l.upper) = Len(l.begin)
          /\ \A d \in Dims(l.begin) :
                /\ \E k \in Dims(l.select) : l.select[k] = d
                /\ l.lower[d] + l.upper[d] <= l.end[d] - l.begin[d]
                /\ l.lower[d] % l.stride[d] = 0
                /\ (l.end[d] - l.upper[d] - l.begin[d]) % l.stride[d] = 0
    \* the index that ends a loop still is an IdxType
    /\ l.traverse = "tiled" =>
          \A d \in Dims(l.begin) : l.end[d] + Product(l.count) * l.stride[d] <= Modulus

ASSUME IdxMapAssumption ==
    /\ Modulus \in Nat \ {0, 1}
    /\ MaxVisits \in Nat \ {0, 1}
    /\ \A l \in Launches : WellFormed(l)

VARIABLES launch,       \* the kernel launch
          direction,    \* the boundary direction that is iterated
          worker,       \* linear index of the thread that iterates
          it,           \* its loop: the iterator and the end
          visits        \* how often each index was visited

vars == <<launch, direction, worker, it, visits>>

-----------------------------------------------------------------------------
(* Integers of the index type.                                             *)

Wrap(x) == x % Modulus

Less(a, b) == IF a < b THEN a ELSE b

DivCeil(a, b) == Wrap(a + b - 1) \div b

-----------------------------------------------------------------------------
(* Boundary directions.                                                    *)

\* the end of the directions
OutOfBounds(n) == [d \in 1..n |-> "oob"]

\* mutant of NextDirection: the last direction is followed by the first
NextDirectionWraps(dir) ==
    LET open == {d \in Dims(dir) : dir[d] # "upper"}
        c == IF open = {} THEN 0 ELSE Max(open)
    IN  [d \in Dims(dir) |->
            IF d < c THEN dir[d]
            ELSE IF d > c THEN "lower"
            ELSE IF dir[d] = "lower" THEN "middle" ELSE "upper"]

\* operator++ of BoundaryDirectionIter: count in base three, the last digit
\* first; past the last direction everything is out of bounds
NextDirection(dir) ==
    LET open == {d \in Dims(dir) : dir[d] # "upper"}
        c == Max(open)
    IN  IF open = {} THEN OutOfBounds(Len(dir))
        ELSE [d \in Dims(dir) |->
                 IF d < c THEN dir[d]
                 ELSE IF d > c THEN "lower"
                 ELSE IF dir[d] = "lower" THEN "middle" ELSE "upper"]

\* makeDirectionSubRange: the part of the range that lies in the direction
DirectionSubRange(l, dir) ==
    IF l.lower = <<>> THEN l
    ELSE [l EXCEPT
            !.begin = [d \in Dims(dir) |->
                CASE dir[d] = "lower" -> l.begin[d]
                  [] dir[d] = "middle" -> l.begin[d] + l.lower[d]
                  [] dir[d] = "upper" -> l.end[d] - l.upper[d]],
            !.end = [d \in Dims(dir) |->
                CASE dir[d] = "lower" -> l.begin[d] + l.lower[d]
                  [] dir[d] = "middle" -> l.end[d] - l.upper[d]
                  [] dir[d] = "upper" -> l.end[d]]]

-----------------------------------------------------------------------------
(* ThreadSpace::mapTo: the threads of the dimensions that are not selected *)
(* join the slowest selected dimension.                                    *)

\* mutant of MapTo: the other dimensions' threads are not counted
MapToSameCount(l, t) ==
    LET out == Dims(t) \ {l.select[i] : i \in Dims(l.select)}
        s == l.select[1]
    IN  [idx |-> [d \in Dims(t) |->
                    IF d \in out THEN 0
                    ELSE IF d = s THEN t[s] + MapThenSumSet(LAMBDA o : t[o] * l.count[s], out)
                    ELSE t[d]],
         num |-> [d \in Dims(t) |-> IF d \in out THEN 1 ELSE l.count[d]]]

MapTo(l, t) ==
    LET out == Dims(t) \ {l.select[i] : i \in Dims(l.select)}
        s == l.select[1]
    IN  [idx |-> [d \in Dims(t) |->
                    IF d \in out THEN 0
                    ELSE IF d = s THEN t[s] + MapThenSumSet(LAMBDA o : t[o] * l.count[s], out)
                    ELSE t[d]],
         num |-> [d \in Dims(t) |->
                    IF d \in out THEN 1
                    ELSE IF d = s
                    THEN Product([i \in Dims(t) |-> IF i \in out \cup {s} THEN l.count[i] ELSE 1])
                    ELSE l.count[d]]]

Distance(l) == [d \in Dims(l.begin) |-> l.end[d] - l.begin[d]]

\* how many indices the range has in each dimension
Extents(l) == [d \in Dims(l.begin) |-> DivCeil(Distance(l)[d], l.stride[d])]

\* mutant of SlotBegin: the remainder is not distributed
SlotBeginNoRemainder(k, n, slots) == k * (n \div slots)

\* n elements in contiguous slots, the first n % slots of them one larger:
\* where slot k begins
SlotBegin(k, n, slots) == k * (n \div slots) + Less(k, n % slots)

-----------------------------------------------------------------------------
(* FlatIdxContainer: the iterator is a linear index into the selected      *)
(* dimensions.                                                             *)

\* begin(); the contiguous layout counts its slots in the unmapped space
FlatBegin(l, t) ==
    LET m == MapTo(l, t)
        extent == Pick(Extents(l), l.select)
        slots == Pick(l.count, l.select)
        strided == l.layout = "strided"
    IN  [offset |-> [d \in Dims(t) |->
                        l.begin[d] + (IF \E i \in Dims(l.select) : l.select[i] = d THEN 0
                                      ELSE m.idx[d] * l.stride[d])],
         extent |-> extent,
         current |-> IF strided
                     THEN Linearize(Pick(m.num, l.select), Pick(m.idx, l.select))
                     ELSE SlotBegin(Linearize(slots, Pick(m.idx, l.select)), Product(extent),
                                    Product(slots)),
         step |-> IF strided THEN Product(Pick(m.num, l.select)) ELSE 1]

\* end(); here the contiguous layout counts them in the mapped space
FlatEnd(l, t) ==
    LET m == MapTo(l, t)
        n == Product(Pick(Extents(l), l.select))
        slot == Linearize(Pick(m.num, l.select), Pick(m.idx, l.select))
    IN  IF l.layout = "strided" THEN n
        ELSE Less(SlotBegin(slot + 1, n, Product(Pick(m.num, l.select))), n)

\* operator*
FlatIndex(l, i) ==
    LET md == MapToND(i.extent, i.current)
    IN  [d \in Dims(i.offset) |->
            IF \E k \in Dims(l.select) : l.select[k] = d
            THEN LET k == CHOOSE k \in Dims(l.select) : l.select[k] = d
                 IN  i.offset[d] + md[k] * l.stride[d]
            ELSE i.offset[d]]

\* operator++
FlatNext(i) == [i EXCEPT !.current = Wrap(@ + i.step)]

-----------------------------------------------------------------------------
(* TiledIdxContainer: the iterator is an index vector that is advanced     *)
(* with carry, the fastest selected dimension first.                       *)

TiledFirst(l, m) ==
    [d \in Dims(m.idx) |->
        l.stride[d] * (IF l.layout = "strided" THEN m.idx[d]
                       ELSE SlotBegin(m.idx[d], Extents(l)[d], m.num[d]))]

\* where a thread's part of the range ends, relative to its begin
TiledLast(l, m) ==
    [d \in Dims(m.idx) |->
        IF l.layout = "strided" THEN Distance(l)[d]
        ELSE Less(Distance(l)[d],
                  l.stride[d] * SlotBegin(m.idx[d] + 1, Extents(l)[d], m.num[d]))]

\* mutant of TiledBegin: no check of the faster dimensions
TiledBeginUnchecked(l, t) ==
    LET m == MapTo(l, t)
        first == [d \in Dims(t) |-> l.begin[d] + TiledFirst(l, m)[d]]
        last == [d \in Dims(t) |-> l.begin[d] + TiledLast(l, m)[d]]
    IN  [first |-> Pick(first, l.select),
         extent |-> Pick(last, l.select),
         step |-> [i \in Dims(l.select) |->
                      l.stride[l.select[i]]
                      * (IF l.layout = "strided" THEN m.num[l.select[i]] ELSE 1)],
         current |-> first]

\* begin(): a thread that is out of range in a faster dimension has no index
TiledBegin(l, t) ==
    LET m == MapTo(l, t)
        first == [d \in Dims(t) |-> l.begin[d] + TiledFirst(l, m)[d]]
        last == [d \in Dims(t) |-> l.begin[d] + TiledLast(l, m)[d]]
        valid == \A i \in 2..Len(l.select) : first[l.select[i]] < last[l.select[i]]
    IN  [first |-> Pick(first, l.select),
         extent |-> Pick(last, l.select),
         step |-> [i \in Dims(l.select) |->
                      l.stride[l.select[i]]
                      * (IF l.layout = "strided" THEN m.num[l.select[i]] ELSE 1)],
         current |-> IF valid THEN first
                     ELSE [first EXCEPT ![l.select[1]] = last[l.select[1]]]]

\* end(): the slowest selected dimension decides
TiledEnd(l, t) == l.begin[l.select[1]] + TiledLast(l, MapTo(l, t))[l.select[1]]

\* operator++: a dimension that overflows starts again and carries over, down
\* to dimension c of the selection
TiledNext(l, i) ==
    LET Moved(k) == Wrap(i.current[l.select[k]] + i.step[k])
        stop == {k \in Dims(l.select) : k = 1 \/ Moved(k) < i.extent[k]}
        c == Max(stop)
    IN  [i EXCEPT !.current =
            [d \in Dims(@) |->
                IF d = l.select[c] THEN Moved(c)
                ELSE IF \E k \in c + 1..Len(l.select) : l.select[k] = d
                THEN i.first[CHOOSE k \in Dims(l.select) : l.select[k] = d]
                ELSE @[d]]]

-----------------------------------------------------------------------------
(* The range-based for loops of all threads.                               *)

Flat(l) == l.traverse = "flat"

Thread(l, k) == MapToND(l.count, k)

\* what a range-based for loop of thread t evaluates before its first round
Loop(l, t) ==
    IF Flat(l) THEN [iter |-> FlatBegin(l, t), end |-> FlatEnd(l, t)]
    ELSE [iter |-> TiledBegin(l, t), end |-> TiledEnd(l, t)]

\* operator== of an iterator and the end of the loop
AtEnd(l, loop) ==
    (IF Flat(l) THEN loop.iter.current ELSE loop.iter.current[l.select[1]]) >= loop.end

\* operator* and operator++
Index(l, loop) == IF Flat(l) THEN FlatIndex(l, loop.iter) ELSE loop.iter.current

Increment(l, loop) ==
    [loop EXCEPT !.iter = IF Flat(l) THEN FlatNext(@) ELSE TiledNext(l, @)]

\* the bag of visits and once more the indices in S
Count(bag, S) == bag (+) SetToBag({x \in S : x \notin BagToSet(bag) \/ bag[x] < MaxVisits})

FirstDirection(l) == [d \in Dims(l.begin) |-> IF l.lower = <<>> THEN "middle" ELSE "lower"]

Init ==
    /\ launch \in Launches
    /\ direction = FirstDirection(launch)
    /\ worker = 0
    /\ it = Loop(DirectionSubRange(launch, direction), Thread(launch, 0))
    /\ visits = EmptyBag

Finished == direction[1] = "oob"

\* the body of the loop is run for *it, then ++it
Visit ==
    /\ ~Finished /\ ~AtEnd(launch, it)
    /\ visits' = Count(visits, {Index(launch, it)})
    /\ it' = Increment(launch, it)
    /\ UNCHANGED <<launch, direction, worker>>

NextThread ==
    /\ ~Finished /\ AtEnd(launch, it)
    /\ worker + 1 < Product(launch.count)
    /\ worker' = worker + 1
    /\ it' = Loop(DirectionSubRange(launch, direction), Thread(launch, worker + 1))
    /\ UNCHANGED <<launch, direction, visits>>

\* the last thread is done: the next boundary direction, if there is one
EndOfDirection ==
    /\ ~Finished /\ AtEnd(launch, it)
    /\ worker + 1 = Product(launch.count)
    /\ direction' = IF launch.lower = <<>> THEN OutOfBounds(Len(direction))
                    ELSE NextDirection(direction)
    /\ worker' = 0
    /\ it' = IF direction'[1] = "oob" THEN it
             ELSE Loop(DirectionSubRange(launch, direction'), Thread(launch, 0))
    /\ UNCHANGED <<launch, visits>>

Next == Visit \/ NextThread \/ EndOfDirection \/ (Finished /\ UNCHANGED vars)

\* Every thread of a kernel runs on.
Spec == Init /\ [][Next]_vars /\ WF_vars(Next)

-----------------------------------------------------------------------------
(* Properties.                                                             *)

\* What the loops are to visit: every index of the selected dimensions, at
\* the begin of the range in the others.
IsIndex(l, x) ==
    \A d \in Dims(x) :
        IF \E k \in Dims(l.select) : l.select[k] = d
        THEN /\ l.begin[d] <= x[d] /\ x[d] < l.end[d]
             /\ (x[d] - l.begin[d]) % l.stride[d] = 0
        ELSE x[d] = l.begin[d]

\* "This ensures that no out-of-range memory access happens" (tutorial), for
\* any number of threads, any range and any layout.
VisitsInRange == \A x \in BagToSet(visits) : IsIndex(launch, x)

\* The dimensions that are not selected and have several threads.
Folded(l) == {d \in Dims(l.begin) : l.count[d] > 1 /\ \A k \in Dims(l.select) : l.select[k] # d}

\* Launches of which the threads share out the indices.  MapTo numbers the
\* threads if at most one dimension is folded, and the two ends of a flat
\* contiguous loop agree if none is; the number that ends a flat loop still is
\* an IdxType.
SharedOut(l) ==
    /\ \A c, d \in Folded(l) : c = d
    /\ Flat(l) =>
          /\ l.layout = "contiguous" => Folded(l) = {}
          /\ \A d \in Dims(l.begin) : l.end[d] + l.stride[d] <= Modulus
          /\ Product(Pick(Extents(l), l.select)) + FlatBegin(l, Thread(l, 0)).step <= Modulus

\* "each value is only set by a single thread and not twice" (test of
\* makeIdxMap): no two threads, and no two boundary directions, share an index.
NoIndexTwice == \A x \in BagToSet(visits) : visits[x] = 1

\* "All elements in out are processed by the worker group independently of
\* the parallelism specified" (tutorial).
AllIndicesVisited ==
    Finished => \A x \in [Dims(launch.begin) -> 0..Max({launch.end[d] : d \in Dims(launch.end)})] :
                    IsIndex(launch, x) => x \in BagToSet(visits)

\* The loops end: no iterator wraps around below its end.
LoopsTerminate == <>Finished
=============================================================================
