------------------------------ MODULE SimdAlgo ------------------------------
(***************************************************************************)
(* onAcc::SimdAlgo: concurrent() and transformReduce() of a worker group,  *)
(* which iota, transform, reduce and the second kernel of a scan consist   *)
(* of.  Most of the fastest dimension is done in calls of the functor for  *)
(* several SIMD packs, whose indices are taken from an index map without   *)
(* checking for its end; what remains is done element by element.  With    *)
(* the flat traversal of several dimensions an outer loop shares out the   *)
(* rows and an inner one the packs of a row.                               *)
(*                                                                         *)
(* The module adds these calls to the plain loops of IdxMap, on the same   *)
(* variables and under the same properties.                                *)
(***************************************************************************)
EXTENDS IdxMap

CONSTANT SimdLaunches   \* extents, worker group, traversal and layout, types

VARIABLES part,         \* "none": a plain loop; "start", "rows", "packs", "rest"
          rows,         \* the outer loop
          range,        \* what the loop in hand shares out
          called        \* packs that this call of the functor has got

simdVars == <<vars, part, rows, range, called>>

-----------------------------------------------------------------------------
(* calcSimdPackConfig, from sizes in bytes: of an element, of the widest   *)
(* SIMD pack, of a cache line and of what one call may work on.            *)

SimdWidth(s) == BitFloor(Max({Min({s.arch \div s.elem, s.budget \div s.elem}), 1}))

\* a multiple of a cache line, if one fits
NumSimdPacksPerFnCall(s) ==
    LET bytes == SimdWidth(s) * s.elem
        packs == DivExZero(s.budget, bytes)
        perLine == DivExZero(s.line, bytes)
    IN  IF packs >= perLine THEN Max({(packs \div perLine) * perLine, 1}) ELSE packs

Width(l) == SimdWidth(l.simd)
Packs(l) == NumSimdPacksPerFnCall(l.simd)

ASSUME SimdAlgoAssumption ==
    \A l \in SimdLaunches :
        /\ \A b \in {l.simd.elem, l.simd.arch, l.simd.line, l.simd.budget} : b \in Nat \ {0}
        /\ l.begin = Fill(Len(l.end), 0) /\ l.stride = Fill(Len(l.end), 1)
        /\ l.select = [d \in Dims(l.end) |-> d] /\ l.lower = <<>>

-----------------------------------------------------------------------------
(* The loops of a worker.                                                  *)

\* mutant of RemainderBegin: the calls are not divided by the workers
RemainderBeginPerCall(l) ==
    LET perCall == Width(l) * Packs(l)
    IN  IF Width(l) = 1 THEN 0 ELSE (X(l.end) \div perCall) * perCall

\* the elements of a row that are done in packs: all workers do equally many
\* calls of full packs
RemainderBegin(l) ==
    LET perCall == Width(l) * Packs(l)
        loops == (X(l.end) \div perCall) \div X(l.count)
    IN  IF Width(l) = 1 THEN 0 ELSE loops * perCall * X(l.count)

ByRows(l) == Flat(l) /\ Len(l.end) > 1

\* the loop over rows, for the workers that differ in the slower dimensions
Outer(l) == [l EXCEPT !.end = WithX(@, 1), !.count = WithX(@, 1)]

\* the packs of a row, for the workers that differ in x
Inner(l, row) ==
    [l EXCEPT !.begin = row,
              !.end = WithX(@, RemainderBegin(l)),
              !.stride = WithX(@, Width(l)),
              !.count = WithX(Fill(Len(@), 1), X(@)),
              !.select = <<Len(l.end)>>]

\* the packs of all dimensions
AllPacks(l) == [l EXCEPT !.end = WithX(@, RemainderBegin(l)), !.stride = WithX(@, Width(l))]

Remainder(l) == [l EXCEPT !.begin = WithX(@, RemainderBegin(l))]

\* the worker's index in the group that shares out the rows, or the range
RowGroup(l, k) == WithX(Thread(l, k), 0)

Group(l, k) ==
    LET t == Thread(l, k)
    IN  IF part = "packs" /\ ByRows(l) THEN WithX(Fill(Len(t), 0), X(t)) ELSE t

-----------------------------------------------------------------------------
(* Actions.                                                                *)

\* no loop has begun
NoLoop == [iter |-> <<>>, end |-> 0]

\* makeIdxMap
Share(p, r) == part' = p /\ range' = r /\ it' = NoLoop

\* the worker calls the algorithm
Start ==
    /\ part = "start"
    /\ \/ Width(launch) = 1 /\ Share("rest", Remainder(launch)) /\ UNCHANGED rows
       \/ Width(launch) > 1 /\ ~ByRows(launch) /\ Share("packs", AllPacks(launch)) /\ UNCHANGED rows
       \/ /\ Width(launch) > 1 /\ ByRows(launch)
          /\ part' = "rows"
          /\ rows' = Loop(Outer(launch), RowGroup(launch, worker))
          /\ UNCHANGED <<range, it>>
    /\ UNCHANGED <<launch, direction, worker, visits, called>>

NextRow ==
    /\ part = "rows"
    /\ \/ ~AtEnd(Outer(launch), rows) /\ Share("packs", Inner(launch, Index(Outer(launch), rows)))
       \/ AtEnd(Outer(launch), rows) /\ Share("rest", Remainder(launch))
    /\ UNCHANGED <<launch, direction, worker, visits, rows, called>>

\* begin() and end()
Begin ==
    /\ part \in {"packs", "rest"} /\ it = NoLoop
    /\ it' = Loop(range, Group(launch, worker))
    /\ UNCHANGED <<launch, direction, worker, visits, part, rows, range, called>>

Ended == it # NoLoop /\ AtEnd(range, it)

InLoop == it # NoLoop /\ ~AtEnd(range, it)

\* A call of the functor takes its packs one after the other, each of Width
\* elements of a row; only before the first of them is the end looked at.
FnCall ==
    /\ part = "packs" /\ (called > 0 \/ InLoop)
    /\ called' = (called + 1) % Packs(launch)
    /\ LET i == Index(range, it)
       IN  visits' = Count(visits, {WithX(i, X(i) + e) : e \in 0..Width(launch) - 1})
    /\ it' = Increment(range, it)
    /\ UNCHANGED <<launch, direction, worker, part, rows, range>>

EndOfPacks ==
    /\ part = "packs" /\ called = 0 /\ Ended
    /\ \/ /\ ByRows(launch)
          /\ part' = "rows" /\ rows' = Increment(Outer(launch), rows)
          /\ UNCHANGED <<range, it>>
       \/ ~ByRows(launch) /\ Share("rest", Remainder(launch)) /\ UNCHANGED rows
    /\ UNCHANGED <<launch, direction, worker, visits, called>>

\* the remaining elements, one by one
RemainderVisit ==
    /\ part = "rest" /\ ~Finished /\ InLoop
    /\ visits' = Count(visits, {Index(range, it)})
    /\ it' = Increment(range, it)
    /\ UNCHANGED <<launch, direction, worker, part, rows, range, called>>

NextWorker ==
    /\ part = "rest" /\ ~Finished /\ Ended
    /\ IF worker + 1 < Product(launch.count)
       THEN worker' = worker + 1 /\ part' = "start" /\ UNCHANGED direction
       ELSE direction' = OutOfBounds(Len(direction)) /\ UNCHANGED <<worker, part>>
    /\ UNCHANGED <<launch, it, visits, rows, range, called>>

SimdInit ==
    /\ \/ Init /\ part = "none"
       \/ /\ launch \in SimdLaunches
          /\ direction = FirstDirection(launch)
          /\ worker = 0 /\ it = NoLoop /\ visits = EmptyBag
          /\ part = "start"
    /\ rows = NoLoop /\ called = 0 /\ range = launch

SimdNext ==
    \/ part = "none" /\ Next /\ UNCHANGED <<part, rows, range, called>>
    \/ Start \/ NextRow \/ Begin \/ FnCall \/ EndOfPacks \/ RemainderVisit \/ NextWorker
    \/ part = "rest" /\ Finished /\ UNCHANGED simdVars

\* Every worker of a kernel runs on.
SimdSpec == SimdInit /\ [][SimdNext]_simdVars /\ WF_simdVars(SimdNext)
=============================================================================
