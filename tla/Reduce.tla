------------------------------- MODULE Reduce -------------------------------
(***************************************************************************)
(* onHost::transformReduce and reduce: the shape of the launch, derived    *)
(* from the device and the extents, and SimdTransformReduceKernel.  Each   *)
(* cell of a block's shared memory stands for a worker among all cells of  *)
(* all chunks and takes this worker's share of the data; the cells of a    *)
(* block are then reduced in sweeps that barriers keep apart, and one      *)
(* thread of each block updates the result atomically.                     *)
(*                                                                         *)
(* The module adds the kernel to those of Scan, on the same variables and  *)
(* under the same properties.  A value is the bag of the elements that are *)
(* reduced in it, for any reduction that is associative and commutative.   *)
(***************************************************************************)
EXTENDS Scan, Bags, Sequences, Vectors

CONSTANT Reductions     \* extents, executor and device

ASSUME ReduceAssumption ==
    \A r \in Reductions :
        /\ r.exec \in {"serial", "sequential", "parallel"}
        /\ r.layout \in {"strided", "contiguous"} /\ r.atomic \in {"fetch", "exchange"}
        /\ \A d \in Dims(r.extents) : r.extents[d] \in Nat \ {0}
        /\ \A x \in {r.warp, r.frameTarget, r.perThread, r.maxFrames, r.maxThreads, r.simd, r.packs} :
              x \in Nat \ {0}
        /\ r.frameTarget = BitFloor(r.frameTarget) /\ r.simd = BitFloor(r.simd)

-----------------------------------------------------------------------------
(* The shape of the launch.                                                *)

FirstLargest(v) == Min({d \in Dims(v) : \A e \in Dims(v) : v[e] <= v[d]})

\* getFrameSpec: begin with a warp in x, then double where the extents are
\* largest in relation, up to the target
FrameExtents(r) ==
    LET warp == BitFloor(Min({r.warp, X(r.extents)}))
        grown[k \in 0..Log2(r.frameTarget) - Log2(warp)] ==
            IF k = 0 THEN WithX(Fill(Len(r.extents), 1), warp)
            ELSE LET f == grown[k - 1]
                     room == [d \in Dims(f) |-> (r.extents[d] \div f[d]) \div 2]
                 IN  IF room = Fill(Len(f), 0) THEN f
                     ELSE [f EXCEPT ![FirstLargest(room)] = @ * 2]
    IN  IF warp > r.frameTarget THEN WithX(Fill(Len(r.extents), 1), warp)
        ELSE grown[Log2(r.frameTarget) - Log2(warp)]

\* api::util::adjustToLimit: halve the largest component
AdjustToLimit(v, limit) ==
    LET halved[k \in 0..Product(v)] ==
            IF k = 0 THEN v
            ELSE LET w == halved[k - 1]
                 IN  IF Product(w) <= limit THEN w
                     ELSE [w EXCEPT ![FirstLargest(w)] = DivExZero(@, 2)]
    IN  halved[Product(v)]

\* getSimdFrameSpec and the limit of transformReduce
NumFrames(r, frame) ==
    AdjustToLimit([d \in Dims(frame) |->
                       DivExZero(r.extents[d], frame[d] * (IF d = Len(frame) THEN r.perThread ELSE 1))],
                  r.maxFrames)

\* the launch; AdjustThreadSpec of the executor has the blocks and threads
Reduction(r) ==
    LET frame == FrameExtents(r)
        chunks == NumFrames(r, frame)
    IN  [extents |-> r.extents, n |-> Product(r.extents), frame |-> frame, chunks |-> chunks,
         blocks |-> IF r.exec = "serial" THEN 1 ELSE Product(chunks),
         threads |-> IF r.exec = "parallel" THEN Product(AdjustToLimit(frame, r.maxThreads)) ELSE 1,
         els |-> 1, layout |-> r.layout, simd |-> r.simd, packs |-> r.packs, atomic |-> r.atomic]

-----------------------------------------------------------------------------
(* Who reduces what.                                                       *)

\* what a worker of num has of n indices that are traversed flat (IdxMap)
Share(worker, num, n) ==
    LET Slot(k) == k * (n \div num) + Min({k, n % num})
    IN  IF launch.layout = "strided" THEN {i \in 0..n - 1 : i % num = worker}
        ELSE Slot(worker)..Slot(worker + 1) - 1

\* SimdAlgo::transformReduce: the elements of worker w of W, rows of packs and
\* then the rest of all rows
ElementsOf(w, W) ==
    LET x == X(launch.extents)
        perCall == launch.simd * launch.packs
        packed == IF launch.simd = 1 THEN 0 ELSE ((x \div perCall) \div X(W)) * perCall * X(W)
        rows == Share(Linearize(Slower(W, 1), Slower(w, 1)), Product(Slower(W, 1)),
                      Product(Slower(launch.extents, 1)))
        packs == Share(X(w), X(W), packed \div launch.simd)
        rest == Share(Linearize(W, w), Product(W), Product(WithX(launch.extents, x - packed)))
    IN  {row * x + p * launch.simd + e : row \in rows, p \in packs, e \in 0..launch.simd - 1}
        \cup {(i \div (x - packed)) * x + packed + (i % (x - packed)) : i \in rest}

Cells == Product(launch.frame)

\* the worker that cell e is in chunk c
Worker(c, e) ==
    LET chunk == MapToND(launch.chunks, c)
        elem == MapToND(launch.frame, e)
    IN  [d \in Dims(elem) |-> chunk[d] * launch.frame[d] + elem[d]]

Workers == [d \in Dims(launch.frame) |-> launch.chunks[d] * launch.frame[d]]

\* what block b reduces in cell e, in all chunks it takes
CellElements(b, e) ==
    LET shares == [c \in Share(b, NumBlocks, Product(launch.chunks)) |->
                      ElementsOf(Worker(c, e), Workers)]
    IN  [i \in UNION {shares[c] : c \in DOMAIN shares} |->
            Cardinality({c \in DOMAIN shares : i \in shares[c]})]

-----------------------------------------------------------------------------
(* SimdTransformReduceKernel, with the phases of a block: reduce into the  *)
(* cells, aggregate the cells, and Log2 of the threads sweeps of the tree. *)

Aggregation == 1
LastSweep == Aggregation + Log2(launch.threads)

\* the atomic update has read the result; it is done
Read == LastSweep + 1
Updated == LastSweep + 2

\* the threads that work in a phase
Active(t, phase) ==
    IF phase \in Aggregation + 1..LastSweep
    THEN t < launch.threads \div 2^(phase - Aggregation) ELSE TRUE

Fresh(t, phase) ==
    [chunk |-> 0, phase |-> phase, todo |-> IF Active(t, phase) THEN {0} ELSE {}]

In(b, t, P(_)) == stage = "reduce" /\ th[b][t].todo # {} /\ P(th[b][t].phase)

\* the values of the cells in S, reduced
Reduced(b, S) ==
    [i \in UNION {DOMAIN tmp[b][e] : e \in S} |->
        MapThenSumSet(LAMBDA e : CopiesIn(i, tmp[b][e]), S)]

ReduceCells(b, t) ==
    /\ In(b, t, LAMBDA p : p = 0)
    /\ LET mine == Share(t, launch.threads, Cells)
       IN  /\ tmp' = [tmp EXCEPT ![b] = [e \in DOMAIN @ |->
                                            IF e \in mine THEN CellElements(b, e) ELSE @[e]]]
           /\ Step(b, t, mine, mine)
           /\ accessed' = accessed \cup UNION {DOMAIN CellElements(b, e) : e \in mine}
    /\ UNCHANGED <<launch, stage, level, out, buf, reg, added>>

\* the cells behind those of the threads
Aggregate(b, t) ==
    /\ In(b, t, LAMBDA p : p = Aggregation)
    /\ LET mine == {t} \cup {launch.threads + i :
                                i \in Share(t, launch.threads, Cells - launch.threads)}
       IN  /\ tmp' = [tmp EXCEPT ![b][t] = Reduced(b, mine)]
           /\ Step(b, t, mine, {t})
    /\ UNCHANGED <<launch, stage, level, out, buf, reg, accessed, added>>

Sweep(b, t) ==
    /\ In(b, t, LAMBDA p : p \in Aggregation + 1..LastSweep)
    /\ LET offset == launch.threads \div 2^(th[b][t].phase - Aggregation)
       IN  /\ tmp' = [tmp EXCEPT ![b][t] = Reduced(b, {t, t + offset})]
           /\ Step(b, t, {t, t + offset}, {t})
    /\ UNCHANGED <<launch, stage, level, out, buf, reg, accessed, added>>

\* syncBlockThreads, before every phase but the first; none after the last
ReduceSync(b) ==
    /\ stage = "reduce"
    /\ \A t \in Thread : th[b][t].todo = {} /\ th[b][t].phase < LastSweep
    /\ th' = [th EXCEPT ![b] = [t \in Thread |-> Fresh(t, @[t].phase + 1)]]
    /\ touched' = [touched EXCEPT ![b] = {}]
    /\ UNCHANGED <<launch, stage, level, out, buf, reg, tmp, accessed, added>>

-----------------------------------------------------------------------------
(* The atomic update of the result, by the first thread of a block.        *)

\* the thread has the block's value
Final(b, phase) == stage = "reduce" /\ th[b][0].todo = {} /\ th[b][0].phase = phase

Update(b, old) ==
    /\ out' = [out EXCEPT ![0] = old (+) tmp[b][0]]
    /\ th' = [th EXCEPT ![b][0].phase = Updated]

FetchUpdate(b) ==
    /\ Final(b, LastSweep) /\ launch.atomic = "fetch"
    /\ Update(b, out[0])
    /\ UNCHANGED <<launch, stage, level, buf, reg, tmp, touched, accessed, added>>

\* an operation that the hardware does not have reads the old value ...
ReadOld(b) ==
    /\ Final(b, LastSweep) /\ launch.atomic = "exchange"
    /\ reg' = [reg EXCEPT ![b][0] = out[0]]
    /\ th' = [th EXCEPT ![b][0].phase = Read]
    /\ UNCHANGED <<launch, stage, level, out, buf, tmp, touched, accessed, added>>

\* mutant of CompareExchange: a failed exchange is taken for done
CompareExchangeOnce(b) ==
    /\ Final(b, Read)
    /\ IF out[0] = reg[b][0] THEN Update(b, reg[b][0]) /\ UNCHANGED reg
       ELSE th' = [th EXCEPT ![b][0].phase = Updated] /\ UNCHANGED <<out, reg>>
    /\ UNCHANGED <<launch, stage, level, buf, tmp, touched, accessed, added>>

\* ... and tries to exchange it, until nobody has changed it since.  That a
\* weak exchange may also fail without a reason changes nothing.
CompareExchange(b) ==
    /\ Final(b, Read)
    /\ IF out[0] = reg[b][0] THEN Update(b, reg[b][0]) /\ UNCHANGED reg
       ELSE reg' = [reg EXCEPT ![b][0] = out[0]] /\ UNCHANGED <<out, th>>
    /\ UNCHANGED <<launch, stage, level, buf, tmp, touched, accessed, added>>

-----------------------------------------------------------------------------
(* The operations of the queue.                                            *)

\* onHost::fill of the result with the neutral element, then the kernel
FillResult ==
    /\ stage = "fill"
    /\ stage' = "reduce"
    /\ out' = [out EXCEPT ![0] = EmptyBag]
    /\ UNCHANGED <<launch, level, buf, th, reg, tmp, touched, accessed, added>>

ReduceKernelEnds ==
    /\ stage = "reduce"
    /\ \A b \in Block, t \in Thread :
          th[b][t].todo = {} /\ th[b][t].phase = IF t = 0 THEN Updated ELSE LastSweep
    /\ stage' = "reduced"
    /\ UNCHANGED <<launch, level, out, buf, th, reg, tmp, touched, accessed, added>>

ReduceInit ==
    /\ \E r \in Reductions : launch = Reduction(r)
    /\ stage = "fill"
    /\ level = 0
    /\ out = [i \in {0} |-> SetToBag({Junk})]
    /\ buf = <<>>
    /\ th = [b \in Block |-> [t \in Thread |-> Fresh(t, 0)]]
    /\ reg = [b \in Block |-> [t \in Thread |-> EmptyBag]]
    /\ tmp = [b \in Block |-> [e \in 0..Cells - 1 |-> SetToBag({Junk})]]
    /\ touched = [b \in Block |-> {}]
    /\ accessed = {}
    /\ added = 0

ReduceNext ==
    \/ FillResult
    \/ \E b \in Block :
        \/ \E t \in Thread : ReduceCells(b, t) \/ Aggregate(b, t) \/ Sweep(b, t)
        \/ ReduceSync(b)
        \/ FetchUpdate(b) \/ ReadOld(b) \/ CompareExchange(b)
    \/ ReduceKernelEnds
    \/ stage = "reduced" /\ UNCHANGED vars

\* A scan or a reduction.
AlgoInit == Init \/ ReduceInit

AlgoNext == Next \/ ReduceNext

AlgoSpec == AlgoInit /\ [][AlgoNext]_vars

-----------------------------------------------------------------------------
(* Properties.                                                             *)

\* The result: every element of the input is reduced exactly once, and nothing
\* else is, whatever the shape of the launch and the order of the updates.
EveryElementReducedOnce ==
    stage = "reduced" => out[0] = SetToBag(0..launch.n - 1)
=============================================================================
