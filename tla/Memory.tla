------------------------------- MODULE Memory -------------------------------
(***************************************************************************)
(* N-dimensional memory: pitched allocations, views and sub-views, and the *)
(* operations that touch all elements of a view: onHost::memcpy and memset *)
(* of the three backends and the forward iterator of an MdSpan.            *)
(*                                                                         *)
(* The host copies row by row.  CUDA/HIP copies up to three dimensions in  *)
(* one native call and SYCL two; of more dimensions they fuse the slower   *)
(* ones into the last native one if the memory is contiguous there, and    *)
(* repeat the native call otherwise.  Native calls of a queue are in order *)
(* and take effect here when they are made.                                *)
(*                                                                         *)
(* Extents and pitches are of the index type, sizes and the offsets of     *)
(* copies are size_t.                                                      *)
(***************************************************************************)
EXTENDS Naturals, Sequences, FiniteSetsExt, Vectors

CONSTANTS Jobs,         \* the operations
          ElemBytes,    \* sizeof(value_type)
          Alignment,    \* alignment of the rows of an allocation, in bytes
          Modulus       \* bound: the index type holds 0 .. Modulus - 1

ASSUME MemoryAssumption ==
    /\ ElemBytes \in Nat \ {0} /\ Alignment \in Nat \ {0} /\ Modulus \in Nat \ {0}
    /\ \A j \in Jobs :
        /\ j.api \in {"host", "cuda", "sycl"} /\ j.op \in {"memcpy", "memset", "iterate"}
        /\ j.extents \in Seq(Nat) /\ j.extents # <<>>

VARIABLES job,          \* the operation, its views and its extents
          pc,           \* "begin", "loop", "done"
          idx,          \* index of the repetition, or the iterator's position
          touched,      \* pairs of a byte of dest and what was stored there
          calls,        \* native calls made
          event         \* SYCL: the call whose event becomes the queue's last

vars == <<job, pc, idx, touched, calls, event>>

Wrap(a) == a % Modulus

-----------------------------------------------------------------------------
(* Allocations and views.                                                  *)

CalculatePitches(extents, rowPitch) ==
    LET n == Len(extents)
        pitch[d \in Dims(extents)] ==
            IF d = n THEN ElemBytes
            ELSE IF d = n - 1 THEN rowPitch
            ELSE Wrap(extents[d + 1] * pitch[d + 1])
    IN  pitch

\* pitches of dense memory
PitchesFromExtents(extents) == CalculatePitches(extents, Wrap(X(extents) * ElemBytes))

\* bytes of a row, rounded up to the alignment
RowPitch(extents) ==
    Wrap(((X(extents) * ElemBytes + Alignment - 1) \div Alignment) * Alignment)

AlignedPitches(extents) == CalculatePitches(extents, RowPitch(extents))

\* mallocPitch and malloc3D: the driver chooses a wider row
DriverPitches(extents) == CalculatePitches(extents, Wrap(RowPitch(extents) + Alignment))

\* of size_t
MemSizeInByte(pitches, extents) == pitches[1] * extents[1]

Buffer(extents, pitches) ==
    [data |-> 0, extents |-> extents, pitches |-> pitches, size |-> MemSizeInByte(pitches, extents)]

\* MdSpan::ptr: address of an element, its offset in the index type unless
\* it is the difference of two pointers
Ptr(view, i) ==
    view.data + IF Len(i) = 1 THEN i[1] * ElemBytes ELSE Wrap(Dot(view.pitches, i))

SubView(view, offset, extents) ==
    [view EXCEPT !.data = Ptr(view, offset), !.extents = extents]

\* the part of the view that lies in a boundary direction
BoundaryView(view, dir, lower, upper) ==
    SubView(view,
        [d \in Dims(dir) |->
            CASE dir[d] = "lower" -> 0
              [] dir[d] = "upper" -> view.extents[d] - upper[d]
              [] dir[d] = "middle" -> lower[d]],
        [d \in Dims(dir) |->
            CASE dir[d] = "lower" -> lower[d]
              [] dir[d] = "upper" -> upper[d]
              [] dir[d] = "middle" -> view.extents[d] - lower[d] - upper[d]])

-----------------------------------------------------------------------------
(* How an operation is split into native calls: what one call copies (rows *)
(* of x, height, depth), how often it is repeated, and how far dest and    *)
(* src advance from one repetition to the next.                            *)

\* the slower dimensions, but for the k fastest ones, follow without padding
ContiguousBeyond(k, extents, pitches) ==
    \A d \in 2..(Len(extents) - k + 1) : extents[d] * pitches[d] = pitches[d - 1]

Once(n, height, depth) ==
    [reps |-> Fill(n, 1), dest |-> Fill(n, 0), src |-> Fill(n, 0), height |-> height, depth |-> depth]

\* repeated for the dimensions without the k fastest
Repeated(j, k, height, depth) ==
    [reps |-> Slower(j.extents, k), dest |-> Slower(j.dest.pitches, k),
     src |-> Slower(j.src.pitches, k), height |-> height, depth |-> depth]

\* row by row
HostPlan(j) == IF Len(j.extents) = 1 THEN Once(1, 1, 1) ELSE Repeated(j, 1, 1, 1)

\* native calls of three dimensions, the slower ones being fused into z or not
CudaCalls(j, fused) ==
    LET e == j.extents
        n == Len(e)
    IN  CASE n = 1 -> Once(1, 1, 1)
          [] n = 2 -> Once(2, Y(e), 1)
          [] n = 3 -> Once(3, Y(e), Z(e))
          [] n > 3 -> IF fused THEN Once(3, Y(e), Product(Slower(e, 2)))
                      ELSE Repeated(j, 3, Y(e), Z(e))

\* mutant of CudaMemcpy: only the dimension next to z is tested for padding
CudaMemcpyTestsOne(j) ==
    LET n == Len(j.extents)
        joined(v) == j.extents[n - 2] * v.pitches[n - 2] = v.pitches[n - 3]
    IN  CudaCalls(j, n > 3 => joined(j.dest) /\ joined(j.src))

CudaMemcpy(j) ==
    CudaCalls(j, /\ ContiguousBeyond(3, j.extents, j.dest.pitches)
                 /\ ContiguousBeyond(3, j.extents, j.src.pitches))

CudaMemset(j) == CudaCalls(j, ContiguousBeyond(3, j.extents, j.dest.pitches))

\* native calls of two dimensions, the slower ones being fused into y or not
SyclCalls(j, fused) ==
    LET e == j.extents
        n == Len(e)
    IN  CASE n = 1 -> Once(1, 1, 1)
          [] n = 2 -> Once(2, Y(e), 1)
          [] n > 2 -> IF fused THEN Once(2, Product(Slower(e, 1)), 1)
                      ELSE Repeated(j, 2, Y(e), 1)

SyclMemcpy(j) ==
    SyclCalls(j, /\ ContiguousBeyond(2, j.extents, j.dest.pitches)
                 /\ ContiguousBeyond(2, j.extents, j.src.pitches))

\* mutant of SyclMemset: of the slower dimensions only y and z are fused
SyclMemsetFusesTwo(j) ==
    LET e == j.extents
    IN  IF Len(e) > 2 /\ ContiguousBeyond(2, e, j.dest.pitches) THEN Once(2, Y(e) * Z(e), 1)
        ELSE SyclCalls(j, FALSE)

SyclMemset(j) == SyclCalls(j, ContiguousBeyond(2, j.extents, j.dest.pitches))

Plan(j) ==
    CASE j.api = "host" -> HostPlan(j)
      [] j.api = "cuda" -> IF j.op = "memcpy" THEN CudaMemcpy(j) ELSE CudaMemset(j)
      [] j.api = "sycl" -> IF j.op = "memcpy" THEN SyclMemcpy(j) ELSE SyclMemset(j)

\* address of a byte of the block that a call copies; CUDA is told the rows
\* of a slice, in units of the row pitch
Byte(view, n, jump, z, y, b) ==
    view.data + Dot(idx, jump) + b
    + (IF n > 1 THEN y * Y(view.pitches) ELSE 0)
    + (IF n > 2 THEN z * Y(view.pitches) * (Z(view.pitches) \div Y(view.pitches)) ELSE 0)

\* what is stored by the call for the repetition idx
Block(j) ==
    LET plan == Plan(j)
        n == Len(j.extents)
    IN  {<<Byte(j.dest, n, plan.dest, z, y, b),
           IF j.op = "memset" THEN 0 ELSE Byte(j.src, n, plan.src, z, y, b)>> :
            z \in 0..plan.depth - 1, y \in 0..plan.height - 1, b \in 0..X(j.extents) * ElemBytes - 1}

-----------------------------------------------------------------------------
(* Actions.                                                                *)

Init ==
    /\ job \in Jobs
    /\ pc = "begin"
    /\ idx = <<>> /\ touched = {} /\ calls = 0 /\ event = 0

\* The index of a nested loop, and of the forward iterator: the fastest
\* dimension counts up; past its extent it starts again and the next slower
\* one counts, except for the slowest.
Advance(extents, i) ==
    LET c == Max({1} \cup {d \in Dims(i) : i[d] + 1 < extents[d]})
    IN  [d \in Dims(i) |-> IF d < c THEN i[d] ELSE IF d = c THEN i[d] + 1 ELSE 0]

\* The call: nothing is to be done for empty extents (SYCL makes the native
\* call for one dimension).
Enqueue ==
    /\ pc = "begin" /\ job.op \in {"memcpy", "memset"}
    /\ IF Product(job.extents) = 0 /\ ~(job.api = "sycl" /\ Len(job.extents) = 1)
       THEN pc' = "done" /\ idx' = idx
       ELSE pc' = "loop" /\ idx' = Fill(Len(Plan(job).reps), 0)
    /\ UNCHANGED <<job, touched, calls, event>>

\* one repetition of a nested loop
Repeat ==
    LET reps == Plan(job).reps
        next == Advance(reps, idx)
    IN  /\ pc = "loop"
        /\ touched' = touched \cup Block(job)
        /\ calls' = calls + 1
        /\ idx' = next
        /\ pc' = IF next[1] >= reps[1] THEN "done" ELSE "loop"
        /\ UNCHANGED job

Native(api, op) == job.api = api /\ job.op = op /\ Repeat

HostMemcpyRow == Native("host", "memcpy") /\ UNCHANGED event

HostMemsetRow == Native("host", "memset") /\ UNCHANGED event

Memcopy3D == Native("cuda", "memcpy") /\ UNCHANGED event

Memset3D == Native("cuda", "memset") /\ UNCHANGED event

LastRepetition == \A d \in Dims(idx) : idx[d] = Plan(job).reps[d] - 1

\* mutant of Memcopy2D: the event of the first call is kept
Memcopy2DFirstEvent ==
    /\ Native("sycl", "memcpy")
    /\ event' = IF idx = Fill(Len(idx), 0) THEN calls' ELSE event

\* only the last call's event is asked for
Memcopy2D ==
    /\ Native("sycl", "memcpy")
    /\ event' = IF LastRepetition THEN calls' ELSE event

Memset2D ==
    /\ Native("sycl", "memset")
    /\ event' = IF LastRepetition THEN calls' ELSE event

\* An empty extent in any dimension makes begin() the end.
IterBegin ==
    /\ pc = "begin" /\ job.op = "iterate"
    /\ pc' = "loop"
    /\ idx' = IF \E d \in Dims(job.extents) : job.extents[d] = 0
              THEN [Fill(Len(job.extents), 0) EXCEPT ![1] = job.extents[1]]
              ELSE Fill(Len(job.extents), 0)
    /\ UNCHANGED <<job, touched, calls, event>>

\* The loop's body visits the element, and the iterator is incremented.
IterVisit ==
    /\ pc = "loop" /\ job.op = "iterate" /\ idx[1] < job.extents[1]
    /\ touched' = touched \cup {<<Ptr(job.dest, idx) + b, calls>> : b \in 0..ElemBytes - 1}
    /\ calls' = calls + 1
    /\ idx' = Advance(job.extents, idx)
    /\ UNCHANGED <<job, pc, event>>

IterEnd ==
    /\ pc = "loop" /\ job.op = "iterate" /\ idx[1] >= job.extents[1]
    /\ pc' = "done"
    /\ UNCHANGED <<job, idx, touched, calls, event>>

Finished == pc = "done"

Next ==
    \/ Enqueue \/ HostMemcpyRow \/ HostMemsetRow
    \/ Memcopy3D \/ Memset3D \/ Memcopy2D \/ Memset2D
    \/ IterBegin \/ IterVisit \/ IterEnd
    \/ (Finished /\ UNCHANGED vars)

Spec == Init /\ [][Next]_vars

-----------------------------------------------------------------------------
(* Properties.                                                             *)

\* What is to be stored: in every byte of every element of dest the same
\* byte of src, the value, or the linear index of the element.
Element(i) ==
    {<<job.dest.data + Dot(job.dest.pitches, i) + b,
       CASE job.op = "memcpy" -> job.src.data + Dot(job.src.pitches, i) + b
         [] job.op = "memset" -> 0
         [] job.op = "iterate" -> Linearize(job.extents, i)>> : b \in 0..ElemBytes - 1}

Expected ==
    LET Idx == {i \in [Dims(job.extents) -> 0..Max({job.extents[d] : d \in Dims(job.extents)})] :
                    \A d \in Dims(i) : i[d] < job.extents[d]}
    IN  UNION {Element(i) : i \in Idx}

\* "Pitches are ... transparent" (docs): no padding, no element outside of
\* the view and no byte behind the allocation is ever touched, and no byte
\* gets the value of another element.
OnlyTheViewIsTouched ==
    /\ touched \subseteq Expected
    /\ \A p \in touched : p[1] < job.dest.size

\* An operation that ended has reached every element of the view.
EveryElementIsTouched == Finished => Expected \subseteq touched

\* "the last call must create an event": what the SYCL queue takes for its
\* last event covers every native call of the operation.
EventCoversAllCalls == Finished /\ job.op # "iterate" /\ job.api = "sycl" => event = calls
=============================================================================
