------------------------------ MODULE MCMemory ------------------------------
(***************************************************************************)
(* Buffers of one to five dimensions whose rows are dense, padded by       *)
(* alpaka or padded by the driver, and boxes of them: whole buffers,       *)
(* sub-views in their middle, boundary directions and empty views.         *)
(***************************************************************************)
EXTENDS Memory

Apis == {"host", "cuda", "sycl"}

Buffers(extents) ==
    {Buffer(extents, p) : p \in {PitchesFromExtents(extents), AlignedPitches(extents),
                                 DriverPitches(extents)}}

\* what the index type can hold: the pitches and the offset of a sub-view
Fits(buffer, offset) ==
    /\ \A d \in Dims(offset) : buffer.pitches[d] < Modulus
    /\ \A d \in 2..Len(offset) : buffer.extents[d] * buffer.pitches[d] < Modulus
    /\ Dot(buffer.pitches, offset) < Modulus

\* the boxes of the given extents
Views(b, e) ==
    {SubView(b, o, e) : o \in {o \in [Dims(e) -> 0..1] :
        Fits(b, o) /\ \A d \in Dims(e) : o[d] + e[d] <= b.extents[d]}}

ViewsOf(extents, e) == UNION {Views(b, e) : b \in Buffers(extents)}

Job(op, api, dest, src) ==
    [op |-> op, api |-> api, dest |-> dest, src |-> src, extents |-> dest.extents]

Copies(extents, e) ==
    {Job("memcpy", api, d, s) : api \in Apis, d \in ViewsOf(extents, e), s \in ViewsOf(e, e)}
    \cup {Job("memcpy", api, d, s) : api \in Apis, d \in ViewsOf(e, e), s \in ViewsOf(extents, e)}

Sets(extents, e) == {Job("memset", api, d, d) : api \in Apis, d \in ViewsOf(extents, e)}

Iterations(extents, e) ==
    {Job("iterate", "host", d, d) : d \in {v \in ViewsOf(extents, e) :
        Dot(v.pitches, [i \in Dims(e) |-> e[i]]) < Modulus}}

\* a buffer and the box that is copied
Cases ==
    {<<<<4>>, e>> : e \in {<<0>>, <<3>>, <<4>>}}
    \cup {<<<<3, 3>>, e>> : e \in {<<0, 2>>, <<2, 0>>, <<2, 2>>, <<3, 3>>, <<1, 3>>}}
    \cup {<<<<2, 3, 3>>, e>> : e \in {<<2, 2, 3>>, <<2, 3, 3>>, <<1, 2, 2>>, <<2, 0, 1>>}}
    \cup {<<<<2, 2, 2, 2>>, e>> :
            e \in {<<2, 2, 2, 2>>, <<2, 1, 2, 2>>, <<2, 2, 1, 2>>, <<1, 2, 2, 1>>, <<2, 2, 0, 1>>}}
    \cup {<<<<3, 1, 2, 3>>, e>> : e \in {<<3, 1, 2, 3>>, <<2, 1, 2, 3>>}}
    \cup {<<<<2, 2, 1, 2, 1>>, e>> : e \in {<<2, 2, 1, 2, 1>>, <<2, 1, 1, 2, 1>>, <<2, 2, 1, 1, 1>>}}

Directions(b) ==
    {BoundaryView(b, dir, Fill(Len(b.extents), 1), Fill(Len(b.extents), 1)) :
        dir \in [Dims(b.extents) -> {"lower", "middle", "upper"}]}

Halos ==
    {Job("memset", api, d, d) : api \in Apis,
        d \in UNION {Directions(b) : b \in Buffers(<<3, 3>>) \cup Buffers(<<2, 3>>)}}

MemoryJobs ==
    Halos \cup UNION {Copies(c[1], c[2]) \cup Sets(c[1], c[2]) \cup Iterations(c[1], c[2]) : c \in Cases}
=============================================================================
