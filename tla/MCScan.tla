------------------------------- MODULE MCScan -------------------------------
(***************************************************************************)
(* Scans of one to three levels.  The code's chunks hold 2048 elements in  *)
(* 256 threads; chunks of 1 to 8 elements reach the same phases.           *)
(* Reductions of one to three dimensions; the code's frames hold about 512 *)
(* elements, 2 to 8 leave cells to aggregate and sweeps to reduce.         *)
(***************************************************************************)
EXTENDS Reduce

\* threads per block, elements per thread, elements per mini block, warp size
Shapes == {
    [threads |-> 1, els |-> 4, mini |-> 4, warp |-> 1],
    [threads |-> 2, els |-> 2, mini |-> 1, warp |-> 2],
    [threads |-> 2, els |-> 4, mini |-> 2, warp |-> 4],
    [threads |-> 4, els |-> 1, mini |-> 1, warp |-> 2]}

MCLaunches ==
    {[blocks |-> 2, threads |-> s.threads, els |-> s.els, mini |-> s.mini, warp |-> s.warp,
      n |-> n, simd |-> v[1], packs |-> v[2], type |-> ty[1], inPlace |-> ty[2]] :
        s \in Shapes, n \in {1, 3, 4, 5, 8, 17}, v \in {<<1, 1>>, <<2, 2>>},
        ty \in {<<"inclusive", TRUE>>, <<"inclusive", FALSE>>, <<"exclusive", FALSE>>}}

\* a CPU with one thread per block, a CPU with SYCL, and two GPUs
Devices == {
    [exec |-> "serial", layout |-> "contiguous", atomic |-> "fetch", warp |-> 1,
     frameTarget |-> 2, perThread |-> 2, maxFrames |-> 2, maxThreads |-> 1],
    [exec |-> "sequential", layout |-> "contiguous", atomic |-> "exchange", warp |-> 1,
     frameTarget |-> 2, perThread |-> 2, maxFrames |-> 4, maxThreads |-> 1],
    [exec |-> "parallel", layout |-> "contiguous", atomic |-> "exchange", warp |-> 2,
     frameTarget |-> 4, perThread |-> 1, maxFrames |-> 2, maxThreads |-> 2],
    [exec |-> "parallel", layout |-> "strided", atomic |-> "fetch", warp |-> 3,
     frameTarget |-> 8, perThread |-> 1, maxFrames |-> 2, maxThreads |-> 4],
    [exec |-> "parallel", layout |-> "strided", atomic |-> "exchange", warp |-> 2,
     frameTarget |-> 4, perThread |-> 1, maxFrames |-> 2, maxThreads |-> 4]}

MCReductions ==
    {[exec |-> d.exec, layout |-> d.layout, atomic |-> d.atomic, warp |-> d.warp,
      frameTarget |-> d.frameTarget, perThread |-> d.perThread, maxFrames |-> d.maxFrames,
      maxThreads |-> d.maxThreads, extents |-> x, simd |-> v[1], packs |-> v[2]] :
        d \in Devices, x \in {<<1>>, <<3>>, <<8>>, <<17>>, <<1, 5>>, <<4, 3>>, <<2, 2, 5>>},
        v \in {<<1, 1>>, <<2, 1>>, <<2, 2>>}}
=============================================================================
