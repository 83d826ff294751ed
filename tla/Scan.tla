-------------------------------- MODULE Scan --------------------------------
(***************************************************************************)
(* onHost::inclusiveScan and exclusiveScan.  ScanBlocksKernel scans every  *)
(* chunk of the data by itself: each thread of a block scans its own       *)
(* elements in mini blocks, the block then scans the sums of the mini      *)
(* blocks in shared memory, in sweeps that barriers keep apart.  With more *)
(* than one chunk the chunks' sums are scanned in turn, in a buffer, and   *)
(* ScanAddIncrementsKernel adds them to the chunks.                        *)
(*                                                                         *)
(* The kernels are operations of one queue: each starts when the one       *)
(* before it has ended.  Blocks and threads interleave; an element of a    *)
(* sweep is one step, which NoSharedRace justifies.                        *)
(***************************************************************************)
EXTENDS Naturals, FiniteSets, FiniteSetsExt

CONSTANTS Launches,     \* the scans, and the shape they are run in
          Junk          \* what uninitialized memory holds

ASSUME ScanAssumption ==
    /\ Junk \in Nat
    /\ \A l \in Launches :
        /\ l.n \in Nat \ {0} /\ l.type \in {"inclusive", "exclusive"}
        /\ l.inPlace \in BOOLEAN
        /\ \A x \in {l.blocks, l.threads, l.els, l.mini, l.warp, l.simd, l.packs} : x \in Nat \ {0}
        \* chunks have more than one element, so that each level is smaller
        /\ l.threads * l.els > 1
        \* chunk sizes, mini blocks and SIMD packs are powers of two
        /\ \E u \in 0..l.threads : l.threads = 2^u
        /\ \E u \in 0..l.els : l.els = 2^u
        /\ \E u \in 0..l.els : l.mini = 2^u /\ l.mini <= l.els
        /\ \E u \in 0..l.simd : l.simd = 2^u /\ l.simd <= l.threads * l.els

VARIABLES launch,   \* the scan
          stage,    \* "scan", "add" or "done": the kernel that runs ...
          level,    \* ... and the depth of the recursion it belongs to
          out,      \* the output
          buf,      \* the buffer for the sums of all levels
          th,       \* th[b][t]: chunk, phase and remaining elements of a thread
          reg,      \* reg[b][t]: the thread's registers
          tmp,      \* tmp[b]: the block's shared memory
          touched,  \* shared memory accesses of the block since its last barrier
          accessed, \* elements of the level that the kernel has accessed
          added     \* elements the kernel "add" is done with

vars == <<launch, stage, level, out, buf, th, reg, tmp, touched, accessed, added>>

\* thread blocks of a kernel
NumBlocks == launch.blocks

Block == 0..NumBlocks - 1
Thread == 0..launch.threads - 1

-----------------------------------------------------------------------------
(* Shape.                                                                  *)

DivCeil(a, b) == (a + b - 1) \div b

Chunk == launch.threads * launch.els

MiniBlocks == Chunk \div launch.mini

Log2(x) == CHOOSE u \in 0..x : 2^u = x

\* a chunk has a power of two of mini blocks, as it is made of powers of two; the offsets of
\* its sweeps are positive
ASSUME SweepAssumption ==
    \A l \in Launches :
        LET blocks == (l.threads * l.els) \div l.mini
        IN  /\ \E u \in 0..blocks : 2^u = blocks
            /\ \A u \in 0..Log2(blocks) : 2^u \in Nat \ {0}

\* the elements of level k: the chunks of the level before it
Size(k) ==
    LET size[i \in 0..k] == IF i = 0 THEN launch.n ELSE DivCeil(size[i - 1], Chunk)
    IN  size[k]

NumChunks(k) == Size(k + 1)

\* the last level fits into one chunk
LastLevel(k) == NumChunks(k) <= 1

\* where the data of level k > 0 lie in the buffer: behind those of the level
\* before it
Base(k) ==
    LET base[i \in 1..k] == IF i = 1 THEN 0 ELSE base[i - 1] + Size(i - 1)
    IN  base[k]

\* mutant of ScanBufferSize: incomplete chunks are not counted
ScanBufferSizeFloor(l) ==
    LET chunk == l.threads * l.els
        size[e \in 0..l.n] == IF e <= 1 THEN 0 ELSE e + size[e \div chunk]
    IN  size[l.n \div chunk]

\* scanBufferSize, in elements
ScanBufferSize(l) ==
    LET chunk == l.threads * l.els
        size[e \in 0..l.n] == IF e <= 1 THEN 0 ELSE e + size[DivCeil(e, chunk)]
    IN  size[DivCeil(l.n, chunk)]

Input(i) == i * i + 1

\* inputVec[i] of level k; below level 0 input and output are the same view.
\* Behind the end lies junk.
Element(k, i) ==
    IF i >= Size(k) THEN Junk
    ELSE IF k > 0 THEN buf[Base(k) + i]
    ELSE IF launch.inPlace THEN out[i] ELSE Input(i)

-----------------------------------------------------------------------------
(* Sweeps.                                                                 *)

IsRight(i, offset) == (i + 1) % (2 * offset) = 0

\* scanMiniBlock: the exclusive scan of v and its sum.  The pairs of a sweep
\* are disjoint, so that each sweep is one update of v.
ScanMiniBlock(v) ==
    LET s == launch.mini
        u == Log2(s)
        up[p \in 0..u] ==
            IF p = 0 THEN v
            ELSE [i \in 0..s - 1 |-> IF IsRight(i, 2^(p - 1))
                                     THEN up[p - 1][i] + up[p - 1][i - 2^(p - 1)]
                                     ELSE up[p - 1][i]]
        down[p \in 0..u] ==
            IF p = 0 THEN [up[u] EXCEPT ![s - 1] = 0]
            ELSE LET offset == 2^(u - p)
                     w == down[p - 1]
                 IN  [i \in 0..s - 1 |->
                         IF IsRight(i, offset) THEN w[i] + w[i - offset]
                         ELSE IF (i + 1) % offset = 0 THEN w[i + offset] ELSE w[i]]
    IN  [block |-> down[u], sum |-> up[u][s - 1]]

\* conflictFreeAccess: the padded address of a mini block's sum
Padded(i) == i + i \div launch.warp

\* A chunk goes through these phases, with a barrier after each:
\* load, Log2(MiniBlocks) up-sweeps, root, as many down-sweeps, write back.
Sweeps == Log2(MiniBlocks)
Root == Sweeps + 1
WriteBackPhase == 2 * Sweeps + 2

\* how many elements a phase has, shared by the threads
Work(phase) ==
    CASE phase \in {0, WriteBackPhase} -> launch.threads
      [] phase \in 1..Sweeps           -> MiniBlocks \div 2^phase
      [] phase = Root                  -> 1
      [] OTHER                         -> 2^(phase - Root - 1)

Todo(t, phase) == {e \in 0..Work(phase) - 1 : e % launch.threads = t}

-----------------------------------------------------------------------------
(* ScanBlocksKernel.                                                       *)

\* a thread of block b before the chunk c, or behind the last one
Start(t, c, k) ==
    [chunk |-> c, phase |-> 0, todo |-> IF c < NumChunks(k) THEN Todo(t, 0) ELSE {}]

\* the next element of thread t in block b, in a phase that satisfies P
At(b, t, P(_)) ==
    /\ stage = "scan"
    /\ th[b][t].todo # {}
    /\ P(th[b][t].phase)

Elem(b, t) == Min(th[b][t].todo)

\* the element is done; the block's threads have accessed shared memory
Step(b, t, reads, writes) ==
    /\ th' = [th EXCEPT ![b][t].todo = @ \ {Elem(b, t)}]
    /\ touched' = [touched EXCEPT ![b] = @ \cup ({t} \X reads \X {"read"})
                                           \cup ({t} \X writes \X {"write"})]

\* mutant of Guarded: a last chunk that is not full is taken for a full one
GuardedNever(c) == launch.els % 4 # 0

\* the last chunk is not full, or the elements do not fill SIMD packs of four
Guarded(c) ==
    LET valid == ((Size(level) - 1) % Chunk) + 1
    IN  (valid # Chunk /\ c = NumChunks(level) - 1) \/ launch.els % 4 # 0

\* the elements of chunk c that thread t copies
Copied(c, t) ==
    LET first == c * Chunk + t * launch.els
    IN  {i \in first..first + launch.els - 1 : Guarded(c) => i < Size(level)}

\* the thread copies its elements, scans its mini blocks and publishes the sums
Load(b, t) ==
    /\ At(b, t, LAMBDA p : p = 0)
    /\ LET c == th[b][t].chunk
           first == c * Chunk + t * launch.els
           perThread == launch.els \div launch.mini
           scanned == [j \in 0..perThread - 1 |->
                          ScanMiniBlock([i \in 0..launch.mini - 1 |->
                              LET x == first + j * launch.mini + i
                              IN  IF x \in Copied(c, t) THEN Element(level, x) ELSE 0])]
           Address(j) == Padded(t * perThread + j)
       IN  /\ reg' = [reg EXCEPT ![b][t] = [i \in 0..launch.els - 1 |->
                                    scanned[i \div launch.mini].block[i % launch.mini]]]
           /\ tmp' = [tmp EXCEPT ![b] = [a \in DOMAIN @ |->
                          IF \E j \in DOMAIN scanned : a = Address(j)
                          THEN scanned[CHOOSE j \in DOMAIN scanned : a = Address(j)].sum
                          ELSE @[a]]]
           /\ Step(b, t, {}, {Address(j) : j \in DOMAIN scanned})
           /\ accessed' = accessed \cup Copied(c, t)
    /\ UNCHANGED <<launch, stage, level, out, buf, added>>

UpSweep(b, t) ==
    /\ At(b, t, LAMBDA p : p \in 1..Sweeps)
    /\ LET offset == 2^(th[b][t].phase - 1)
           left == Padded(offset * (2 * Elem(b, t) + 1) - 1)
           right == Padded(offset * (2 * Elem(b, t) + 2) - 1)
       IN  /\ tmp' = [tmp EXCEPT ![b][right] = @ + tmp[b][left]]
           /\ Step(b, t, {left, right}, {right})
    /\ UNCHANGED <<launch, stage, level, out, buf, reg, accessed, added>>

\* mutant of SaveRoot: the root is not set to zero
SaveRootKept(b, t) ==
    /\ At(b, t, LAMBDA p : p = Root)
    /\ LET a == Padded(MiniBlocks - 1)
       IN  /\ buf' = IF LastLevel(level) THEN buf
                     ELSE [buf EXCEPT ![Base(level + 1) + th[b][t].chunk] = tmp[b][a]]
           /\ tmp' = tmp
           /\ Step(b, t, {a}, {a})
    /\ UNCHANGED <<launch, stage, level, out, reg, accessed, added>>

\* one thread saves the chunk's sum, if there is a level to scan it, and
\* clears the root
SaveRoot(b, t) ==
    /\ At(b, t, LAMBDA p : p = Root)
    /\ LET a == Padded(MiniBlocks - 1)
       IN  /\ buf' = IF LastLevel(level) THEN buf
                     ELSE [buf EXCEPT ![Base(level + 1) + th[b][t].chunk] = tmp[b][a]]
           /\ tmp' = [tmp EXCEPT ![b][a] = 0]
           /\ Step(b, t, {a}, {a})
    /\ UNCHANGED <<launch, stage, level, out, reg, accessed, added>>

DownSweep(b, t) ==
    /\ At(b, t, LAMBDA p : p \in Root + 1..2 * Sweeps + 1)
    /\ LET offset == 2^(2 * Sweeps + 1 - th[b][t].phase)
           left == Padded(offset * (2 * Elem(b, t) + 1) - 1)
           right == Padded(offset * (2 * Elem(b, t) + 2) - 1)
       IN  /\ tmp' = [tmp EXCEPT ![b][left] = tmp[b][right], ![b][right] = @ + tmp[b][left]]
           /\ Step(b, t, {left, right}, {left, right})
    /\ UNCHANGED <<launch, stage, level, out, buf, reg, accessed, added>>

\* the sums of the mini blocks before it are added to each mini block; an
\* inclusive scan adds the element itself
WriteBack(b, t) ==
    /\ At(b, t, LAMBDA p : p = WriteBackPhase)
    /\ LET c == th[b][t].chunk
           first == c * Chunk + t * launch.els
           Address(j) == Padded(t * (launch.els \div launch.mini) + j)
           read == {Address(j) : j \in {i \in 0..launch.els \div launch.mini - 1 :
                                            first + i * launch.mini < Size(level)}}
           Value(x) == LET i == x - first
                       IN  reg[b][t][i] + tmp[b][Address(i \div launch.mini)]
                           + (IF level = 0 /\ launch.type = "inclusive"
                              THEN Element(0, x) ELSE 0)
       IN  /\ IF level = 0
              THEN /\ out' = [x \in DOMAIN out |-> IF x \in Copied(c, t) THEN Value(x)
                                                   ELSE out[x]]
                   /\ UNCHANGED buf
              ELSE /\ buf' = [y \in DOMAIN buf |->
                                 IF y >= Base(level) /\ y - Base(level) \in Copied(c, t)
                                 THEN Value(y - Base(level)) ELSE buf[y]]
                   /\ UNCHANGED out
           /\ Step(b, t, read, {})
           /\ accessed' = accessed \cup Copied(c, t)
    /\ UNCHANGED <<launch, stage, level, reg, tmp, added>>

\* the phase, or the chunk, that follows; block b takes every NumBlocks-th chunk
After(t, state) ==
    IF state.phase < WriteBackPhase
    THEN [state EXCEPT !.phase = @ + 1, !.todo = Todo(t, state.phase + 1)]
    ELSE Start(t, state.chunk + NumBlocks, level)

\* mutant of SyncBlockThreads: no barrier before the first up-sweep
SyncMissingFirst(b) ==
    /\ stage = "scan"
    /\ \E T \in {Thread} \cup {{t} : t \in Thread} :
        /\ \A t \in T : th[b][t].todo = {} /\ th[b][t].chunk < NumChunks(level)
        /\ IF T = Thread
           THEN /\ \A t, u \in T : th[b][t].phase = th[b][u].phase
                /\ touched' = [touched EXCEPT ![b] = {}]
           ELSE /\ \A t \in T : th[b][t].phase = 0
                /\ UNCHANGED touched
        /\ th' = [th EXCEPT ![b] = [t \in Thread |->
                                        IF t \in T THEN After(t, @[t]) ELSE @[t]]]
    /\ UNCHANGED <<launch, stage, level, out, buf, reg, tmp, accessed, added>>

\* syncBlockThreads: all threads of the block have finished the phase
SyncBlockThreads(b) ==
    /\ stage = "scan"
    /\ \A t \in Thread : th[b][t].todo = {} /\ th[b][t].chunk < NumChunks(level)
    /\ th' = [th EXCEPT ![b] = [t \in Thread |-> After(t, @[t])]]
    /\ touched' = [touched EXCEPT ![b] = {}]
    /\ UNCHANGED <<launch, stage, level, out, buf, reg, tmp, accessed, added>>

-----------------------------------------------------------------------------
(* The kernels of a scan, one after the other.                             *)

\* kernel s of level k starts
Launch(s, k) ==
    /\ stage' = s
    /\ level' = k
    /\ th' = [b \in Block |-> [t \in Thread |-> Start(t, b, k)]]
    /\ reg' = [b \in Block |-> [t \in Thread |-> [i \in 0..launch.els - 1 |-> Junk]]]
    /\ tmp' = [b \in Block |-> [a \in 0..Padded(MiniBlocks - 1) |-> Junk]]
    /\ touched' = [b \in Block |-> {}]
    /\ accessed' = {}
    /\ added' = 0
    /\ UNCHANGED <<launch, out, buf>>

\* all chunks are scanned: recurse, or go back adding the increments
ScanKernelEnds ==
    /\ stage = "scan"
    /\ \A b \in Block, t \in Thread : th[b][t].chunk >= NumChunks(level)
    /\ IF ~LastLevel(level) THEN Launch("scan", level + 1)
       ELSE IF level > 0 THEN Launch("add", level - 1)
       ELSE Launch("done", 0)

\* SimdAlgo::concurrent: how many elements are done in SIMD packs; the number
\* of packs is a multiple of what all threads do in one call
PackedEnd ==
    LET perCall == launch.simd * launch.packs
        workers == NumBlocks * launch.threads
    IN  IF launch.simd = 1 THEN 0
        ELSE ((Size(level) \div perCall) \div workers) * perCall * workers

\* a pack, then the remaining elements one by one, take the increment of the
\* chunk in which the pack begins.  Packs are disjoint: their order is fixed.
AddPack ==
    LET width == IF added < PackedEnd THEN launch.simd ELSE 1
        pack == added..added + width - 1
        sum == buf[Base(level + 1) + added \div Chunk]
    IN  /\ stage = "add"
        /\ added < Size(level)
        /\ IF level = 0
           THEN /\ out' = [x \in DOMAIN out |-> IF x \in pack THEN out[x] + sum ELSE out[x]]
                /\ UNCHANGED buf
           ELSE /\ buf' = [y \in DOMAIN buf |->
                              IF y >= Base(level) /\ y - Base(level) \in pack
                              THEN buf[y] + sum ELSE buf[y]]
                /\ UNCHANGED out
        /\ added' = added + width
        /\ accessed' = accessed \cup pack
        /\ UNCHANGED <<launch, stage, level, th, reg, tmp, touched>>

AddKernelEnds ==
    /\ stage = "add"
    /\ added >= Size(level)
    /\ IF level > 0 THEN Launch("add", level - 1) ELSE Launch("done", 0)

Init ==
    /\ launch \in Launches
    /\ stage = "scan"
    /\ level = 0
    /\ out = [i \in 0..launch.n - 1 |-> IF launch.inPlace THEN Input(i) ELSE Junk]
    /\ buf = [i \in 0..ScanBufferSize(launch) - 1 |-> Junk]
    /\ th = [b \in Block |-> [t \in Thread |-> Start(t, b, 0)]]
    /\ reg = [b \in Block |-> [t \in Thread |-> [i \in 0..launch.els - 1 |-> Junk]]]
    /\ tmp = [b \in Block |-> [a \in 0..Padded(MiniBlocks - 1) |-> Junk]]
    /\ touched = [b \in Block |-> {}]
    /\ accessed = {}
    /\ added = 0

Next ==
    \/ \E b \in Block :
        \/ \E t \in Thread :
            Load(b, t) \/ UpSweep(b, t) \/ SaveRoot(b, t) \/ DownSweep(b, t) \/ WriteBack(b, t)
        \/ SyncBlockThreads(b)
    \/ ScanKernelEnds
    \/ AddPack
    \/ AddKernelEnds
    \/ stage = "done" /\ UNCHANGED vars

Spec == Init /\ [][Next]_vars

-----------------------------------------------------------------------------
(* Properties.                                                             *)

\* No cell of shared memory is written by one thread of a block and accessed
\* by another without a barrier between: in no sweep, and not when the block
\* goes on to its next chunk.
NoSharedRace ==
    \A b \in Block : \A x, y \in touched[b] :
        x[2] = y[2] /\ x[3] = "write" => x[1] = y[1]

\* A kernel accesses no element behind the end of its view, though full chunks
\* are copied in SIMD packs without a check.
AccessesInBounds == accessed \subseteq 0..Size(level) - 1

\* The buffer is as large as the recursion needs (the assertion in scan):
\* scanBufferSize and the recursion count the levels apart.
BufferSuffices == stage = "scan" /\ ~LastLevel(level) => Base(level + 1) + NumChunks(level) <= Cardinality(DOMAIN buf)

\* The sum of the elements before element i.
Prefix(i) ==
    LET sum[j \in 0..i] == IF j = 0 THEN 0 ELSE sum[j - 1] + Input(j - 1)
    IN  sum[i]

\* The result: out[i] is the sum of the elements before i, and of i itself if
\* the scan is inclusive, for every shape the scan is run in.
PrefixSums ==
    stage = "done" =>
        \A i \in 0..launch.n - 1 :
            out[i] = Prefix(IF launch.type = "inclusive" THEN i + 1 ELSE i)
=============================================================================
