---------------------- MODULE OmpCollectiveQueueProofs ----------------------
(***************************************************************************)
(* Proofs about OmpCollectiveQueue, for a team of any number of threads    *)
(* and any program: the two counters and the parent's mutex stay in range, *)
(* operations begin in the documented order, a wait covers the whole team  *)
(* and nothing begins before a task that was enqueued outside.             *)
(***************************************************************************)
EXTENDS OmpCollectiveQueue, FiniteSetTheorems, TLAPS

-----------------------------------------------------------------------------
(* The inductive invariant.                                                *)

\* every thread is at operation k or a later one
Synced(k) == \A t \in Thread : pos[t] >= k

\* Where a thread is in an operation of a region, and what that says of it.
InRegion(t, k) ==
    /\ at[t] = "arrived" => prog[k].kind \in {"deferred", "collect"} /\ t \in arrived[k]
    /\ at[t] = "ordered" => prog[k].kind = "deferred"
    /\ at[t] = "entered" => prog[k].kind \in {"host", "deferred"}
    /\ at[t] = "refused" => prog[k].kind = "refused"
    /\ at[t] = "submit" => prog[k].kind \in {"host", "deferred"} /\ claimed[k] = t
    /\ at[t] = "locked" => prog[k].kind = "host" /\ claimed[k] = t
    /\ at[t] = "executing" => \/ prog[k].kind = "host" /\ claimed[k] = t /\ owner = t
                              \/ prog[k].kind = "kernel"
    /\ at[t] = "leave" => \/ prog[k].kind = "kernel" /\ t \in done[k]
                          \/ prog[k].kind \in {"host", "deferred"} /\ claimed[k] # None
    /\ at[t] \in {"single", "call", "called"} => prog[k].kind = "collect"
    /\ at[t] = "called" => t \in done[k]
    /\ at[t] \in {"single", "gated", "call", "called"} /\ prog[k].kind = "collect" => claimed[k] = t
    /\ at[t] # "arrived" /\ prog[k].kind = "deferred" => arrived[k] = Thread

\* Outside, only the master is in an operation, and the team is behind.
Outside(t, k) ==
    /\ t = Main /\ Synced(k)
    /\ at[t] \in {"submit", "locked", "executing"}
    /\ at[t] = "executing" => owner = t

PlaceOf(t) ==
    /\ at[t] # "free" => /\ pos[t] \in Ops
                         /\ IF prog[pos[t]].in THEN InRegion(t, pos[t]) ELSE Outside(t, pos[t])
    /\ at[t] = "locked" => owner = t

\* What a thread that is past operation k leaves behind.
PassedOf(t, k) ==
    pos[t] > k =>
        IF prog[k].in
        THEN /\ prog[k].kind = "kernel" => t \in done[k]
             /\ prog[k].kind \in {"host", "deferred", "collect"} => claimed[k] # None
             /\ prog[k].kind \in {"deferred", "collect"} => arrived[k] = Thread
        ELSE pos[Main] > k /\ Main \in done[k] /\ Synced(k)

\* The thread that got operation k's single executes it before it goes on.
ClaimOf(k) ==
    claimed[k] # None =>
        /\ prog[k].in /\ prog[k].kind \in {"host", "deferred", "collect"}
        /\ pos[claimed[k]] >= k
        /\ pos[claimed[k]] = k =>
              /\ at[claimed[k]] \in IF prog[k].kind = "collect"
                                    THEN {"single", "gated", "call", "called", "arrived"}
                                    ELSE {"submit", "locked", "executing", "leave"}
              /\ at[claimed[k]] \in {"leave", "called", "arrived"} => claimed[k] \in done[k]
        /\ pos[claimed[k]] > k => claimed[k] \in done[k]

\* A thread that arrived at operation k's barrier.
ArrivedOf(t, k) ==
    t \in arrived[k] =>
        /\ prog[k].in /\ prog[k].kind \in {"deferred", "collect"}
        /\ pos[t] >= k
        /\ pos[t] = k => at[t] # "free" /\ (prog[k].kind = "collect" => at[t] = "arrived")
        /\ prog[k].kind = "collect" => claimed[k] # None

\* A thread that executed operation k, or its part of it.
DoneOf(t, k) ==
    t \in done[k] =>
        /\ pos[t] >= k
        /\ pos[t] = k => /\ prog[k].in
                         /\ \/ at[t] \in {"leave", "called"}
                            \/ at[t] = "arrived" /\ prog[k].kind = "collect"
        /\ prog[k].in /\ prog[k].kind = "deferred" => arrived[k] = Thread
        /\ ~prog[k].in => t = Main

\* The parent's mutex and what is counted under it.
OwnerInv ==
    /\ owner \in Thread => at[owner] \in {"locked", "executing"}
    /\ owner = None => depth = 0
    /\ owner \in Thread => depth = IF at[owner] = "executing" THEN 1 ELSE 0
    /\ owner = Other => /\ depth = 1
                        /\ \A k \in Ops : done[k] = {}
                        /\ \A t \in Thread : at[t] \in {"free", "arrived", "ordered", "single", "submit"}

\* the threads that counter counts
Counted == {t \in Thread : \/ at[t] \in {"entered", "refused", "leave", "call", "called"}
                           \/ at[t] \in {"submit", "locked", "executing"} /\ prog[pos[t]].in}

\* A launch that is refused is counted for ever.
CountInv == Cardinality(Counted) <= counter

TeamInv ==
    /\ \A t \in Thread : PlaceOf(t)
    /\ \A t \in Thread, k \in Ops : PassedOf(t, k) /\ ArrivedOf(t, k) /\ DoneOf(t, k)
    /\ \A k \in Ops : ClaimOf(k)

IndInv == TypeOK /\ TeamInv /\ OwnerInv /\ CountInv
-----------------------------------------------------------------------------
(* What a step of a thread does to its operation.                          *)

Places == {"free", "arrived", "ordered", "gated", "entered", "submit", "refused",
           "locked", "executing", "leave", "single", "call", "called"}

\* the part of the type invariant that is about the team
Typed ==
    /\ prog \in Programs
    /\ pos \in [Thread -> 1..(Len(prog) + 1)]
    /\ at \in [Thread -> Places]
    /\ claimed \in [Ops -> Thread \cup {None}]
    /\ arrived \in [Ops -> SUBSET Thread] /\ done \in [Ops -> SUBSET Thread]

\* t, at operation k, goes to a place in it, or is free and at the next one;
\* it may claim k's single, arrive at k's barrier and execute (its part of) k
Effects(t, k, place, claims, arrives, executes) ==
    /\ k = pos[t] /\ k \in Ops
    /\ at'[t] = place /\ pos'[t] = IF place = "free" THEN k + 1 ELSE k
    /\ \A u \in Thread \ {t} : at'[u] = at[u] /\ pos'[u] = pos[u]
    /\ claimed'[k] = IF claims THEN t ELSE claimed[k]
    /\ arrived'[k] = IF arrives THEN arrived[k] \cup {t} ELSE arrived[k]
    /\ done'[k] = IF executes THEN done[k] \cup {t} ELSE done[k]
    /\ \A j \in Ops \ {k} : /\ claimed'[j] = claimed[j] /\ arrived'[j] = arrived[j]
                            /\ done'[j] = done[j]
    /\ claims => claimed[k] = None
    /\ prog' = prog /\ Ops' = Ops
    /\ Typed'

\* The type invariant is Typed and the rest.
LEMMA TypeParts ==
    TypeOK <=> /\ Typed /\ counter \in Nat /\ depth \in 0..1 /\ frees \in Nat
               /\ owner \in Thread \cup {None, Other, Callback}
  BY DEF TypeOK, Typed, Places

\* The operations of a program.
LEMMA OpsType ==
    ASSUME Typed
    PROVE  /\ Len(prog) \in Nat /\ Ops \subseteq Nat
           /\ \A k \in Ops : prog[k].kind \in Kind /\ prog[k].in \in BOOLEAN
           /\ \A k \in Nat : k \in Ops <=> 1 <= k /\ k <= Len(prog)
<1> DEFINE S == [kind : Kind, in : BOOLEAN]
<1>1. prog \in Seq(S)
  BY OmpCollectiveQueueAssumption DEF Typed
<1>2. \A x \in S : x.kind \in Kind /\ x.in \in BOOLEAN
  OBVIOUS
<1> HIDE DEF S
<1>3. Len(prog) \in Nat /\ \A k \in 1..Len(prog) : prog[k] \in S
  BY <1>1
<1> QED
  BY <1>2, <1>3 DEF Ops

\* The steps of the model have such effects.
LEMMA GoEffects ==
    ASSUME Typed, NEW t \in Thread, NEW k, k = pos[t], k \in Ops, NEW place \in Places,
           NEW claims \in BOOLEAN, NEW arrives \in BOOLEAN, NEW executes \in BOOLEAN,
           prog' = prog,
           at' = [at EXCEPT ![t] = place],
           pos' = IF place = "free" THEN [pos EXCEPT ![t] = k + 1] ELSE pos,
           claimed' = IF claims THEN [claimed EXCEPT ![k] = t] ELSE claimed,
           arrived' = IF arrives THEN [arrived EXCEPT ![k] = @ \cup {t}] ELSE arrived,
           done' = IF executes THEN [done EXCEPT ![k] = @ \cup {t}] ELSE done,
           claims => claimed[k] = None
    PROVE  Effects(t, k, place, claims, arrives, executes)
<1>1. Ops' = Ops
  BY DEF Ops
<1>2. k \in Nat /\ k <= Len(prog) /\ k + 1 \in 1..(Len(prog) + 1)
  BY OpsType
<1>3. pos' \in [Thread -> 1..(Len(prog) + 1)] /\ at' \in [Thread -> Places]
  BY <1>2 DEF Typed
<1>4. /\ claimed' \in [Ops -> Thread \cup {None}]
      /\ arrived' \in [Ops -> SUBSET Thread] /\ done' \in [Ops -> SUBSET Thread]
  BY DEF Typed
<1>5. Typed'
  BY <1>1, <1>3, <1>4 DEF Typed
<1>6. /\ at'[t] = place /\ pos'[t] = IF place = "free" THEN k + 1 ELSE k
      /\ \A u \in Thread \ {t} : at'[u] = at[u] /\ pos'[u] = pos[u]
  BY DEF Typed
<1>7. /\ claimed'[k] = IF claims THEN t ELSE claimed[k]
      /\ arrived'[k] = IF arrives THEN arrived[k] \cup {t} ELSE arrived[k]
      /\ done'[k] = IF executes THEN done[k] \cup {t} ELSE done[k]
      /\ \A j \in Ops \ {k} : /\ claimed'[j] = claimed[j] /\ arrived'[j] = arrived[j]
                              /\ done'[j] = done[j]
  BY DEF Typed
<1> QED
  BY <1>1, <1>5, <1>6, <1>7 DEF Effects

\* the invariant about t and its operation k after a step
Here(t, k) ==
    /\ PlaceOf(t) /\ PassedOf(t, k) /\ ArrivedOf(t, k) /\ DoneOf(t, k)
    /\ claimed[k] = t => ClaimOf(k)

\* What a step leaves of the other threads and operations: it takes back
\* nothing that was claimed, reached or executed.
LEMMA Elsewhere ==
    ASSUME Typed, TeamInv, NEW t \in Thread, NEW k, NEW place, NEW claims, NEW arrives, NEW executes,
           Effects(t, k, place, claims, arrives, executes),
           \A u \in Thread \ {t} : owner = u => owner' = u,
           Here(t, k)'
    PROVE  TeamInv'
<1>1. /\ k = pos[t] /\ k \in Ops /\ Ops' = Ops /\ prog' = prog
      /\ \A u \in Thread \ {t} : at'[u] = at[u] /\ pos'[u] = pos[u]
      /\ \A j \in Ops \ {k} : /\ claimed'[j] = claimed[j] /\ arrived'[j] = arrived[j]
                              /\ done'[j] = done[j]
  BY DEF Effects
<1>2. /\ \A j \in Ops : claimed[j] # None => claimed'[j] = claimed[j]
      /\ claimed'[k] \in {claimed[k], t}
      /\ \A j \in Ops : claimed[j] \in Thread \cup {None} /\ claimed'[j] \in Thread \cup {None}
  BY DEF Effects, Typed
<1>3. \A j \in Ops : /\ arrived[j] \subseteq arrived'[j] /\ arrived'[j] \subseteq arrived[j] \cup {t}
                     /\ done[j] \subseteq done'[j] /\ done'[j] \subseteq done[j] \cup {t}
                     /\ arrived[j] = Thread => arrived'[j] = Thread
  BY DEF Effects, Typed
<1>4. /\ \A u \in Thread : pos[u] \in Nat /\ pos'[u] \in Nat /\ pos'[u] >= pos[u]
      /\ pos'[t] \in {k, k + 1}
      /\ Ops \subseteq Nat
      /\ Main \in Thread /\ None \notin Thread
  <2>1. \A u \in Thread : pos[u] \in Nat /\ pos'[u] \in Nat
    BY DEF Effects, Typed
  <2>2. Ops \subseteq Nat
    BY OpsType
  <2> QED
    BY <2>1, <2>2, OmpCollectiveQueueAssumption DEF Effects
<1>5. \A j \in Ops : Synced(j) => Synced(j)'
  BY <1>4 DEF Synced
<1>6. ASSUME NEW u \in Thread, u # t PROVE PlaceOf(u)'
  <2>1. at'[u] = at[u] /\ pos'[u] = pos[u] /\ (owner = u => owner' = u) /\ PlaceOf(u)
    BY <1>1, <1>6 DEF TeamInv
  <2>2. CASE at[u] = "free"
    BY <2>1, <2>2 DEF PlaceOf
  <2>3. CASE at[u] # "free" /\ prog[pos[u]].in
    <3>1. PICK j \in Ops : j = pos[u]
      BY <2>1, <2>3 DEF PlaceOf
    <3>2. InRegion(u, j)
      BY <2>1, <2>3, <3>1 DEF PlaceOf
    <3>3. InRegion(u, j)'
      BY <1>1, <1>2, <1>3, <1>4, <2>1, <3>2 DEF InRegion
    <3> QED
      BY <1>1, <2>1, <2>3, <3>1, <3>3 DEF PlaceOf
  <2>4. CASE at[u] # "free" /\ ~prog[pos[u]].in
    <3>1. PICK j \in Ops : j = pos[u]
      BY <2>1, <2>4 DEF PlaceOf
    <3>2. Outside(u, j)
      BY <2>1, <2>4, <3>1 DEF PlaceOf
    <3>3. Outside(u, j)'
      BY <1>5, <2>1, <3>2 DEF Outside
    <3> QED
      BY <1>1, <2>1, <2>4, <3>1, <3>3 DEF PlaceOf
  <2> QED
    BY <2>2, <2>3, <2>4
<1>7. ASSUME NEW u \in Thread, NEW j \in Ops, u # t \/ j # k
      PROVE  PassedOf(u, j)'
  <2>1. PassedOf(u, j) /\ (pos'[u] > j => pos[u] > j)
    BY <1>1, <1>4, <1>7 DEF TeamInv
  <2>2. pos'[Main] >= pos[Main]
    BY <1>4
  <2> QED
    BY <1>1, <1>2, <1>3, <1>4, <1>5, <2>1, <2>2 DEF PassedOf
<1>8. ASSUME NEW u \in Thread, NEW j \in Ops, u # t \/ j # k
      PROVE  ArrivedOf(u, j)'
  <2>1. ArrivedOf(u, j) /\ (u \in arrived'[j] => u \in arrived[j])
    BY <1>1, <1>3, <1>8 DEF TeamInv
  <2>2. pos'[u] = j => (pos[u] = j /\ at'[u] = at[u]) \/ pos[u] < j
    BY <1>1, <1>4, <1>8
  <2> QED
    BY <1>1, <1>2, <1>4, <2>1, <2>2 DEF ArrivedOf
<1>9. ASSUME NEW u \in Thread, NEW j \in Ops, u # t \/ j # k
      PROVE  DoneOf(u, j)'
  <2>1. DoneOf(u, j) /\ (u \in done'[j] => u \in done[j])
    BY <1>1, <1>3, <1>9 DEF TeamInv
  <2>2. pos'[u] = j => (pos[u] = j /\ at'[u] = at[u]) \/ pos[u] < j
    BY <1>1, <1>4, <1>9
  <2> QED
    BY <1>1, <1>3, <1>4, <2>1, <2>2 DEF DoneOf
<1>10. ASSUME NEW j \in Ops, ~(j = k /\ claimed'[k] = t) PROVE ClaimOf(j)'
  <2>1. ClaimOf(j) /\ claimed'[j] = claimed[j]
    BY <1>1, <1>2, <1>10 DEF TeamInv
  <2>2. ASSUME NEW c \in Thread, c = claimed[j] PROVE ClaimOf(j)'
    <3>1. pos'[c] = j => (pos[c] = j /\ at'[c] = at[c]) \/ pos[c] < j
      BY <1>1, <1>2, <1>4, <1>10, <2>1, <2>2
    <3>2. pos'[c] > j => pos[c] > j
      BY <1>1, <1>2, <1>4, <1>10, <2>1, <2>2
    <3> QED
      BY <1>1, <1>3, <1>4, <2>1, <2>2, <3>1, <3>2 DEF ClaimOf
  <2>3. CASE claimed[j] = None
    BY <2>1, <2>3 DEF ClaimOf
  <2> QED
    BY <1>2, <2>2, <2>3
<1> QED
  BY <1>1, <1>6, <1>7, <1>8, <1>9, <1>10 DEF TeamInv, Here

\* What the invariant says of a thread and its operation.
LEMMA HereNow ==
    ASSUME TypeOK, TeamInv, NEW t \in Thread, NEW k \in Ops, k = pos[t]
    PROVE  /\ at[t] # "free" => IF prog[k].in THEN InRegion(t, k) ELSE Outside(t, k)
           /\ PlaceOf(t) /\ PassedOf(t, k) /\ ArrivedOf(t, k) /\ DoneOf(t, k) /\ ClaimOf(k)
           /\ k \in Nat /\ prog[k].kind \in Kind /\ prog[k].in \in BOOLEAN
           /\ Typed /\ t # None /\ Main \in Thread
           /\ at[t] \in Places /\ claimed[k] \in Thread \cup {None}
           /\ arrived[k] \subseteq Thread /\ done[k] \subseteq Thread
<1>1. Typed
  BY TypeParts
<1> QED
  BY <1>1, OpsType, OmpCollectiveQueueAssumption DEF TeamInv, PlaceOf, Typed

\* A step within an operation of a region.
LEMMA RegionStep ==
    ASSUME TypeOK, TeamInv, NEW t \in Thread, NEW k, NEW place, NEW claims, NEW arrives, NEW executes,
           Effects(t, k, place, claims, arrives, executes), place # "free", prog[k].in,
           \A u \in Thread \ {t} : owner = u => owner' = u,
           InRegion(t, k)', place = "locked" => owner' = t,
           t \in arrived'[k] =>
              /\ prog[k].kind \in {"deferred", "collect"}
              /\ prog[k].kind = "collect" => place = "arrived" /\ claimed'[k] # None,
           t \in done'[k] => \/ place \in {"leave", "called"}
                             \/ place = "arrived" /\ prog[k].kind = "collect",
           claimed'[k] = t =>
              /\ prog[k].kind \in {"host", "deferred", "collect"}
              /\ place \in IF prog[k].kind = "collect"
                           THEN {"single", "gated", "call", "called", "arrived"}
                           ELSE {"submit", "locked", "executing", "leave"}
              /\ place \in {"leave", "called", "arrived"} => t \in done'[k]
    PROVE  TeamInv'
<1>1. /\ k = pos[t] /\ k \in Ops /\ at'[t] = place /\ pos'[t] = k /\ prog' = prog /\ Ops' = Ops
      /\ Typed
  BY TypeParts DEF Effects
<1>2. k \in Nat /\ prog[k].in \in BOOLEAN /\ t # None
  BY <1>1, OpsType, OmpCollectiveQueueAssumption
<1>3. PlaceOf(t)'
  BY <1>1 DEF PlaceOf
<1>4. PassedOf(t, k)'
  BY <1>1, <1>2 DEF PassedOf
<1>5. ArrivedOf(t, k)'
  BY <1>1, <1>2 DEF ArrivedOf
<1>6. DoneOf(t, k)'
  <2>1. t \in done'[k] /\ prog[k].kind = "deferred" => arrived'[k] = Thread
    BY <1>1 DEF InRegion
  <2> QED
    BY <1>1, <1>2, <2>1 DEF DoneOf
<1>7. claimed'[k] = t => ClaimOf(k)'
  BY <1>1, <1>2 DEF ClaimOf
<1>8. Here(t, k)'
  BY <1>3, <1>4, <1>5, <1>6, <1>7 DEF Here
<1> QED
  BY <1>1, <1>8, Elsewhere

\* The last step of an operation of a region.
LEMMA RegionReturn ==
    ASSUME TypeOK, TeamInv, NEW t \in Thread, NEW k,
           Effects(t, k, "free", FALSE, FALSE, FALSE), prog[k].in, UNCHANGED owner,
           prog[k].kind = "kernel" => t \in done[k],
           prog[k].kind \in {"host", "deferred", "collect"} => claimed[k] # None,
           prog[k].kind \in {"deferred", "collect"} => arrived[k] = Thread,
           claimed[k] = t => t \in done[k]
    PROVE  TeamInv'
<1>1. /\ k = pos[t] /\ k \in Ops /\ at'[t] = "free" /\ pos'[t] = k + 1 /\ prog' = prog /\ Ops' = Ops
      /\ claimed'[k] = claimed[k] /\ arrived'[k] = arrived[k] /\ done'[k] = done[k]
      /\ Typed
  BY TypeParts DEF Effects
<1>2. /\ k \in Nat /\ t # None
      /\ ArrivedOf(t, k) /\ DoneOf(t, k) /\ ClaimOf(k)
  BY <1>1, HereNow
<1>3. PlaceOf(t)'
  BY <1>1 DEF PlaceOf
<1>4. PassedOf(t, k)'
  BY <1>1 DEF PassedOf
<1>5. ArrivedOf(t, k)'
  BY <1>1, <1>2 DEF ArrivedOf
<1>6. DoneOf(t, k)'
  BY <1>1, <1>2 DEF DoneOf
<1>7. claimed'[k] = t => ClaimOf(k)'
  BY <1>1, <1>2 DEF ClaimOf
<1>8. Here(t, k)'
  BY <1>3, <1>4, <1>5, <1>6, <1>7 DEF Here
<1> QED
  BY <1>1, <1>8, Elsewhere

\* A step within an operation outside of regions, and its last one.
LEMMA OutsideStep ==
    ASSUME TypeOK, TeamInv, NEW t \in Thread, NEW k, NEW place, NEW executes,
           Effects(t, k, place, FALSE, FALSE, executes), ~prog[k].in,
           \A u \in Thread \ {t} : owner = u => owner' = u,
           t = Main, Synced(k), place = "locked" => owner' = t,
           \/ place \in {"submit", "locked", "executing"} /\ ~executes
           \/ place = "free" /\ executes,
           place = "executing" => owner' = t
    PROVE  TeamInv'
<1>1. /\ k = pos[t] /\ k \in Ops /\ at'[t] = place /\ prog' = prog /\ Ops' = Ops
      /\ pos'[t] = IF place = "free" THEN k + 1 ELSE k
      /\ claimed'[k] = claimed[k] /\ arrived'[k] = arrived[k]
      /\ done'[k] = IF executes THEN done[k] \cup {t} ELSE done[k]
      /\ Typed /\ Typed'
      /\ \A u \in Thread \ {t} : pos'[u] = pos[u]
  BY TypeParts DEF Effects
<1>2. /\ k \in Nat /\ t # None /\ prog[k].in \in BOOLEAN
      /\ ArrivedOf(t, k) /\ DoneOf(t, k) /\ ClaimOf(k)
  BY <1>1, HereNow
<1>3. Synced(k)'
  BY <1>1, <1>2 DEF Synced
<1>4. PlaceOf(t)'
  BY <1>1, <1>3 DEF PlaceOf, Outside
<1>5. PassedOf(t, k)'
  BY <1>1, <1>2, <1>3 DEF PassedOf
<1>6. ArrivedOf(t, k)'
  BY <1>1, <1>2 DEF ArrivedOf
<1>7. DoneOf(t, k)'
  BY <1>1, <1>2 DEF DoneOf
<1>8. claimed'[k] = t => ClaimOf(k)'
  BY <1>1, <1>2 DEF ClaimOf
<1>9. Here(t, k)'
  BY <1>4, <1>5, <1>6, <1>7, <1>8 DEF Here
<1> QED
  BY <1>1, <1>9, Elsewhere
-----------------------------------------------------------------------------
(* The steps of a thread.                                                  *)

\* The barriers and the wait for the tasks of the parent.
LEMMA BarrierSteps ==
    ASSUME TypeOK, TeamInv, NEW t \in Thread,
           ReachBarrier(t) \/ PassBarrier(t) \/ PassGate(t)
    PROVE  TeamInv' /\ Typed'
<1>k. PICK k \in Ops : k = pos[t] /\ prog[k].in
  BY DEF ReachBarrier, PassBarrier, PassGate, InOp
<1>0. /\ at[t] # "free" => InRegion(t, k)
      /\ ArrivedOf(t, k) /\ DoneOf(t, k) /\ ClaimOf(k)
      /\ prog[k].kind \in Kind /\ Typed /\ t # None
  BY <1>k, HereNow
<1>1. CASE ReachBarrier(t)
  <2>1. /\ at[t] = "free" /\ prog[k].kind = "deferred"
        /\ arrived' = [arrived EXCEPT ![k] = @ \cup {t}]
        /\ at' = [at EXCEPT ![t] = "arrived"] /\ UNCHANGED <<prog, pos, claimed, done, owner>>
    BY <1>k, <1>1 DEF ReachBarrier, KindOf, Go
  <2>2. Effects(t, k, "arrived", FALSE, TRUE, FALSE)
    BY <1>0, <1>k, <2>1, GoEffects DEF Places
  <2>3. t \notin done'[k] /\ claimed'[k] # t
    BY <1>0, <1>k, <2>1 DEF DoneOf, ClaimOf
  <2>4. InRegion(t, k)'
    BY <1>k, <2>1, <2>2 DEF InRegion, Effects
  <2> QED
    BY <1>k, <2>1, <2>2, <2>3, <2>4, RegionStep DEF Effects
<1>2. CASE PassBarrier(t)
  <2>1. /\ at[t] = "arrived" /\ arrived[k] = Thread
        /\ UNCHANGED <<prog, claimed, arrived, done, owner>>
        /\ IF prog[k].kind = "deferred" THEN at' = [at EXCEPT ![t] = "ordered"] /\ UNCHANGED pos
           ELSE at' = [at EXCEPT ![t] = "free"] /\ pos' = [pos EXCEPT ![t] = k + 1]
    BY <1>k, <1>2 DEF PassBarrier, KindOf, Go, Return, BarrierOpen
  <2>2. CASE prog[k].kind = "deferred"
    <3>1. Effects(t, k, "ordered", FALSE, FALSE, FALSE)
      BY <1>0, <1>k, <2>1, <2>2, GoEffects DEF Places
    <3>2. t \notin done'[k] /\ claimed'[k] # t
      BY <1>0, <1>k, <2>1, <2>2 DEF DoneOf, ClaimOf
    <3>3. InRegion(t, k)'
      BY <1>k, <2>1, <2>2, <3>1 DEF InRegion, Effects
    <3> QED
      BY <1>k, <2>1, <2>2, <3>1, <3>2, <3>3, RegionStep DEF Effects
  <2>3. CASE prog[k].kind = "collect"
    <3>1. Effects(t, k, "free", FALSE, FALSE, FALSE)
      BY <1>0, <1>k, <2>1, <2>3, GoEffects DEF Places
    <3>2. claimed[k] # None /\ (claimed[k] = t => t \in done[k])
      BY <1>0, <1>k, <2>1, <2>3 DEF ArrivedOf, ClaimOf
    <3> QED
      BY <1>k, <2>1, <2>3, <3>1, <3>2, RegionReturn DEF Effects
  <2>4. prog[k].kind \in {"deferred", "collect"}
    BY <1>0, <2>1 DEF InRegion
  <2> QED
    BY <2>2, <2>3, <2>4
<1>3. CASE PassGate(t)
  <2>1. /\ CASE prog[k].kind \in {"host", "kernel", "refused"} -> at[t] = "free"
             [] prog[k].kind = "deferred" -> at[t] = "ordered"
             [] prog[k].kind = "collect" -> at[t] = "single"
        /\ at' = [at EXCEPT ![t] = "gated"] /\ UNCHANGED <<prog, pos, claimed, arrived, done, owner>>
    BY <1>k, <1>3 DEF PassGate, AtGate, KindOf, Go
  <2>2. Effects(t, k, "gated", FALSE, FALSE, FALSE)
    BY <1>0, <1>k, <2>1, GoEffects DEF Places
  <2>3. t \notin done'[k] /\ (prog[k].kind # "collect" => claimed'[k] # t)
    BY <1>0, <1>k, <2>1 DEF DoneOf, ClaimOf, Kind
  <2>4. t \in arrived'[k] => prog[k].kind = "deferred"
    BY <1>0, <1>k, <2>1 DEF ArrivedOf, Kind
  <2>5. InRegion(t, k)'
    <3>1. at'[t] = "gated" /\ prog' = prog /\ claimed'[k] = claimed[k] /\ arrived'[k] = arrived[k]
      BY <2>2 DEF Effects
    <3>2. prog[k].kind = "collect" => claimed[k] = t
      BY <1>0, <2>1 DEF InRegion
    <3>3. prog[k].kind = "deferred" => arrived[k] = Thread
      BY <1>0, <2>1 DEF InRegion
    <3> QED
      BY <3>1, <3>2, <3>3 DEF InRegion
  <2> QED
    BY <1>k, <2>1, <2>2, <2>3, <2>4, <2>5, RegionStep DEF Effects
<1> QED
  BY <1>1, <1>2, <1>3

\* Entering an operation: its function, its kernel or its single.
LEMMA EnterSteps ==
    ASSUME TypeOK, TeamInv, NEW t \in Thread, Enter(t) \/ SingleNowait(t) \/ SingleAndWait(t)
    PROVE  TeamInv' /\ Typed'
<1>k. PICK k \in Ops : k = pos[t] /\ prog[k].in
  BY DEF Enter, SingleNowait, SingleAndWait, InOp
<1>0. /\ at[t] # "free" => InRegion(t, k)
      /\ ArrivedOf(t, k) /\ DoneOf(t, k) /\ ClaimOf(k)
      /\ prog[k].kind \in Kind /\ Typed /\ t # None
  BY <1>k, HereNow
<1>1. CASE Enter(t)
  <2> DEFINE place == CASE prog[k].kind = "kernel" -> "executing"
                        [] prog[k].kind = "refused" -> "refused"
                        [] prog[k].kind = "collect" -> "call"
                        [] prog[k].kind \in {"host", "deferred"} -> "entered"
  <2>1. /\ at[t] = "gated"
        /\ at' = [at EXCEPT ![t] = place] /\ UNCHANGED <<prog, pos, claimed, arrived, done, owner>>
    BY <1>k, <1>1 DEF Enter, KindOf, Go
  <2>2. \/ prog[k].kind = "kernel" /\ place = "executing"
        \/ prog[k].kind = "refused" /\ place = "refused"
        \/ prog[k].kind = "collect" /\ place = "call"
        \/ prog[k].kind \in {"host", "deferred"} /\ place = "entered"
    BY <1>0 DEF Kind
  <2> HIDE DEF place
  <2>3. Effects(t, k, place, FALSE, FALSE, FALSE)
    BY <1>0, <1>k, <2>1, <2>2, GoEffects DEF Places
  <2>4. t \notin done'[k] /\ (prog[k].kind # "collect" => claimed'[k] # t)
    BY <1>0, <1>k, <2>1 DEF DoneOf, ClaimOf
  <2>5. t \in arrived'[k] => prog[k].kind = "deferred"
    BY <1>0, <1>k, <2>1 DEF ArrivedOf
  <2>6. InRegion(t, k)'
    <3>1. at'[t] = place /\ prog' = prog /\ claimed'[k] = claimed[k] /\ arrived'[k] = arrived[k]
      BY <2>3 DEF Effects
    <3>2. /\ prog[k].kind = "collect" => claimed[k] = t
          /\ prog[k].kind = "deferred" => arrived[k] = Thread
      BY <1>0, <2>1 DEF InRegion
    <3> QED
      BY <2>2, <3>1, <3>2 DEF InRegion
  <2> QED
    BY <1>k, <2>1, <2>2, <2>3, <2>4, <2>5, <2>6, RegionStep DEF Effects
<1>2. CASE SingleNowait(t)
  <2>1. /\ at[t] = "entered" /\ prog[k].kind \in {"host", "deferred"}
        /\ prog[k].kind = "deferred" => arrived[k] = Thread
        /\ t \notin done[k] /\ claimed[k] # t
        /\ UNCHANGED <<prog, pos, arrived, done, owner>>
        /\ IF claimed[k] = None
           THEN claimed' = [claimed EXCEPT ![k] = t] /\ at' = [at EXCEPT ![t] = "submit"]
           ELSE UNCHANGED claimed /\ at' = [at EXCEPT ![t] = "leave"]
    BY <1>0, <1>k, <1>2 DEF SingleNowait, Go, InRegion, DoneOf, ClaimOf
  <2>2. CASE claimed[k] = None
    <3>1. Effects(t, k, "submit", TRUE, FALSE, FALSE)
      BY <1>0, <1>k, <2>1, <2>2, GoEffects DEF Places
    <3>2. InRegion(t, k)'
      BY <2>1, <3>1 DEF InRegion, Effects
    <3> QED
      BY <1>0, <1>k, <2>1, <3>1, <3>2, RegionStep DEF Effects, ArrivedOf
  <2>3. CASE claimed[k] # None
    <3>1. Effects(t, k, "leave", FALSE, FALSE, FALSE)
      BY <1>0, <1>k, <2>1, <2>3, GoEffects DEF Places
    <3>2. InRegion(t, k)'
      BY <2>1, <2>3, <3>1 DEF InRegion, Effects
    <3> QED
      BY <1>0, <1>k, <2>1, <3>1, <3>2, RegionStep DEF Effects, ArrivedOf
  <2> QED
    BY <2>2, <2>3
<1>3. CASE SingleAndWait(t)
  <2>1. /\ at[t] = "free" /\ prog[k].kind = "collect"
        /\ t \notin done[k] /\ claimed[k] # t /\ t \notin arrived[k]
        /\ UNCHANGED <<prog, pos, done, owner>>
        /\ IF claimed[k] = None
           THEN /\ claimed' = [claimed EXCEPT ![k] = t] /\ at' = [at EXCEPT ![t] = "single"]
                /\ UNCHANGED arrived
           ELSE /\ arrived' = [arrived EXCEPT ![k] = @ \cup {t}] /\ at' = [at EXCEPT ![t] = "arrived"]
                /\ UNCHANGED claimed
    BY <1>0, <1>k, <1>3 DEF SingleAndWait, KindOf, Go, DoneOf, ClaimOf, ArrivedOf
  <2>2. CASE claimed[k] = None
    <3>1. Effects(t, k, "single", TRUE, FALSE, FALSE)
      BY <1>0, <1>k, <2>1, <2>2, GoEffects DEF Places
    <3>2. InRegion(t, k)'
      BY <2>1, <3>1 DEF InRegion, Effects
    <3> QED
      BY <1>k, <2>1, <3>1, <3>2, RegionStep DEF Effects
  <2>3. CASE claimed[k] # None
    <3>1. Effects(t, k, "arrived", FALSE, TRUE, FALSE)
      BY <1>0, <1>k, <2>1, <2>3, GoEffects DEF Places
    <3>2. InRegion(t, k)'
      BY <2>1, <3>1 DEF InRegion, Effects
    <3> QED
      BY <1>k, <2>1, <2>3, <3>1, <3>2, RegionStep DEF Effects
  <2> QED
    BY <2>2, <2>3
<1> QED
  BY <1>1, <1>2, <1>3

\* Leaving an operation, and the single of one that waits.
LEMMA LeaveSteps ==
    ASSUME TypeOK, TeamInv, NEW t \in Thread,
           Leave(t) \/ LeaveRefused(t) \/ Collect(t) \/ LeaveSingle(t)
    PROVE  TeamInv' /\ Typed'
<1>k. PICK k \in Ops : k = pos[t] /\ prog[k].in
  BY DEF Leave, LeaveRefused, Collect, LeaveSingle, InOp
<1>0. /\ at[t] # "free" => InRegion(t, k)
      /\ ArrivedOf(t, k) /\ DoneOf(t, k) /\ ClaimOf(k)
      /\ prog[k].kind \in Kind /\ Typed /\ t # None
  BY <1>k, HereNow
<1>1. CASE Leave(t) \/ LeaveRefused(t)
  <2>1. /\ at' = [at EXCEPT ![t] = "free"] /\ pos' = [pos EXCEPT ![t] = k + 1]
        /\ UNCHANGED <<prog, claimed, arrived, done, owner>>
    BY <1>k, <1>1 DEF Leave, LeaveRefused, Return, Go
  <2>2. Effects(t, k, "free", FALSE, FALSE, FALSE)
    BY <1>0, <1>k, <2>1, GoEffects DEF Places
  <2>3. /\ prog[k].kind = "kernel" => t \in done[k]
        /\ prog[k].kind \in {"host", "deferred"} => claimed[k] # None
        /\ prog[k].kind # "collect"
        /\ prog[k].kind = "deferred" => arrived[k] = Thread
        /\ claimed[k] = t => t \in done[k]
    BY <1>0, <1>k, <1>1 DEF Leave, LeaveRefused, InRegion, ClaimOf
  <2> QED
    BY <1>k, <2>1, <2>2, <2>3, RegionReturn DEF Effects
<1>2. CASE Collect(t)
  <2>1. /\ at[t] = "call" /\ prog[k].kind = "collect" /\ claimed[k] = t /\ t \notin arrived[k]
        /\ done' = [done EXCEPT ![k] = @ \cup {t}] /\ at' = [at EXCEPT ![t] = "called"]
        /\ UNCHANGED <<prog, pos, claimed, arrived, owner>>
    BY <1>0, <1>k, <1>2 DEF Collect, Go, InRegion, ArrivedOf
  <2>2. Effects(t, k, "called", FALSE, FALSE, TRUE)
    BY <1>0, <1>k, <2>1, GoEffects DEF Places
  <2>3. InRegion(t, k)'
    BY <2>1, <2>2 DEF InRegion, Effects
  <2>4. t \in done'[k] /\ t \notin arrived'[k] /\ "called" # "free"
    BY <2>1, <2>2 DEF Effects
  <2>5. \A u \in Thread \ {t} : owner = u => owner' = u
    BY <2>1
  <2>6. /\ "called" \in IF prog[k].kind = "collect"
                        THEN {"single", "gated", "call", "called", "arrived"}
                        ELSE {"submit", "locked", "executing", "leave"}
        /\ prog[k].kind \in {"host", "deferred", "collect"} /\ "called" # "locked"
        /\ "called" \in {"leave", "called"}
    BY <2>1
  <2>7. TeamInv'
    BY <1>k, <2>2, <2>3, <2>4, <2>5, <2>6, RegionStep
  <2> QED
    BY <2>2, <2>7 DEF Effects
<1>3. CASE LeaveSingle(t)
  <2>1. /\ at[t] = "called" /\ prog[k].kind = "collect" /\ claimed[k] = t /\ t \in done[k]
        /\ arrived' = [arrived EXCEPT ![k] = @ \cup {t}] /\ at' = [at EXCEPT ![t] = "arrived"]
        /\ UNCHANGED <<prog, pos, claimed, done, owner>>
    BY <1>0, <1>k, <1>3 DEF LeaveSingle, Go, InRegion
  <2>2. Effects(t, k, "arrived", FALSE, TRUE, FALSE)
    BY <1>0, <1>k, <2>1, GoEffects DEF Places
  <2>3. InRegion(t, k)'
    BY <2>1, <2>2 DEF InRegion, Effects
  <2> QED
    BY <1>0, <1>k, <2>1, <2>2, <2>3, RegionStep DEF Effects
<1> QED
  BY <1>1, <1>2, <1>3

\* The steps in the parent, of a region's thread or of the master.
LEMMA ParentSteps ==
    ASSUME TypeOK, TeamInv, NEW t \in Thread,
           Submit(t) \/ Execute(t) \/ SubmitShort(t) \/ Finish(t)
    PROVE  TeamInv' /\ Typed'
<1>1. at[t] \in {"submit", "locked", "executing"}
  BY DEF Submit, Execute, SubmitShort, Finish
<1>k. PICK k \in Ops : k = pos[t]
  BY <1>1 DEF TeamInv, PlaceOf
<1>0. /\ IF prog[k].in THEN InRegion(t, k) ELSE Outside(t, k)
      /\ ArrivedOf(t, k) /\ DoneOf(t, k) /\ ClaimOf(k) /\ PlaceOf(t)
      /\ prog[k].kind \in Kind /\ prog[k].in \in BOOLEAN /\ Typed /\ t # None
  BY <1>1, <1>k, HereNow
<1>2. /\ t \notin done[k]
      /\ prog[k].in => (t \in arrived[k] => prog[k].kind = "deferred")
      /\ InOp(t, TRUE) <=> prog[k].in = TRUE
      /\ KindOf(t) = prog[k].kind
  BY <1>0, <1>1, <1>k DEF DoneOf, ArrivedOf, InOp, KindOf
<1>3. \A u \in Thread \ {t} : owner = u => owner' = u
  BY OmpCollectiveQueueAssumption DEF Submit, Execute, SubmitShort, Finish
<1>4. CASE Submit(t)
  <2>1. /\ at[t] = "submit" /\ prog[k].kind \in {"host", "kernel"} /\ owner' = t
        /\ at' = [at EXCEPT ![t] = "locked"] /\ UNCHANGED <<prog, pos, claimed, arrived, done>>
    BY <1>2, <1>4 DEF Submit, Go
  <2>2. Effects(t, k, "locked", FALSE, FALSE, FALSE)
    BY <1>0, <1>k, <2>1, GoEffects DEF Places
  <2>3. CASE prog[k].in
    <3>1. InRegion(t, k)'
      BY <1>0, <2>1, <2>2, <2>3 DEF InRegion, Effects
    <3>2. prog[k].kind = "host"
      BY <1>0, <2>1, <2>3 DEF InRegion
    <3> QED
      BY <1>2, <1>3, <2>1, <2>2, <2>3, <3>1, <3>2, RegionStep DEF Effects
  <2>4. CASE ~prog[k].in
    BY <1>0, <1>3, <2>1, <2>2, <2>4, OutsideStep DEF Outside, Effects
  <2> QED
    BY <2>3, <2>4
<1>5. CASE Execute(t)
  <2>1. /\ at[t] = "locked" /\ owner = t
        /\ at' = [at EXCEPT ![t] = "executing"] /\ UNCHANGED <<prog, pos, claimed, arrived, done, owner>>
    BY <1>0, <1>5 DEF Execute, Go, PlaceOf
  <2>2. Effects(t, k, "executing", FALSE, FALSE, FALSE)
    BY <1>0, <1>k, <2>1, GoEffects DEF Places
  <2>3. CASE prog[k].in
    <3>1. InRegion(t, k)'
      BY <1>0, <2>1, <2>2, <2>3 DEF InRegion, Effects
    <3>2. prog[k].kind = "host"
      BY <1>0, <2>1, <2>3 DEF InRegion
    <3> QED
      BY <1>2, <1>3, <2>1, <2>2, <2>3, <3>1, <3>2, RegionStep DEF Effects
  <2>4. CASE ~prog[k].in
    BY <1>0, <1>3, <2>1, <2>2, <2>4, OutsideStep DEF Outside, Effects
  <2> QED
    BY <2>3, <2>4
<1>6. CASE SubmitShort(t) \/ Finish(t)
  <2>1. /\ done' = [done EXCEPT ![k] = @ \cup {t}] /\ UNCHANGED <<prog, claimed, arrived>>
        /\ IF prog[k].in THEN at' = [at EXCEPT ![t] = "leave"] /\ UNCHANGED pos
           ELSE at' = [at EXCEPT ![t] = "free"] /\ pos' = [pos EXCEPT ![t] = k + 1]
    BY <1>0, <1>2, <1>k, <1>6 DEF SubmitShort, Finish, Finished, Return, Go
  <2>2. CASE prog[k].in
    <3>1. Effects(t, k, "leave", FALSE, FALSE, TRUE)
      BY <1>0, <1>k, <2>1, <2>2, GoEffects DEF Places
    <3>2. \/ prog[k].kind \in {"host", "deferred"} /\ claimed[k] = t
          \/ prog[k].kind = "kernel"
      BY <1>0, <1>1, <2>2, <1>6, <1>2 DEF InRegion, SubmitShort, Finish
    <3>3. prog[k].kind = "deferred" => arrived[k] = Thread
      BY <1>0, <1>1, <2>2 DEF InRegion
    <3>4. InRegion(t, k)'
      BY <1>0, <3>1, <3>2, <3>3 DEF InRegion, Effects
    <3>5. claimed'[k] = t => prog[k].kind \in {"host", "deferred"}
      BY <1>0, <2>1, <3>1, <3>2, <1>k, <1>1 DEF ClaimOf, Effects
    <3> QED
      BY <1>2, <1>3, <2>2, <3>1, <3>2, <3>4, <3>5, RegionStep DEF Effects
  <2>3. CASE ~prog[k].in
    <3>1. Effects(t, k, "free", FALSE, FALSE, TRUE)
      BY <1>0, <1>k, <2>1, <2>3, GoEffects DEF Places
    <3> QED
      BY <1>0, <1>3, <2>3, <3>1, OutsideStep DEF Outside, Effects
  <2> QED
    BY <2>2, <2>3
<1> QED
  BY <1>4, <1>5, <1>6

\* The master waits outside until the team is behind it; the others follow.
LEMMA OutsideSteps ==
    ASSUME TypeOK, TeamInv, NEW t \in Thread, SkipOutside(t) \/ (t = Main /\ PassCounter)
    PROVE  TeamInv' /\ Typed'
<1>k. PICK k \in Ops : k = pos[t] /\ ~prog[k].in
  BY DEF SkipOutside, PassCounter, InOp
<1>0. /\ at[t] # "free" => Outside(t, k)
      /\ ArrivedOf(t, k) /\ DoneOf(t, k) /\ ClaimOf(k)
      /\ k \in Nat /\ prog[k].in \in BOOLEAN /\ Typed /\ t # None
  BY <1>k, HereNow
<1>1. CASE SkipOutside(t)
  <2>1. /\ at[t] = "free" /\ pos[Main] > k
        /\ pos' = [pos EXCEPT ![t] = k + 1]
        /\ UNCHANGED <<prog, at, claimed, arrived, done, owner>>
    BY <1>0, <1>k, <1>1 DEF SkipOutside, Outside
  <2>2. at' = [at EXCEPT ![t] = "free"]
    BY <1>0, <2>1 DEF Typed
  <2>3. Effects(t, k, "free", FALSE, FALSE, FALSE)
    BY <1>0, <1>k, <2>1, <2>2, GoEffects DEF Places
  <2>4. Main \in done[k] /\ Synced(k) /\ t # Main
    <3>1. PassedOf(Main, k)
      BY OmpCollectiveQueueAssumption DEF TeamInv
    <3> QED
      BY <1>k, <1>1, <2>1, <3>1 DEF PassedOf, SkipOutside
  <2>5. /\ at'[t] = "free" /\ pos'[t] = k + 1 /\ prog' = prog /\ pos'[Main] = pos[Main]
        /\ claimed' = claimed /\ arrived' = arrived /\ done' = done
    BY <2>1, <2>3, <2>4, OmpCollectiveQueueAssumption DEF Effects
  <2>6. Synced(k)'
    BY <1>0, <1>k, <2>3, <2>4 DEF Synced, Effects
  <2>7. PlaceOf(t)'
    BY <2>5 DEF PlaceOf
  <2>8. PassedOf(t, k)'
    BY <1>k, <2>1, <2>4, <2>5, <2>6 DEF PassedOf
  <2>9. ArrivedOf(t, k)' /\ DoneOf(t, k)'
    BY <1>0, <1>k, <2>5 DEF ArrivedOf, DoneOf
  <2>10. claimed'[k] = t => ClaimOf(k)'
    BY <1>0, <1>k, <2>5 DEF ClaimOf
  <2>11. Here(t, k)'
    BY <2>7, <2>8, <2>9, <2>10 DEF Here
  <2> QED
    BY <1>0, <2>1, <2>3, <2>11, Elsewhere DEF Effects
<1>2. CASE t = Main /\ PassCounter
  <2>1. /\ Synced(k) /\ at' = [at EXCEPT ![t] = "submit"]
        /\ UNCHANGED <<prog, pos, claimed, arrived, done, owner>>
    BY <1>k, <1>2 DEF PassCounter, Go, Synced
  <2>2. Effects(t, k, "submit", FALSE, FALSE, FALSE)
    BY <1>0, <1>k, <2>1, GoEffects DEF Places
  <2> QED
    BY <1>k, <1>2, <2>1, <2>2, OutsideStep DEF Effects
<1> QED
  BY <1>1, <1>2

-----------------------------------------------------------------------------
(* The parent's mutex and the two counters.                                *)

\* A step of a thread leaves the others where they are.
LEMMA ThreadFrame ==
    ASSUME Typed, NEW t \in Thread, Step(t) \/ (t = Main /\ PassCounter)
    PROVE  /\ \A u \in Thread \ {t} : at'[u] = at[u] /\ pos'[u] = pos[u]
           /\ prog' = prog /\ Ops' = Ops
<1>1. /\ \E place : at' = [at EXCEPT ![t] = place] \/ at' = at
      /\ pos' = pos \/ pos' = [pos EXCEPT ![t] = @ + 1]
      /\ prog' = prog
  <2>1. CASE t = Main /\ PassCounter
    BY <2>1 DEF PassCounter, Go
  <2>2. CASE ReachBarrier(t) \/ PassBarrier(t) \/ PassGate(t)
    BY <2>2 DEF ReachBarrier, PassBarrier, PassGate, Go, Return
  <2>3. CASE Enter(t)
    BY <2>3 DEF Enter, Go
  <2>4. CASE SingleNowait(t) \/ Leave(t) \/ LeaveRefused(t) \/ SingleAndWait(t)
    BY <2>4 DEF SingleNowait, Leave, LeaveRefused, SingleAndWait, Go, Return
  <2>5. CASE Collect(t) \/ LeaveSingle(t) \/ SkipOutside(t) \/ Submit(t) \/ Execute(t)
    BY <2>5 DEF Collect, LeaveSingle, SkipOutside, Submit, Execute, Go
  <2>6. CASE SubmitShort(t) \/ Finish(t)
    BY <2>6 DEF SubmitShort, Finish, Finished, Go, Return
  <2> QED
    BY <2>1, <2>2, <2>3, <2>4, <2>5, <2>6 DEF Step
<1> QED
  BY <1>1 DEF Typed, Ops

\* A step that leaves the mutex alone, of a thread that does not hold it.
LEMMA OwnerQuiet ==
    ASSUME TypeOK, OwnerInv, NEW t \in Thread, UNCHANGED <<owner, depth>>, Ops' = Ops,
           \A u \in Thread \ {t} : at'[u] = at[u],
           owner # t,
           owner = Other => /\ done' = done
                            /\ at'[t] \in {"free", "arrived", "ordered", "single", "submit"}
    PROVE  OwnerInv'
  BY OmpCollectiveQueueAssumption DEF OwnerInv

\* The steps of the threads keep the mutex and the parent's depth in step.
LEMMA OwnerStep ==
    ASSUME TypeOK, TeamInv, OwnerInv, NEW t \in Thread, Step(t) \/ (t = Main /\ PassCounter)
    PROVE  OwnerInv' /\ depth' \in 0..1 /\ owner' \in Thread \cup {None, Other, Callback}
<1>0. /\ Typed /\ depth \in 0..1 /\ owner \in Thread \cup {None, Other, Callback}
      /\ Ops' = Ops /\ \A u \in Thread \ {t} : at'[u] = at[u]
      /\ at[t] \in Places /\ PlaceOf(t) /\ at \in [Thread -> Places]
  <2>1. Typed
    BY TypeParts
  <2> QED
    BY <2>1, TypeParts, ThreadFrame DEF Typed, TeamInv
<1>1. CASE \/ t = Main /\ PassCounter
           \/ ReachBarrier(t) \/ PassBarrier(t) \/ SingleAndWait(t) \/ SkipOutside(t)
  <2>1. at[t] \in {"free", "arrived"}
    BY <1>0, <1>1, OmpCollectiveQueueAssumption
       DEF PassCounter, ReachBarrier, PassBarrier, SingleAndWait, SkipOutside, PlaceOf, Outside, InOp
  <2>2. /\ UNCHANGED <<owner, depth, done>>
        /\ at'[t] \in {"free", "arrived", "ordered", "single", "submit"}
    BY <1>0, <1>1, <2>1
       DEF PassCounter, ReachBarrier, PassBarrier, SingleAndWait, SkipOutside, Go, Return
  <2>3. owner # t
    BY <2>1 DEF OwnerInv
  <2> QED
    BY <1>0, <2>2, <2>3, OwnerQuiet
<1>2. CASE \/ PassGate(t) \/ Enter(t) \/ SingleNowait(t) \/ Leave(t) \/ LeaveRefused(t)
           \/ Collect(t) \/ LeaveSingle(t) \/ SubmitShort(t)
  <2>1. at[t] \notin {"locked", "executing"} /\ UNCHANGED <<owner, depth>>
    <3>1. CASE PassGate(t)
      <4>1. KindOf(t) \in Kind
        BY <1>0, <3>1, OpsType DEF PassGate, InOp, KindOf
      <4> QED
        BY <3>1, <4>1 DEF PassGate, AtGate, Kind
    <3> QED
      BY <1>2, <3>1 DEF Enter, SingleNowait, Leave, LeaveRefused, Collect, LeaveSingle, SubmitShort
  <2>2. owner # Other
    <3>1. owner = Other => depth = 1 /\ at[t] \in {"free", "arrived", "ordered", "single", "submit"}
      BY DEF OwnerInv
    <3>2. CASE PassGate(t)
      BY <3>1, <3>2 DEF PassGate, ParentIsEmpty
    <3>3. CASE SubmitShort(t)
      BY <3>1, <3>3, OmpCollectiveQueueAssumption DEF SubmitShort, Waited
    <3> QED
      BY <1>2, <3>1, <3>2, <3>3 DEF Enter, SingleNowait, Leave, LeaveRefused, Collect, LeaveSingle
  <2>3. owner # t
    BY <2>1 DEF OwnerInv
  <2> QED
    BY <1>0, <2>1, <2>2, <2>3, OwnerQuiet
<1>3. CASE Submit(t)
  <2>1. owner' = t /\ owner = None /\ depth' = depth /\ at'[t] = "locked"
    BY <1>0, <1>3 DEF Submit, Go
  <2> QED
    BY <1>0, <2>1, OmpCollectiveQueueAssumption DEF OwnerInv
<1>4. CASE Execute(t)
  <2>1. owner = t /\ owner' = t /\ at[t] = "locked" /\ depth' = depth + 1 /\ at'[t] = "executing"
    BY <1>0, <1>4 DEF Execute, Go, PlaceOf
  <2> QED
    BY <1>0, <2>1, OmpCollectiveQueueAssumption DEF OwnerInv
<1>5. CASE Finish(t) /\ owner = t
  <2>1. owner' = None /\ depth' = depth - 1 /\ at[t] = "executing"
    BY <1>5 DEF Finish
  <2> QED
    BY <1>0, <1>5, <2>1, OmpCollectiveQueueAssumption DEF OwnerInv
<1>6. CASE Finish(t) /\ owner # t
  <2>1. UNCHANGED <<owner, depth>> /\ owner # Other
    BY <1>6 DEF Finish, OwnerInv
  <2> QED
    BY <1>0, <1>6, <2>1, OwnerQuiet
<1> QED
  BY <1>1, <1>2, <1>3, <1>4, <1>5, <1>6 DEF Step

\* The team's counter after a step of a thread.
LEMMA Counting ==
    ASSUME TypeOK, CountInv, NEW t \in Thread, prog' = prog,
           \A u \in Thread \ {t} : at'[u] = at[u] /\ pos'[u] = pos[u],
           \/ counter' = counter /\ (t \in Counted' => t \in Counted)
           \/ counter' = counter + 1
           \/ counter' = counter - 1 /\ t \in Counted /\ t \notin Counted'
    PROVE  CountInv' /\ counter' \in Nat
<1>1. counter \in Nat /\ Cardinality(Counted) <= counter
  BY TypeParts DEF CountInv
<1>2. Counted' \in SUBSET (Counted \cup {t}) /\ Counted \in SUBSET Thread
  BY DEF Counted
<1>3. /\ IsFiniteSet(Counted) /\ IsFiniteSet(Counted')
      /\ Cardinality(Counted) \in Nat /\ Cardinality(Counted') \in Nat
      /\ Cardinality(Counted \cup {t}) <= Cardinality(Counted) + 1
      /\ Cardinality(Counted') <= Cardinality(Counted \cup {t})
  <2>1. IsFiniteSet(Counted)
    BY <1>2, FS_Subset, OmpCollectiveQueueAssumption
  <2>2. /\ IsFiniteSet(Counted \cup {t})
        /\ Cardinality(Counted \cup {t}) = IF t \in Counted THEN Cardinality(Counted)
                                           ELSE Cardinality(Counted) + 1
    BY <2>1, FS_AddElement
  <2>3. IsFiniteSet(Counted') /\ Cardinality(Counted') <= Cardinality(Counted \cup {t})
    BY <1>2, <2>2, FS_Subset
  <2>4. Cardinality(Counted) \in Nat /\ Cardinality(Counted') \in Nat
    BY <2>1, <2>3, FS_CardinalityType
  <2> QED
    BY <2>1, <2>2, <2>3, <2>4
<1>4. CASE counter' = counter /\ (t \in Counted' => t \in Counted)
  <2>1. Counted' \in SUBSET Counted
    BY <1>2, <1>4
  <2>2. Cardinality(Counted') <= Cardinality(Counted)
    BY <1>3, <2>1, FS_Subset
  <2> QED
    BY <1>1, <1>3, <1>4, <2>2 DEF CountInv
<1>5. CASE counter' = counter + 1
  <2>1. Cardinality(Counted \cup {t}) \in Nat
    <3>1. IsFiniteSet(Counted \cup {t})
      BY <1>3, FS_AddElement
    <3> QED
      BY <3>1, FS_CardinalityType
  <2> QED
    BY <1>1, <1>3, <1>5, <2>1 DEF CountInv
<1>6. CASE counter' = counter - 1 /\ t \in Counted /\ t \notin Counted'
  <2>1. Counted' \in SUBSET (Counted \ {t})
    BY <1>2, <1>6
  <2>2. /\ IsFiniteSet(Counted \ {t})
        /\ Cardinality(Counted \ {t}) = Cardinality(Counted) - 1
    BY <1>3, <1>6, FS_RemoveElement
  <2>3. Cardinality(Counted') <= Cardinality(Counted) - 1
    BY <2>1, <2>2, FS_Subset
  <2> QED
    BY <1>1, <1>3, <1>6, <2>3 DEF CountInv
<1> QED
  BY <1>4, <1>5, <1>6

\* The counter counts at least the threads that are in an operation.
LEMMA CountStep ==
    ASSUME TypeOK, TeamInv, CountInv, NEW t \in Thread, Step(t) \/ (t = Main /\ PassCounter)
    PROVE  CountInv' /\ counter' \in Nat
<1>0. /\ Typed /\ prog' = prog /\ Ops' = Ops
      /\ \A u \in Thread \ {t} : at'[u] = at[u] /\ pos'[u] = pos[u]
      /\ at \in [Thread -> Places] /\ pos \in [Thread -> 1..(Len(prog) + 1)]
      /\ PlaceOf(t)
  <2>1. Typed
    BY TypeParts
  <2> QED
    BY <2>1, ThreadFrame DEF Typed, TeamInv
<1>1. /\ t \in Counted <=> \/ at[t] \in {"entered", "refused", "leave", "call", "called"}
                           \/ at[t] \in {"submit", "locked", "executing"} /\ prog[pos[t]].in
      /\ t \in Counted' <=> \/ at'[t] \in {"entered", "refused", "leave", "call", "called"}
                            \/ at'[t] \in {"submit", "locked", "executing"} /\ prog'[pos'[t]].in
  BY DEF Counted
<1>2. CASE ReachBarrier(t) \/ PassBarrier(t) \/ PassGate(t) \/ LeaveRefused(t) \/ SingleAndWait(t)
  <2>1. counter' = counter /\ at'[t] \in {"free", "arrived", "ordered", "gated", "single"}
    BY <1>0, <1>2 DEF ReachBarrier, PassBarrier, PassGate, LeaveRefused, SingleAndWait, Go, Return
  <2> QED
    BY <1>0, <1>1, <2>1, Counting
<1>3. CASE Enter(t)
  <2>1. counter' = counter + 1
    BY <1>3 DEF Enter
  <2> QED
    BY <1>0, <2>1, Counting
<1>4. CASE SingleNowait(t) \/ Collect(t)
  <2>1. counter' = counter /\ at[t] \in {"entered", "call"}
    BY <1>4 DEF SingleNowait, Collect
  <2> QED
    BY <1>0, <1>1, <2>1, Counting
<1>5. CASE Leave(t) \/ LeaveSingle(t)
  <2>1. counter' = counter - 1 /\ at[t] \in {"leave", "called"} /\ at'[t] \in {"free", "arrived"}
    BY <1>0, <1>5 DEF Leave, LeaveSingle, Go, Return
  <2> QED
    BY <1>0, <1>1, <2>1, Counting
<1>6. CASE SkipOutside(t)
  <2>1. counter' = counter /\ at'[t] = "free"
    BY <1>0, <1>6 DEF SkipOutside, InOp, PlaceOf, Outside
  <2> QED
    BY <1>0, <1>1, <2>1, Counting
<1>7. CASE t = Main /\ PassCounter
  <2>1. counter' = counter /\ at'[t] = "submit" /\ prog'[pos'[t]].in = FALSE
    BY <1>0, <1>7 DEF PassCounter, InOp, Go
  <2> QED
    BY <1>0, <1>1, <2>1, Counting
<1>8. CASE Submit(t) \/ Execute(t)
  <2>1. /\ counter' = counter /\ pos' = pos
        /\ at[t] \in {"submit", "locked"} /\ at'[t] \in {"locked", "executing"}
    BY <1>0, <1>8 DEF Submit, Execute, Go
  <2> QED
    BY <1>0, <1>1, <2>1, Counting
<1>9. CASE SubmitShort(t) \/ Finish(t)
  <2>1. /\ counter' = counter /\ at[t] \in {"submit", "executing"}
        /\ IF InOp(t, TRUE) THEN at'[t] = "leave" ELSE at'[t] = "free"
    BY <1>0, <1>9 DEF SubmitShort, Finish, Finished, Go, Return
  <2>2. InOp(t, TRUE) => prog[pos[t]].in
    BY DEF InOp
  <2> QED
    BY <1>0, <1>1, <2>1, <2>2, Counting
<1> QED
  BY <1>2, <1>3, <1>4, <1>5, <1>6, <1>7, <1>8, <1>9 DEF Step

-----------------------------------------------------------------------------
(* The inductive invariant holds.                                          *)

\* The frame of a step of the parent alone: the mutex goes from no thread to no
\* thread and the team stays where it is.
LEMMA ParentAlone ==
    ASSUME TypeOK, TeamInv, CountInv, owner \notin Thread,
           UNCHANGED <<prog, pos, at, claimed, arrived, done, counter>>
    PROVE  TeamInv' /\ Typed' /\ CountInv'
<1>1. Typed /\ Ops' = Ops
  BY TypeParts DEF Ops
<1>2. Typed' /\ Counted' = Counted
  BY <1>1 DEF Typed, Counted
<1>3. ASSUME NEW k \in Ops PROVE ClaimOf(k)' /\ (Synced(k)' <=> Synced(k))
  BY <1>3 DEF TeamInv, ClaimOf, Synced
<1>4. ASSUME NEW t \in Thread, NEW k \in Ops PROVE PassedOf(t, k)' /\ ArrivedOf(t, k)' /\ DoneOf(t, k)'
  <2>1. PassedOf(t, k) /\ ArrivedOf(t, k) /\ DoneOf(t, k)
    BY DEF TeamInv
  <2>2. PassedOf(t, k)'
    BY <1>3, <2>1 DEF PassedOf
  <2> QED
    BY <2>1, <2>2 DEF ArrivedOf, DoneOf
<1>5. ASSUME NEW t \in Thread PROVE PlaceOf(t)'
  <2>1. PlaceOf(t) /\ owner # t
    BY DEF TeamInv
  <2>2. CASE at[t] = "free"
    BY <2>1, <2>2 DEF PlaceOf
  <2>3. CASE at[t] # "free"
    <3>1. PICK k \in Ops : k = pos[t]
      BY <2>1, <2>3 DEF PlaceOf
    <3>2. IF prog[k].in THEN InRegion(t, k) ELSE Outside(t, k)
      BY <2>1, <2>3, <3>1 DEF PlaceOf
    <3>3. IF prog[k].in THEN InRegion(t, k)' ELSE Outside(t, k)'
      BY <1>3, <2>1, <3>2 DEF InRegion, Outside
    <3> QED
      BY <1>1, <2>1, <2>3, <3>1, <3>3 DEF PlaceOf
  <2> QED
    BY <2>2, <2>3
<1> QED
  BY <1>1, <1>2, <1>3, <1>4, <1>5 DEF TeamInv, CountInv

\* Before the program begins.
LEMMA InitInv == Init => IndInv
<1> SUFFICES ASSUME Init PROVE IndInv
  OBVIOUS
<1> USE OmpCollectiveQueueAssumption
<1>1. TypeOK
  <2>1. prog \in Seq([kind : Kind, in : BOOLEAN])
    BY DEF Init
  <2>2. Len(prog) \in Nat
    BY <2>1
  <2>3. pos \in [Thread -> 1..(Len(prog) + 1)]
    BY <2>2 DEF Init
  <2> QED
    BY <2>3 DEF Init, TypeOK
<1>2. Ops \subseteq Nat \ {0}
  BY <1>1, TypeParts, OpsType
<1>3. TeamInv
  BY <1>2 DEF Init, TeamInv, PlaceOf, PassedOf, ArrivedOf, DoneOf, ClaimOf
<1>4. OwnerInv
  BY DEF Init, OwnerInv
<1>5. CountInv
  <2>1. Counted = {}
    BY DEF Init, Counted
  <2> QED
    BY <2>1, FS_EmptySet DEF Init, CountInv
<1> QED
  BY <1>1, <1>3, <1>4, <1>5 DEF IndInv

\* Every step keeps it.
LEMMA StepInv == IndInv /\ [Next]_vars => IndInv'
<1> SUFFICES ASSUME IndInv, [Next]_vars PROVE IndInv'
  OBVIOUS
<1>0. /\ TypeOK /\ TeamInv /\ OwnerInv /\ CountInv
      /\ Typed /\ counter \in Nat /\ depth \in 0..1 /\ frees \in Nat
      /\ owner \in Thread \cup {None, Other, Callback}
  BY TypeParts DEF IndInv
<1>t. ASSUME TeamInv', Typed', OwnerInv', CountInv', counter' \in Nat, depth' \in 0..1, frees' \in Nat,
             owner' \in Thread \cup {None, Other, Callback}
      PROVE  IndInv'
  BY <1>t DEF IndInv, TypeOK, Typed, Places
<1>1. ASSUME NEW t \in Thread, Step(t) \/ (t = Main /\ PassCounter) PROVE IndInv'
  <2>1. TeamInv' /\ Typed'
    <3>1. CASE ReachBarrier(t) \/ PassBarrier(t) \/ PassGate(t)
      BY <1>0, <3>1, BarrierSteps
    <3>2. CASE Enter(t) \/ SingleNowait(t) \/ SingleAndWait(t)
      BY <1>0, <3>2, EnterSteps
    <3>3. CASE Leave(t) \/ LeaveRefused(t) \/ Collect(t) \/ LeaveSingle(t)
      BY <1>0, <3>3, LeaveSteps
    <3>4. CASE Submit(t) \/ Execute(t) \/ SubmitShort(t) \/ Finish(t)
      BY <1>0, <3>4, ParentSteps
    <3>5. CASE SkipOutside(t) \/ (t = Main /\ PassCounter)
      BY <1>0, <3>5, OutsideSteps
    <3> QED
      BY <1>1, <3>1, <3>2, <3>3, <3>4, <3>5 DEF Step
  <2>2. OwnerInv' /\ depth' \in 0..1 /\ owner' \in Thread \cup {None, Other, Callback}
    BY <1>0, <1>1, OwnerStep
  <2>3. CountInv' /\ counter' \in Nat
    BY <1>0, <1>1, CountStep
  <2>4. frees' \in {frees, frees + 1}
    BY <1>1 DEF Step, ReachBarrier, PassBarrier, PassGate, Enter, SingleNowait, Leave, LeaveRefused,
                SingleAndWait, Collect, LeaveSingle, SkipOutside, PassCounter, Submit, Execute,
                SubmitShort, Finish
  <2> QED
    BY <1>0, <1>t, <2>1, <2>2, <2>3, <2>4
<1>2. CASE FreeBegin \/ FreeExecute \/ ParentEnd
  <2>1. /\ owner \notin Thread /\ UNCHANGED <<prog, pos, at, claimed, arrived, done, counter>>
        /\ owner' \in {None, Callback} /\ frees' \in Nat
        /\ owner' = None => depth' = 0
        /\ depth' \in 0..1
    BY <1>0, <1>2, OmpCollectiveQueueAssumption DEF FreeBegin, FreeExecute, ParentEnd, OwnerInv
  <2>2. TeamInv' /\ Typed' /\ CountInv'
    BY <1>0, <2>1, ParentAlone
  <2>3. OwnerInv'
    BY <2>1, OmpCollectiveQueueAssumption DEF OwnerInv
  <2> QED
    BY <1>0, <1>t, <2>1, <2>2, <2>3
<1>3. CASE UNCHANGED vars
  <2>1. UNCHANGED <<prog, pos, at, claimed, arrived, done, counter, depth, owner, frees>> /\ Ops' = Ops
    BY <1>3 DEF vars, Ops
  <2> QED
    BY <1>0, <2>1 DEF IndInv, TypeOK, TeamInv, OwnerInv, CountInv, Counted, PlaceOf, PassedOf, ArrivedOf,
                      DoneOf, ClaimOf, InRegion, Outside, Synced
<1> QED
  <2>1. (\E t \in Thread : Step(t)) \/ PassCounter \/ FreeBegin \/ FreeExecute \/ ParentEnd \/ UNCHANGED vars
    BY DEF Next
  <2> QED
    BY <1>1, <1>2, <1>3, <2>1, OmpCollectiveQueueAssumption

\* In every state of the program the inductive invariant holds.
THEOREM Invariance == Spec => []IndInv
  BY InitInv, StepInv, PTL DEF Spec

\* The team's and the parent's counter never leave their range: no thread takes
\* back from numCollectiveTasksExecuted what it did not add, and the parent
\* executes one task at a time.
THEOREM TypeCorrect == Spec => []TypeOK
<1>1. IndInv => TypeOK
  BY DEF IndInv
<1> QED
  BY <1>1, Invariance, PTL

-----------------------------------------------------------------------------
(* The order of the operations.                                            *)

\* When the whole team is past an operation, all of it is executed.
LEMMA TeamPast ==
    ASSUME IndInv, NEW i \in Ops, NEW k \in Ops, i < k, Synced(k)
    PROVE  Complete(i)
<1>1. \A t \in Thread : pos[t] > i
  <2>1. Typed
    BY TypeParts DEF IndInv
  <2> QED
    BY <2>1, OpsType DEF Synced, Typed
<1>2. /\ \A t \in Thread : PassedOf(t, i)
      /\ ClaimOf(i) /\ claimed[i] \in Thread \cup {None} /\ done[i] \subseteq Thread
      /\ prog[i].kind \in Kind /\ Main \in Thread
  <2>1. Typed
    BY TypeParts DEF IndInv
  <2> QED
    BY <2>1, OpsType, OmpCollectiveQueueAssumption DEF IndInv, TeamInv, Typed
<1>3. CASE ~prog[i].in
  <2>1. Main \in done[i]
    BY <1>1, <1>2, <1>3 DEF PassedOf
  <2> QED
    BY <1>3, <2>1 DEF Complete
<1>4. CASE prog[i].in /\ prog[i].kind = "kernel"
  <2>1. done[i] = Thread
    BY <1>1, <1>2, <1>4 DEF PassedOf
  <2> QED
    BY <1>4, <2>1 DEF Complete
<1>5. CASE prog[i].in /\ prog[i].kind \in {"host", "deferred", "collect"}
  <2>1. claimed[i] # None
    BY <1>1, <1>2, <1>5 DEF PassedOf
  <2>2. claimed[i] \in done[i]
    BY <1>1, <1>2, <2>1 DEF ClaimOf
  <2> QED
    BY <1>5, <2>2 DEF Complete
<1> QED
  BY <1>2, <1>3, <1>4, <1>5 DEF Complete, Kind

\* A thread that is past a barrier, or past the end of a region, has the team at
\* its heels; the single of an operation that waits is executed by then.
LEMMA PastBarrier ==
    ASSUME IndInv, NEW t \in Thread, NEW k \in Ops, pos[t] > k,
           prog[k].kind \in {"deferred", "collect"} \/ ~prog[k].in
    PROVE  /\ Synced(k)
           /\ prog[k].kind = "collect" \/ ~prog[k].in => Complete(k)
<1>0. /\ \A u \in Thread : PassedOf(u, k) /\ ArrivedOf(u, k)
      /\ ClaimOf(k) /\ claimed[k] \in Thread \cup {None}
      /\ \A u \in Thread : pos[u] \in Nat
      /\ k \in Nat /\ Main \in Thread
  <2>1. Typed
    BY TypeParts DEF IndInv
  <2> QED
    BY <2>1, OpsType, OmpCollectiveQueueAssumption DEF IndInv, TeamInv, Typed
<1>1. CASE ~prog[k].in
  <2>1. Main \in done[k] /\ Synced(k)
    BY <1>0, <1>1 DEF PassedOf
  <2> QED
    BY <1>1, <2>1 DEF Complete
<1>2. CASE prog[k].in
  <2>1. arrived[k] = Thread /\ prog[k].kind \in {"deferred", "collect"}
    BY <1>0, <1>2 DEF PassedOf
  <2>2. Synced(k)
    BY <1>0, <2>1 DEF ArrivedOf, Synced
  <2>3. ASSUME prog[k].kind = "collect" PROVE Complete(k)
    <3>1. claimed[k] # None
      BY <1>0, <1>2, <2>3 DEF PassedOf
    <3>2. PICK c \in Thread : c = claimed[k]
      BY <1>0, <3>1
    <3>3. pos[c] = k => at[c] = "arrived"
      BY <1>0, <2>1, <2>3 DEF ArrivedOf
    <3>4. c \in done[k]
      BY <1>0, <3>1, <3>2, <3>3 DEF ClaimOf
    <3> QED
      BY <2>3, <3>4 DEF Complete
  <2> QED
    BY <1>2, <2>2, <2>3
<1> QED
  BY <1>1, <1>2

\* An operation behind a barrier, or outside, begins when the whole team is there.
LEMMA BeginsTogether ==
    ASSUME IndInv, NEW j \in Ops, Begun(j), prog[j].kind = "deferred" \/ ~prog[j].in
    PROVE  Synced(j)
<1>0. /\ \A u \in Thread : PassedOf(u, j) /\ ArrivedOf(u, j) /\ DoneOf(u, j) /\ PlaceOf(u)
      /\ \A u \in Thread : pos[u] \in Nat
      /\ j \in Nat /\ done[j] \subseteq Thread /\ prog[j].in \in BOOLEAN
  <2>1. Typed
    BY TypeParts DEF IndInv
  <2> QED
    BY <2>1, OpsType DEF IndInv, TeamInv, Typed
<1>1. CASE done[j] # {}
  <2>1. PICK t \in Thread : t \in done[j]
    BY <1>0, <1>1
  <2>2. CASE prog[j].in
    <3>1. arrived[j] = Thread
      BY <1>0, <2>1, <2>2 DEF DoneOf
    <3> QED
      BY <1>0, <3>1 DEF ArrivedOf, Synced
  <2>3. CASE ~prog[j].in
    <3>1. pos[t] > j
      BY <1>0, <2>1, <2>3 DEF DoneOf
    <3> QED
      BY <1>0, <2>3, <3>1 DEF PassedOf
  <2> QED
    BY <2>2, <2>3
<1>2. CASE done[j] = {}
  <2>1. PICK t \in Thread : pos[t] = j /\ at[t] = "executing"
    BY <1>2 DEF Begun
  <2>2. IF prog[j].in THEN InRegion(t, j) ELSE Outside(t, j)
    BY <1>0, <2>1 DEF PlaceOf
  <2> QED
    BY <2>1, <2>2 DEF InRegion, Outside
<1> QED
  BY <1>1, <1>2

\* Operations begin in the documented order: whenever the team synchronises
\* between two operations, the later one begins when every thread's part of the
\* earlier one is executed.
THEOREM OperationsInOrder == Spec => []OrderedAcrossSync
<1>1. ASSUME IndInv PROVE OrderedAcrossSync
  <2> SUFFICES ASSUME NEW i \in Ops, NEW j \in Ops, i < j, SyncBetween(i, j), Begun(j)
               PROVE  Complete(i)
    BY DEF OrderedAcrossSync
  <2>0. Typed
    BY <1>1, TypeParts DEF IndInv
  <2>1. i \in Nat /\ j \in Nat /\ \A k \in i..j : k \in Ops /\ k \in Nat
    BY <2>0, OpsType
  <2>2. PICK t \in Thread : pos[t] >= j
    <3>1. CASE done[j] # {}
      <4>1. \A u \in Thread : DoneOf(u, j)
        BY <1>1 DEF IndInv, TeamInv
      <4>2. done[j] \subseteq Thread
        BY <2>0 DEF Typed
      <4> QED
        BY <3>1, <4>1, <4>2 DEF DoneOf
    <3>2. CASE done[j] = {}
      BY <2>1, <3>2 DEF Begun
    <3> QED
      BY <3>1, <3>2
  <2>3. pos[t] \in Nat
    BY <2>0 DEF Typed
  <2>4. ASSUME NEW k \in i..j, k < j, k > i \/ prog[k].kind = "collect" \/ ~prog[k].in,
               prog[k].kind \in {"deferred", "collect"} \/ ~prog[k].in
        PROVE  Complete(i)
    <3>1. pos[t] > k /\ k \in Ops /\ k \in Nat /\ (k > i \/ k = i)
      BY <2>1, <2>2, <2>3, <2>4
    <3>2. Synced(k) /\ (prog[k].kind = "collect" \/ ~prog[k].in => Complete(k))
      BY <1>1, <2>4, <3>1, PastBarrier
    <3> QED
      BY <1>1, <2>1, <2>4, <3>1, <3>2, TeamPast
  <2>5. ASSUME prog[j].kind = "deferred" \/ ~prog[j].in PROVE Complete(i)
    BY <1>1, <2>5, BeginsTogether, TeamPast
  <2>6. CASE prog[j].kind = "deferred"
    BY <2>5, <2>6
  <2>7. CASE \E k \in i..j : (k > i /\ prog[k].kind = "deferred") \/ (k < j /\ prog[k].kind = "collect")
    <3>1. PICK k \in i..j : (k > i /\ prog[k].kind = "deferred") \/ (k < j /\ prog[k].kind = "collect")
      BY <2>7
    <3>2. k < j \/ k = j
      BY <2>1
    <3> QED
      BY <2>4, <2>5, <3>1, <3>2
  <2>8. CASE \E k \in i..j : ~prog[k].in
    <3>1. PICK k \in i..j : ~prog[k].in
      BY <2>8
    <3>2. k < j \/ k = j
      BY <2>1
    <3> QED
      BY <2>4, <2>5, <3>1, <3>2
  <2> QED
    BY <2>6, <2>7, <2>8 DEF SyncBetween
<1> QED
  BY <1>1, Invariance, PTL

\* A wait of the team covers the team: when any thread returns from it, every
\* thread's part of every earlier operation is executed.
THEOREM WaitIsForAll == Spec => []WaitCoversTeam
<1>1. ASSUME IndInv PROVE WaitCoversTeam
  <2> SUFFICES ASSUME NEW t \in Thread, NEW k \in Ops, pos[t] > k, prog[k].kind = "collect",
                      NEW i \in 1..k
               PROVE  Complete(i)
    BY DEF WaitCoversTeam
  <2>1. i \in Ops /\ (i < k \/ i = k)
    <3>1. Typed
      BY <1>1, TypeParts DEF IndInv
    <3> QED
      BY <3>1, OpsType
  <2>2. Synced(k) /\ Complete(k)
    BY <1>1, PastBarrier
  <2> QED
    BY <1>1, <2>1, <2>2, TeamPast
<1> QED
  BY <1>1, Invariance, PTL

\* A task that was enqueued outside before the team's first operation ends
\* before any operation of the team begins.
THEOREM OutsideFirst == Spec => []OutsideTaskFirst
<1>1. IndInv => OutsideTaskFirst
  BY DEF IndInv, OwnerInv, OutsideTaskFirst, Begun
<1> QED
  BY <1>1, Invariance, PTL
=============================================================================
