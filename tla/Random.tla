------------------------------- MODULE Random -------------------------------
(***************************************************************************)
(* Kernels that fill memory with random numbers, as the tutorial shows:    *)
(* every thread makes a Philox engine of its own, told apart by the seed,  *)
(* the subsequence or the offset, and stores a number of a distribution at *)
(* each index that the index map gives it.                                 *)
(*                                                                         *)
(* The shuffle of Philox is one to one for a key, so that a word of random *)
(* bits is named by what it is made of: key, counter and position in the   *)
(* result.  A number is the set of words it is computed from.              *)
(*                                                                         *)
(* The module adds these kernels to the loops of SimdAlgo and IdxMap.      *)
(***************************************************************************)
EXTENDS SimdAlgo

CONSTANTS RandomLaunches,   \* launches with a field rand: the engine, the distribution, the words
                            \* of a uniform number (float or double), the engines' arguments
          Word              \* bound: uint32_t holds 0 .. Word - 1, uint64_t 0 .. Word^2 - 1

ASSUME RandomAssumption ==
    /\ Word \in Nat \ {0, 1}
    /\ \A l \in RandomLaunches :
        /\ l.lower = <<>>
        /\ l.rand.vector \in BOOLEAN /\ l.rand.words \in {1, 2}
        /\ l.rand.dist \in {"uniform", "normal"}
        /\ l.rand.vector => l.rand.dist = "uniform"
        \* Philox4x32x10Vector takes arguments of uint32_t
        /\ LET Arg == 0..(IF l.rand.vector THEN Word ELSE Word^2) - 1
           IN  \A k \in 0..Product(l.count) - 1 :
                   l.rand.args[k] \in [seed : Arg, subsequence : Arg, offset : Arg]

VARIABLES engine,       \* the engine of the thread that iterates
          second,       \* the second sample of Box-Muller, or {}
          drawn         \* how often each number was stored

randomVars == <<simdVars, engine, second, drawn>>

-----------------------------------------------------------------------------
(* The engines.                                                            *)

Low(x) == x % Word
High(x) == (x \div Word) % Word

Position == 1..4

Plus(a, b) == (a + b) % Word

Carry(overflow) == IF overflow THEN 1 ELSE 0

\* counter + 1, with a carry through all words
AdvanceCounter(c) ==
    [i \in Position |-> IF \A k \in 1..i - 1 : c[k] = Word - 1 THEN Plus(c[i], 1) ELSE c[i]]

\* the carries compare the lowest word with the old value of the next ones
Skip4(c, offset) ==
    LET low == Plus(c[1], Low(offset))
    IN  <<low,
          Plus(c[2], High(offset) + Carry(low < c[1])),
          Plus(c[3], Carry(low < c[2])),
          Plus(c[4], Carry(low < c[3]))>>

SkipSubsequence(c, subsequence) ==
    LET third == Plus(c[3], Low(subsequence))
    IN  <<c[1], c[2], third, Plus(c[4], High(subsequence) + Carry(third < c[3]))>>

\* the words that the shuffle makes of a counter
NRounds(c, key) == [i \in Position |-> <<key, c, i>>]

\* the first word is the next one
Shift(result) == [i \in Position |-> IF i < 4 THEN result[i + 1] ELSE result[i]]

AdvanceState(e) ==
    LET c == AdvanceCounter(e.counter)
    IN  [e EXCEPT !.counter = c, !.result = NRounds(c, e.key), !.position = 0]

\* skip of PhiloxSingle: what it does to the result does not outlive the
\* constructor, which advances the state next
Skip(e, offset) ==
    LET position == e.position + (offset % 4)
        beyond == IF position < 4 THEN 0 ELSE 4
        shifted[k \in 0..3] == IF k = 0 THEN e.result ELSE Shift(shifted[k - 1])
    IN  [e EXCEPT !.position = position - beyond,
                  !.result = shifted[position - beyond],
                  !.counter = Skip4(@, ((offset + beyond) % Word^2) \div 4)]

NoEngine == [key |-> <<>>, counter |-> <<>>, result |-> <<>>, position |-> 0]

\* the constructors, with seed, subsequence and offset
Philox(vector, a) ==
    LET e == [NoEngine EXCEPT !.key = <<Low(a.seed), High(a.seed)>>,
                              !.counter = SkipSubsequence(Fill(4, 0), a.subsequence)]
    IN  IF vector
        THEN [e EXCEPT !.counter = AdvanceCounter(Skip4(@, a.offset))]
        ELSE AdvanceState(Skip([e EXCEPT !.result = Fill(4, 0)], a.offset))


\* the engine after a word was taken from it
NextNumber(e) ==
    IF e.position + 1 = 4 THEN AdvanceState(e)
    ELSE [e EXCEPT !.position = @ + 1, !.result = Shift(@)]

-----------------------------------------------------------------------------
(* The distributions.                                                      *)

\* what a uniform number of n words leaves behind, and its words; in which
\* order a double is put together of two calls does not matter here
Uniform(e, n, vector) ==
    LET c == AdvanceCounter(e.counter)
        next == NextNumber(e)
    IN  CASE vector -> [engine |-> [e EXCEPT !.counter = c],
                        words |-> {NRounds(c, e.key)[i] : i \in 1..n}]
          [] ~vector /\ n = 1 -> [engine |-> next, words |-> {e.result[1]}]
          [] ~vector /\ n = 2 -> [engine |-> NextNumber(next),
                                  words |-> {e.result[1], next.result[1]}]

\* a number of UniformReal
DrawUniform ==
    /\ launch.rand.dist = "uniform"
    /\ LET u == Uniform(engine, launch.rand.words, launch.rand.vector)
       IN  /\ engine' = u.engine
           /\ drawn' = drawn (+) SetToBag({<<"uniform", u.words>>})
    /\ UNCHANGED second

\* NormalReal: two uniform numbers make two samples, one of which is kept
DrawNormal ==
    /\ launch.rand.dist = "normal"
    /\ LET u == Uniform(engine, launch.rand.words, FALSE)
           v == Uniform(u.engine, launch.rand.words, FALSE)
           pair == u.words \cup v.words
       IN  IF second # {}
           THEN /\ drawn' = drawn (+) SetToBag({<<"sin", second>>})
                /\ second' = {}
                /\ UNCHANGED engine
           ELSE /\ drawn' = drawn (+) SetToBag({<<"cos", pair>>})
                /\ second' = pair
                /\ engine' = v.engine

-----------------------------------------------------------------------------
(* The kernel.                                                             *)

\* a thread begins
MakeEngine ==
    /\ part = "random" /\ engine = NoEngine /\ ~Finished
    /\ engine' = Philox(launch.rand.vector, launch.rand.args[worker])
    /\ UNCHANGED <<simdVars, second, drawn>>

\* out[idx] = distribution(engine)
Store ==
    /\ part = "random" /\ engine # NoEngine
    /\ Visit
    /\ DrawUniform \/ DrawNormal
    /\ UNCHANGED <<part, rows, range, called>>

\* the thread ends, and with it its engine and its distribution
Retire ==
    /\ part = "random" /\ engine # NoEngine
    /\ NextThread \/ EndOfDirection
    /\ engine' = NoEngine /\ second' = {}
    /\ UNCHANGED <<part, rows, range, called, drawn>>

RandomInit ==
    /\ \/ SimdInit
       \/ /\ launch \in RandomLaunches
          /\ direction = FirstDirection(launch)
          /\ worker = 0
          /\ it = Loop(launch, Thread(launch, 0))
          /\ visits = EmptyBag
          /\ part = "random" /\ rows = NoLoop /\ called = 0 /\ range = launch
    /\ engine = NoEngine /\ second = {} /\ drawn = EmptyBag

RandomNext ==
    \/ SimdNext /\ UNCHANGED <<engine, second, drawn>>
    \/ MakeEngine \/ Store \/ Retire
    \/ part = "random" /\ Finished /\ UNCHANGED randomVars

\* Every thread of a kernel runs on.
RandomSpec == RandomInit /\ [][RandomNext]_randomVars /\ WF_randomVars(RandomNext)

-----------------------------------------------------------------------------
(* Properties.                                                             *)

=============================================================================
