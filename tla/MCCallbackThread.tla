-------------------------- MODULE MCCallbackThread --------------------------
(***************************************************************************)
(* Two threads share a callback thread.  t1 is a plain task; the closure   *)
(* of t2 holds the object, and its destructor submits t3, as the deleter   *)
(* of a deferred allocation does; t4 holds the object only.                *)
(***************************************************************************)
EXTENDS CallbackThread

CONSTANTS t1, t2, t3, t4

MCTask == {t1, t2, t3, t4}
MCOwning == {t2, t4}
MCFollowUp == [t \in MCTask |-> IF t = t2 THEN t3 ELSE NoTask]
=============================================================================
