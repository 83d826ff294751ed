------------------------------ MODULE TaskQueue ------------------------------
(***************************************************************************)
(* What a callback thread promises to the queues built on it, without      *)
(* threads, locks or lifetimes: tasks complete one after the other, in the *)
(* order in which they were submitted, each of them exactly once, and the  *)
(* completion is what the task's future reports.                           *)
(***************************************************************************)
EXTENDS Naturals, Sequences

CONSTANT Task

VARIABLES outstanding,   \* submitted tasks whose future is not set, in order
          outcome        \* what the future of a task reports

tqVars == <<outstanding, outcome>>

Outcome == {"none", "value", "exception"}

TQInit ==
    /\ outstanding = <<>>
    /\ outcome = [t \in Task |-> "none"]

\* A task may be submitted once: every call of submit makes a new task.
TQSubmit(t) ==
    /\ outcome[t] = "none"
    /\ \A i \in 1..Len(outstanding) : outstanding[i] # t
    /\ outstanding' = Append(outstanding, t)
    /\ UNCHANGED outcome

\* Only the oldest outstanding task completes.
TQComplete(r) ==
    /\ outstanding # <<>>
    /\ r \in {"value", "exception"}
    /\ outcome' = [outcome EXCEPT ![Head(outstanding)] = r]
    /\ outstanding' = Tail(outstanding)

TQNext ==
    \/ \E t \in Task : TQSubmit(t)
    \/ \E r \in {"value", "exception"} : TQComplete(r)

TQSpec == TQInit /\ [][TQNext]_tqVars
=============================================================================
