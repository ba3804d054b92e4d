------------------------------- MODULE TaskPool -------------------------------
(***************************************************************************)
(* What the thread pool of src/threadpool promises its callers: an         *)
(* accepted task is run once, accepted tasks are started oldest first,     *)
(* and the pool is closed only when every accepted task has been run.      *)
(* Nothing is said of threads, mutexes or exit tasks.                      *)
(***************************************************************************)
EXTENDS Integers

CONSTANT Tasks

VARIABLES
  pending,   \* accepted and not started
  running,   \* started and not finished
  done,      \* finished
  number,    \* the place of a task in the order of acceptance
  open       \* the pool has not been destroyed

vars == <<pending, running, done, number, open>>

Init ==
  /\ pending = {} /\ running = {} /\ done = {}
  /\ number \in [Tasks -> Nat]
  /\ open = TRUE

Accept(t) ==
  /\ open
  /\ t \notin pending \cup running \cup done
  /\ pending' = pending \cup {t}
  /\ number' \in [Tasks -> Nat]
  /\ \A u \in Tasks \ {t} : number'[u] = number[u]
  /\ \A u \in pending \cup running \cup done : number[u] < number'[t]
  /\ UNCHANGED <<running, done, open>>

Start(t) ==
  /\ t \in pending
  /\ \A u \in pending : number[t] <= number[u]
  /\ pending' = pending \ {t}
  /\ running' = running \cup {t}
  /\ UNCHANGED <<done, number, open>>

Finish(t) ==
  /\ t \in running
  /\ running' = running \ {t}
  /\ done' = done \cup {t}
  /\ UNCHANGED <<pending, number, open>>

Close ==
  /\ open
  /\ pending = {} /\ running = {}
  /\ open' = FALSE
  /\ UNCHANGED <<pending, running, done, number>>

Next == (\E t \in Tasks : Accept(t) \/ Start(t) \/ Finish(t)) \/ Close

Spec == Init /\ [][Next]_vars
=============================================================================
