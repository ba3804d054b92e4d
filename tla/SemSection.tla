----------------------------- MODULE SemSection -----------------------------
(***************************************************************************)
(* semaphore/sems.c: processes that take turns in a critical section by a  *)
(* System V semaphore.  Each is started by hand, at any time; one that is  *)
(* started with an argument sets the semaphore to 1.  A process may be     *)
(* killed anywhere, and the kernel then undoes what it did with SEM_UNDO.  *)
(***************************************************************************)
EXTENDS Integers, FiniteSets, FiniteSetsExt

CONSTANTS
  Procs,
  WithArgument,  \* the processes started with an argument
  Rounds         \* how often each enters the section

VARIABLES
  pc,     \* "new", "p" before sem_p, "in", "out" between sem_v and the next
          \* round, or "gone"
  i,      \* the loop counter
  sem,    \* the value of the semaphore; 0 when semget has created it
  adj,    \* the kernel's semadj of each process
  late,   \* how often the semaphore was set while processes were inside
  init    \* whether it was set at all
vars == <<pc, i, sem, adj, late, init>>

Inside == {p \in Procs : pc[p] = "in"}

Init ==
  /\ pc = [p \in Procs |-> "new"] /\ i = [p \in Procs |-> 0]
  /\ sem = 0 /\ adj = [p \in Procs |-> 0]
  /\ late = 0 /\ init = FALSE

(* SETVAL also clears the adjustments of all processes.                    *)
sem_initial ==
  /\ sem' = 1
  /\ adj' = [p \in Procs |-> 0]
  /\ late' = late + (IF Inside = {} THEN 0 ELSE 1)
  /\ init' = TRUE

Start(p) ==
  /\ pc[p] = "new"
  /\ pc' = [pc EXCEPT ![p] = "p"]
  /\ IF p \in WithArgument THEN sem_initial ELSE UNCHANGED <<sem, adj, late, init>>
  /\ UNCHANGED i

(* Mutant: without SEM_UNDO.                                               *)
sem_p_NoUndo(p) ==
  /\ pc[p] = "p" /\ sem > 0
  /\ sem' = sem - 1
  /\ pc' = [pc EXCEPT ![p] = "in"]
  /\ UNCHANGED <<adj, i, late, init>>

sem_p(p) ==
  /\ pc[p] = "p" /\ sem > 0
  /\ sem' = sem - 1
  /\ adj' = [adj EXCEPT ![p] = @ + 1]
  /\ pc' = [pc EXCEPT ![p] = "in"]
  /\ UNCHANGED <<i, late, init>>

(* Mutant: without SEM_UNDO.                                               *)
sem_v_NoUndo(p) ==
  /\ pc[p] = "in"
  /\ sem' = sem + 1
  /\ pc' = [pc EXCEPT ![p] = "out"]
  /\ UNCHANGED <<adj, i, late, init>>
sem_v(p) ==
  /\ pc[p] = "in"
  /\ sem' = sem + 1
  /\ adj' = [adj EXCEPT ![p] = @ - 1]
  /\ pc' = [pc EXCEPT ![p] = "out"]
  /\ UNCHANGED <<i, late, init>>

(* exit_sem: the adjustment is applied, but not below 0.                   *)
Undo(p) ==
  /\ sem' = Max({0, sem + adj[p]})
  /\ adj' = [adj EXCEPT ![p] = 0]

NextRound(p) ==
  /\ pc[p] = "out"
  /\ IF i[p] + 1 < Rounds
     THEN /\ i' = [i EXCEPT ![p] = @ + 1]
          /\ pc' = [pc EXCEPT ![p] = "p"]
          /\ UNCHANGED <<sem, adj>>
     ELSE /\ pc' = [pc EXCEPT ![p] = "gone"]
          /\ Undo(p)
          /\ UNCHANGED i
  /\ UNCHANGED <<late, init>>

Killed(p) ==
  /\ pc[p] \notin {"new", "gone"}
  /\ pc' = [pc EXCEPT ![p] = "gone"]
  /\ Undo(p)
  /\ UNCHANGED <<i, late, init>>

Leave(p) == sem_v(p) \/ NextRound(p)
Next == \E p \in Procs : Start(p) \/ sem_p(p) \/ Leave(p) \/ Killed(p)

(* A process that waits for the semaphore is not passed over forever.      *)
Spec ==
  /\ Init /\ [][Next]_vars
  /\ \A p \in Procs : SF_vars(sem_p(p)) /\ WF_vars(Leave(p))

(* One process at a time is in the critical section, and one more for each *)
(* time that the semaphore was set while processes were inside.            *)
OneInside == Cardinality(Inside) <= 1 + late

(* What the kernel will do with the permits when a process ends: give back *)
(* the one it took, or take the one it returned too often.                 *)
Gains == {p \in Procs : adj[p] = 1}
Loses == {p \in Procs : adj[p] = -1}

(* A process that is killed inside, or has left more often than the        *)
(* kernel saw it enter, never takes the last permit away: with those the   *)
(* kernel still owes, and without those it will take, one is left.         *)
PermitLeft ==
  /\ \A p \in Procs : adj[p] \in -1 .. 1
  /\ init => sem + Cardinality(Gains) > Cardinality(Loses)

(* Once the semaphore is set, every process gets into the section.         *)
Waits(p) == init /\ pc[p] = "p"
EntersSection == \A p \in Procs : Waits(p) ~> ~Waits(p)
==============================================================================
