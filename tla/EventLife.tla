------------------------------ MODULE EventLife ------------------------------
(***************************************************************************)
(* What a program counts on when it uses events of libevent: an event is   *)
(* called for something that happened while it was pending, never after it *)
(* was deleted, once for each time it becomes active, and it is pending no *)
(* more when it is called unless it persists.  Of some that persist it is  *)
(* not said that they are pending then: they are neither in Persist nor in *)
(* OneShot.                                                                *)
(***************************************************************************)
CONSTANTS
  Events,
  Waiting,   \* those that are added, to wait for something
  Manual,    \* those that the program activates
  Persist,   \* those that are added once and for all
  OneShot,   \* those that are added for one call
  None

VARIABLES
  pending,   \* the events that were added or are active
  active,    \* the events to be called
  running    \* the event whose callback runs, or None

Init == pending = {} /\ active = {} /\ running = None

(* Adding an event again with a new timeout takes back a call for the old. *)
Add(e) ==
  /\ pending' = pending \cup {e}
  /\ active' \in {active, active \ {e}}
  /\ UNCHANGED running

Delete(e) ==
  /\ pending' = pending \ {e}
  /\ active' = active \ {e}
  /\ UNCHANGED running

Activate(e) ==
  /\ pending' = pending \cup {e}
  /\ active' = active \cup {e}
  /\ UNCHANGED running

(* The loop finds that something happened to the events of happened, and   *)
(* calls event e next, or none.                                            *)
Loop(happened, e) ==
  /\ e # None => e \in active \cup happened
  /\ running' = e
  /\ active' = (active \cup happened) \ {e}
  /\ pending' \in {pending, pending \ {e}}
  /\ e \in Persist => e \in pending'
  /\ e \in OneShot => e \notin pending'

Next ==
  \/ \E e \in Waiting : Add(e)
  \/ \E e \in Events : Delete(e)
  \/ \E e \in Manual : Activate(e)
  \/ \E happened \in SUBSET pending, e \in active \cup pending \cup {None} :
       Loop(happened, e)

Spec == Init /\ [][Next]_<<pending, active, running>>
==============================================================================
