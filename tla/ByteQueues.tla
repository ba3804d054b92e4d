------------------------------ MODULE ByteQueues ------------------------------
(***************************************************************************)
(* What the users of evbuffers count on: each is a queue of bytes.  A call *)
(* that reports success has done all of its work, one that is refused has  *)
(* done nothing.  Two calls are not so when memory runs short: bytes are   *)
(* prepended in part, and bytes on their way to another buffer are lost.   *)
(***************************************************************************)
EXTENDS Integers, Sequences

CONSTANTS Queues, Strings

VARIABLES queue,   \* the bytes of each
          outcome  \* of the last call: "done", "refused" or "short" of memory

vars == <<queue, outcome>>

First(s, n) == SubSeq(s, 1, n)
Rest(s, n) == SubSeq(s, n + 1, Len(s))

Init == queue = [x \in Queues |-> <<>>] /\ outcome = "done"

\* Bytes come in at either end.
Enter ==
  /\ outcome' = "done"
  /\ \E x \in Queues, s \in Strings :
       queue' \in {[queue EXCEPT ![x] = @ \o s], [queue EXCEPT ![x] = s \o @]}

Take ==
  /\ outcome' = "done"
  /\ \E x \in Queues : \E n \in 0 .. Len(queue[x]) :
       queue' = [queue EXCEPT ![x] = Rest(@, n)]

\* The first bytes of one queue go to the end of another, or all to its front.
Move ==
  /\ outcome' = "done"
  /\ \E x, y \in Queues :
       /\ x # y
       /\ \/ \E n \in 0 .. Len(queue[x]) :
               queue' = [queue EXCEPT ![x] = Rest(@, n), ![y] = @ \o First(queue[x], n)]
          \/ queue' = [queue EXCEPT ![x] = <<>>, ![y] = queue[x] \o @]

Refuse == outcome' = "refused" /\ UNCHANGED queue

Short ==
  /\ outcome' = "short"
  /\ \/ \E x \in Queues, s \in Strings : \E n \in 0 .. Len(s) :
          queue' = [queue EXCEPT ![x] = Rest(s, n) \o @]
     \/ \E x, y \in Queues : \E n \in 0 .. Len(queue[x]) : \E k \in 0 .. n :
          /\ x # y
          /\ queue' = [queue EXCEPT ![x] = Rest(@, n), ![y] = @ \o First(queue[x], k)]

Next == Enter \/ Take \/ Move \/ Refuse \/ Short

Spec == Init /\ [][Next]_vars
===============================================================================
