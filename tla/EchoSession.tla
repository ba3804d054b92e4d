----------------------------- MODULE EchoSession -----------------------------
(***************************************************************************)
(* What a client of the echo servers sees of its connection: a greeting,   *)
(* then for each message read one reply, in turns, until it is closed.     *)
(***************************************************************************)
CONSTANT Conns

VARIABLE stage   \* how far each connection has come

Stage == {"absent", "greeting", "reading", "replying", "closed"}

Init == stage = [c \in Conns |-> "absent"]

Move(c, from, to) == stage[c] \in from /\ stage' = [stage EXCEPT ![c] = to]

Accept(c) == Move(c, {"absent"}, "greeting")
Greet(c)  == Move(c, {"greeting"}, "reading")
Read(c)   == Move(c, {"reading"}, "replying")
Reply(c)  == Move(c, {"replying"}, "reading")
Close(c)  == Move(c, {"greeting", "reading", "replying"}, "closed")

\* The process that serves all connections ends.
CloseAll == stage' = [c \in Conns |-> IF stage[c] = "absent" THEN "absent" ELSE "closed"]

Next ==
  \/ \E c \in Conns : Accept(c) \/ Greet(c) \/ Read(c) \/ Reply(c) \/ Close(c)
  \/ CloseAll

Spec == Init /\ [][Next]_stage
=============================================================================
