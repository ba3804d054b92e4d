------------------------------- MODULE Framing -------------------------------
(***************************************************************************)
(* echo_server/TCPfenbao: a server and its clients who send each other     *)
(* packets of a header and as many bytes as the header says.  Either side  *)
(* reads a header with one read and a body with one read, and takes fewer  *)
(* bytes than asked for as a failure.  TCP delivers a packet in one or     *)
(* more segments.  The server has one client at a time; the others wait.   *)
(***************************************************************************)
EXTENDS Naturals, FiniteSetsExt

CONSTANTS Senders,       \* numbers above 0
          HeaderSize,    \* HEADER_SIZE, in units that a segment can be cut at
          BodySizes      \* lengths of the clients' messages
ResponseSize == 1        \* length of "Data received successfully"
Nobody == 0

VARIABLES
  pc,        \* each client: "new", "header", "body", "done" or "failed"
  size,      \* the length of each client's message
  sent,      \* bytes under way in each connection, to the server and back
  arrived,   \* bytes that have arrived and are not read
  serving,   \* the client the server has accepted, or Nobody
  spc,       \* the server: "accept", "header" or "body"
  closed,    \* connections the server has closed
  cut,       \* history: connections whose packets came in more segments
  served     \* history: clients whose data the server has received
vars == <<pc, size, sent, arrived, serving, spc, closed, cut, served>>

Ways == {"request", "response"}
Init ==
  /\ pc = [c \in Senders |-> "new"]
  /\ size \in [Senders -> BodySizes]
  /\ sent = [c \in Senders |-> [w \in Ways |-> 0]]
  /\ arrived = [c \in Senders |-> [w \in Ways |-> 0]]
  /\ serving = Nobody /\ spc = "accept"
  /\ closed = {} /\ cut = {} /\ served = {}

(* connect, and the one write of the packet.                               *)
SendPacket(c) ==
  /\ pc[c] = "new"
  /\ pc' = [pc EXCEPT ![c] = "header"]
  /\ sent' = [sent EXCEPT ![c]["request"] = HeaderSize + size[c]]
  /\ UNCHANGED <<size, arrived, serving, spc, closed, cut, served>>

Segment(c, w) ==
  /\ \E n \in 1 .. sent[c][w] :
       /\ sent' = [sent EXCEPT ![c][w] = @ - n]
       /\ arrived' = [arrived EXCEPT ![c][w] = @ + n]
       /\ cut' = IF n < sent[c][w] THEN cut \cup {c} ELSE cut
  /\ UNCHANGED <<pc, size, serving, spc, closed, served>>

(* read: at most n bytes of what has arrived, at least one.                *)
Readable(c, w, n) == Min({arrived[c][w], n})
Take(c, w, n) == arrived' = [arrived EXCEPT ![c][w] = @ - n]

(* The other side has closed and nothing more will arrive.                 *)
EndOfFile(c) == c \in closed /\ arrived[c]["response"] = 0 /\ sent[c]["response"] = 0

ClientReads(c, from, n, to) ==
  /\ pc[c] = from
  /\ arrived[c]["response"] > 0 \/ EndOfFile(c)
  /\ LET got == Readable(c, "response", n)
     IN /\ Take(c, "response", got)
        /\ pc' = [pc EXCEPT ![c] = IF got = n THEN to ELSE "failed"]
  /\ UNCHANGED <<size, sent, serving, spc, closed, cut, served>>
ClientHeader(c) == ClientReads(c, "header", HeaderSize, "body")
ClientBody(c) == ClientReads(c, "body", ResponseSize, "done")

Accept(c) ==
  /\ spc = "accept" /\ pc[c] # "new" /\ c \notin closed
  /\ serving' = c /\ spc' = "header"
  /\ UNCHANGED <<pc, size, sent, arrived, closed, cut, served>>

CloseConn == serving' = Nobody /\ spc' = "accept" /\ closed' = closed \cup {serving}

(* Mutants: a short header leaves the connection open; one byte more than  *)
(* a header is asked for.                                                  *)
ServerHeader ==
  /\ spc = "header" /\ arrived[serving]["request"] > 0
  /\ LET got == Readable(serving, "request", HeaderSize)
     IN /\ Take(serving, "request", got)
        /\ IF got = HeaderSize
           THEN spc' = "body" /\ UNCHANGED <<serving, closed>>
           ELSE CloseConn
  /\ UNCHANGED <<pc, size, sent, cut, served>>

(* A body of length 0 is read without waiting.                             *)
ServerBody ==
  /\ spc = "body" /\ (size[serving] = 0 \/ arrived[serving]["request"] > 0)
  /\ LET got == Readable(serving, "request", size[serving])
     IN /\ Take(serving, "request", got)
        /\ IF got = size[serving]
           THEN /\ sent' = [sent EXCEPT ![serving]["response"] = HeaderSize + ResponseSize]
                /\ served' = served \cup {serving}
           ELSE UNCHANGED <<sent, served>>
  /\ CloseConn
  /\ UNCHANGED <<pc, size, cut>>

Serve == ServerHeader \/ ServerBody
ClientStep(c) == ClientHeader(c) \/ ClientBody(c)
Next ==
  \/ \E c \in Senders : SendPacket(c) \/ ClientStep(c) \/ \E w \in Ways : Segment(c, w)
  \/ (\E c \in Senders : Accept(c)) \/ Serve

(* Connections are accepted in turn, and segments arrive.                  *)
Spec ==
  /\ Init /\ [][Next]_vars /\ WF_vars(Serve)
  /\ \A c \in Senders : SF_vars(Accept(c)) /\ WF_vars(ClientStep(c))
  /\ \A c \in Senders, w \in Ways : WF_vars(Segment(c, w))

(* A client that was answered was understood, and one that fails was a     *)
(* victim of the segments: where none was cut every exchange succeeds.     *)
AnsweredWasServed == \A c \in Senders : pc[c] = "done" => c \in served
FailsOnlyIfCut == \A c \in Senders : pc[c] = "failed" => c \in cut

(* Every client that has sent comes to an end.                             *)
Waits(c) == pc[c] = "header"
Ends(c) == pc[c] \in {"done", "failed"}
ClientEnds == \A c \in Senders : Waits(c) ~> Ends(c)
==============================================================================
