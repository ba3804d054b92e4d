--------------------------------- MODULE Tcp ---------------------------------
(***************************************************************************)
(* TCP as the servers of this repository meet it: the clients, and what    *)
(* the kernel's calls do for a server with one listening socket.           *)
(*                                                                         *)
(* A client and its connection are one value c.  A connection is reset by  *)
(* the client's kernel, and the first call that meets the reset consumes   *)
(* its error ("reset" becomes "broken"); one reset after its FIN has none  *)
(* to report.                                                              *)
(***************************************************************************)
EXTENDS Integers, FiniteSetsExt, Sequences

CONSTANTS Biggest_FD,   \* how many descriptors, the size of fd_table in comm.c
          Conns,        \* the connections clients may make, each once
          Listener,     \* the listening socket
          ListenFd,     \* its descriptor
          Messages,     \* what a client may send
          MaxSends      \* bounds the messages of all clients

ASSUME TableAssumption == Biggest_FD \in Nat \ {0}

ASSUME TcpAssumption ==
  /\ Listener \notin Conns /\ "nobody" \notin Conns \cup {Listener}
  /\ "none" \notin Messages
  /\ ListenFd \in 1 .. Biggest_FD - 2
  /\ MaxSends \in Nat

\* The file descriptors of a server process.
Fd == 0 .. Biggest_FD - 1

VARIABLES
  sock,     \* the connection an open descriptor leads to
  backlog,  \* connections not accepted yet
  peer,     \* each connection as its last segment left it
  inbox,    \* bytes received and not read
  room,     \* the socket has space for a write
  sends     \* messages sent by all clients

tcp == <<sock, backlog, peer, inbox, room, sends>>

Nobody    == "nobody"
ConnFd    == ListenFd + 1 .. Biggest_FD - 1     \* descriptors accept may return
FreeFd    == {fd \in ConnFd : sock[fd] = Nobody}
IsOpen(c) == \E fd \in ConnFd : sock[fd] = c
Connected(c) == peer[c] \notin {"none", "gone"}
Hung(c)   == peer[c] \in {"reset", "broken"}

TcpTypeOK ==
  /\ sock \in [Fd -> Conns \cup {Nobody, Listener}]
  /\ backlog \in Seq(Conns)
  /\ peer \in [Conns -> {"none", "open", "fin", "reset", "broken", "gone"}]
  /\ inbox \in [Conns -> Messages \cup {"none"}]
  /\ room \in [Conns -> BOOLEAN]
  /\ sends \in 0 .. MaxSends

\* socket, bind and listen have succeeded.
TcpInit ==
  /\ sock = [fd \in Fd |-> IF fd = ListenFd THEN Listener ELSE Nobody]
  /\ backlog = <<>>
  /\ peer = [c \in Conns |-> "none"] /\ inbox = [c \in Conns |-> "none"]
  /\ room = [c \in Conns |-> TRUE] /\ sends = 0

-------------------------------------------------------------------------------
(* The clients. *)

Connect(c) ==
  /\ peer[c] = "none"
  /\ peer' = [peer EXCEPT ![c] = "open"]
  /\ backlog' = Append(backlog, c)
  /\ UNCHANGED <<sock, inbox, room, sends>>

\* Bytes that follow unread ones are read together with them, and only the
\* first message of a read tells what is done with it.
Send(c, message) ==
  /\ peer[c] = "open" /\ sends < MaxSends
  /\ sends' = sends + 1
  /\ inbox' = [inbox EXCEPT ![c] = IF @ = "none" THEN message ELSE @]
  /\ UNCHANGED <<sock, backlog, peer, room>>

Fin(c) ==
  /\ peer[c] = "open"
  /\ peer' = [peer EXCEPT ![c] = "fin"]
  /\ UNCHANGED <<sock, backlog, inbox, room, sends>>

Reset(c) ==
  /\ peer[c] \in {"open", "fin"}
  /\ peer' = [peer EXCEPT ![c] = IF @ = "open" THEN "reset" ELSE "broken"]
  /\ UNCHANGED <<sock, backlog, inbox, room, sends>>

\* The client reads what was sent to it.
Drain(c) ==
  /\ Connected(c) /\ ~room[c]
  /\ room' = [room EXCEPT ![c] = TRUE]
  /\ UNCHANGED <<sock, backlog, peer, inbox, sends>>

ClientStep ==
  \E c \in Conns : \/ Connect(c) \/ Fin(c) \/ Reset(c) \/ Drain(c)
                   \/ \E message \in Messages : Send(c, message)

-------------------------------------------------------------------------------
(* The server's calls. *)

\* accept returns the lowest free descriptor; with none left it fails, and the
\* connection stays in the backlog.
accept(fd) ==
  /\ sock' = [sock EXCEPT ![fd] = Head(backlog)]
  /\ backlog' = Tail(backlog)
  /\ UNCHANGED <<peer, inbox, room, sends>>

\* Nothing of the connection remains.
close(fd) ==
  LET c == sock[fd]
  IN  /\ sock' = [sock EXCEPT ![fd] = Nobody]
      /\ peer' = [peer EXCEPT ![c] = "gone"]
      /\ inbox' = [inbox EXCEPT ![c] = "none"]
      /\ room' = [room EXCEPT ![c] = TRUE]
      /\ UNCHANGED <<backlog, sends>>

ReadsData(c) == inbox[c] # "none"
ReadsEnd(c)  == inbox[c] = "none" /\ peer[c] \in {"fin", "broken"}
\* With EAGAIN, or the error of a reset.
ReadFails(c)  == inbox[c] = "none" /\ peer[c] \in {"open", "reset"}
Writes(c)     == peer[c] \in {"open", "fin"} /\ room[c]
WriteFails(c) == peer[c] # "broken" /\ (peer[c] = "reset" \/ ~room[c])
WriteKills(c) == peer[c] = "broken"

readData(c) ==
  /\ inbox' = [inbox EXCEPT ![c] = "none"]
  /\ UNCHANGED <<sock, backlog, peer, room, sends>>

\* A whole message is written and may fill the socket.
writeAll(c) ==
  /\ \E more \in BOOLEAN : room' = [room EXCEPT ![c] = more]
  /\ UNCHANGED <<sock, backlog, peer, inbox, sends>>

\* A part of it.
writeShort(c) ==
  /\ room' = [room EXCEPT ![c] = FALSE]
  /\ UNCHANGED <<sock, backlog, peer, inbox, sends>>

callFails(c) ==
  /\ peer' = [peer EXCEPT ![c] = IF @ = "reset" THEN "broken" ELSE @]
  /\ UNCHANGED <<sock, backlog, inbox, room, sends>>

\* SIGPIPE keeps its default action and ends the server, and with it every
\* connection.
processEnds ==
  /\ sock' = [fd \in Fd |-> Nobody]
  /\ peer' = [c \in Conns |-> IF IsOpen(c) \/ peer[c] = "gone" THEN "gone" ELSE "none"]
  /\ inbox' = [c \in Conns |-> "none"] /\ room' = [c \in Conns |-> TRUE]
  /\ backlog' = <<>>
  /\ UNCHANGED sends

\* What poll, select or epoll_wait report of a descriptor watched for ev.
ReadyFor(fd, ev) ==
  LET s   == sock[fd]
      in  == IF s = Listener THEN backlog # <<>> ELSE inbox[s] # "none" \/ peer[s] # "open"
      out == s \in Conns /\ (room[s] \/ Hung(s))
  IN  {e \in ev : IF e = "IN" THEN in ELSE out}
        \cup (IF s \in Conns /\ Hung(s) THEN {"HUP"} ELSE {})
===============================================================================
