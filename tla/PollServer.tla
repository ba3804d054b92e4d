----------------------------- MODULE PollServer -----------------------------
(***************************************************************************)
(* mutipleIO/polls.c, a server on poll that answers each byte with the     *)
(* next one, and its clients of mutiplc.c, who wait for the answer before  *)
(* they send again.  A write of one byte always finds room, and accept a   *)
(* free descriptor.                                                        *)
(***************************************************************************)
EXTENDS Tcp

VARIABLES
  events,      \* fds[fd].events: {} for an entry that is not used
  revents,     \* fds[fd].revents
  cur_max_fd,
  i,           \* the entry the scan has come to, or Polling
  ch,          \* the client whose byte's successor is in ch, or Nobody
  since,       \* history: the clients whose read has changed ch, for each
               \* client since its own byte was read
  waiting      \* the clients that wait for an answer
vars == <<tcp, events, revents, cur_max_fd, i, ch, since, waiting>>

Polling == -1
Ended == -2

TypeOK ==
  /\ TcpTypeOK
  /\ events \in [Fd -> SUBSET {"IN", "OUT"}]
  /\ revents \in [Fd -> SUBSET {"IN", "OUT", "HUP"}]
  /\ cur_max_fd \in Fd \cup {Biggest_FD} /\ i \in Fd \cup {Polling, Ended}
  /\ ch \in Conns \cup {Nobody} /\ waiting \subseteq Conns

(* cur_max_fd starts at 10 in the source; here it has to grow.             *)
Init ==
  /\ TcpInit
  /\ events = [fd \in Fd |-> IF fd = ListenFd THEN {"IN"} ELSE {}]
  /\ revents = [fd \in Fd |-> {}]
  /\ cur_max_fd = ListenFd + 1
  /\ i = Polling /\ ch = Nobody
  /\ since = [c \in Conns |-> {}] /\ waiting = {}

(* The clients do anything before the server's next call.                  *)
Clients ==
  /\ i # Ended
  /\ \/ \E c \in Conns :
          /\ Connect(c) \/ Fin(c) \/ Reset(c)
          /\ UNCHANGED waiting
     \/ \E c \in Conns \ waiting : Send(c, "byte") /\ waiting' = waiting \cup {c}
  /\ UNCHANGED <<events, revents, cur_max_fd, i, ch, since>>

Used == {fd \in Fd : fd < cur_max_fd /\ events[fd] # {}}

poll ==
  /\ i = Polling
  /\ revents' = [fd \in Fd |-> IF fd \in Used THEN ReadyFor(fd, events[fd]) ELSE {}]
  /\ i' = 0
  /\ UNCHANGED <<tcp, events, cur_max_fd, ch, since, waiting>>

(* The scan goes on with the next entry, up to the cur_max_fd of now.      *)
GoOn(max) == i' = IF i + 1 < max THEN i + 1 ELSE Polling

Skip ==
  /\ i >= 0
  /\ revents[i] = {} \/ (i # ListenFd /\ revents[i] = {"HUP"})
  /\ GoOn(cur_max_fd)
  /\ UNCHANGED <<tcp, events, revents, cur_max_fd, ch, since, waiting>>

(* accept, and the entry for its descriptor.                               *)
Accept ==
  /\ i = ListenFd /\ revents[i] # {} /\ FreeFd # {}
  /\ accept(Min(FreeFd))
  /\ events' = [events EXCEPT ![Min(FreeFd)] = {"IN"}]
  /\ revents' = [revents EXCEPT ![Min(FreeFd)] = {}]
  /\ cur_max_fd' = Max({cur_max_fd, Min(FreeFd) + 1})
  /\ GoOn(Max({cur_max_fd, Min(FreeFd) + 1}))
  /\ UNCHANGED <<ch, since, waiting>>

(* read returns 0.                                                         *)
CloseClient ==
  /\ i > ListenFd /\ "IN" \in revents[i] /\ ReadsEnd(sock[i])
  /\ close(i)
  /\ events' = [events EXCEPT ![i] = {}] /\ revents' = [revents EXCEPT ![i] = {}]
  /\ GoOn(cur_max_fd)
  /\ UNCHANGED <<cur_max_fd, ch, since, waiting>>

(* ch++ after the read makes ch the successor of the byte.  A read that    *)
(* fails is taken for a byte too: what ch holds is incremented once more,  *)
(* and is the answer to nobody.  ch is declared inside the loop, so what   *)
(* it holds in the next round is for the build: it has one place on the    *)
(* stack, in the program committed here and compiled anew at any level of  *)
(* optimisation, and keeps its value.                                      *)
ReadByte ==
  /\ i > ListenFd /\ "IN" \in revents[i]
  /\ LET c == sock[i]
     IN \/ /\ ReadsData(c) /\ readData(c)
           /\ ch' = c
           /\ since' = [d \in Conns |-> IF d = c THEN {} ELSE since[d] \cup {c}]
        \/ /\ ReadFails(c) /\ callFails(c)
           /\ ch' = Nobody
           /\ since' = [d \in Conns |-> since[d] \cup {c}]
  /\ events' = [events EXCEPT ![i] = {"OUT"}]
  /\ GoOn(cur_max_fd)
  /\ UNCHANGED <<revents, cur_max_fd, waiting>>

(* Mutant: does not wait for input again.                                  *)
WriteByte_StaysOut ==
  /\ i > ListenFd /\ "IN" \notin revents[i] /\ "OUT" \in revents[i]
  /\ LET c == sock[i]
     IN Writes(c) /\ waiting' = waiting \ {c}
  /\ GoOn(cur_max_fd)
  /\ UNCHANGED <<tcp, events, revents, cur_max_fd, ch, since>>
WriteByte ==
  /\ i > ListenFd /\ "IN" \notin revents[i] /\ "OUT" \in revents[i]
  /\ LET c == sock[i]
     IN \/ Writes(c) /\ UNCHANGED tcp /\ waiting' = waiting \ {c}
        \/ WriteFails(c) /\ callFails(c) /\ UNCHANGED waiting
  /\ events' = [events EXCEPT ![i] = {"IN"}]
  /\ GoOn(cur_max_fd)
  /\ UNCHANGED <<revents, cur_max_fd, ch, since>>

(* SIGPIPE ends the server.                                                *)
WriteKilled ==
  /\ i > ListenFd /\ "IN" \notin revents[i] /\ "OUT" \in revents[i]
  /\ WriteKills(sock[i])
  /\ processEnds /\ i' = Ended
  /\ UNCHANGED <<events, revents, cur_max_fd, ch, since, waiting>>

ServerStep ==
  poll \/ Skip \/ Accept \/ CloseClient \/ ReadByte \/ WriteByte \/ WriteKilled
Next == Clients \/ ServerStep

Spec == Init /\ [][Next]_vars /\ WF_vars(ServerStep)

(* The entries of fds below cur_max_fd are those of the open descriptors,  *)
(* and what poll reported of an entry is about the connection it has now.  *)
EntriesAgree ==
  i # Ended =>
    \A fd \in Fd : /\ (fd < cur_max_fd /\ events[fd] # {}) <=> (sock[fd] # Nobody)
                   /\ (i >= 0 /\ fd > i /\ revents[fd] # {}) => (sock[fd] # Nobody)

(* A client gets a byte only when it waits for one, and the successor of   *)
(* its own unless the server has read from another client since, or tried. *)
AnswerAllowed ==
  \A fd \in ConnFd :
    WriteByte /\ fd = i /\ Writes(sock[fd]) =>
      sock[fd] \in waiting /\ (since[sock[fd]] = {} => ch = sock[fd])
OneAnswer == [][AnswerAllowed]_vars

(* A byte read is answered, or the connection ends, while the server lives.*)
Owes(fd) == events[fd] = {"OUT"}
Answered ==
  \A fd \in ConnFd : Owes(fd) ~> (~Owes(fd) \/ i = Ended)
==============================================================================
