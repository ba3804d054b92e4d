------------------------------ MODULE FormServer ------------------------------
(***************************************************************************)
(* The form server of src/epoll/epollserver.c: one thread, one epoll       *)
(* instance whose events carry the address of a ConnectStat, and a handler *)
(* in each ConnectStat that writes the page last asked for.                *)
(*                                                                         *)
(* Memory freed keeps its contents until malloc gives it out again.  Of    *)
(* the two fields of the form one stands for both; each client gives its   *)
(* own name.                                                               *)
(***************************************************************************)
EXTENDS Tcp

CONSTANTS Stats,      \* the addresses malloc may return for a ConnectStat
          MaxEvents   \* 64, the length of revs

\* Messages is {"commit", "blank", "get"}: a read starts with a commit that has a
\* name, with one that has none (its form is left blank or has not arrived), or
\* with anything else.  It never ends within the header of a commit.  There are
\* at least as many Stats as descriptors for connections.

VARIABLES
  stat,     \* the contents of each address: fd, name, handler
  heap,     \* those that are allocated
  kernel,   \* what is registered for each descriptor: events, ConnectStat
  revs,     \* the events of a round that are not dispatched yet
  pc,       \* "wait", "dispatch" or "killed"
  shown     \* history: the page sent last on each connection

server == <<stat, heap, kernel, shown>>
vars   == <<tcp, server, revs, pc>>

NotRegistered == [ev |-> {}, ptr |-> Listener]

TypeOK ==
  /\ TcpTypeOK
  /\ stat \in [Stats -> [fd : Fd, name : Conns \cup {"none"},
                         handler : {"null", "welcome", "commit"}]]
  /\ heap \subseteq Stats
  /\ kernel \in [Fd -> {NotRegistered} \cup
                       [ev : {{"IN"}, {"OUT"}}, ptr : Stats \cup {Listener}]]
  /\ revs \in Seq([ptr : Stats \cup {Listener}, ev : SUBSET {"IN", "OUT", "HUP"},
                   conn : Conns \cup {Listener}])
  /\ pc \in {"wait", "dispatch", "killed"}
  /\ shown \in [Conns -> Conns \cup {"nothing", "form", "none"}]

\* main up to the loop.
Init ==
  /\ TcpInit
  /\ stat = [s \in Stats |-> [fd |-> 0, name |-> "none", handler |-> "null"]]
  /\ heap = {}
  /\ kernel = [fd \in Fd |-> IF fd = ListenFd THEN [ev |-> {"IN"}, ptr |-> Listener]
                             ELSE NotRegistered]
  /\ revs = <<>> /\ pc = "wait"
  /\ shown = [c \in Conns |-> "nothing"]

\* What the clients do before the next system call of the server.
Clients ==
  /\ pc = "wait" \/ revs # <<>>
  /\ ClientStep /\ UNCHANGED <<server, revs, pc>>

-------------------------------------------------------------------------------
(***************************************************************************)
(* The handlers.                                                           *)
(***************************************************************************)
stat_init_Dirty(s, fd) == stat' = [stat EXCEPT ![s].fd = fd, ![s].handler = "null"]
stat_init(s, fd) ==
  stat' = [stat EXCEPT ![s] = [fd |-> fd, name |-> "none", handler |-> "null"]]

\* What its callers get: stat_init ends without a return statement (the one it
\* had is a comment), so that C leaves its value undefined.  As in EchoServer
\* the ConnectStat is the one outcome of the program committed beside the
\* source and of any build without optimisation.  connect_handle uses it at once.
Returned(s) == s

\* epoll_ctl for stat->_ev, whose data is the ConnectStat itself.
Register(s, fd, ev) == kernel' = [kernel EXCEPT ![fd] = [ev |-> ev, ptr |-> s]]

\* accept, and connect_handle if there was a descriptor left.
connect_handle ==
  IF FreeFd = {}
  THEN UNCHANGED <<tcp, server>>
  ELSE LET new_fd == Min(FreeFd)
       IN  /\ accept(new_fd)
           /\ \E s \in Stats \ heap :
                /\ heap' = heap \cup {s}
                /\ stat_init(s, new_fd)
                /\ Register(Returned(s), new_fd, {"IN"})
           /\ UNCHANGED shown

CloseAndFree(s) ==
  LET fd == stat[s].fd
  IN  /\ close(fd)
      /\ kernel' = [kernel EXCEPT ![fd] = NotRegistered]
      /\ heap' = heap \ {s}
      /\ UNCHANGED <<stat, shown>>

\* What a request leaves in the ConnectStat.
Parsed(s, message) ==
  LET c == sock[stat[s].fd]
  IN  [stat[s] EXCEPT !.handler = IF message = "get" THEN "welcome" ELSE "commit",
                      !.name = IF message = "commit" THEN c ELSE @]

\* A failed read is reported, and the registration stays.
do_http_request(s) ==
  LET fd == stat[s].fd
      c  == sock[fd]
  IN  \/ /\ ReadsData(c) /\ readData(c)
         /\ stat' = [stat EXCEPT ![s] = Parsed(s, inbox[c])]
         /\ Register(s, fd, {"OUT"})
         /\ UNCHANGED <<heap, shown>>
      \/ ReadsEnd(c) /\ CloseAndFree(s)
      \/ ReadFails(c) /\ callFails(c) /\ UNCHANGED server

\* The page of each handler: the form, or the name on the other.
Page(s) == IF stat[s].handler = "welcome" THEN "form" ELSE stat[s].name

\* welcome_response_handler and commit_respone_handler: the page is written in
\* one call, whose result nobody looks at.  A page for a client that has reset
\* the connection counts as sent.
do_http_respone(s) ==
  LET fd == stat[s].fd
      c  == sock[fd]
  IN  /\ (Writes(c) /\ writeAll(c)) \/ (WriteFails(c) /\ callFails(c))
      /\ shown' = IF room[c] \/ Hung(c) THEN [shown EXCEPT ![c] = Page(s)] ELSE shown
      /\ Register(s, fd, {"IN"})
      /\ UNCHANGED <<stat, heap>>

-------------------------------------------------------------------------------
(***************************************************************************)
(* The loop of main.                                                       *)
(***************************************************************************)
Ready(fd) == ReadyFor(fd, kernel[fd].ev)
ReadyFds  == {fd \in Fd : kernel[fd].ev # {} /\ Ready(fd) # {}}

Reported(fd) == [ptr |-> kernel[fd].ptr, ev |-> Ready(fd), conn |-> sock[fd]]

\* epoll_wait fills revs with some of the ready descriptors' events.
WaitReturns ==
  /\ pc = "wait" /\ ReadyFds # {}
  /\ LET num == Min({MaxEvents, Cardinality(ReadyFds)})
     IN  \E order \in [1 .. num -> ReadyFds] :
           /\ \A i, j \in 1 .. num : order[i] = order[j] => i = j
           /\ revs' = [i \in 1 .. num |-> Reported(order[i])]
  /\ pc' = "dispatch"
  /\ UNCHANGED <<tcp, server>>

Dispatch(OK) == pc = "dispatch" /\ revs # <<>> /\ OK /\ revs' = Tail(revs) /\ UNCHANGED pc

\* Any event of the listening socket is taken for a new connection.
DispatchListener == Dispatch(Head(revs).ptr = Listener) /\ connect_handle

DispatchRequest ==
  /\ Dispatch(Head(revs).ptr # Listener /\ "IN" \in Head(revs).ev)
  /\ do_http_request(Head(revs).ptr)

DispatchRespone ==
  /\ Dispatch(Head(revs).ptr # Listener /\ "IN" \notin Head(revs).ev)
  /\ do_http_respone(Head(revs).ptr)

\* A page is written to a connection that was reset after its end of file.
DispatchKilled ==
  /\ pc = "dispatch" /\ revs # <<>>
  /\ Head(revs).ptr # Listener /\ "IN" \notin Head(revs).ev
  /\ WriteKills(sock[stat[Head(revs).ptr].fd])
  /\ processEnds
  /\ heap' = {} /\ kernel' = [fd \in Fd |-> NotRegistered]
  /\ revs' = <<>> /\ pc' = "killed"
  /\ UNCHANGED <<stat, shown>>

WaitAgain ==
  /\ pc = "dispatch" /\ revs = <<>>
  /\ pc' = "wait"
  /\ UNCHANGED <<tcp, server, revs>>

Loop == \/ WaitReturns \/ DispatchListener \/ DispatchRequest \/ DispatchRespone
        \/ DispatchKilled \/ WaitAgain

Next == Clients \/ Loop

Spec == Init /\ [][Next]_vars

\* The loop goes on; clients owe nothing.
FairSpec == Spec /\ WF_vars(Loop)

-------------------------------------------------------------------------------
(***************************************************************************)
(* Properties.                                                             *)
(***************************************************************************)
\* The ConnectStat an undispatched event points to is allocated and still
\* belongs to the connection the event was reported for, although others of the
\* round may have been closed, their memory freed and given out again.
NoDanglingEvent ==
  \A i \in DOMAIN revs : revs[i].ptr # Listener =>
    revs[i].ptr \in heap /\ sock[stat[revs[i].ptr].fd] = revs[i].conn

\* The ConnectStats in use and the open connections correspond one to one, and
\* each is what the kernel hands back for its descriptor.
StatOfConnection ==
  /\ \A s \in heap : sock[stat[s].fd] \in Conns /\ kernel[stat[s].fd].ptr = s
  /\ \A fd \in ConnFd : sock[fd] # Nobody => kernel[fd].ptr \in heap /\ kernel[fd].ev # {}

\* Events, ConnectStats, registrations and connections agree.
StatsSound == TypeOK /\ NoDanglingEvent /\ StatOfConnection

StatOf(c) == kernel[CHOOSE fd \in ConnFd : sock[fd] = c].ptr

\* The page connection c waits for, and the name its ConnectStat holds.
Owed(c) ==
  IF peer[c] = "gone" THEN "closed"
  ELSE IF ~IsOpen(c) THEN "absent"
  ELSE IF kernel[stat[StatOf(c)].fd].ev = {"OUT"} THEN stat[StatOf(c)].handler
  ELSE "none"
NameOf(c) == IF IsOpen(c) THEN stat[StatOf(c)].name ELSE "none"

Session == INSTANCE FormSession WITH
  owed <- [c \in Conns |-> Owed(c)], name <- [c \in Conns |-> NameOf(c)]

\* Each request read is answered by one page, with no name but the client's own,
\* and no page is lost in a full socket although nobody looks at what write
\* returns: a page waits for EPOLLOUT, and ConnectStats are cleared before they
\* serve another connection.
ImplementsFormSession == Session!Spec

\* A client that resets its connection is noticed, at the second read if the
\* first one only fails: no connection stays registered for nobody.
Unnoticed(c) == IsOpen(c) /\ Hung(c)
ResetIsNoticed == \A c \in Conns : Unnoticed(c) ~> ~IsOpen(c)

\* A page asked for is sent, unless the client leaves no room for it.
Asked(c) == Owed(c) \in {"welcome", "commit"}
SentOrFull(c) == Owed(c) \in {"none", "closed"} \/ ~room[c]
PageIsSent == \A c \in Conns : Asked(c) ~> SentOrFull(c)
===============================================================================
