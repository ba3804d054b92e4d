------------------------------ MODULE EchoServer ------------------------------
(***************************************************************************)
(* The echo server of src/epoll/epoll_framework/main.c on its event loop   *)
(* (comm_select, checkTimeouts, do_epoll_select, comm_call_handlers), with *)
(* the clients and the TCP sockets between them as the code sees them.     *)
(*                                                                         *)
(* One thread runs the loop; the clients act between any two of its system *)
(* calls, each handler making one.  Time passes in whole seconds, while    *)
(* the loop waits.  sys_curtime lags behind it by up to lag seconds, and   *)
(* is 0 (clock "unset") until the end of the first round.                  *)
(*                                                                         *)
(* The ConnectStat allocated for a connection c is c, too.                 *)
(***************************************************************************)
EXTENDS Tcp

CONSTANTS GreetTimeout, \* 30 in accept_connection
          EchoTimeout,  \* 10 in the other handlers
          MaxEvents     \* MAX_EVENTS

-------------------------------------------------------------------------------
(***************************************************************************)
(* The descriptor table of comm.c and the epoll bookkeeping of             *)
(* comm_epoll.c, as operators on a record of the framework's state         *)
(*   table   fd_table                                                      *)
(*   state   epoll_state, what the framework thinks is registered          *)
(*   fds     epoll_fds                                                     *)
(*   kernel  what is registered with kdpfd                                 *)
(* EPOLLHUP and EPOLLERR accompany every registration and are left out of  *)
(* it.  A timeout is kept relative to sys_curtime: the seconds left, 0     *)
(* when it has expired.                                                    *)
(***************************************************************************)
NoHandler == "none"
NoData    == "null"
NoTimeout == -1         \* F->timeout = 0

\* A descriptor table entry after memset.
NoFde == [rh |-> NoHandler, rd |-> NoData, wh |-> NoHandler, wd |-> NoData,
          th |-> NoHandler, td |-> NoData, timeout |-> NoTimeout]

comm_init == [table  |-> [fd \in Fd |-> NoFde],
              state  |-> [fd \in Fd |-> {}],
              fds    |-> 0,
              kernel |-> [fd \in Fd |-> {}]]

\* epoll_ctl: an addition fails if the descriptor is registered, the other
\* operations if it is not.
epoll_ctl(kernel, op, fd, ev) ==
  IF (op = "ADD") <=> (kernel[fd] = {}) THEN [kernel EXCEPT ![fd] = ev] ELSE kernel

epollSetEvents_Keep(c, fd, ev) ==
  LET all == c.state[fd] \cup ev
  IN  [c EXCEPT !.state[fd] = all, !.kernel[fd] = all]
\* The registration of fd becomes ev, and replaces the one it had.
epollSetEvents(c, fd, ev) ==
  LET op == IF ev = {} THEN "DEL" ELSE IF c.state[fd] # {} THEN "MOD" ELSE "ADD"
  IN  IF ev = c.state[fd] THEN c
      ELSE [c EXCEPT !.state[fd] = ev,
                     !.kernel = epoll_ctl(@, op, fd, ev),
                     !.fds = CASE op = "ADD" -> @ + 1
                               [] op = "DEL" -> @ - 1
                               [] op = "MOD" -> @]

commUpdateReadHandler(c, fd, handler, data) ==
  epollSetEvents([c EXCEPT !.table[fd].rh = handler, !.table[fd].rd = data],
                 fd, {"IN"})

commUpdateWriteHandler(c, fd, handler, data) ==
  epollSetEvents([c EXCEPT !.table[fd].wh = handler, !.table[fd].wd = data],
                 fd, {"OUT"})

commSetTimeout_KeepFirst(c, fd, timeout, handler, data) ==
  IF c.table[fd].timeout # NoTimeout THEN c
  ELSE [c EXCEPT !.table[fd].th = handler, !.table[fd].td = data,
                 !.table[fd].timeout = timeout]
\* The timer is set from sys_curtime, which was read at the end of the last
\* comm_select.
commSetTimeout(c, fd, timeout, handler, data) ==
  IF timeout < 0
  THEN [c EXCEPT !.table[fd].th = NoHandler, !.table[fd].td = NoData,
                 !.table[fd].timeout = NoTimeout]
  ELSE [c EXCEPT !.table[fd].th = handler, !.table[fd].td = data,
                 !.table[fd].timeout = timeout]

\* The entry is cleared, the registration removed and the descriptor closed,
\* which removes any registration the kernel still has.
comm_close(c, fd) ==
  [epollSetEvents([c EXCEPT !.table[fd] = NoFde], fd, {}) EXCEPT !.kernel[fd] = {}]

\* sys_curtime moves on by the given number of seconds.
Elapse(c, seconds) ==
  [c EXCEPT !.table = [fd \in Fd |->
     IF c.table[fd].timeout = NoTimeout THEN c.table[fd]
     ELSE [c.table[fd] EXCEPT !.timeout = IF @ > seconds THEN @ - seconds ELSE 0]]]

-------------------------------------------------------------------------------
(* The server. *)

ASSUME EchoAssumption ==
  /\ NoData \notin Conns \cup {Listener}
  /\ Messages = {"text", "quit"}
  /\ GreetTimeout \in Nat \ {0} /\ EchoTimeout \in Nat \ {0}
  /\ MaxEvents \in Nat \ {0}

VARIABLES
  comm,     \* the framework's state, as comm_init makes it
  heap,     \* allocated ConnectStats
  reply,    \* connections whose send_buf holds a reply not yet written
  pc,       \* where the loop is
  scan,     \* fd in checkTimeouts
  batch,    \* events do_epoll_select has not dispatched
  since,    \* seconds sys_curtime has moved since last_timeout, 2 for more
  lag,      \* seconds since sys_curtime was read
  clock,    \* "unset" until the first getCurrentTime
  left,     \* history: seconds of real time until the timeout last asked for
  blind     \* history: descriptors whose timer was set with the clock unset

loop   == <<pc, scan, batch, since, lag, clock>>
timers == <<left, blind>>
vars   == <<comm, tcp, heap, reply, loop, timers>>

Overdue == -3   \* left counts no lower

LongestTimeout == Max({GreetTimeout, EchoTimeout})

\* An entry of the table, what a descriptor is registered for, and an event.
Entry == [rh : {NoHandler, "accept", "echo"},
          wh : {NoHandler, "welcome", "response"},
          th : {NoHandler, "timeout"},
          rd : Conns \cup {NoData, Listener},
          wd : Conns \cup {NoData},
          td : Conns \cup {NoData},
          timeout : NoTimeout .. LongestTimeout]
Watched == {{}, {"IN"}, {"OUT"}}
Reported == {ev \cup hup : ev \in Watched, hup \in {{}, {"HUP"}}}
Event == [fd : Fd, ev : Reported, conn : Conns \cup {Listener}]

TypeOK ==
  /\ comm \in [table : [Fd -> Entry], state : [Fd -> Watched], fds : Nat,
               kernel : [Fd -> Watched]]
  /\ TcpTypeOK
  /\ heap \subseteq Conns \cup {Listener}
  /\ reply \subseteq Conns
  /\ pc \in {"select", "scan", "wait", "dispatch", "write", "killed"}
  /\ scan \in 0 .. Biggest_FD
  /\ batch \in Seq(Event)
  /\ since \in 0 .. 2
  /\ lag \in 0 .. 1
  /\ clock \in {"unset", "set"}
  /\ left \in [Fd -> Overdue .. LongestTimeout]
  /\ blind \subseteq Fd

-------------------------------------------------------------------------------
(***************************************************************************)
(* What the callers of stat_init get for the ConnectStat temp.  It ends    *)
(* without a return statement, so that C leaves its value undefined: the   *)
(* outcome is the build's.  The Makefile's (gcc -g -w, not optimised) has  *)
(* one: the last statement leaves temp in the register that results are    *)
(* returned in, in the program committed beside the source, too.           *)
(***************************************************************************)
Returned(temp) == temp

(***************************************************************************)
(* main up to the loop: the listening socket is open and registered.       *)
(***************************************************************************)
Init ==
  /\ comm = commUpdateReadHandler(comm_init, ListenFd, "accept", Returned(Listener))
  /\ TcpInit
  /\ heap = {Listener} /\ reply = {}
  /\ pc = "select" /\ scan = 0 /\ batch = <<>>
  /\ since = 0 /\ lag = 0 /\ clock = "unset"
  /\ left = [fd \in Fd |-> 0] /\ blind = {}

-------------------------------------------------------------------------------
\* Whether the next handler of the current event is there to be called.
CallsRead  == LET F == comm.table[Head(batch).fd]
              IN  Head(batch).ev \ {"OUT"} # {} /\ F.rh # NoHandler
CallsWrite == LET F == comm.table[Head(batch).fd]
              IN  Head(batch).ev \ {"IN"} # {} /\ F.wh # NoHandler

\* The loop is about to make a system call that tells what the clients did.
\* Between its other steps they may act too, but to no other effect than here.
Observed == \/ pc = "wait"
            \/ pc = "dispatch" /\ batch # <<>> /\ CallsRead
            \/ pc = "write" /\ CallsWrite

Clients ==
  Observed /\ ClientStep /\ UNCHANGED <<comm, heap, reply, loop, timers>>

-------------------------------------------------------------------------------
(***************************************************************************)
(* What the handlers do to a connection.                                   *)
(***************************************************************************)
\* commSetTimeout(fd, seconds, do_echo_timeout, c) on the framework state k.
SetTimeout(k, fd, seconds, c) ==
  /\ comm' = commSetTimeout(k, fd, seconds, "timeout", c)
  /\ left' = [left EXCEPT ![fd] = seconds]
  /\ blind' = IF clock = "unset" THEN blind \cup {fd} ELSE blind \ {fd}

\* close(fd), and nothing of the connection remains.
Forget(fd) ==
  /\ close(fd)
  /\ reply' = reply \ {sock[fd]}
  /\ left' = [left EXCEPT ![fd] = 0] /\ blind' = blind \ {fd}

\* comm_close(fd); free(data)
CloseAndFree(fd, data) ==
  /\ comm' = comm_close(comm, fd)
  /\ heap' = heap \ {data}
  /\ Forget(fd)

do_echo_timeout_NoFree(fd, data) ==
  comm' = comm_close(comm, fd) /\ heap' = heap /\ Forget(fd)
do_echo_timeout(fd, data) == CloseAndFree(fd, data)

CallFails(c) == callFails(c) /\ UNCHANGED <<comm, heap, reply, timers>>

Killed ==
  /\ processEnds
  /\ comm' = comm_init
  /\ heap' = {} /\ reply' = {} /\ batch' = <<>>
  /\ left' = [fd \in Fd |-> 0] /\ blind' = {} /\ pc' = "killed"
  /\ scan' = 0 /\ since' = 0 /\ lag' = 0
  /\ UNCHANGED clock

-------------------------------------------------------------------------------
(***************************************************************************)
(* The handlers.                                                           *)
(***************************************************************************)
accept_connection_NoGreeting(fd, data) ==
  IF FreeFd = {}
  THEN UNCHANGED <<comm, tcp, heap, reply, timers>>
  ELSE LET new_fd == Min(FreeFd)
           stat   == Head(backlog)
       IN  /\ accept(new_fd)
           /\ heap' = heap \cup {stat}
           /\ SetTimeout(commUpdateReadHandler(comm, new_fd, "echo", stat),
                         new_fd, GreetTimeout, stat)
           /\ UNCHANGED reply
accept_connection(fd, data) ==
  IF FreeFd = {}
  THEN UNCHANGED <<comm, tcp, heap, reply, timers>>
  ELSE LET new_fd == Min(FreeFd)
           temp   == Head(backlog)
           stat   == Returned(temp)
       IN  /\ accept(new_fd)
           /\ heap' = heap \cup {temp}
           /\ SetTimeout(commUpdateWriteHandler(comm, new_fd, "welcome", stat),
                         new_fd, GreetTimeout, stat)
           /\ UNCHANGED reply

\* A short write changes nothing: the greeting is sent again from its start.
do_welcome_handler(fd, stat) ==
  LET c == sock[fd]
  IN  \/ WriteFails(c) /\ CallFails(c)
      \/ /\ Writes(c) /\ writeAll(c)
         /\ SetTimeout(commUpdateReadHandler(comm, fd, "echo", stat),
                       fd, EchoTimeout, stat)
         /\ UNCHANGED <<heap, reply>>
      \/ /\ Writes(c) /\ writeShort(c)
         /\ UNCHANGED <<comm, heap, reply, timers>>

\* Whether or not send_buf still holds a reply, the read goes over it.
do_echo_handler(fd, stat) ==
  LET c == sock[fd]
  IN  \/ /\ inbox[c] = "text" /\ readData(c)
         /\ reply' = reply \cup {c}
         /\ SetTimeout(commUpdateWriteHandler(comm, fd, "response", stat),
                       fd, EchoTimeout, stat)
         /\ UNCHANGED heap
      \/ (inbox[c] = "quit" \/ ReadsEnd(c)) /\ CloseAndFree(fd, stat)
      \/ ReadFails(c) /\ CallFails(c)

\* A short write counts as the whole reply, and leaves room as a full one may.
do_echo_response(fd, stat) ==
  LET c == sock[fd]
  IN  \/ WriteFails(c) /\ CallFails(c)
      \/ /\ Writes(c) /\ writeAll(c)
         /\ SetTimeout(commUpdateReadHandler(comm, fd, "echo", stat),
                       fd, EchoTimeout, stat)
         /\ reply' = reply \ {c}
         /\ UNCHANGED heap

-------------------------------------------------------------------------------
(***************************************************************************)
(* The loop.                                                               *)
(***************************************************************************)
\* comm_select up to checkTimeouts or the wait: the timers are checked when
\* 0.999 s have passed since they were, which is certain once sys_curtime has
\* moved by two seconds and possible once it has moved by one.
SelectChecks ==
  /\ pc = "select" /\ since > 0
  /\ pc' = "scan" /\ scan' = 0 /\ since' = 0
  /\ UNCHANGED <<comm, tcp, heap, reply, batch, lag, clock, timers>>

SelectSkips ==
  /\ pc = "select" /\ since < 2
  /\ pc' = "wait"
  /\ UNCHANGED <<comm, tcp, heap, reply, scan, batch, since, lag,
                 clock, timers>>

Expired(fd) == comm.table[fd].timeout = 0

ScanFd_ShortTable ==
  /\ pc = "scan"
  /\ IF scan < Biggest_FD
     THEN /\ scan' = scan + 1 /\ pc' = pc
     ELSE /\ scan' = 0 /\ pc' = "wait"
  /\ IF scan < Biggest_FD - 1 /\ Expired(scan)
     THEN do_echo_timeout(scan, comm.table[scan].td)
     ELSE UNCHANGED <<comm, tcp, heap, reply, timers>>
  /\ UNCHANGED <<batch, since, lag, clock>>
\* The scan reads one entry past the table, where calloc's last page holds
\* zeros, and finds no timer there.
ScanFd ==
  /\ pc = "scan"
  /\ IF scan < Biggest_FD
     THEN /\ scan' = scan + 1 /\ pc' = pc
     ELSE /\ scan' = 0 /\ pc' = "wait"
  /\ IF scan < Biggest_FD /\ Expired(scan)
     THEN IF comm.table[scan].th # NoHandler
          THEN do_echo_timeout(scan, comm.table[scan].td)
          ELSE comm' = comm_close(comm, scan) /\ Forget(scan) /\ UNCHANGED heap
     ELSE UNCHANGED <<comm, tcp, heap, reply, timers>>
  /\ UNCHANGED <<batch, since, lag, clock>>

\* A wait lasts a second at most.
Tick ==
  /\ pc = "wait" /\ lag = 0
  /\ lag' = 1
  /\ left' = [fd \in Fd |-> IF comm.table[fd].timeout = NoTimeout \/ left[fd] = Overdue
                            THEN left[fd] ELSE left[fd] - 1]
  /\ UNCHANGED <<comm, tcp, heap, reply, pc, scan, batch, since,
                 clock, blind>>

Ready(fd) == ReadyFor(fd, comm.kernel[fd])

ReadyFds == {fd \in Fd : comm.kernel[fd] # {} /\ Ready(fd) # {}}

WaitReturns_WholeArray ==
  /\ pc = "wait" /\ ReadyFds # {}
  /\ LET n == MaxEvents
     IN  \E order \in [1 .. n -> ReadyFds] :
           batch' = [i \in 1 .. n |-> [fd   |-> order[i],
                                       ev   |-> Ready(order[i]),
                                       conn |-> sock[order[i]]]]
  /\ pc' = "dispatch"
  /\ UNCHANGED <<comm, tcp, heap, reply, scan, since, lag, clock, timers>>
\* epoll_wait fills events with MAX_EVENTS of the ready descriptors at most.
WaitReturns ==
  /\ pc = "wait" /\ ReadyFds # {}
  /\ LET n == Min({MaxEvents, Cardinality(ReadyFds)})
     IN  \E order \in [1 .. n -> ReadyFds] :
           /\ \A i, j \in 1 .. n : order[i] = order[j] => i = j
           /\ batch' = [i \in 1 .. n |-> [fd   |-> order[i],
                                          ev   |-> Ready(order[i]),
                                          conn |-> sock[order[i]]]]
  /\ pc' = "dispatch"
  /\ UNCHANGED <<comm, tcp, heap, reply, scan, since, lag, clock, timers>>

\* It returns 0, or fails when the process was stopped and continued.
WaitEmpty ==
  /\ pc = "wait" /\ ReadyFds = {}
  /\ pc' = "dispatch"
  /\ UNCHANGED <<comm, tcp, heap, reply, scan, batch, since, lag,
                 clock, timers>>

\* The read half of comm_call_handlers for the next event.
CallRead ==
  /\ pc = "dispatch" /\ batch # <<>>
  /\ pc' = "write"
  /\ LET fd == Head(batch).fd
         F  == comm.table[fd]
     IN  IF CallsRead
         THEN \/ F.rh = "accept" /\ accept_connection(fd, F.rd)
              \/ F.rh = "echo" /\ do_echo_handler(fd, F.rd)
         ELSE UNCHANGED <<comm, tcp, heap, reply, timers>>
  /\ UNCHANGED <<scan, batch, since, lag, clock>>

\* Its write half.
CallWrite ==
  /\ pc = "write"
  /\ pc' = "dispatch" /\ batch' = Tail(batch)
  /\ LET fd == Head(batch).fd
         F  == comm.table[fd]
     IN  IF CallsWrite
         THEN \/ F.wh = "welcome" /\ do_welcome_handler(fd, F.wd)
              \/ F.wh = "response" /\ do_echo_response(fd, F.wd)
         ELSE UNCHANGED <<comm, tcp, heap, reply, timers>>
  /\ UNCHANGED <<scan, since, lag, clock>>

\* A write handler called on a broken connection.
CallWriteBroken ==
  /\ pc = "write" /\ CallsWrite
  /\ WriteKills(sock[Head(batch).fd])
  /\ Killed

\* getCurrentTime at the end of comm_select.  Its first call takes
\* sys_curtime from 0 to the present, past every timer.
RoundEnd ==
  /\ pc = "dispatch" /\ batch = <<>>
  /\ pc' = "select" /\ clock' = "set" /\ lag' = 0
  /\ IF clock = "unset"
     THEN comm' = Elapse(comm, LongestTimeout) /\ since' = 2
     ELSE comm' = Elapse(comm, lag) /\ since' = Min({2, since + lag})
  /\ UNCHANGED <<tcp, heap, reply, scan, batch, timers>>

-------------------------------------------------------------------------------
Loop == \/ SelectChecks \/ SelectSkips \/ ScanFd \/ WaitReturns \/ WaitEmpty
        \/ CallRead \/ CallWrite \/ CallWriteBroken \/ RoundEnd

Next == Clients \/ Loop \/ Tick

Spec == Init /\ [][Next]_vars

\* The loop goes on, and time passes while it waits: no round is shorter than
\* every instant.
FairSpec == Spec /\ WF_vars(Loop) /\ SF_vars(Tick)

-------------------------------------------------------------------------------
(***************************************************************************)
(* Properties.                                                             *)
(***************************************************************************)
\* What the framework believes to be registered is registered, it counts the
\* registrations, and none outlives its descriptor: epoll_state, epoll_fds and
\* the kernel never part, although comm_close clears the registration of a
\* descriptor the kernel is about to forget by itself.
RegistrationAgrees ==
  /\ comm.state = comm.kernel
  /\ comm.fds = Cardinality({fd \in Fd : comm.kernel[fd] # {}})
  /\ \A fd \in Fd : comm.kernel[fd] # {} <=> sock[fd] # Nobody

\* A connection has one descriptor, its handlers get the ConnectStat made for
\* it while that is allocated, its timer is armed; a descriptor that is closed
\* has no handler left, and every ConnectStat of a closed connection is freed,
\* whichever of "quit", end of file and timeout closed it.
EntryOwnsStat ==
  /\ \A fd \in ConnFd :
       LET F == comm.table[fd]
           c == sock[fd]
       IN  IF c = Nobody THEN F = NoFde
           ELSE /\ c \in heap \cap Conns
                /\ F.td = c /\ F.th = "timeout" /\ F.timeout # NoTimeout
                /\ F.wd = c /\ F.wh # NoHandler
                /\ F.rh # NoHandler => F.rd = c
                /\ \A other \in ConnFd \ {fd} : sock[other] # c
  /\ \A fd \in Fd \ ConnFd :
       IF fd = ListenFd /\ pc # "killed"
       THEN /\ sock[fd] = Listener /\ comm.kernel[fd] = {"IN"}
            /\ comm.table[fd] = [NoFde EXCEPT !.rh = "accept", !.rd = Listener]
       ELSE sock[fd] = Nobody /\ comm.table[fd] = NoFde
  /\ heap \cap Conns = {c \in Conns : IsOpen(c)}

\* A connection that is up waits in the backlog, once, or has a descriptor.
PlacedOnce ==
  /\ \A c \in Conns : Connected(c) <=> c \in Range(backlog) \/ IsOpen(c)
  /\ \A c \in Range(backlog) : ~IsOpen(c)
  /\ \A i, j \in DOMAIN backlog : backlog[i] = backlog[j] => i = j

\* Handlers stay in the table when they are out of use, so what is registered
\* tells which of them is next: "welcome" is next until there is a read handler
\* and never again, "response" is when a reply waits.
HandlersInTurn ==
  /\ \A fd \in ConnFd : sock[fd] # Nobody =>
       LET F  == comm.table[fd]
           ev == comm.kernel[fd]
       IN  /\ F.rh \in {NoHandler, "echo"}
           /\ ev = {"IN"} => F.rh = "echo"
           /\ F.wh = "welcome" /\ F.rh = "echo" => ev = {"IN"}
           /\ F.wh = "response" => F.rh = "echo"
           /\ sock[fd] \in reply => F.wh = "response" /\ ev = {"OUT"}
  /\ \A c \in reply : IsOpen(c)

\* The events not dispatched are of different descriptors, and each is of the
\* connection it was reported for, registered as it was then; the event being
\* dispatched may have lost its connection or registration to its read handler.
BatchSound ==
  /\ batch = <<>> => pc # "write"
  /\ batch # <<>> => pc \in {"dispatch", "write"}
  /\ \A i, j \in DOMAIN batch : batch[i].fd = batch[j].fd => i = j
  /\ \A i \in DOMAIN batch :
       LET e == batch[i]
           s == sock[e.fd]
       IN  /\ s = e.conn \/ (s = Nobody /\ i = 1 /\ pc = "write")
           /\ s # Nobody => /\ "HUP" \in e.ev => s \in Conns /\ Hung(s)
                            /\ e.ev = {"OUT"} => comm.kernel[e.fd] = {"OUT"}
           /\ i # 1 \/ pc = "dispatch" =>
                /\ e.ev # {} /\ e.ev \subseteq comm.kernel[e.fd] \cup {"HUP"}
                /\ e.fd = ListenFd => backlog # <<>>

\* A timer's time by sys_curtime and its real time are a second apart at most,
\* and one that has expired is found by the next check but one of the clock.
TimersKept ==
  /\ pc \in {"select", "scan"} => lag = 0
  /\ pc = "scan" => since = 0
  /\ pc \in {"wait", "dispatch", "write"} => since < 2
  /\ clock = "unset" => since = 0 /\ pc # "scan"
  /\ \A fd \in ConnFd :
       LET timeout == comm.table[fd].timeout
       IN  /\ timeout > 0 /\ clock = "set" =>
                fd \notin blind /\ left[fd] - (timeout - lag) \in {0, 1}
           /\ timeout > 0 /\ clock = "unset" =>
                fd \in blind /\ left[fd] = timeout /\ pc \in {"dispatch", "write"}
           /\ timeout = 0 =>
                /\ clock = "set" /\ left[fd] >= -1
                /\ fd \notin blind => left[fd] <= 1
                /\ pc = "scan" => scan <= fd
                /\ pc = "select" => since = 2 \/ (since = 1 /\ left[fd] >= 0)
                /\ pc \notin {"select", "scan"} => since = 1 /\ left[fd] >= -lag

\* Table, registrations, kernel, heap, events and timers agree after every
\* system call.  This is inductive.
TableSound ==
  /\ TypeOK /\ RegistrationAgrees /\ EntryOwnsStat /\ PlacedOnce /\ HandlersInTurn
  /\ BatchSound /\ TimersKept

\* An event waiting in do_epoll_select belongs to the connection its
\* descriptor leads to now, or to one closed since: a descriptor closed by one
\* handler and accepted again by a later one of the same batch receives no event
\* of its predecessor.
NoStaleEvent ==
  \A i \in DOMAIN batch : sock[batch[i].fd] \in {batch[i].conn, Nobody}

\* A message is read over an unsent reply only on a connection that was reset:
\* the read handler stays in the table while the response is pending, and only
\* the registration keeps it from running.
ReplyBeforeNextRead ==
  [][\A c \in reply : inbox[c] # "none" /\ inbox'[c] = "none"
                       => peer'[c] \in {"gone", "reset", "broken"}]_vars

\* Seconds are kept to within what a lagging sys_curtime and a check once per
\* second allow: no timer that was set after the first round expires more than
\* one second early, and none is left for more than one after its time.
TimersPunctual ==
  \A fd \in ConnFd : comm.table[fd].timeout # NoTimeout =>
    /\ left[fd] >= -1
    /\ Expired(fd) /\ fd \notin blind => left[fd] <= 1

\* The stage a client sees its connection at.
StageOf(c) ==
  IF peer[c] = "gone" THEN "closed"
  ELSE IF ~IsOpen(c) THEN "absent"
  ELSE LET fd == CHOOSE f \in ConnFd : sock[f] = c
       IN  IF comm.table[fd].rh = NoHandler /\ comm.state[fd] = {"OUT"} THEN "greeting"
           ELSE IF comm.state[fd] = {"IN"} THEN "reading"
           ELSE "replying"

Session == INSTANCE EchoSession WITH stage <- [c \in Conns |-> StageOf(c)]

\* Handlers called with registrations that came and went, stale write handlers
\* and repeated greetings included, serve each connection as EchoSession says.
ImplementsEchoSession == Session!Spec

\* Every connection made is closed at last, however its client falls silent:
\* without reading what was sent, with a message half way, before it is accepted.
EveryConnectionEnds == \A c \in Conns : Connected(c) ~> ~Connected(c)

\* main.c:209 says of the loop that it handles events without end.
ServerLives == pc # "killed"

\* comm.c:101 says that a timeout is the present time plus the seconds asked for:
\* no timer expires more than a second before that.
NoEarlyTimeout == \A fd \in ConnFd : Expired(fd) => left[fd] <= 1
===============================================================================
