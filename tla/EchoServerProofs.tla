--------------------------- MODULE EchoServerProofs ---------------------------
(***************************************************************************)
(* Proofs about EchoServer, for any number of descriptors and connections, *)
(* any timeouts and any size of epoll_wait's array.  TableSound is         *)
(* inductive.  The framework's operators are described first, by what they *)
(* do to one entry of the table and its registration; each handler is one  *)
(* or two of them, and a step of the loop at most one handler.             *)
(***************************************************************************)
EXTENDS EchoServer, FiniteSetTheorems, SequenceTheorems, WellFoundedInduction, TLAPS

-------------------------------------------------------------------------------
(* Constants.                                                              *)

\* The order of the natural numbers as a set of pairs.
LEMMA LessIsPairs == OpToRel(<, Nat) = {ss \in Nat \X Nat : ss[1] < ss[2]}
BY DEF OpToRel

\* A set of natural numbers has a least one.
LEMMA MinFacts ==
  ASSUME NEW S \in SUBSET Nat, S # {}
  PROVE  Min(S) \in S /\ \A y \in S : Min(S) <= y
<1> DEFINE Less == {ss \in Nat \X Nat : ss[1] < ss[2]}
<1>1. IsWellFoundedOn(Less, Nat)
  BY NatLessThanWellFounded, LessIsPairs
<1>2. PICK x \in S : \A y \in S : ~ (<<y, x>> \in Less)
  <2> HIDE DEF Less
  <2> QED BY <1>1, WFMin
<1>3. ASSUME NEW y \in S
      PROVE  x <= y
  <2>1. x \in Nat /\ y \in Nat
    OBVIOUS
  <2>2. y < x => <<y, x>> \in Less
    BY <2>1
  <2>3. QED BY <2>1, <2>2, <1>3, <1>2
<1>4. QED BY <1>3 DEF Min

\* The longer of the two timeouts.
LEMMA TimeoutFacts ==
  /\ GreetTimeout \in Nat \ {0} /\ EchoTimeout \in Nat \ {0}
  /\ LongestTimeout \in Nat \ {0}
  /\ GreetTimeout <= LongestTimeout /\ EchoTimeout <= LongestTimeout
<1>1. GreetTimeout \in Nat \ {0} /\ EchoTimeout \in Nat \ {0}
  BY EchoAssumption
<1>2. \E x \in {GreetTimeout, EchoTimeout} : \A y \in {GreetTimeout, EchoTimeout} : x >= y
  BY <1>1
<1>3. LongestTimeout \in {GreetTimeout, EchoTimeout}
      /\ \A y \in {GreetTimeout, EchoTimeout} : LongestTimeout >= y
  BY <1>2 DEF LongestTimeout, Max
<1>4. QED BY <1>1, <1>3

\* The descriptors, and values that are different.
LEMMA FdFacts ==
  /\ Biggest_FD \in Nat /\ ListenFd \in Fd /\ ListenFd \in Nat /\ ListenFd \notin ConnFd
  /\ ConnFd \subseteq Fd /\ Fd \subseteq Nat /\ Biggest_FD \notin Fd
  /\ Listener \notin Conns /\ Nobody \notin Conns /\ Nobody # Listener
  /\ NoData \notin Conns /\ NoData # Listener
  /\ IsFiniteSet(Fd)
<1>1. Biggest_FD \in Nat /\ ListenFd \in 1 .. Biggest_FD - 2
  BY TableAssumption, TcpAssumption
<1>2. IsFiniteSet(Fd)
  BY <1>1, FS_Interval DEF Fd
<1>3. /\ ListenFd \in Fd /\ ListenFd \in Nat /\ ListenFd \notin ConnFd
      /\ ConnFd \subseteq Fd /\ Fd \subseteq Nat /\ Biggest_FD \notin Fd
  BY <1>1 DEF Fd, ConnFd
<1>4. /\ Listener \notin Conns /\ Nobody \notin Conns /\ Nobody # Listener
      /\ NoData \notin Conns /\ NoData # Listener
  BY TcpAssumption, EchoAssumption DEF Nobody
<1>5. QED BY <1>1, <1>2, <1>3, <1>4

-------------------------------------------------------------------------------
(* The framework's operators.                                              *)

CommRecord == [table : [Fd -> Entry], state : [Fd -> Watched], fds : Nat,
               kernel : [Fd -> Watched]]

\* epoll_state, epoll_fds and the kernel agree.
Agrees(c) == /\ c \in CommRecord
             /\ c.state = c.kernel
             /\ c.fds = Cardinality({f \in Fd : c.kernel[f] # {}})

LEMMA SetEventsFacts ==
  ASSUME NEW c, Agrees(c), NEW fd \in Fd, NEW ev \in Watched
  PROVE  LET d == epollSetEvents(c, fd, ev)
         IN  Agrees(d) /\ d.table = c.table /\ d.kernel = [c.kernel EXCEPT ![fd] = ev]
<1> DEFINE d == epollSetEvents(c, fd, ev)
           Reg(k) == {f \in Fd : k[f] # {}}
           new == [c.kernel EXCEPT ![fd] = ev]
<1>1. /\ c \in CommRecord /\ c.state = c.kernel /\ c.fds = Cardinality(Reg(c.kernel))
      /\ c.kernel \in [Fd -> Watched] /\ c.fds \in Nat
  BY DEF Agrees, CommRecord
<1>2. new \in [Fd -> Watched] /\ new[fd] = ev /\ \A f \in Fd \ {fd} : new[f] = c.kernel[f]
  BY <1>1
<1>3. IsFiniteSet(Reg(c.kernel)) /\ IsFiniteSet(Reg(new))
  BY FdFacts, FS_Subset
<1>4. CASE ev = c.state[fd]
  <2>1. d = c /\ new = c.kernel
    BY <1>1, <1>4 DEF epollSetEvents
  <2>2. QED BY <2>1
<1>5. CASE ev # c.state[fd] /\ ev = {}
  <2>1. epoll_ctl(c.kernel, "DEL", fd, ev) = new
    BY <1>1, <1>5 DEF epoll_ctl
  <2>2. d = [c EXCEPT !.state[fd] = ev, !.kernel = new, !.fds = c.fds - 1]
    BY <2>1, <1>5 DEF epollSetEvents
  <2>3. Reg(new) = Reg(c.kernel) \ {fd} /\ fd \in Reg(c.kernel)
    BY <1>1, <1>2, <1>5
  <2>4. Cardinality(Reg(new)) = c.fds - 1
    <3> HIDE DEF Reg, new
    <3>1. QED BY <1>1, <1>3, <2>3, FS_RemoveElement
  <2>5. Cardinality(Reg(new)) \in Nat
    BY <1>3, FS_CardinalityType
  <2> HIDE DEF d, new
  <2>6. /\ d \in CommRecord /\ d.table = c.table /\ d.kernel = new
        /\ d.state = [c.state EXCEPT ![fd] = ev] /\ d.fds = c.fds - 1
    BY <1>1, <1>2, <2>2, <2>4, <2>5 DEF CommRecord, Watched
  <2>7. QED BY <1>1, <2>4, <2>6 DEF Agrees, d, new
<1>6. CASE ev # c.state[fd] /\ ev # {} /\ c.state[fd] # {}
  <2>1. epoll_ctl(c.kernel, "MOD", fd, ev) = new
    BY <1>1, <1>6 DEF epoll_ctl
  <2>2. d = [c EXCEPT !.state[fd] = ev, !.kernel = new, !.fds = c.fds]
    BY <2>1, <1>6 DEF epollSetEvents
  <2>3. Reg(new) = Reg(c.kernel)
    BY <1>1, <1>2, <1>6
  <2> HIDE DEF d, new
  <2>4. /\ d \in CommRecord /\ d.table = c.table /\ d.kernel = new
        /\ d.state = [c.state EXCEPT ![fd] = ev] /\ d.fds = c.fds
    BY <1>1, <1>2, <2>2 DEF CommRecord
  <2>5. QED BY ZenonT(30), <1>1, <2>3, <2>4 DEF Agrees, d, new
<1>7. CASE ev # c.state[fd] /\ ev # {} /\ c.state[fd] = {}
  <2>1. epoll_ctl(c.kernel, "ADD", fd, ev) = new
    BY <1>1, <1>7 DEF epoll_ctl
  <2>2. d = [c EXCEPT !.state[fd] = ev, !.kernel = new, !.fds = c.fds + 1]
    BY <2>1, <1>7 DEF epollSetEvents
  <2>3. Reg(new) = Reg(c.kernel) \cup {fd} /\ fd \notin Reg(c.kernel)
    BY <1>1, <1>2, <1>7
  <2>4. Cardinality(Reg(new)) = c.fds + 1
    <3> HIDE DEF Reg, new
    <3>1. QED BY <1>1, <1>3, <2>3, FS_AddElement
  <2>5. c.fds + 1 \in Nat /\ [c.state EXCEPT ![fd] = ev] \in [Fd -> Watched]
    BY <1>1
  <2> HIDE DEF d, new
  <2>6. /\ d \in CommRecord /\ d.table = c.table /\ d.kernel = new
        /\ d.state = [c.state EXCEPT ![fd] = ev] /\ d.fds = c.fds + 1
    BY <1>1, <1>2, <2>2, <2>5 DEF CommRecord
  <2>7. QED BY <1>1, <2>4, <2>6 DEF Agrees, d, new
<1>8. QED BY <1>4, <1>5, <1>6, <1>7

\* A change of one entry of the table.
LEMMA EntryChange ==
  ASSUME NEW c, Agrees(c), NEW fd \in Fd, NEW F \in Entry
  PROVE  LET d == [c EXCEPT !.table = [c.table EXCEPT ![fd] = F]]
         IN  Agrees(d) /\ d.table = [c.table EXCEPT ![fd] = F] /\ d.kernel = c.kernel
<1> DEFINE d == [c EXCEPT !.table = [c.table EXCEPT ![fd] = F]]
<1>1. /\ d \in CommRecord /\ d.table = [c.table EXCEPT ![fd] = F] /\ d.kernel = c.kernel
      /\ d.state = c.state /\ d.fds = c.fds
  BY DEF Agrees, CommRecord
<1>2. QED BY <1>1 DEF Agrees

\* A handler sets the next one, for reading, and the timer.
LEMMA ServeRead ==
  ASSUME NEW c, Agrees(c), NEW fd \in Fd, NEW stat \in Conns,
         NEW seconds \in 1 .. LongestTimeout
  PROVE  LET d == commSetTimeout(commUpdateReadHandler(c, fd, "echo", stat),
                                 fd, seconds, "timeout", stat)
             F == [c.table[fd] EXCEPT !.rh = "echo", !.rd = stat, !.th = "timeout",
                                      !.td = stat, !.timeout = seconds]
         IN  /\ Agrees(d) /\ F \in Entry /\ d.table = [c.table EXCEPT ![fd] = F]
             /\ d.kernel = [c.kernel EXCEPT ![fd] = {"IN"}]
<1> DEFINE F1 == [c.table[fd] EXCEPT !.rh = "echo", !.rd = stat]
           F == [c.table[fd] EXCEPT !.rh = "echo", !.rd = stat, !.th = "timeout",
                                    !.td = stat, !.timeout = seconds]
           c1 == [c EXCEPT !.table[fd].rh = "echo", !.table[fd].rd = stat]
           c2 == commUpdateReadHandler(c, fd, "echo", stat)
           d == commSetTimeout(c2, fd, seconds, "timeout", stat)
<1>1. c.table \in [Fd -> Entry] /\ c.table[fd] \in Entry /\ c \in CommRecord
  BY DEF Agrees, CommRecord
<1>2. seconds \in NoTimeout .. LongestTimeout /\ ~ (seconds < 0)
  BY TimeoutFacts DEF NoTimeout
<1>3. F1 \in Entry /\ F \in Entry
  BY <1>1, <1>2 DEF Entry
<1>4. c1 = [c EXCEPT !.table = [c.table EXCEPT ![fd] = F1]]
  BY <1>1 DEF CommRecord
<1>5. Agrees(c1) /\ c1.table = [c.table EXCEPT ![fd] = F1] /\ c1.kernel = c.kernel
  <2> HIDE DEF c1, F1
  <2>1. QED BY <1>3, <1>4, EntryChange
<1>6. c2 = epollSetEvents(c1, fd, {"IN"}) /\ {"IN"} \in Watched
  BY DEF commUpdateReadHandler, Watched
<1>7. Agrees(c2) /\ c2.table = c1.table /\ c2.kernel = [c.kernel EXCEPT ![fd] = {"IN"}]
  <2> HIDE DEF c1, c2
  <2>1. QED BY <1>5, <1>6, SetEventsFacts
<1>8. c2.table[fd] = F1 /\ c2 \in CommRecord
  <2> HIDE DEF c1, c2, F1
  <2>1. QED BY <1>1, <1>5, <1>7 DEF Agrees
<1>9. d = [c2 EXCEPT !.table = [c2.table EXCEPT ![fd] = F]]
  <2> HIDE DEF c2
  <2>1. d = [c2 EXCEPT !.table[fd].th = "timeout", !.table[fd].td = stat,
                       !.table[fd].timeout = seconds]
    BY <1>2 DEF commSetTimeout
  <2>2. F = [F1 EXCEPT !.th = "timeout", !.td = stat, !.timeout = seconds]
    BY <1>1 DEF Entry
  <2> HIDE DEF d, F, F1
  <2>3. QED BY <1>8, <2>1, <2>2 DEF CommRecord
<1> HIDE DEF d, F, F1, c1, c2
<1>10. Agrees(d) /\ d.table = [c2.table EXCEPT ![fd] = F] /\ d.kernel = c2.kernel
  BY <1>3, <1>7, <1>9, EntryChange
<1>11. d.table = [c.table EXCEPT ![fd] = F]
  BY <1>1, <1>5, <1>7, <1>10
<1>12. QED BY <1>3, <1>7, <1>10, <1>11 DEF d, c2, F

\* The same for writing.
LEMMA ServeWrite ==
  ASSUME NEW c, Agrees(c), NEW fd \in Fd, NEW stat \in Conns,
         NEW handler \in {"welcome", "response"}, NEW seconds \in 1 .. LongestTimeout
  PROVE  LET d == commSetTimeout(commUpdateWriteHandler(c, fd, handler, stat),
                                 fd, seconds, "timeout", stat)
             F == [c.table[fd] EXCEPT !.wh = handler, !.wd = stat, !.th = "timeout",
                                      !.td = stat, !.timeout = seconds]
         IN  /\ Agrees(d) /\ F \in Entry /\ d.table = [c.table EXCEPT ![fd] = F]
             /\ d.kernel = [c.kernel EXCEPT ![fd] = {"OUT"}]
<1> DEFINE F1 == [c.table[fd] EXCEPT !.wh = handler, !.wd = stat]
           F == [c.table[fd] EXCEPT !.wh = handler, !.wd = stat, !.th = "timeout",
                                    !.td = stat, !.timeout = seconds]
           c1 == [c EXCEPT !.table[fd].wh = handler, !.table[fd].wd = stat]
           c2 == commUpdateWriteHandler(c, fd, handler, stat)
           d == commSetTimeout(c2, fd, seconds, "timeout", stat)
<1>1. c.table \in [Fd -> Entry] /\ c.table[fd] \in Entry /\ c \in CommRecord
  BY DEF Agrees, CommRecord
<1>2. seconds \in NoTimeout .. LongestTimeout /\ ~ (seconds < 0)
  BY TimeoutFacts DEF NoTimeout
<1>3. F1 \in Entry /\ F \in Entry
  BY <1>1, <1>2 DEF Entry
<1>4. c1 = [c EXCEPT !.table = [c.table EXCEPT ![fd] = F1]]
  BY <1>1 DEF CommRecord
<1>5. Agrees(c1) /\ c1.table = [c.table EXCEPT ![fd] = F1] /\ c1.kernel = c.kernel
  <2> HIDE DEF c1, F1
  <2>1. QED BY <1>3, <1>4, EntryChange
<1>6. c2 = epollSetEvents(c1, fd, {"OUT"}) /\ {"OUT"} \in Watched
  BY DEF commUpdateWriteHandler, Watched
<1>7. Agrees(c2) /\ c2.table = c1.table /\ c2.kernel = [c.kernel EXCEPT ![fd] = {"OUT"}]
  <2> HIDE DEF c1, c2
  <2>1. QED BY <1>5, <1>6, SetEventsFacts
<1>8. c2.table[fd] = F1 /\ c2 \in CommRecord
  <2> HIDE DEF c1, c2, F1
  <2>1. QED BY <1>1, <1>5, <1>7 DEF Agrees
<1>9. d = [c2 EXCEPT !.table = [c2.table EXCEPT ![fd] = F]]
  <2> HIDE DEF c2
  <2>1. d = [c2 EXCEPT !.table[fd].th = "timeout", !.table[fd].td = stat,
                       !.table[fd].timeout = seconds]
    BY <1>2 DEF commSetTimeout
  <2>2. F = [F1 EXCEPT !.th = "timeout", !.td = stat, !.timeout = seconds]
    BY <1>1 DEF Entry
  <2> HIDE DEF d, F, F1
  <2>3. QED BY <1>8, <2>1, <2>2 DEF CommRecord
<1> HIDE DEF d, F, F1, c1, c2
<1>10. Agrees(d) /\ d.table = [c2.table EXCEPT ![fd] = F] /\ d.kernel = c2.kernel
  BY <1>3, <1>7, <1>9, EntryChange
<1>11. d.table = [c.table EXCEPT ![fd] = F]
  BY <1>1, <1>5, <1>7, <1>10
<1>12. QED BY <1>3, <1>7, <1>10, <1>11 DEF d, c2, F

\* An entry without anything.
LEMMA NoFdeFacts ==
  /\ NoFde \in Entry /\ NoFde.rh = NoHandler /\ NoFde.wh = NoHandler
  /\ NoFde.th = NoHandler /\ NoFde.timeout = NoTimeout
BY TimeoutFacts DEF NoFde, Entry, NoTimeout

\* The close of a descriptor.
LEMMA CloseFacts ==
  ASSUME NEW c, Agrees(c), NEW fd \in Fd
  PROVE  LET d == comm_close(c, fd)
         IN  /\ Agrees(d) /\ d.table = [c.table EXCEPT ![fd] = NoFde]
             /\ d.kernel = [c.kernel EXCEPT ![fd] = {}]
<1> DEFINE c1 == [c EXCEPT !.table[fd] = NoFde]
           c2 == epollSetEvents(c1, fd, {})
           d == comm_close(c, fd)
<1>0. c1 = [c EXCEPT !.table = [c.table EXCEPT ![fd] = NoFde]]
  BY DEF Agrees, CommRecord
<1>1. Agrees(c1) /\ c1.table = [c.table EXCEPT ![fd] = NoFde] /\ c1.kernel = c.kernel
  <2> HIDE DEF c1
  <2>1. QED BY <1>0, NoFdeFacts, EntryChange
<1>2. {} \in Watched /\ c2 = epollSetEvents(c1, fd, {})
  BY DEF Watched
<1>3. Agrees(c2) /\ c2.table = c1.table /\ c2.kernel = [c1.kernel EXCEPT ![fd] = {}]
  <2>1. \A ev \in Watched :
          /\ Agrees(epollSetEvents(c1, fd, ev))
          /\ epollSetEvents(c1, fd, ev).table = c1.table
          /\ epollSetEvents(c1, fd, ev).kernel = [c1.kernel EXCEPT ![fd] = ev]
    <3> HIDE DEF c1
    <3>1. QED BY <1>1, SetEventsFacts
  <2> HIDE DEF c1, c2, d
  <2>2. QED BY <1>2, <2>1
<1>4. d = [c2 EXCEPT !.kernel[fd] = {}]
  BY DEF comm_close, c1
<1> HIDE DEF c1, c2, d
<1>5. c2 \in CommRecord /\ c2.kernel \in [Fd -> Watched] /\ c2.kernel[fd] = {}
  BY <1>1, <1>3 DEF Agrees, CommRecord
<1>6. d = c2
  BY <1>4, <1>5 DEF CommRecord
<1>7. QED BY <1>1, <1>3, <1>6 DEF d

-------------------------------------------------------------------------------
(* The invariant while the server lives, by descriptors.                   *)

\* The entry F and the registration ev of a descriptor that leads to c, of
\* which a reply waits or not.
EntryRight(F, ev, c, waits) ==
  IF c = Nobody THEN F = NoFde /\ ev = {}
  ELSE /\ c \in Conns /\ ev # {}
       /\ F.td = c /\ F.th = "timeout" /\ F.timeout # NoTimeout
       /\ F.wd = c /\ F.wh # NoHandler
       /\ F.rh # NoHandler => F.rd = c
       /\ F.rh \in {NoHandler, "echo"}
       /\ ev = {"IN"} => F.rh = "echo"
       /\ F.wh = "welcome" /\ F.rh = "echo" => ev = {"IN"}
       /\ F.wh = "response" => F.rh = "echo"
       /\ waits => F.wh = "response" /\ ev = {"OUT"}

DataOK == /\ TcpTypeOK
          /\ heap \subseteq Conns \cup {Listener} /\ reply \subseteq Conns
          /\ left \in [Fd -> Overdue .. LongestTimeout] /\ blind \subseteq Fd

ConnEntries == \A fd \in ConnFd : EntryRight(comm.table[fd], comm.kernel[fd], sock[fd],
                                             sock[fd] \in reply)
OtherEntries == \A fd \in Fd \ ConnFd :
  IF fd = ListenFd
  THEN /\ sock[fd] = Listener /\ comm.kernel[fd] = {"IN"}
       /\ comm.table[fd] = [NoFde EXCEPT !.rh = "accept", !.rd = Listener]
  ELSE sock[fd] = Nobody /\ comm.table[fd] = NoFde /\ comm.kernel[fd] = {}
OneFdEach == \A f, g \in ConnFd : sock[f] = sock[g] => f = g \/ sock[f] = Nobody
StatsOfOpen == /\ heap \cap Conns = {c \in Conns : IsOpen(c)}
               /\ \A c \in reply : IsOpen(c)

Served == /\ Agrees(comm) /\ DataOK /\ ConnEntries /\ OtherEntries
          /\ OneFdEach /\ StatsOfOpen /\ PlacedOnce

LoopOK == /\ pc \in {"select", "scan", "wait", "dispatch", "write", "killed"}
          /\ scan \in 0 .. Biggest_FD /\ batch \in Seq(Event)
          /\ since \in 0 .. 2 /\ lag \in 0 .. 1 /\ clock \in {"unset", "set"}

\* The two forms of the invariant are the same.
LEMMA ServedIsSound ==
  pc # "killed" => (TableSound <=> Served /\ LoopOK /\ BatchSound /\ TimersKept)
<1> SUFFICES ASSUME pc # "killed"
             PROVE  TableSound <=> Served /\ LoopOK /\ BatchSound /\ TimersKept
  OBVIOUS
<1>1. TypeOK /\ RegistrationAgrees <=>
        /\ Agrees(comm) /\ DataOK /\ LoopOK
        /\ \A fd \in Fd : comm.kernel[fd] # {} <=> sock[fd] # Nobody
  BY DEF TypeOK, RegistrationAgrees, Agrees, CommRecord, DataOK, LoopOK
<1>2. ASSUME DataOK
      PROVE  /\ \A fd \in Fd : comm.kernel[fd] # {} <=> sock[fd] # Nobody
             /\ EntryOwnsStat /\ HandlersInTurn
             <=> ConnEntries /\ OtherEntries /\ OneFdEach /\ StatsOfOpen
  <2>1. ASSUME NEW fd \in ConnFd, sock[fd] # Nobody, sock[fd] \in heap \cap Conns
        PROVE  sock[fd] \in Conns
    BY <2>1
  <2>2. ASSUME /\ \A fd \in Fd : comm.kernel[fd] # {} <=> sock[fd] # Nobody
               /\ EntryOwnsStat /\ HandlersInTurn
        PROVE  ConnEntries /\ OtherEntries /\ OneFdEach /\ StatsOfOpen
    <3>1. ConnEntries
      <4> SUFFICES ASSUME NEW fd \in ConnFd
                   PROVE  EntryRight(comm.table[fd], comm.kernel[fd], sock[fd],
                                     sock[fd] \in reply)
        BY DEF ConnEntries
      <4>1. fd \in Fd
        BY FdFacts
      <4>2. QED BY <2>2, <4>1 DEF EntryRight, EntryOwnsStat, HandlersInTurn
    <3>2. OtherEntries
      BY <2>2 DEF OtherEntries, EntryOwnsStat
    <3>3. OneFdEach
      BY <2>2 DEF OneFdEach, EntryOwnsStat
    <3>4. StatsOfOpen
      BY <2>2 DEF StatsOfOpen, EntryOwnsStat, HandlersInTurn
    <3>5. QED BY <3>1, <3>2, <3>3, <3>4
  <2>3. ASSUME ConnEntries, OtherEntries, OneFdEach, StatsOfOpen
        PROVE  /\ \A fd \in Fd : comm.kernel[fd] # {} <=> sock[fd] # Nobody
               /\ EntryOwnsStat /\ HandlersInTurn
    <3>1. \A fd \in Fd : comm.kernel[fd] # {} <=> sock[fd] # Nobody
      BY <2>3, FdFacts DEF ConnEntries, OtherEntries, EntryRight
    <3>2. ASSUME NEW fd \in ConnFd, sock[fd] # Nobody
          PROVE  sock[fd] \in heap \cap Conns
                 /\ \A other \in ConnFd \ {fd} : sock[other] # sock[fd]
      <4>1. sock[fd] \in Conns
        BY <2>3, <3>2 DEF ConnEntries, EntryRight
      <4>2. IsOpen(sock[fd])
        BY DEF IsOpen
      <4>3. QED BY <2>3, <3>2, <4>1, <4>2 DEF StatsOfOpen, OneFdEach
    <3>3. EntryOwnsStat
      BY <2>3, <3>2 DEF EntryOwnsStat, ConnEntries, OtherEntries, EntryRight, StatsOfOpen
    <3>4. HandlersInTurn
      BY <2>3 DEF HandlersInTurn, ConnEntries, EntryRight, StatsOfOpen
    <3>5. QED BY <3>1, <3>3, <3>4
  <2>4. QED BY <2>2, <2>3
<1>3. QED BY <1>1, <1>2 DEF TableSound, Served

LEMMA ServedIsSoundNext ==
  (pc # "killed" => (TableSound <=> Served /\ LoopOK /\ BatchSound /\ TimersKept))'
BY ServedIsSound, PTL

-------------------------------------------------------------------------------
(* The handlers.                                                           *)

\* What a handler called for fd leaves to others, and may do to fd: close it,
\* or set its timer.
OnlyFd(fd) == \A f \in Fd \ {fd} :
  /\ sock'[f] = sock[f] /\ comm'.table[f] = comm.table[f]
  /\ comm'.kernel[f] = comm.kernel[f]
  /\ left'[f] = left[f] /\ (f \in blind' <=> f \in blind)
TimerSet(fd) ==
  LET new == comm'.table[fd].timeout
  IN  \/ new = NoTimeout
      \/ /\ new = comm.table[fd].timeout /\ left'[fd] = left[fd]
         /\ (fd \in blind' <=> fd \in blind)
      \/ new > 0 /\ left'[fd] = new /\ (fd \in blind' <=> clock = "unset")
StillHung == \A s \in Conns : Hung(s) /\ (\E f \in Fd : sock'[f] = s) => Hung(s)'

Handled(fd) == /\ OnlyFd(fd) /\ TimerSet(fd) /\ StillHung
               /\ sock'[fd] \in {sock[fd], Nobody} /\ backlog' = backlog

\* What a descriptor's state says of where it is.
LEMMA WhichFd ==
  ASSUME Served, NEW fd \in Fd
  PROVE  /\ comm.table[fd].rh = "accept" => fd = ListenFd
         /\ comm.table[fd].rh = "echo" \/ comm.table[fd].wh # NoHandler
            \/ comm.table[fd].timeout # NoTimeout => fd \in ConnFd /\ sock[fd] \in Conns
         /\ sock[fd] \in Conns => fd \in ConnFd
<1>1. NoFde.rh = NoHandler /\ NoFde.wh = NoHandler /\ NoFde.timeout = NoTimeout
  BY NoFdeFacts
<1>2. CASE fd \in ConnFd
  BY <1>1, <1>2, FdFacts DEF Served, ConnEntries, EntryRight, NoHandler
<1>3. CASE fd = ListenFd
  <2>1. comm.table[fd] = [NoFde EXCEPT !.rh = "accept", !.rd = Listener] /\ sock[fd] = Listener
    BY <1>3, FdFacts DEF Served, OtherEntries
  <2>2. comm.table[fd].rh = "accept" /\ comm.table[fd].wh = NoHandler
        /\ comm.table[fd].timeout = NoTimeout
    BY <2>1 DEF NoFde
  <2>3. QED BY <1>3, <2>1, <2>2, FdFacts
<1>4. CASE fd \notin ConnFd /\ fd # ListenFd
  BY <1>1, <1>4, FdFacts DEF Served, OtherEntries, NoHandler
<1>5. QED BY <1>2, <1>3, <1>4

\* A connection's entry, registration and reply change and stay right.
LEMMA ServeStep ==
  ASSUME Served, NEW fd \in ConnFd, NEW F \in Entry, NEW k \in Watched,
         sock[fd] \in Conns, Agrees(comm'), DataOK',
         comm'.table = [comm.table EXCEPT ![fd] = F],
         comm'.kernel = [comm.kernel EXCEPT ![fd] = k],
         EntryRight(F, k, sock[fd], sock[fd] \in reply'),
         reply' \ {sock[fd]} = reply \ {sock[fd]},
         UNCHANGED <<sock, backlog, peer, heap>>
  PROVE  Served'
<1>1. fd \in Fd /\ ConnFd \subseteq Fd /\ fd # ListenFd
  BY FdFacts
<1>2. comm.table \in [Fd -> Entry] /\ comm.kernel \in [Fd -> Watched]
  BY DEF Served, Agrees, CommRecord
<1>3. ConnEntries'
  <2> SUFFICES ASSUME NEW f \in ConnFd
               PROVE  EntryRight(comm'.table[f], comm'.kernel[f], sock[f], sock[f] \in reply')
    BY DEF ConnEntries
  <2>1. CASE f = fd
    BY <1>1, <1>2, <2>1
  <2>2. CASE f # fd
    <3>1. comm'.table[f] = comm.table[f] /\ comm'.kernel[f] = comm.kernel[f]
      BY <1>1, <1>2, <2>2
    <3>2. EntryRight(comm.table[f], comm.kernel[f], sock[f], sock[f] \in reply)
      BY DEF Served, ConnEntries
    <3>3. sock[f] \in reply' <=> sock[f] \in reply
      <4>1. sock[f] # sock[fd]
        BY <2>2, FdFacts DEF Served, OneFdEach
      <4>2. QED BY <4>1
    <3>4. (sock[f] \in reply') = (sock[f] \in reply)
      BY <3>3
    <3>5. QED BY <3>1, <3>2, <3>3 DEF EntryRight
  <2>3. QED BY <2>1, <2>2
<1>4. OtherEntries'
  <2> SUFFICES ASSUME NEW f \in Fd \ ConnFd
               PROVE  /\ comm'.table[f] = comm.table[f] /\ comm'.kernel[f] = comm.kernel[f]
    BY DEF Served, OtherEntries
  <2>1. QED BY <1>1, <1>2
<1>5. \A c \in Conns : IsOpen(c)' <=> IsOpen(c)
  BY DEF IsOpen
<1>6. StatsOfOpen'
  <2>1. IsOpen(sock[fd])
    BY DEF IsOpen
  <2>2. \A c \in reply' : IsOpen(c)
    BY <2>1 DEF Served, StatsOfOpen
  <2>3. \A c \in reply' : IsOpen(c)'
    BY <2>2 DEF IsOpen
  <2>4. QED BY <1>5, <2>3 DEF Served, StatsOfOpen
<1>7. OneFdEach' /\ PlacedOnce'
  BY <1>5 DEF Served, OneFdEach, PlacedOnce, Connected, IsOpen
<1>8. QED BY <1>3, <1>4, <1>6, <1>7 DEF Served

\* SetTimeout's history.
LEMMA TimerTypes ==
  ASSUME DataOK, NEW fd \in Fd, NEW k, NEW seconds \in 1 .. LongestTimeout, NEW c,
         SetTimeout(k, fd, seconds, c)
  PROVE  /\ left' \in [Fd -> Overdue .. LongestTimeout] /\ blind' \subseteq Fd
         /\ left'[fd] = seconds /\ \A f \in Fd \ {fd} : left'[f] = left[f]
         /\ fd \in blind' <=> clock = "unset"
         /\ \A f \in Fd \ {fd} : f \in blind' <=> f \in blind
<1>1. seconds \in Overdue .. LongestTimeout
  BY TimeoutFacts DEF Overdue
<1>2. QED BY <1>1 DEF DataOK, SetTimeout

LEMMA ConnTypes ==
  ASSUME DataOK
  PROVE  /\ sock \in [Fd -> Conns \cup {Nobody, Listener}]
         /\ peer \in [Conns -> {"none", "open", "fin", "reset", "broken", "gone"}]
         /\ inbox \in [Conns -> {"text", "quit", "none"}]
         /\ room \in [Conns -> BOOLEAN]
BY EchoAssumption DEF DataOK, TcpTypeOK

\* A connection whose handler has read or written sets the next handler of it.
LEMMA ServedAgain ==
  ASSUME Served, NEW fd \in ConnFd, NEW F \in Entry, NEW k \in Watched,
         sock[fd] \in Conns, DataOK', Agrees(comm'),
         comm'.table = [comm.table EXCEPT ![fd] = F],
         comm'.kernel = [comm.kernel EXCEPT ![fd] = k],
         EntryRight(F, k, sock[fd], sock[fd] \in reply'),
         reply' \ {sock[fd]} = reply \ {sock[fd]},
         UNCHANGED <<sock, backlog, peer, heap>>,
         F.timeout > 0, left'[fd] = F.timeout, fd \in blind' <=> clock = "unset",
         \A f \in Fd \ {fd} : left'[f] = left[f] /\ (f \in blind' <=> f \in blind)
  PROVE  Served' /\ Handled(fd)
<1>1. Served'
  BY ServeStep
<1>2. comm.table \in [Fd -> Entry] /\ comm.kernel \in [Fd -> Watched] /\ fd \in Fd
  BY FdFacts DEF Served, Agrees, CommRecord
<1>3. OnlyFd(fd) /\ TimerSet(fd)
  BY <1>2 DEF OnlyFd, TimerSet
<1>4. StillHung
  BY DEF StillHung, Hung
<1>5. QED BY <1>1, <1>3, <1>4 DEF Handled

\* A call that fails leaves all as it was.
LEMMA CallFailsFacts ==
  ASSUME Served, NEW fd \in ConnFd, sock[fd] \in Conns, CallFails(sock[fd])
  PROVE  Served' /\ Handled(fd)
<1>1. peer' = [peer EXCEPT ![sock[fd]] = IF @ = "reset" THEN "broken" ELSE @]
      /\ UNCHANGED <<sock, backlog, inbox, room, sends, comm, heap, reply, left, blind>>
  BY DEF CallFails, callFails, timers
<1>2. peer \in [Conns -> {"none", "open", "fin", "reset", "broken", "gone"}]
  BY ConnTypes DEF Served
<1>3. DataOK'
  BY <1>1, <1>2 DEF Served, DataOK, TcpTypeOK
<1>4. \A c \in Conns : (Connected(c)' <=> Connected(c)) /\ (Hung(c)' <=> Hung(c))
  BY <1>1, <1>2 DEF Connected, Hung
<1>5. \A c : IsOpen(c)' <=> IsOpen(c)
  BY <1>1 DEF IsOpen
<1>6. PlacedOnce' /\ StatsOfOpen'
  <2>1. Range(backlog) \subseteq Conns
    BY DEF Served, DataOK, TcpTypeOK, Range
  <2>2. QED BY <1>1, <1>4, <1>5, <2>1 DEF Served, PlacedOnce, StatsOfOpen, DataOK
<1>7. Agrees(comm)' /\ ConnEntries' /\ OtherEntries' /\ OneFdEach'
  BY <1>1 DEF Served, Agrees, ConnEntries, OtherEntries, OneFdEach
<1>8. OnlyFd(fd) /\ TimerSet(fd) /\ StillHung
  BY <1>1, <1>4 DEF OnlyFd, TimerSet, StillHung
<1>9. QED BY <1>1, <1>3, <1>6, <1>7, <1>8 DEF Served, Handled

\* A write done: the next thing is to read.
LEMMA Written ==
  ASSUME Served, NEW fd \in ConnFd, sock[fd] \in Conns, comm.table[fd].wh # NoHandler,
         writeAll(sock[fd]), reply' = reply \ {sock[fd]}, UNCHANGED heap,
         SetTimeout(commUpdateReadHandler(comm, fd, "echo", sock[fd]),
                    fd, EchoTimeout, sock[fd])
  PROVE  Served' /\ Handled(fd)
<1> DEFINE c == sock[fd]
           F == [comm.table[fd] EXCEPT !.rh = "echo", !.rd = c, !.th = "timeout",
                                       !.td = c, !.timeout = EchoTimeout]
           d == commSetTimeout(commUpdateReadHandler(comm, fd, "echo", c),
                               fd, EchoTimeout, "timeout", c)
<1>1. fd \in Fd /\ EchoTimeout \in 1 .. LongestTimeout /\ c # Nobody /\ {"IN"} \in Watched
  BY FdFacts, TimeoutFacts DEF Watched
<1>2. EntryRight(comm.table[fd], comm.kernel[fd], c, c \in reply) /\ Agrees(comm) /\ DataOK
  BY DEF Served, ConnEntries
<1>3. /\ comm' = d /\ UNCHANGED <<sock, backlog, peer, inbox, sends, heap>>
      /\ \E more \in BOOLEAN : room' = [room EXCEPT ![c] = more]
  BY DEF SetTimeout, writeAll
<1>4. /\ Agrees(d) /\ F \in Entry /\ d.table = [comm.table EXCEPT ![fd] = F]
      /\ d.kernel = [comm.kernel EXCEPT ![fd] = {"IN"}]
  <2>1. \A stat \in Conns, seconds \in 1 .. LongestTimeout :
          LET e == commSetTimeout(commUpdateReadHandler(comm, fd, "echo", stat),
                                  fd, seconds, "timeout", stat)
              G == [comm.table[fd] EXCEPT !.rh = "echo", !.rd = stat, !.th = "timeout",
                                          !.td = stat, !.timeout = seconds]
          IN  /\ Agrees(e) /\ G \in Entry /\ e.table = [comm.table EXCEPT ![fd] = G]
              /\ e.kernel = [comm.kernel EXCEPT ![fd] = {"IN"}]
    BY <1>1, <1>2, ServeRead
  <2>2. QED BY <1>1, <2>1
<1>5. /\ left' \in [Fd -> Overdue .. LongestTimeout] /\ blind' \subseteq Fd
      /\ left'[fd] = EchoTimeout /\ (fd \in blind' <=> clock = "unset")
      /\ \A f \in Fd \ {fd} : left'[f] = left[f] /\ (f \in blind' <=> f \in blind)
  BY <1>1, <1>2, TimerTypes
<1>6. DataOK'
  BY <1>2, <1>3, <1>5, ConnTypes DEF DataOK, TcpTypeOK
<1>7. comm.table[fd] \in Entry
  BY <1>1, <1>2 DEF Agrees, CommRecord
<1>8. F.timeout = EchoTimeout /\ F.timeout > 0
  BY <1>1, <1>7 DEF Entry
<1>9. EntryRight(F, {"IN"}, c, c \in reply')
  BY <1>1, <1>2, <1>7, <1>8, TimeoutFacts DEF EntryRight, Entry, NoHandler, NoTimeout
<1> HIDE DEF F, d
<1>10. /\ Agrees(comm') /\ comm'.table = [comm.table EXCEPT ![fd] = F]
       /\ comm'.kernel = [comm.kernel EXCEPT ![fd] = {"IN"}]
  BY <1>3, <1>4 DEF Agrees
<1>11. QED BY <1>1, <1>3, <1>4, <1>5, <1>6, <1>8, <1>9, <1>10, ServedAgain

\* A greeting, or an error, or a part of it.
LEMMA Welcome ==
  ASSUME Served, NEW fd \in ConnFd, sock[fd] \in Conns,
         comm.table[fd].wh = "welcome",
         do_welcome_handler(fd, comm.table[fd].wd)
  PROVE  Served' /\ Handled(fd)
<1> DEFINE c == sock[fd]
<1>1. EntryRight(comm.table[fd], comm.kernel[fd], c, c \in reply) /\ DataOK /\ c # Nobody
  BY FdFacts DEF Served, ConnEntries
<1>2. comm.table[fd].wd = c /\ c \notin reply
  BY <1>1 DEF EntryRight
<1>3. CASE CallFails(c)
  BY <1>3, CallFailsFacts
<1>4. CASE writeShort(c) /\ UNCHANGED <<comm, heap, reply, timers>>
  <2>1. UNCHANGED <<sock, backlog, peer, inbox, sends, comm, heap, reply, left, blind>>
        /\ room' = [room EXCEPT ![c] = FALSE]
    BY <1>4 DEF writeShort, timers
  <2>2. DataOK'
    BY <1>1, <2>1, ConnTypes DEF DataOK, TcpTypeOK
  <2>3. Served'
    BY <2>1, <2>2 DEF Served, Agrees, ConnEntries, OtherEntries, OneFdEach, StatsOfOpen,
                      PlacedOnce, IsOpen, Connected
  <2>4. QED BY <2>1, <2>3 DEF Handled, OnlyFd, TimerSet, StillHung, Hung
<1>5. CASE /\ writeAll(c) /\ UNCHANGED <<heap, reply>>
           /\ SetTimeout(commUpdateReadHandler(comm, fd, "echo", c), fd, EchoTimeout, c)
  <2>1. reply' = reply \ {c} /\ comm.table[fd].wh # NoHandler
    BY <1>2, <1>5 DEF NoHandler
  <2>2. QED BY <1>5, <2>1, Written
<1>6. QED BY <1>2, <1>3, <1>4, <1>5 DEF do_welcome_handler

\* A reply written, or an error.
LEMMA Response ==
  ASSUME Served, NEW fd \in ConnFd, sock[fd] \in Conns,
         comm.table[fd].wh = "response",
         do_echo_response(fd, comm.table[fd].wd)
  PROVE  Served' /\ Handled(fd)
<1>1. comm.table[fd].wd = sock[fd] /\ comm.table[fd].wh # NoHandler
  BY FdFacts DEF Served, ConnEntries, EntryRight, NoHandler
<1>2. QED BY <1>1, CallFailsFacts, Written DEF do_echo_response

\* The end of a connection.
LEMMA CloseStep ==
  ASSUME Served, NEW fd \in ConnFd, sock[fd] \in Conns, CloseAndFree(fd, sock[fd])
  PROVE  Served' /\ Handled(fd)
<1>0. PICK c \in Conns : c = sock[fd]
  OBVIOUS
<1>1. /\ comm' = comm_close(comm, fd) /\ heap' = heap \ {c} /\ reply' = reply \ {c}
      /\ sock' = [sock EXCEPT ![fd] = Nobody] /\ peer' = [peer EXCEPT ![c] = "gone"]
      /\ inbox' = [inbox EXCEPT ![c] = "none"] /\ room' = [room EXCEPT ![c] = TRUE]
      /\ left' = [left EXCEPT ![fd] = 0] /\ blind' = blind \ {fd}
      /\ UNCHANGED <<backlog, sends>>
  BY <1>0 DEF CloseAndFree, Forget, close
<1>2. fd \in Fd /\ ConnFd \subseteq Fd /\ fd # ListenFd /\ c # Nobody
      /\ Agrees(comm) /\ DataOK
  BY <1>0, FdFacts DEF Served
<1>3. /\ Agrees(comm') /\ comm'.table = [comm.table EXCEPT ![fd] = NoFde]
      /\ comm'.kernel = [comm.kernel EXCEPT ![fd] = {}]
  <2> DEFINE d == comm_close(comm, fd)
  <2>1. /\ Agrees(d) /\ d.table = [comm.table EXCEPT ![fd] = NoFde]
        /\ d.kernel = [comm.kernel EXCEPT ![fd] = {}]
    BY <1>2, CloseFacts
  <2> HIDE DEF d
  <2>2. comm' = d
    BY <1>1 DEF d
  <2>3. QED BY <2>1, <2>2 DEF Agrees
<1>4. comm.table \in [Fd -> Entry] /\ comm.kernel \in [Fd -> Watched]
  BY <1>2 DEF Agrees, CommRecord
<1>5. DataOK'
  <2>1. 0 \in Overdue .. LongestTimeout
    BY TimeoutFacts DEF Overdue
  <2>2. QED BY <1>1, <1>2, <2>1, ConnTypes DEF DataOK, TcpTypeOK
<1>6. sock \in [Fd -> Conns \cup {Nobody, Listener}]
  BY <1>2, ConnTypes
<1>7. /\ comm'.table[fd] = NoFde /\ comm'.kernel[fd] = {} /\ sock'[fd] = Nobody
      /\ left'[fd] = 0
      /\ \A f \in Fd \ {fd} :
           /\ comm'.table[f] = comm.table[f] /\ comm'.kernel[f] = comm.kernel[f]
           /\ sock'[f] = sock[f] /\ left'[f] = left[f] /\ (f \in blind' <=> f \in blind)
  BY <1>1, <1>2, <1>3, <1>4, <1>6 DEF DataOK
<1>8. \A f \in ConnFd \ {fd} : sock[f] # c
  BY <1>0, <1>2 DEF Served, OneFdEach
<1>9. ConnEntries'
  <2> SUFFICES ASSUME NEW f \in ConnFd
               PROVE  EntryRight(comm'.table[f], comm'.kernel[f], sock'[f], sock'[f] \in reply')
    BY DEF ConnEntries
  <2>1. CASE f = fd
    BY <1>7, <2>1 DEF EntryRight
  <2>2. CASE f # fd
    <3>1. EntryRight(comm.table[f], comm.kernel[f], sock[f], sock[f] \in reply)
      BY DEF Served, ConnEntries
    <3>2. sock[f] \in reply' <=> sock[f] \in reply
      BY <1>1, <1>8, <2>2
    <3>3. QED BY <1>2, <1>7, <2>2, <3>1, <3>2 DEF EntryRight
  <2>3. QED BY <2>1, <2>2
<1>10. OtherEntries'
  BY <1>2, <1>7 DEF Served, OtherEntries
<1>11. OneFdEach'
  BY <1>2, <1>7 DEF Served, OneFdEach
<1>12. ~IsOpen(c)' /\ \A s \in Conns \ {c} : IsOpen(s)' <=> IsOpen(s)
  <2>1. \A f \in ConnFd : sock'[f] # c
    BY <1>2, <1>7, <1>8
  <2>2. \A s \in Conns \ {c} : (\E f \in ConnFd : sock'[f] = s) <=> (\E f \in ConnFd : sock[f] = s)
    BY <1>0, <1>2, <1>7, FdFacts
  <2>3. QED BY <2>1, <2>2 DEF IsOpen
<1>13. StatsOfOpen'
  <2>1. heap' \cap Conns = {s \in Conns : IsOpen(s)'}
    BY <1>1, <1>12 DEF Served, StatsOfOpen
  <2>2. \A s \in reply' : IsOpen(s)'
    BY <1>1, <1>2, <1>12 DEF Served, StatsOfOpen, DataOK
  <2>3. QED BY <2>1, <2>2 DEF StatsOfOpen
<1>14. PlacedOnce'
  <2>1. Range(backlog) \subseteq Conns /\ IsOpen(c)
    BY <1>0, <1>2 DEF DataOK, TcpTypeOK, Range, IsOpen
  <2>2. c \notin Range(backlog)
    BY <2>1 DEF Served, PlacedOnce
  <2>3. ~Connected(c)' /\ \A s \in Conns \ {c} : Connected(s)' <=> Connected(s)
    BY <1>1, <1>2, ConnTypes DEF Connected
  <2>4. QED BY <1>1, <1>12, <2>1, <2>2, <2>3 DEF Served, PlacedOnce
<1>15. OnlyFd(fd) /\ TimerSet(fd)
  BY <1>7, NoFdeFacts DEF OnlyFd, TimerSet
<1>16. StillHung
  <2>1. \A s \in Conns : (\E f \in Fd : sock'[f] = s) => s # c
    <3>1. \A f \in Fd : sock[f] = c => f \in ConnFd
      BY WhichFd
    <3>2. QED BY <1>2, <1>7, <1>8, <3>1, FdFacts
  <2>2. \A s \in Conns \ {c} : Hung(s)' <=> Hung(s)
    BY <1>1, <1>2, ConnTypes DEF Hung
  <2>3. QED BY <2>1, <2>2 DEF StillHung
<1>17. QED BY <1>1, <1>3, <1>5, <1>7, <1>9, <1>10, <1>11, <1>13, <1>14, <1>15, <1>16
        DEF Served, Handled

\* A message read, or an end, or an error.
LEMMA Echo ==
  ASSUME Served, NEW fd \in ConnFd, sock[fd] \in Conns,
         comm.table[fd].rh = "echo",
         do_echo_handler(fd, comm.table[fd].rd)
  PROVE  Served' /\ Handled(fd)
<1> DEFINE c == sock[fd]
           F == [comm.table[fd] EXCEPT !.wh = "response", !.wd = c, !.th = "timeout",
                                       !.td = c, !.timeout = EchoTimeout]
           d == commSetTimeout(commUpdateWriteHandler(comm, fd, "response", c),
                               fd, EchoTimeout, "timeout", c)
<1>1. fd \in Fd /\ EchoTimeout \in 1 .. LongestTimeout /\ c # Nobody /\ {"OUT"} \in Watched
  BY FdFacts, TimeoutFacts DEF Watched
<1>2. EntryRight(comm.table[fd], comm.kernel[fd], c, c \in reply) /\ Agrees(comm) /\ DataOK
  BY DEF Served, ConnEntries
<1>3. comm.table[fd].rd = c
  BY <1>1, <1>2 DEF EntryRight, NoHandler
<1>4. CASE CallFails(c)
  BY <1>4, CallFailsFacts
<1>5. CASE CloseAndFree(fd, c)
  BY <1>5, CloseStep
<1>6. CASE /\ readData(c) /\ reply' = reply \cup {c} /\ UNCHANGED heap
           /\ SetTimeout(commUpdateWriteHandler(comm, fd, "response", c), fd, EchoTimeout, c)
  <2>1. /\ comm' = d /\ UNCHANGED <<sock, backlog, peer, room, sends, heap>>
        /\ inbox' = [inbox EXCEPT ![c] = "none"] /\ reply' = reply \cup {c}
    BY <1>6 DEF SetTimeout, readData
  <2>2. /\ Agrees(d) /\ F \in Entry /\ d.table = [comm.table EXCEPT ![fd] = F]
        /\ d.kernel = [comm.kernel EXCEPT ![fd] = {"OUT"}]
    <3>1. \A stat \in Conns, handler \in {"welcome", "response"}, seconds \in 1 .. LongestTimeout :
            LET e == commSetTimeout(commUpdateWriteHandler(comm, fd, handler, stat),
                                    fd, seconds, "timeout", stat)
                G == [comm.table[fd] EXCEPT !.wh = handler, !.wd = stat, !.th = "timeout",
                                            !.td = stat, !.timeout = seconds]
            IN  /\ Agrees(e) /\ G \in Entry /\ e.table = [comm.table EXCEPT ![fd] = G]
                /\ e.kernel = [comm.kernel EXCEPT ![fd] = {"OUT"}]
      BY <1>1, <1>2, ServeWrite
    <3>2. QED BY <1>1, <3>1
  <2>3. /\ left' \in [Fd -> Overdue .. LongestTimeout] /\ blind' \subseteq Fd
        /\ left'[fd] = EchoTimeout /\ (fd \in blind' <=> clock = "unset")
        /\ \A f \in Fd \ {fd} : left'[f] = left[f] /\ (f \in blind' <=> f \in blind)
    BY <1>1, <1>2, <1>6, TimerTypes
  <2>4. DataOK'
    BY <1>2, <2>1, <2>3, ConnTypes DEF DataOK, TcpTypeOK
  <2>5. comm.table[fd] \in Entry
    BY <1>1, <1>2 DEF Agrees, CommRecord
  <2>6. F.timeout = EchoTimeout /\ F.timeout > 0
    BY <1>1, <2>5 DEF Entry
  <2>7. EntryRight(F, {"OUT"}, c, c \in reply')
    BY <1>1, <1>2, <2>5, <2>6, TimeoutFacts DEF EntryRight, Entry, NoHandler, NoTimeout
  <2> HIDE DEF F, d
  <2>8. /\ Agrees(comm') /\ comm'.table = [comm.table EXCEPT ![fd] = F]
        /\ comm'.kernel = [comm.kernel EXCEPT ![fd] = {"OUT"}]
    BY <2>1, <2>2 DEF Agrees
  <2>9. reply' \ {c} = reply \ {c}
    BY <2>1
  <2>10. QED BY <1>1, <2>1, <2>2, <2>3, <2>4, <2>6, <2>7, <2>8, <2>9, ServedAgain
<1>7. QED BY <1>3, <1>4, <1>5, <1>6 DEF do_echo_handler

\* The first of a sequence and the rest.
LEMMA HeadAndTail ==
  ASSUME NEW S, NEW q \in Seq(S), q # <<>>
  PROVE  /\ Head(q) \in S /\ Head(q) = q[1] /\ 1 \in DOMAIN q
         /\ Tail(q) \in Seq(S) /\ Len(Tail(q)) = Len(q) - 1
         /\ \A i \in DOMAIN Tail(q) : Tail(q)[i] = q[i + 1] /\ i + 1 \in DOMAIN q /\ i \in Nat
         /\ \A i \in DOMAIN q : i # 1 => i - 1 \in DOMAIN Tail(q) /\ Tail(q)[i - 1] = q[i]
<1>1. Len(q) \in Nat /\ Len(q) > 0 /\ DOMAIN q = 1 .. Len(q)
  BY EmptySeq, LenProperties
<1>2. /\ Head(q) \in S /\ Head(q) = q[1]
      /\ Tail(q) \in Seq(S) /\ Len(Tail(q)) = Len(q) - 1
      /\ \A i \in 1 .. Len(Tail(q)) : Tail(q)[i] = q[i + 1]
  BY HeadTailProperties
<1>3. DOMAIN Tail(q) = 1 .. Len(q) - 1
  BY <1>1, <1>2, LenProperties
<1>4. QED BY <1>1, <1>2, <1>3

\* A connection accepted.
Accepted == \E fd \in ConnFd :
  /\ sock[fd] = Nobody /\ sock'[fd] \in Conns
  /\ OnlyFd(fd) /\ TimerSet(fd) /\ StillHung

LEMMA Accept ==
  ASSUME Served, backlog # <<>>, NEW lfd, NEW data, accept_connection(lfd, data)
  PROVE  Served' /\ (UNCHANGED <<comm, tcp, heap, reply, timers>> \/ Accepted)
<1>1. CASE FreeFd = {}
  <2>1. UNCHANGED <<comm, sock, backlog, peer, inbox, room, sends, heap, reply, left, blind>>
        /\ UNCHANGED <<comm, tcp, heap, reply, timers>>
    BY <1>1 DEF accept_connection, tcp, timers
  <2>2. Served'
    BY <2>1 DEF Served, Agrees, DataOK, TcpTypeOK, ConnEntries, OtherEntries, OneFdEach,
                StatsOfOpen, PlacedOnce, IsOpen, Connected
  <2>3. QED BY <2>1, <2>2
<1>2. CASE FreeFd # {}
  <2>1. PICK fd \in ConnFd : fd = Min(FreeFd) /\ sock[fd] = Nobody
    <3>1. FreeFd \in SUBSET Nat
      BY FdFacts DEF FreeFd
    <3>2. Min(FreeFd) \in FreeFd
      BY <1>2, <3>1, MinFacts
    <3>3. QED BY <3>2 DEF FreeFd
  <2>2. PICK c \in Conns : c = Head(backlog)
    BY HeadAndTail DEF Served, DataOK, TcpTypeOK
  <2> DEFINE F == [comm.table[fd] EXCEPT !.wh = "welcome", !.wd = c, !.th = "timeout",
                                         !.td = c, !.timeout = GreetTimeout]
             d == commSetTimeout(commUpdateWriteHandler(comm, fd, "welcome", c),
                                 fd, GreetTimeout, "timeout", c)
  <2>3. /\ comm' = d /\ sock' = [sock EXCEPT ![fd] = c] /\ backlog' = Tail(backlog)
        /\ heap' = heap \cup {c} /\ UNCHANGED <<peer, inbox, room, sends, reply>>
        /\ SetTimeout(commUpdateWriteHandler(comm, fd, "welcome", c), fd, GreetTimeout, c)
    BY <1>2, <2>1, <2>2 DEF accept_connection, accept, SetTimeout, Returned
  <2>4. /\ fd \in Fd /\ GreetTimeout \in 1 .. LongestTimeout /\ c # Nobody /\ {"OUT"} \in Watched
        /\ ConnFd \subseteq Fd /\ fd # ListenFd /\ Agrees(comm) /\ DataOK
    BY FdFacts, TimeoutFacts DEF Watched, Served
  <2>5. /\ Agrees(d) /\ F \in Entry /\ d.table = [comm.table EXCEPT ![fd] = F]
        /\ d.kernel = [comm.kernel EXCEPT ![fd] = {"OUT"}]
    <3>1. \A stat \in Conns, handler \in {"welcome", "response"}, seconds \in 1 .. LongestTimeout :
            LET e == commSetTimeout(commUpdateWriteHandler(comm, fd, handler, stat),
                                    fd, seconds, "timeout", stat)
                G == [comm.table[fd] EXCEPT !.wh = handler, !.wd = stat, !.th = "timeout",
                                            !.td = stat, !.timeout = seconds]
            IN  /\ Agrees(e) /\ G \in Entry /\ e.table = [comm.table EXCEPT ![fd] = G]
                /\ e.kernel = [comm.kernel EXCEPT ![fd] = {"OUT"}]
      BY <2>4, ServeWrite
    <3>2. QED BY <2>4, <3>1
  <2>6. /\ left' \in [Fd -> Overdue .. LongestTimeout] /\ blind' \subseteq Fd
        /\ left'[fd] = GreetTimeout /\ (fd \in blind' <=> clock = "unset")
        /\ \A f \in Fd \ {fd} : left'[f] = left[f] /\ (f \in blind' <=> f \in blind)
    BY <2>3, <2>4, TimerTypes
  <2>7. backlog' \in Seq(Conns) /\ backlog \in Seq(Conns)
    BY <2>3, <2>4, HeadAndTail DEF DataOK, TcpTypeOK
  <2>8. DataOK'
    BY <2>3, <2>4, <2>6, <2>7, ConnTypes DEF DataOK, TcpTypeOK
  <2>9. comm.table[fd] \in Entry /\ comm.table[fd] = NoFde
    BY <2>1, <2>4 DEF Agrees, CommRecord, Served, ConnEntries, EntryRight
  <2>10. /\ Connected(c) /\ ~IsOpen(c) /\ c \notin reply
    <3>1. c = backlog[1] /\ 1 \in DOMAIN backlog
      BY <2>2, <2>7, HeadAndTail
    <3>2. c \in Range(backlog)
      BY <3>1 DEF Range
    <3>3. QED BY <3>2 DEF Served, PlacedOnce, StatsOfOpen
  <2>11. F.timeout = GreetTimeout /\ F.timeout > 0
    BY <2>4, <2>9 DEF Entry
  <2>12. EntryRight(F, {"OUT"}, c, c \in reply')
    <3>1. comm.table[fd] \in Entry /\ comm.table[fd].rh = NoHandler
      BY <2>9, NoFdeFacts
    <3>2. F.rh = NoHandler /\ F.wh = "welcome" /\ F.wd = c /\ F.th = "timeout" /\ F.td = c
          /\ F.timeout = GreetTimeout
      BY <3>1 DEF Entry
    <3> HIDE DEF F
    <3>3. QED BY SMTT(20), <2>3, <2>4, <2>10, <3>2, TimeoutFacts DEF EntryRight, NoHandler, NoTimeout
  <2> HIDE DEF F, d
  <2>13. /\ Agrees(comm') /\ comm'.table = [comm.table EXCEPT ![fd] = F]
         /\ comm'.kernel = [comm.kernel EXCEPT ![fd] = {"OUT"}]
    BY <2>3, <2>5 DEF Agrees
  <2>14. comm.table \in [Fd -> Entry] /\ comm.kernel \in [Fd -> Watched]
         /\ sock \in [Fd -> Conns \cup {Nobody, Listener}]
    BY <2>4, ConnTypes DEF Agrees, CommRecord
  <2>15. /\ comm'.table[fd] = F /\ comm'.kernel[fd] = {"OUT"} /\ sock'[fd] = c
         /\ \A f \in Fd \ {fd} :
              /\ comm'.table[f] = comm.table[f] /\ comm'.kernel[f] = comm.kernel[f]
              /\ sock'[f] = sock[f]
    BY <2>3, <2>4, <2>13, <2>14
  <2>16. \A f \in ConnFd : sock[f] # c
    BY <2>10 DEF IsOpen
  <2>17. ConnEntries'
    <3> SUFFICES ASSUME NEW f \in ConnFd
                 PROVE  EntryRight(comm'.table[f], comm'.kernel[f], sock'[f], sock'[f] \in reply')
      BY DEF ConnEntries
    <3>1. CASE f = fd
      BY <2>12, <2>15, <3>1
    <3>2. CASE f # fd
      <4>1. EntryRight(comm.table[f], comm.kernel[f], sock[f], sock[f] \in reply)
        BY DEF Served, ConnEntries
      <4>2. QED BY <2>3, <2>4, <2>15, <3>2, <4>1
    <3>3. QED BY <3>1, <3>2
  <2>18. OtherEntries'
    BY <2>4, <2>15 DEF Served, OtherEntries
  <2>19. OneFdEach'
    BY <2>4, <2>15, <2>16 DEF Served, OneFdEach
  <2>20. \A s \in Conns : (\E f \in ConnFd : sock'[f] = s) <=> s = c \/ (\E f \in ConnFd : sock[f] = s)
    BY <2>1, <2>4, <2>15, FdFacts
  <2>21. StatsOfOpen'
    <3>1. \A s \in Conns : IsOpen(s)' <=> s = c \/ IsOpen(s)
      BY <2>20 DEF IsOpen
    <3>2. heap' \cap Conns = {s \in Conns : IsOpen(s)'}
      BY <2>3, <3>1 DEF Served, StatsOfOpen
    <3>3. \A s \in reply' : IsOpen(s)'
      BY <2>3, <2>4, <3>1 DEF Served, StatsOfOpen, DataOK
    <3>4. QED BY <3>2, <3>3 DEF StatsOfOpen
  <2>22. PlacedOnce'
    <3> DEFINE q == backlog
               t == Tail(backlog)
    <3>1. /\ q[1] = c /\ 1 \in DOMAIN q /\ t \in Seq(Conns)
          /\ \A i \in DOMAIN t : t[i] = q[i + 1] /\ i + 1 \in DOMAIN q /\ i \in Nat
          /\ \A i \in DOMAIN q : i # 1 => i - 1 \in DOMAIN t /\ t[i - 1] = q[i]
      BY <2>2, <2>7, HeadAndTail
    <3>2. /\ \A s \in Conns : Connected(s) <=> s \in Range(q) \/ IsOpen(s)
          /\ \A s \in Range(q) : ~IsOpen(s)
          /\ \A i, j \in DOMAIN q : q[i] = q[j] => i = j
      BY DEF Served, PlacedOnce
    <3> HIDE DEF q, t
    <3>3. \A i, j \in DOMAIN t : t[i] = t[j] => i = j
      BY <3>1, <3>2
    <3>4. \A s : s \in Range(t) <=> s \in Range(q) /\ s # c
      <4>1. ASSUME NEW i \in DOMAIN t
            PROVE  t[i] \in Range(q) /\ t[i] # c
        <5>1. i + 1 # 1 /\ t[i] = q[i + 1] /\ i + 1 \in DOMAIN q
          BY <3>1
        <5>2. QED BY <3>1, <3>2, <5>1 DEF Range
      <4>2. ASSUME NEW i \in DOMAIN q, q[i] # c
            PROVE  q[i] \in Range(t)
        BY <3>1, <4>2 DEF Range
      <4>3. QED BY <4>1, <4>2 DEF Range
    <3>5. backlog' = t
      BY <2>3 DEF t
    <3>6. \A s \in Conns : Connected(s)' <=> Connected(s)
      BY <2>3 DEF Connected
    <3>7. \A s \in Conns : IsOpen(s)' <=> s = c \/ IsOpen(s)
      BY <2>20 DEF IsOpen
    <3>8. c \in Range(q) /\ Range(q) \subseteq Conns
      <4>1. q \in Seq(Conns)
        BY <2>7 DEF q
      <4>2. QED BY <3>1, <4>1 DEF Range
    <3>9. \A s \in Conns : Connected(s)' <=> s \in Range(t) \/ IsOpen(s)'
      BY <3>2, <3>4, <3>6, <3>7, <3>8
    <3>10. \A s \in Range(t) : ~IsOpen(s)'
      BY <3>2, <3>4, <3>7, <3>8
    <3>11. QED BY <3>3, <3>5, <3>9, <3>10 DEF PlacedOnce
  <2>23. OnlyFd(fd) /\ TimerSet(fd) /\ StillHung
    BY <2>3, <2>6, <2>11, <2>15 DEF OnlyFd, TimerSet, StillHung, Hung
  <2>24. QED BY <2>1, <2>3, <2>8, <2>13, <2>15, <2>17, <2>18, <2>19, <2>21, <2>22, <2>23
         DEF Served, Accepted
<1>3. QED BY <1>1, <1>2

-------------------------------------------------------------------------------
(* The steps.                                                              *)

Alive == /\ pc # "killed" /\ Served /\ LoopOK /\ BatchSound /\ TimersKept

LEMMA TimerFacts ==
  ASSUME Served, NEW fd \in ConnFd
  PROVE  /\ comm.table[fd].timeout \in NoTimeout .. LongestTimeout
         /\ left[fd] \in Overdue .. LongestTimeout
         /\ LongestTimeout \in Nat /\ NoTimeout = -1 /\ Overdue = -3
         /\ fd \in Fd /\ fd \in Nat
<1>1. fd \in Fd /\ fd \in Nat
  BY FdFacts
<1>2. comm.table[fd] \in Entry /\ left \in [Fd -> Overdue .. LongestTimeout]
  BY <1>1 DEF Served, Agrees, CommRecord, DataOK
<1>3. QED BY <1>1, <1>2, TimeoutFacts DEF Entry, NoTimeout, Overdue

\* The timers after a handler.
LEMMA TimersAfter ==
  ASSUME Served, Served', LoopOK, TimersKept, NEW g \in Fd, OnlyFd(g), TimerSet(g),
         pc \in {"dispatch", "write"}, pc' \in {"dispatch", "write"},
         UNCHANGED <<since, lag, clock>>
  PROVE  TimersKept'
<1>1. ASSUME NEW fd \in ConnFd
      PROVE  LET timeout == comm'.table[fd].timeout
             IN  /\ timeout > 0 /\ clock' = "set" =>
                      fd \notin blind' /\ left'[fd] - (timeout - lag') \in {0, 1}
                 /\ timeout > 0 /\ clock' = "unset" =>
                      fd \in blind' /\ left'[fd] = timeout /\ pc' \in {"dispatch", "write"}
                 /\ timeout = 0 =>
                      /\ clock' = "set" /\ left'[fd] >= -1
                      /\ fd \notin blind' => left'[fd] <= 1
                      /\ pc' = "scan" => scan' <= fd
                      /\ pc' = "select" => since' = 2 \/ (since' = 1 /\ left'[fd] >= 0)
                      /\ pc' \notin {"select", "scan"} => since' = 1 /\ left'[fd] >= -lag'
  <2> DEFINE old == comm.table[fd].timeout
             new == comm'.table[fd].timeout
  <2>1. /\ old \in NoTimeout .. LongestTimeout /\ new \in NoTimeout .. LongestTimeout
        /\ left[fd] \in Overdue .. LongestTimeout /\ left'[fd] \in Overdue .. LongestTimeout
        /\ LongestTimeout \in Nat /\ NoTimeout = -1 /\ Overdue = -3 /\ fd \in Fd
        /\ lag \in 0 .. 1
    <3>1. (comm.table[fd].timeout \in NoTimeout .. LongestTimeout
           /\ left[fd] \in Overdue .. LongestTimeout)'
      <4>1. fd \in Fd
        BY FdFacts
      <4>2. comm'.table[fd] \in Entry /\ left' \in [Fd -> Overdue .. LongestTimeout]
        BY <4>1 DEF Served, Agrees, CommRecord, DataOK
      <4>3. QED BY <4>1, <4>2 DEF Entry
    <3>2. QED BY <3>1, TimerFacts DEF LoopOK
  <2>2. /\ old > 0 /\ clock = "set" => fd \notin blind /\ left[fd] - (old - lag) \in {0, 1}
        /\ old > 0 /\ clock = "unset" => fd \in blind /\ left[fd] = old
        /\ old = 0 => /\ clock = "set" /\ left[fd] >= -1
                      /\ fd \notin blind => left[fd] <= 1
                      /\ since = 1 /\ left[fd] >= -lag
    BY DEF TimersKept
  <2>3. \/ new = NoTimeout
        \/ new = old /\ left'[fd] = left[fd] /\ (fd \in blind' <=> fd \in blind)
        \/ new > 0 /\ left'[fd] = new /\ (fd \in blind' <=> clock = "unset")
    BY <2>1 DEF OnlyFd, TimerSet
  <2>4. clock \in {"unset", "set"}
    BY DEF LoopOK
  <2> HIDE DEF old, new
  <2>5. /\ new > 0 /\ clock = "set" => fd \notin blind' /\ left'[fd] - (new - lag) \in {0, 1}
        /\ new > 0 /\ clock = "unset" => fd \in blind' /\ left'[fd] = new
        /\ new = 0 => /\ clock = "set" /\ left'[fd] >= -1
                      /\ fd \notin blind' => left'[fd] <= 1
                      /\ since = 1 /\ left'[fd] >= -lag
    <3>1. CASE new = NoTimeout
      BY <2>1, <3>1
    <3>2. CASE new = old /\ left'[fd] = left[fd] /\ (fd \in blind' <=> fd \in blind)
      BY <2>2, <3>2
    <3>3. CASE new > 0 /\ left'[fd] = new /\ (fd \in blind' <=> clock = "unset")
      BY <2>1, <2>4, <3>3
    <3>4. QED BY <2>3, <3>1, <3>2, <3>3
  <2>6. QED BY <2>5 DEF new
<1>2. QED BY <1>1 DEF TimersKept

\* Nothing but the loop's place changes.
LEMMA ServedUnchanged ==
  Served /\ UNCHANGED <<comm, tcp, heap, reply, timers>> => Served'
BY DEF Served, Agrees, DataOK, TcpTypeOK, ConnEntries, OtherEntries, OneFdEach,
       StatsOfOpen, PlacedOnce, IsOpen, Connected, tcp, timers

LEMMA TimersUnchanged ==
  ASSUME TimersKept, LoopOK, UNCHANGED <<comm, timers, since, lag, clock>>,
         pc \in {"dispatch", "write"}, pc' \in {"dispatch", "write"}
  PROVE  TimersKept'
BY DEF TimersKept, timers

\* Which handler may run for the event at the head, and what comes of it.
LEMMA ReadHalf ==
  ASSUME Alive, CallRead
  PROVE  /\ Served'
         /\ \/ UNCHANGED <<comm, tcp, heap, reply, timers>>
            \/ Handled(Head(batch).fd) /\ Head(batch).ev # {"OUT"}
            \/ Accepted /\ Head(batch).fd = ListenFd
<1> DEFINE fd == Head(batch).fd
           F == comm.table[fd]
<1>1. Served /\ batch # <<>> /\ batch \in Seq(Event) /\ pc = "dispatch"
  BY DEF Alive, LoopOK, CallRead
<1>2. Head(batch) \in Event /\ Head(batch) = batch[1] /\ 1 \in DOMAIN batch
  BY <1>1, HeadAndTail
<1>3. fd \in Fd
  BY <1>2 DEF Event
<1>4. CASE ~CallsRead
  <2>1. UNCHANGED <<comm, tcp, heap, reply, timers>>
    BY <1>4 DEF CallRead
  <2>2. QED BY <1>1, <2>1, ServedUnchanged
<1>5. CASE CallsRead /\ F.rh = "accept" /\ accept_connection(fd, F.rd)
  <2>1. fd = ListenFd
    BY <1>1, <1>3, <1>5, WhichFd
  <2>2. backlog # <<>>
    BY <1>1, <1>2, <2>1 DEF Alive, BatchSound
  <2>3. QED BY <1>1, <1>5, <2>1, <2>2, Accept
<1>6. CASE CallsRead /\ F.rh = "echo" /\ do_echo_handler(fd, F.rd)
  <2>1. fd \in ConnFd /\ sock[fd] \in Conns
    BY <1>1, <1>3, <1>6, WhichFd
  <2>2. Head(batch).ev # {"OUT"}
    BY <1>6 DEF CallsRead
  <2>3. QED BY <1>1, <1>6, <2>1, <2>2, Echo
<1>7. QED BY <1>4, <1>5, <1>6 DEF CallRead

LEMMA WriteHalf ==
  ASSUME Alive, CallWrite
  PROVE  /\ Served'
         /\ UNCHANGED <<comm, tcp, heap, reply, timers>> \/ Handled(Head(batch).fd)
<1> DEFINE fd == Head(batch).fd
           F == comm.table[fd]
<1>1. Served /\ batch # <<>> /\ batch \in Seq(Event)
  BY DEF Alive, LoopOK, CallWrite, BatchSound
<1>2. Head(batch) \in Event
  BY <1>1, HeadAndTail
<1>3. fd \in Fd
  BY <1>2 DEF Event
<1>4. CASE ~CallsWrite
  <2>1. UNCHANGED <<comm, tcp, heap, reply, timers>>
    BY <1>4 DEF CallWrite
  <2>2. QED BY <1>1, <2>1, ServedUnchanged
<1>5. CASE F.wh = "welcome" /\ do_welcome_handler(fd, F.wd)
  <2>1. fd \in ConnFd /\ sock[fd] \in Conns
    BY <1>1, <1>3, <1>5, WhichFd DEF NoHandler
  <2>2. QED BY <1>1, <1>5, <2>1, Welcome
<1>6. CASE F.wh = "response" /\ do_echo_response(fd, F.wd)
  <2>1. fd \in ConnFd /\ sock[fd] \in Conns
    BY <1>1, <1>3, <1>6, WhichFd DEF NoHandler
  <2>2. QED BY <1>1, <1>6, <2>1, Response
<1>7. QED BY <1>4, <1>5, <1>6 DEF CallWrite

\* An event of BatchSound's.
EventSound(e, first, dispatched) ==
  LET s == sock[e.fd]
  IN  /\ s = e.conn \/ (s = Nobody /\ first /\ dispatched)
      /\ s # Nobody => /\ "HUP" \in e.ev => s \in Conns /\ Hung(s)
                       /\ e.ev = {"OUT"} => comm.kernel[e.fd] = {"OUT"}
      /\ ~first \/ ~dispatched =>
           /\ e.ev # {} /\ e.ev \subseteq comm.kernel[e.fd] \cup {"HUP"}
           /\ e.fd = ListenFd => backlog # <<>>

LEMMA BatchByEvents ==
  ASSUME pc \in {"dispatch", "write"}
  PROVE  BatchSound <=>
           /\ batch = <<>> => pc # "write"
           /\ \A i, j \in DOMAIN batch : batch[i].fd = batch[j].fd => i = j
           /\ \A i \in DOMAIN batch : EventSound(batch[i], i = 1, pc = "write")
BY DEF BatchSound, EventSound

LEMMA BatchByEventsNext ==
  ASSUME pc' \in {"dispatch", "write"}
  PROVE  BatchSound' <=>
           /\ batch' = <<>> => pc' # "write"
           /\ \A i, j \in DOMAIN batch' : batch'[i].fd = batch'[j].fd => i = j
           /\ \A i \in DOMAIN batch' : EventSound(batch[i], i = 1, pc = "write")'
BY DEF BatchSound, EventSound

LEMMA CallReadKeeps == Alive /\ CallRead => Alive'
<1> SUFFICES ASSUME Alive, CallRead
             PROVE  Alive'
  OBVIOUS
<1>1. /\ pc = "dispatch" /\ pc' = "write" /\ batch # <<>> /\ batch \in Seq(Event)
      /\ UNCHANGED <<scan, batch, since, lag, clock>>
      /\ Served /\ LoopOK /\ TimersKept
  BY DEF CallRead, Alive, LoopOK
<1> DEFINE g == Head(batch).fd
<1>2. /\ g = batch[1].fd /\ Head(batch) = batch[1] /\ 1 \in DOMAIN batch
      /\ \A i \in DOMAIN batch : batch[i] \in Event
  BY <1>1, HeadAndTail
<1>3. /\ \A i, j \in DOMAIN batch : batch[i].fd = batch[j].fd => i = j
      /\ \A i \in DOMAIN batch : EventSound(batch[i], i = 1, FALSE)
  BY <1>1, BatchByEvents DEF Alive
<1>4. g \in Fd /\ \A i \in DOMAIN batch : batch[i].fd \in Fd
                                          /\ batch[i].conn \in Conns \cup {Listener}
  BY <1>2 DEF Event
<1>5. Served'
  BY ReadHalf
<1>6. LoopOK'
  BY <1>1 DEF LoopOK
<1>7. ASSUME \A i \in DOMAIN batch : EventSound(batch[i], i = 1, pc = "write")'
      PROVE  BatchSound'
  BY <1>1, <1>3, <1>7, BatchByEventsNext
<1>8. CASE UNCHANGED <<comm, tcp, heap, reply, timers>>
  <2>1. UNCHANGED <<comm, sock, backlog, peer, timers>>
    BY <1>8 DEF tcp
  <2>2. BatchSound'
    BY <1>1, <1>3, <1>7, <2>1 DEF EventSound, Hung
  <2>3. TimersKept'
    BY <1>1, <2>1, TimersUnchanged
  <2>4. QED BY <1>1, <1>5, <1>6, <2>2, <2>3 DEF Alive
<1>9. CASE Handled(g) /\ Head(batch).ev # {"OUT"}
  <2>1. ASSUME NEW i \in DOMAIN batch
        PROVE  EventSound(batch[i], i = 1, pc = "write")'
    <3> DEFINE e == batch[i]
    <3>1. e.fd \in Fd /\ EventSound(e, i = 1, FALSE) /\ e' = e /\ Nobody \notin Conns
      BY <1>1, <1>3, <1>4, FdFacts
    <3>2. CASE i = 1
      <4>1. e.fd = g /\ sock'[g] \in {sock[g], Nobody} /\ e.ev # {"OUT"} /\ StillHung
        BY <1>2, <1>9, <3>2 DEF Handled
      <4>2. sock[g] = e.conn
        BY <3>1, <4>1 DEF EventSound
      <4>3. \A s \in Conns : s = sock'[g] /\ Hung(s) => peer'[s] \in {"reset", "broken"}
        BY <1>4, <4>1 DEF StillHung, Hung
      <4>4. sock'[g] # Nobody /\ "HUP" \in e.ev =>
              sock'[g] \in Conns /\ peer'[sock'[g]] \in {"reset", "broken"}
        BY <3>1, <4>1, <4>3 DEF EventSound
      <4>5. QED BY <1>1, <3>1, <3>2, <4>1, <4>2, <4>4 DEF EventSound, Hung
    <3>3. CASE i # 1
      <4>1. e.fd # g
        BY <1>2, <1>3, <3>3
      <4>2. /\ sock'[e.fd] = sock[e.fd] /\ comm'.kernel[e.fd] = comm.kernel[e.fd]
            /\ backlog' = backlog /\ StillHung
        BY <1>9, <3>1, <4>1 DEF Handled, OnlyFd
      <4>3. sock[e.fd] \in Conns /\ Hung(sock[e.fd]) => Hung(sock[e.fd])'
        BY <3>1, <4>2 DEF StillHung, Hung
      <4>4. QED BY <1>1, <3>1, <3>3, <4>2, <4>3 DEF EventSound, Hung
    <3>4. QED BY <3>2, <3>3
  <2>2. BatchSound'
    BY <1>7, <2>1
  <2>3. TimersKept'
    BY <1>1, <1>4, <1>5, <1>9, TimersAfter DEF Handled
  <2>4. QED BY <1>1, <1>5, <1>6, <2>2, <2>3 DEF Alive
<1>10. CASE Accepted /\ g = ListenFd
  <2>1. PICK f \in ConnFd : /\ sock[f] = Nobody /\ sock'[f] \in Conns
                            /\ OnlyFd(f) /\ TimerSet(f) /\ StillHung
    BY <1>10 DEF Accepted
  <2>2. f \in Fd /\ f # ListenFd /\ Nobody \notin Conns \cup {Listener}
    BY FdFacts
  <2>3. ASSUME NEW i \in DOMAIN batch
        PROVE  EventSound(batch[i], i = 1, pc = "write")'
    <3> DEFINE e == batch[i]
    <3>1. e.fd \in Fd /\ EventSound(e, i = 1, FALSE) /\ e' = e /\ e.conn # Nobody
      BY <1>1, <1>3, <1>4, <2>2
    <3>2. sock[e.fd] = e.conn /\ e.fd # f
      BY <2>1, <3>1 DEF EventSound
    <3>3. sock'[e.fd] = sock[e.fd] /\ comm'.kernel[e.fd] = comm.kernel[e.fd]
      BY <2>1, <3>1, <3>2 DEF OnlyFd
    <3>4. sock[e.fd] \in Conns /\ Hung(sock[e.fd]) => Hung(sock[e.fd])'
      BY <2>1, <3>1, <3>3 DEF StillHung, Hung
    <3>5. i # 1 => e.fd # ListenFd
      BY <1>2, <1>3, <1>10
    <3>6. QED BY <1>1, <3>1, <3>2, <3>3, <3>4, <3>5 DEF EventSound, Hung
  <2>4. BatchSound'
    BY <1>7, <2>3
  <2>5. TimersKept'
    BY <1>1, <1>5, <2>1, <2>2, TimersAfter
  <2>6. QED BY <1>1, <1>5, <1>6, <2>4, <2>5 DEF Alive
<1>11. QED BY <1>8, <1>9, <1>10, ReadHalf

LEMMA CallWriteKeeps == Alive /\ CallWrite => Alive'
<1> SUFFICES ASSUME Alive, CallWrite
             PROVE  Alive'
  OBVIOUS
<1>1. /\ pc = "write" /\ pc' = "dispatch" /\ batch # <<>> /\ batch \in Seq(Event)
      /\ batch' = Tail(batch) /\ UNCHANGED <<scan, since, lag, clock>>
      /\ Served /\ LoopOK /\ TimersKept
  BY DEF CallWrite, Alive, LoopOK, BatchSound
<1> DEFINE g == Head(batch).fd
<1>2. /\ g = batch[1].fd /\ 1 \in DOMAIN batch /\ batch' \in Seq(Event)
      /\ \A i \in DOMAIN batch' : batch'[i] = batch[i + 1] /\ i + 1 \in DOMAIN batch /\ i \in Nat
      /\ \A i \in DOMAIN batch : batch[i] \in Event
  BY <1>1, HeadAndTail
<1>3. /\ \A i, j \in DOMAIN batch : batch[i].fd = batch[j].fd => i = j
      /\ \A i \in DOMAIN batch : EventSound(batch[i], i = 1, TRUE)
  BY <1>1, BatchByEvents DEF Alive
<1>4. g \in Fd /\ \A i \in DOMAIN batch : batch[i].fd \in Fd
  BY <1>2 DEF Event
<1>5. Served'
  BY WriteHalf
<1>6. LoopOK'
  BY <1>1, <1>2 DEF LoopOK
<1>7. \A f \in Fd \ {g} : sock'[f] = sock[f] /\ comm'.kernel[f] = comm.kernel[f]
  BY WriteHalf DEF Handled, OnlyFd, tcp
<1>8. backlog' = backlog /\ StillHung
  BY WriteHalf DEF Handled, StillHung, Hung, tcp
<1>9. ASSUME NEW i \in DOMAIN batch'
      PROVE  EventSound(batch[i], i = 1, pc = "write")'
  <2>1. PICK e : e = batch'[i]
    OBVIOUS
  <2>2. e = batch[i + 1] /\ i + 1 \in DOMAIN batch /\ i + 1 # 1
    BY <1>2, <2>1
  <2>3. e.fd \in Fd \ {g} /\ EventSound(e, FALSE, TRUE)
    BY <1>2, <1>3, <1>4, <2>2
  <2>4. sock'[e.fd] = sock[e.fd] /\ comm'.kernel[e.fd] = comm.kernel[e.fd]
    BY <1>7, <2>3
  <2>5. sock[e.fd] \in Conns /\ Hung(sock[e.fd]) => Hung(sock[e.fd])'
    BY <1>8, <2>3, <2>4 DEF StillHung, Hung
  <2>6. QED BY <1>1, <1>8, <2>1, <2>3, <2>4, <2>5 DEF EventSound, Hung
<1>10. \A i, j \in DOMAIN batch' : batch'[i].fd = batch'[j].fd => i = j
  <2>1. ASSUME NEW i \in DOMAIN batch', NEW j \in DOMAIN batch', batch'[i].fd = batch'[j].fd
        PROVE  i = j
    <3>1. i + 1 = j + 1
      BY <1>2, <1>3, <2>1
    <3>2. i \in Nat /\ j \in Nat
      BY <1>2
    <3>3. QED BY <3>1, <3>2
  <2>2. QED BY <2>1
<1>11. BatchSound'
  BY <1>1, <1>9, <1>10, BatchByEventsNext
<1>12. TimersKept'
  <2>1. CASE UNCHANGED <<comm, tcp, heap, reply, timers>>
    BY <1>1, <2>1, TimersUnchanged
  <2>2. CASE Handled(g)
    BY <1>1, <1>4, <1>5, <2>2, TimersAfter DEF Handled
  <2>3. QED BY <2>1, <2>2, WriteHalf
<1>13. QED BY <1>1, <1>5, <1>6, <1>11, <1>12 DEF Alive

LEMMA ScanFdKeeps == Alive /\ ScanFd => Alive'
<1> SUFFICES ASSUME Alive, ScanFd
             PROVE  Alive'
  OBVIOUS
<1>1. /\ pc = "scan" /\ batch = <<>> /\ lag = 0 /\ since = 0 /\ clock = "set"
      /\ UNCHANGED <<batch, since, lag, clock>>
      /\ Served /\ LoopOK /\ TimersKept /\ scan \in Nat /\ Biggest_FD \in Nat
  BY FdFacts DEF ScanFd, Alive, LoopOK, BatchSound, TimersKept
<1>2. /\ pc' \in {"scan", "wait"} /\ LoopOK'
      /\ pc' = "scan" => scan' = scan + 1 /\ scan < Biggest_FD
      /\ pc' = "wait" => ~(scan < Biggest_FD)
  BY <1>1 DEF ScanFd, LoopOK
<1>3. BatchSound'
  BY <1>1, <1>2 DEF BatchSound
<1>4. CASE UNCHANGED <<comm, tcp, heap, reply, timers>>
           /\ ~(scan < Biggest_FD /\ Expired(scan))
  <2>1. Served'
    BY <1>1, <1>4, ServedUnchanged
  <2>2. UNCHANGED <<comm, left, blind>>
    BY <1>4 DEF timers
  <2>3. ASSUME NEW fd \in ConnFd, comm.table[fd].timeout = 0
        PROVE  pc' = "scan" /\ scan' <= fd
    <3>1. scan <= fd /\ fd < Biggest_FD /\ fd \in Nat
      BY <1>1, <2>3, FdFacts DEF TimersKept, ConnFd
    <3>2. scan < Biggest_FD
      BY <1>1, <3>1
    <3>3. scan # fd
      BY <1>4, <2>3, <3>2 DEF Expired
    <3>4. QED BY <1>1, <1>2, <3>1, <3>2, <3>3
  <2>4. TimersKept'
    BY <1>1, <1>2, <2>2, <2>3 DEF TimersKept
  <2>5. QED BY <1>1, <1>2, <1>3, <2>1, <2>4 DEF Alive
<1>5. CASE scan < Biggest_FD /\ Expired(scan)
  <2>1. scan \in Fd
    BY <1>1, <1>5 DEF Fd
  <2>2. scan \in ConnFd /\ sock[scan] \in Conns
    BY <1>1, <1>5, <2>1, WhichFd DEF Expired, NoTimeout
  <2>3. comm.table[scan].th = "timeout" /\ comm.table[scan].td = sock[scan]
    BY <1>1, <2>2, FdFacts DEF Served, ConnEntries, EntryRight
  <2>4. CloseAndFree(scan, sock[scan])
    BY <1>5, <2>3 DEF ScanFd, do_echo_timeout, NoHandler
  <2>5. Served' /\ Handled(scan)
    BY <1>1, <2>2, <2>4, CloseStep
  <2>6. comm'.table[scan].timeout = NoTimeout
    <3>1. comm' = comm_close(comm, scan) /\ Agrees(comm)
      BY <1>1, <2>4 DEF CloseAndFree, Served
    <3>2. comm'.table = [comm.table EXCEPT ![scan] = NoFde]
      BY <2>1, <3>1, CloseFacts
    <3>3. comm.table \in [Fd -> Entry]
      BY <3>1 DEF Agrees, CommRecord
    <3>4. QED BY <2>1, <3>2, <3>3, NoFdeFacts
  <2>7. pc' = "scan" /\ scan' = scan + 1
    BY <1>2, <1>5
  <2>8. ASSUME NEW fd \in ConnFd
        PROVE  LET timeout == comm'.table[fd].timeout
               IN  /\ timeout > 0 => fd \notin blind' /\ left'[fd] - (timeout - lag) \in {0, 1}
                   /\ timeout = 0 => /\ left'[fd] >= -1 /\ scan' <= fd
                                     /\ fd \notin blind' => left'[fd] <= 1
    <3>1. CASE fd = scan
      BY <2>6, <3>1 DEF NoTimeout
    <3>2. CASE fd # scan
      <4>1. /\ comm'.table[fd] = comm.table[fd] /\ left'[fd] = left[fd]
            /\ (fd \in blind' <=> fd \in blind) /\ fd \in Nat
        BY <2>5, <3>2, FdFacts DEF Handled, OnlyFd
      <4>2. comm.table[fd].timeout = 0 => scan <= fd
        BY <1>1 DEF TimersKept
      <4>3. comm.table[fd].timeout = 0 => scan + 1 <= fd
        BY <1>1, <3>2, <4>1, <4>2
      <4>4. QED BY <1>1, <2>7, <4>1, <4>3 DEF TimersKept
    <3>3. QED BY <3>1, <3>2
  <2>9. TimersKept'
    BY <1>1, <2>7, <2>8 DEF TimersKept
  <2>10. QED BY <1>2, <1>3, <2>5, <2>9 DEF Alive
<1>6. QED BY <1>4, <1>5 DEF ScanFd

\* The steps that leave the connections alone.
LEMMA SelectKeeps == Alive /\ (SelectChecks \/ SelectSkips) => Alive'
<1> SUFFICES ASSUME Alive, SelectChecks \/ SelectSkips
             PROVE  Alive'
  OBVIOUS
<1>1. /\ pc = "select" /\ batch = <<>> /\ lag = 0 /\ pc' \in {"scan", "wait"}
      /\ UNCHANGED <<comm, tcp, heap, reply, batch, lag, clock, timers>>
      /\ Served /\ LoopOK /\ TimersKept /\ Biggest_FD \in Nat
  BY FdFacts DEF SelectChecks, SelectSkips, Alive, BatchSound, TimersKept
<1>2. Served'
  BY <1>1, ServedUnchanged
<1>3. LoopOK' /\ BatchSound'
  BY <1>1 DEF SelectChecks, SelectSkips, LoopOK, BatchSound
<1>4. TimersKept'
  <2>1. UNCHANGED <<comm, left, blind, lag, clock>> /\ since \in 0 .. 2
        /\ \A fd \in ConnFd : 0 <= fd
    BY <1>1, FdFacts DEF timers, LoopOK
  <2>2. CASE SelectChecks
    BY <1>1, <2>1, <2>2 DEF SelectChecks, TimersKept
  <2>3. CASE SelectSkips
    BY <1>1, <2>1, <2>3 DEF SelectSkips, TimersKept
  <2>4. QED BY <2>2, <2>3
<1>5. QED BY <1>1, <1>2, <1>3, <1>4 DEF Alive

LEMMA WaitEmptyKeeps == Alive /\ WaitEmpty => Alive'
<1> SUFFICES ASSUME Alive, WaitEmpty
             PROVE  Alive'
  OBVIOUS
<1>1. /\ pc = "wait" /\ pc' = "dispatch" /\ batch = <<>>
      /\ UNCHANGED <<comm, tcp, heap, reply, scan, batch, since, lag, clock, timers>>
      /\ Served /\ LoopOK /\ TimersKept
  BY DEF WaitEmpty, Alive, BatchSound
<1>2. Served' /\ LoopOK' /\ BatchSound'
  BY <1>1, ServedUnchanged DEF LoopOK, BatchSound
<1>3. TimersKept'
  BY <1>1 DEF TimersKept, timers
<1>4. QED BY <1>1, <1>2, <1>3 DEF Alive

LEMMA TickKeeps == Alive /\ Tick => Alive'
<1> SUFFICES ASSUME Alive, Tick
             PROVE  Alive'
  OBVIOUS
<1>1. /\ pc = "wait" /\ lag = 0 /\ lag' = 1 /\ batch = <<>>
      /\ UNCHANGED <<comm, tcp, heap, reply, pc, scan, batch, since, clock, blind>>
      /\ Served /\ LoopOK /\ TimersKept
      /\ left' = [fd \in Fd |-> IF comm.table[fd].timeout = NoTimeout \/ left[fd] = Overdue
                                THEN left[fd] ELSE left[fd] - 1]
  BY DEF Tick, Alive, BatchSound
<1>2. DataOK'
  <2>1. left \in [Fd -> Overdue .. LongestTimeout] /\ LongestTimeout \in Nat
    BY <1>1, TimeoutFacts DEF Served, DataOK
  <2>2. left' \in [Fd -> Overdue .. LongestTimeout]
    BY <1>1, <2>1 DEF Overdue
  <2>3. QED BY <1>1, <2>2 DEF Served, DataOK, TcpTypeOK, tcp
<1>3. Served'
  BY <1>1, <1>2 DEF Served, Agrees, ConnEntries, OtherEntries, OneFdEach, StatsOfOpen,
                    PlacedOnce, IsOpen, Connected, tcp
<1>4. LoopOK' /\ BatchSound'
  BY <1>1 DEF LoopOK, BatchSound
<1>5. TimersKept'
  <2>1. ASSUME NEW fd \in ConnFd
        PROVE  /\ comm.table[fd].timeout > 0 /\ clock = "set" =>
                    fd \notin blind /\ left'[fd] - (comm.table[fd].timeout - 1) \in {0, 1}
               /\ comm.table[fd].timeout > 0 => clock # "unset"
               /\ comm.table[fd].timeout = 0 =>
                    /\ clock = "set" /\ left'[fd] >= -1 /\ since = 1
                    /\ fd \notin blind => left'[fd] <= 1
    <3> DEFINE t == comm.table[fd].timeout
    <3>1. /\ t \in NoTimeout .. LongestTimeout /\ left[fd] \in Overdue .. LongestTimeout
          /\ LongestTimeout \in Nat /\ NoTimeout = -1 /\ Overdue = -3 /\ fd \in Fd
      BY <1>1, TimerFacts
    <3>2. left'[fd] = IF t = NoTimeout \/ left[fd] = Overdue THEN left[fd] ELSE left[fd] - 1
      BY <1>1, <3>1
    <3>3. /\ t > 0 /\ clock = "set" => fd \notin blind /\ left[fd] - (t - 0) \in {0, 1}
          /\ t > 0 => clock # "unset"
          /\ t = 0 => /\ clock = "set" /\ left[fd] >= 0 /\ since = 1
                      /\ fd \notin blind => left[fd] <= 1
      BY <1>1 DEF TimersKept
    <3> HIDE DEF t
    <3>4. /\ t > 0 /\ clock = "set" => fd \notin blind /\ left'[fd] - (t - 1) \in {0, 1}
          /\ t = 0 => /\ left'[fd] >= -1
                      /\ fd \notin blind => left'[fd] <= 1
      BY <3>1, <3>2, <3>3
    <3>5. QED BY <3>3, <3>4 DEF t
  <2>2. QED BY <1>1, <2>1 DEF TimersKept
<1>6. QED BY <1>1, <1>3, <1>4, <1>5 DEF Alive

LEMMA RoundEndKeeps == Alive /\ RoundEnd => Alive'
<1> SUFFICES ASSUME Alive, RoundEnd
             PROVE  Alive'
  OBVIOUS
<1>1. /\ pc = "dispatch" /\ batch = <<>> /\ pc' = "select" /\ clock' = "set" /\ lag' = 0
      /\ UNCHANGED <<tcp, heap, reply, scan, batch, timers>>
      /\ Served /\ LoopOK /\ TimersKept
  BY DEF RoundEnd, Alive
<1>2. PICK seconds \in Nat :
        /\ comm' = Elapse(comm, seconds)
        /\ IF clock = "unset" THEN seconds = LongestTimeout /\ since' = 2
           ELSE seconds = lag /\ since' = IF since + lag > 2 THEN 2 ELSE since + lag
  <2>1. lag \in Nat /\ LongestTimeout \in Nat /\ since \in Nat
    BY <1>1, TimeoutFacts DEF LoopOK
  <2>2. Min({2, since + lag}) = IF since + lag > 2 THEN 2 ELSE since + lag
    <3>1. {2, since + lag} \in SUBSET Nat
      BY <2>1
    <3>2. Min({2, since + lag}) \in {2, since + lag}
          /\ \A y \in {2, since + lag} : Min({2, since + lag}) <= y
      BY <3>1, MinFacts
    <3>3. QED BY <2>1, <3>2
  <2>3. QED BY <2>1, <2>2 DEF RoundEnd
<1> DEFINE Later(t) == IF t = NoTimeout THEN t ELSE IF t > seconds THEN t - seconds ELSE 0
<1>3. comm.table \in [Fd -> Entry] /\ comm \in CommRecord
  BY <1>1 DEF Served, Agrees, CommRecord
<1>4. /\ comm'.kernel = comm.kernel /\ comm'.state = comm.state /\ comm'.fds = comm.fds
      /\ comm' = [comm EXCEPT !.table = comm'.table]
      /\ comm'.table = [fd \in Fd |->
           IF comm.table[fd].timeout = NoTimeout THEN comm.table[fd]
           ELSE [comm.table[fd] EXCEPT !.timeout = IF @ > seconds THEN @ - seconds ELSE 0]]
  <2> DEFINE T == [fd \in Fd |->
        IF comm.table[fd].timeout = NoTimeout THEN comm.table[fd]
        ELSE [comm.table[fd] EXCEPT !.timeout = IF @ > seconds THEN @ - seconds ELSE 0]]
  <2>1. Elapse(comm, seconds) = [comm EXCEPT !.table = T]
    BY DEF Elapse
  <2> HIDE DEF T
  <2>2. comm' = [comm EXCEPT !.table = T]
    BY <1>2, <2>1
  <2>3. /\ comm'.kernel = comm.kernel /\ comm'.state = comm.state /\ comm'.fds = comm.fds
        /\ comm'.table = T
    BY <1>3, <2>2 DEF CommRecord
  <2>4. QED BY <2>2, <2>3 DEF T
<1>5. ASSUME NEW fd \in Fd
      PROVE  LET F == comm.table[fd]
                 G == comm'.table[fd]
             IN  /\ G \in Entry /\ G.timeout = Later(F.timeout)
                 /\ G = [F EXCEPT !.timeout = Later(F.timeout)]
                 /\ G.timeout = NoTimeout <=> F.timeout = NoTimeout
  <2> DEFINE F == comm.table[fd]
             G == comm'.table[fd]
  <2>1. F \in Entry /\ F.timeout \in NoTimeout .. LongestTimeout /\ LongestTimeout \in Nat
        /\ NoTimeout = -1
    BY <1>3, TimeoutFacts DEF Entry, NoTimeout
  <2>2. Later(F.timeout) \in NoTimeout .. LongestTimeout
        /\ (Later(F.timeout) = NoTimeout <=> F.timeout = NoTimeout)
    BY <2>1
  <2>3. G = [F EXCEPT !.timeout = Later(F.timeout)]
    <3>1. F = [F EXCEPT !.timeout = F.timeout]
      BY <2>1 DEF Entry
    <3>2. QED BY <1>4, <2>1, <3>1
  <2> HIDE DEF F, G, Later
  <2>4. G \in Entry /\ G.timeout = Later(F.timeout)
    BY <2>1, <2>2, <2>3 DEF Entry
  <2>5. QED BY <2>2, <2>3, <2>4 DEF F, G
<1> HIDE DEF Later
<1>6. Agrees(comm')
  <2>1. comm'.table \in [Fd -> Entry]
    BY <1>4, <1>5
  <2>2. comm' \in CommRecord
    BY <1>3, <1>4, <2>1 DEF CommRecord
  <2>3. QED BY <1>1, <1>4, <2>2 DEF Served, Agrees
<1>7. UNCHANGED <<sock, backlog, peer, inbox, room, sends, left, blind, heap, reply>>
  BY <1>1 DEF tcp, timers
<1>8. ConnEntries'
  <2> SUFFICES ASSUME NEW fd \in ConnFd
               PROVE  EntryRight(comm'.table[fd], comm'.kernel[fd], sock[fd], sock[fd] \in reply)
    BY <1>7 DEF ConnEntries
  <2> DEFINE F == comm.table[fd]
             G == comm'.table[fd]
  <2>1. EntryRight(F, comm.kernel[fd], sock[fd], sock[fd] \in reply) /\ fd \in Fd
    BY <1>1, FdFacts DEF Served, ConnEntries
  <2>2. F \in Entry /\ G = [F EXCEPT !.timeout = Later(F.timeout)] /\ G \in Entry
        /\ (G.timeout = NoTimeout <=> F.timeout = NoTimeout)
    BY <1>3, <1>5, <2>1
  <2>3. /\ G.rh = F.rh /\ G.rd = F.rd /\ G.wh = F.wh /\ G.wd = F.wd /\ G.th = F.th /\ G.td = F.td
    BY <2>2 DEF Entry
  <2>4. F = NoFde => G = NoFde
    BY <1>4, <2>1, NoFdeFacts
  <2> HIDE DEF F, G
  <2>5. EntryRight(G, comm.kernel[fd], sock[fd], sock[fd] \in reply)
    BY <2>1, <2>2, <2>3, <2>4 DEF EntryRight
  <2>6. QED BY <1>4, <2>5 DEF G
<1>9. OtherEntries'
  <2>1. ASSUME NEW fd \in Fd \ ConnFd
        PROVE  comm'.table[fd] = comm.table[fd]
    <3>1. comm.table[fd].timeout = NoTimeout
      BY <1>1, <2>1, WhichFd
    <3>2. QED BY <1>4, <3>1
  <2>2. QED BY <1>1, <1>4, <1>7, <2>1 DEF Served, OtherEntries
<1>10. Served'
  BY <1>1, <1>6, <1>7, <1>8, <1>9
     DEF Served, DataOK, TcpTypeOK, OneFdEach, StatsOfOpen, PlacedOnce, IsOpen, Connected
<1>11. since' \in 0 .. 2
  BY <1>1, <1>2 DEF LoopOK
<1>12. LoopOK' /\ BatchSound'
  BY <1>1, <1>11 DEF LoopOK, BatchSound
<1>13. ASSUME NEW fd \in ConnFd
       PROVE  LET timeout == comm'.table[fd].timeout
              IN  /\ timeout > 0 => fd \notin blind /\ left[fd] - (timeout - 0) \in {0, 1}
                  /\ timeout = 0 =>
                       /\ left[fd] >= -1
                       /\ fd \notin blind => left[fd] <= 1
                       /\ since' = 2 \/ (since' = 1 /\ left[fd] >= 0)
  <2> DEFINE t == comm.table[fd].timeout
             u == comm'.table[fd].timeout
  <2>1. /\ t \in NoTimeout .. LongestTimeout /\ left[fd] \in Overdue .. LongestTimeout
        /\ LongestTimeout \in Nat /\ NoTimeout = -1 /\ Overdue = -3 /\ fd \in Fd
        /\ lag \in 0 .. 1 /\ since \in 0 .. 2 /\ clock \in {"unset", "set"}
    BY <1>1, TimerFacts DEF LoopOK
  <2>2. u = IF t = NoTimeout THEN t ELSE IF t > seconds THEN t - seconds ELSE 0
    BY <1>5, <2>1 DEF Later
  <2>3. /\ t > 0 /\ clock = "set" => fd \notin blind /\ left[fd] - (t - lag) \in {0, 1}
        /\ t > 0 /\ clock = "unset" => fd \in blind /\ left[fd] = t
        /\ t = 0 => /\ clock = "set" /\ left[fd] >= -1
                    /\ fd \notin blind => left[fd] <= 1
                    /\ since = 1 /\ left[fd] >= -lag
    BY <1>1 DEF TimersKept
  <2> HIDE DEF t, u
  <2>4. /\ u > 0 => fd \notin blind /\ left[fd] - (u - 0) \in {0, 1}
        /\ u = 0 => /\ left[fd] >= -1
                    /\ fd \notin blind => left[fd] <= 1
                    /\ since' = 2 \/ (since' = 1 /\ left[fd] >= 0)
    <3>1. CASE t = NoTimeout
      BY <2>1, <2>2, <3>1
    <3>2. CASE t = 0
      BY <1>2, <2>1, <2>2, <2>3, <3>2
    <3>3. CASE t > 0 /\ clock = "unset"
      BY <1>2, <2>1, <2>2, <2>3, <3>3
    <3>4. CASE t > 0 /\ clock = "set" /\ t > lag
      BY <1>2, <2>1, <2>2, <2>3, <3>4
    <3>5. CASE t > 0 /\ clock = "set" /\ ~(t > lag)
      <4>1. t = 1 /\ lag = 1 /\ u = 0 /\ left[fd] \in {0, 1}
        BY <1>2, <2>1, <2>2, <2>3, <3>5
      <4>2. QED BY <1>2, <2>1, <2>3, <3>5, <4>1
    <3>6. QED BY <2>1, <3>1, <3>2, <3>3, <3>4, <3>5
  <2>5. QED BY <2>4 DEF u
<1>14. TimersKept'
  BY <1>1, <1>7, <1>13 DEF TimersKept
<1>15. QED BY <1>1, <1>10, <1>12, <1>14 DEF Alive

\* Clients change no descriptor and end no connection.
LEMMA ClientsKeep == Alive /\ Clients => Alive'
<1> SUFFICES ASSUME Alive, Clients
             PROVE  Alive'
  OBVIOUS
<1>1. /\ Served /\ LoopOK /\ BatchSound /\ TimersKept /\ DataOK
      /\ UNCHANGED <<comm, heap, reply, loop, timers>>
  BY DEF Alive, Clients, Served
<1>2. UNCHANGED <<comm, heap, reply, pc, scan, batch, since, lag, clock, left, blind>>
  BY <1>1 DEF loop, timers
<1>3. PICK c \in Conns : \/ Connect(c) \/ Fin(c) \/ Reset(c) \/ Drain(c)
                         \/ \E message \in Messages : Send(c, message)
  BY DEF Clients, ClientStep
<1>4. sock' = sock
  BY <1>3 DEF Connect, Fin, Reset, Drain, Send
<1>5. /\ sock \in [Fd -> Conns \cup {Nobody, Listener}] /\ backlog \in Seq(Conns)
      /\ peer \in [Conns -> {"none", "open", "fin", "reset", "broken", "gone"}]
      /\ inbox \in [Conns -> Messages \cup {"none"}]
      /\ room \in [Conns -> BOOLEAN] /\ sends \in 0 .. MaxSends /\ MaxSends \in Nat
  BY <1>1, TcpAssumption DEF DataOK, TcpTypeOK
<1>6. DataOK'
  <2>1. TcpTypeOK'
    <3>1. CASE Connect(c)
      BY <1>5, <3>1, AppendProperties DEF Connect, TcpTypeOK
    <3>2. CASE Fin(c) \/ Reset(c) \/ Drain(c)
      BY <1>5, <3>2 DEF Fin, Reset, Drain, TcpTypeOK
    <3>3. CASE \E message \in Messages : Send(c, message)
      BY <1>5, <3>3 DEF Send, TcpTypeOK
    <3>4. QED BY <1>3, <3>1, <3>2, <3>3
  <2>2. QED BY <1>1, <1>2, <2>1 DEF DataOK
<1>7. \A s \in Conns : Hung(s) => Hung(s)'
  BY <1>3, <1>5 DEF Hung, Connect, Fin, Reset, Drain, Send
<1>8. \A s : IsOpen(s)' <=> IsOpen(s)
  BY <1>4 DEF IsOpen
<1>9. PlacedOnce' /\ (backlog # <<>> => backlog' # <<>>)
  <2>1. PlacedOnce
    BY <1>1 DEF Served
  <2>2. CASE Connect(c)
    <3>1. /\ backlog' = Append(backlog, c) /\ Len(backlog) \in Nat
          /\ DOMAIN backlog = 1 .. Len(backlog) /\ DOMAIN backlog' = 1 .. Len(backlog) + 1
          /\ backlog'[Len(backlog) + 1] = c
          /\ \A i \in 1 .. Len(backlog) : backlog'[i] = backlog[i]
      BY <1>5, <2>2, AppendProperties, LenProperties DEF Connect
    <3>2. \A s : s \in Range(backlog') <=> s \in Range(backlog) \/ s = c
      <4>1. \A i \in DOMAIN backlog' : i = Len(backlog) + 1 \/ i \in DOMAIN backlog
        BY <3>1
      <4>2. Len(backlog) + 1 \in DOMAIN backlog'
            /\ \A i \in DOMAIN backlog : i \in DOMAIN backlog'
        BY <3>1
      <4>3. QED BY <3>1, <4>1, <4>2 DEF Range
    <3>3. ~Connected(c) /\ Connected(c)'
          /\ \A s \in Conns \ {c} : Connected(s)' <=> Connected(s)
      BY <1>5, <2>2 DEF Connect, Connected
    <3>4. c \notin Range(backlog) /\ ~IsOpen(c)
      BY <2>1, <3>3 DEF PlacedOnce
    <3>5. \A i \in DOMAIN backlog : backlog[i] # c
      BY <3>4 DEF Range
    <3>6. \A i, j \in DOMAIN backlog' : backlog'[i] = backlog'[j] => i = j
      <4>1. \A i \in DOMAIN backlog' : i = Len(backlog) + 1 \/ i \in DOMAIN backlog
        BY <3>1
      <4>2. QED BY <2>1, <3>1, <3>5, <4>1 DEF PlacedOnce
    <3>7. \A s \in Conns : Connected(s)' <=> s \in Range(backlog') \/ IsOpen(s)'
      BY <1>8, <2>1, <3>2, <3>3 DEF PlacedOnce
    <3>8. \A s \in Range(backlog') : ~IsOpen(s)'
      BY <1>8, <2>1, <3>2, <3>4 DEF PlacedOnce
    <3>9. backlog' # <<>>
      BY <3>1
    <3>10. QED BY <3>6, <3>7, <3>8, <3>9 DEF PlacedOnce
  <2>3. CASE ~Connect(c)
    <3>1. backlog' = backlog /\ \A s \in Conns : Connected(s)' <=> Connected(s)
      BY <1>3, <1>5, <2>3 DEF Fin, Reset, Drain, Send, Connected
    <3>2. QED BY <1>8, <2>1, <3>1 DEF PlacedOnce
  <2>4. QED BY <2>2, <2>3
<1>10. Served'
  BY <1>1, <1>2, <1>4, <1>6, <1>8, <1>9
     DEF Served, Agrees, ConnEntries, OtherEntries, OneFdEach, StatsOfOpen
<1>11. LoopOK' /\ TimersKept'
  BY <1>1, <1>2 DEF LoopOK, TimersKept
<1>12. BatchSound'
  BY <1>1, <1>2, <1>4, <1>7, <1>9 DEF BatchSound, Hung
<1>13. QED BY <1>2, <1>10, <1>11, <1>12 DEF Alive

\* What may be reported.
LEMMA ReportedFacts ==
  /\ Reported = {{}, {"IN"}, {"OUT"}, {"HUP"}, {"IN", "HUP"}, {"OUT", "HUP"}}
  /\ Reported \subseteq SUBSET {"IN", "OUT", "HUP"}
<1>1. /\ {} \cup {} = {} /\ {} \cup {"HUP"} = {"HUP"}
      /\ {"IN"} \cup {} = {"IN"} /\ {"IN"} \cup {"HUP"} = {"IN", "HUP"}
      /\ {"OUT"} \cup {} = {"OUT"} /\ {"OUT"} \cup {"HUP"} = {"OUT", "HUP"}
  OBVIOUS
<1>2. \A x : x \in Reported <=> \E ev \in Watched, hup \in {{}, {"HUP"}} : x = ev \cup hup
  BY DEF Reported
<1>3. \A x : x \in Reported <=>
        x \in {{}, {"IN"}, {"OUT"}, {"HUP"}, {"IN", "HUP"}, {"OUT", "HUP"}}
  BY <1>1, <1>2 DEF Watched
<1>4. QED BY <1>3

\* What epoll_wait reports of a descriptor.
LEMMA ReadyFacts ==
  ASSUME Served, NEW fd \in Fd, comm.kernel[fd] # {}, Ready(fd) # {}
  PROVE  /\ sock[fd] \in Conns \cup {Listener}
         /\ Ready(fd) \in Reported
         /\ Ready(fd) \subseteq comm.kernel[fd] \cup {"HUP"}
         /\ "HUP" \in Ready(fd) => sock[fd] \in Conns /\ Hung(sock[fd])
         /\ Ready(fd) = {"OUT"} => comm.kernel[fd] = {"OUT"}
         /\ fd = ListenFd => backlog # <<>>
<1>1. comm.kernel[fd] \in Watched
  BY DEF Served, Agrees, CommRecord
<1>2. "HUP" \notin comm.kernel[fd]
  BY <1>1 DEF Watched
<1>3. sock[fd] \in Conns \cup {Listener}
  <2>1. CASE fd \in ConnFd
    BY <2>1 DEF Served, ConnEntries, EntryRight
  <2>2. CASE fd \notin ConnFd
    BY <2>2 DEF Served, OtherEntries
  <2>3. QED BY <2>1, <2>2
<1>4. /\ Ready(fd) \subseteq comm.kernel[fd] \cup {"HUP"}
      /\ "HUP" \in Ready(fd) => sock[fd] \in Conns /\ Hung(sock[fd])
  BY <1>2 DEF Ready, ReadyFor
<1>5. Ready(fd) \in Reported
  <2>1. PICK w \in SUBSET comm.kernel[fd], hup \in {{}, {"HUP"}} : Ready(fd) = w \cup hup
    <3> DEFINE on(e) == LET d == sock[fd]
                            in == IF d = Listener THEN backlog # <<>>
                                  ELSE inbox[d] # "none" \/ peer[d] # "open"
                            out == d \in Conns /\ (room[d] \/ Hung(d))
                        IN  IF e = "IN" THEN in ELSE out
               w == {e \in comm.kernel[fd] : on(e)}
               hup == IF sock[fd] \in Conns /\ Hung(sock[fd]) THEN {"HUP"} ELSE {}
    <3>1. Ready(fd) = w \cup hup
      BY DEF Ready, ReadyFor
    <3>2. w \in SUBSET comm.kernel[fd] /\ hup \in {{}, {"HUP"}}
      OBVIOUS
    <3> HIDE DEF on, w, hup
    <3>3. QED BY <3>1, <3>2
  <2>2. w \in Watched
    BY <1>1, <2>1 DEF Watched
  <2>3. QED BY <2>1, <2>2 DEF Reported
<1>6. Ready(fd) = {"OUT"} => comm.kernel[fd] = {"OUT"}
  BY <1>1, <1>4 DEF Watched
<1>7. ASSUME fd = ListenFd
      PROVE  backlog # <<>>
  <2>1. sock[fd] = Listener /\ comm.kernel[fd] = {"IN"} /\ Listener \notin Conns
    BY <1>7, FdFacts DEF Served, OtherEntries
  <2>2. Ready(fd) = {"IN"}
    BY <1>4, <2>1
  <2>3. "IN" \in ReadyFor(fd, {"IN"}) => backlog # <<>>
    BY <2>1 DEF ReadyFor
  <2>4. QED BY <2>1, <2>2, <2>3 DEF Ready
<1>8. QED BY <1>3, <1>4, <1>5, <1>6, <1>7

LEMMA WaitReturnsKeeps == Alive /\ WaitReturns => Alive'
<1> SUFFICES ASSUME Alive, WaitReturns
             PROVE  Alive'
  OBVIOUS
<1>1. /\ pc = "wait" /\ pc' = "dispatch"
      /\ UNCHANGED <<comm, tcp, heap, reply, scan, since, lag, clock, timers>>
      /\ Served /\ LoopOK /\ TimersKept
  BY DEF WaitReturns, Alive
<1> DEFINE n == Min({MaxEvents, Cardinality(ReadyFds)})
<1>2. n \in Nat
  <2>1. IsFiniteSet(ReadyFds)
    BY FdFacts, FS_Subset DEF ReadyFds
  <2>2. {MaxEvents, Cardinality(ReadyFds)} \in SUBSET Nat
    BY <2>1, FS_CardinalityType, EchoAssumption
  <2>3. QED BY <2>2, MinFacts
<1>3. PICK order \in [1 .. n -> ReadyFds] :
        /\ \A i, j \in 1 .. n : order[i] = order[j] => i = j
        /\ batch' = [i \in 1 .. n |-> [fd   |-> order[i],
                                       ev   |-> Ready(order[i]),
                                       conn |-> sock[order[i]]]]
  BY DEF WaitReturns
<1> HIDE DEF n
<1>4. ASSUME NEW i \in 1 .. n
      PROVE  LET fd == order[i]
             IN  /\ fd \in Fd /\ sock[fd] \in Conns \cup {Listener}
                 /\ Ready(fd) \in Reported /\ Ready(fd) # {}
                 /\ Ready(fd) \subseteq comm.kernel[fd] \cup {"HUP"}
                 /\ "HUP" \in Ready(fd) => sock[fd] \in Conns /\ Hung(sock[fd])
                 /\ Ready(fd) = {"OUT"} => comm.kernel[fd] = {"OUT"}
                 /\ fd = ListenFd => backlog # <<>>
  <2>1. order[i] \in Fd /\ comm.kernel[order[i]] # {} /\ Ready(order[i]) # {}
    BY <1>3, <1>4 DEF ReadyFds
  <2>2. QED BY <1>1, <2>1, ReadyFacts
<1>5. batch' \in Seq(Event) /\ DOMAIN batch' = 1 .. n
  <2>1. \A i \in 1 .. n : [fd |-> order[i], ev |-> Ready(order[i]), conn |-> sock[order[i]]] \in Event
    BY <1>4 DEF Event
  <2>2. batch' \in [1 .. n -> Event]
    BY <1>3, <2>1
  <2>3. QED BY <1>2, <1>3, <2>2, SeqDef
<1>6. \A i \in 1 .. n : /\ batch'[i].fd = order[i] /\ batch'[i].ev = Ready(order[i])
                        /\ batch'[i].conn = sock[order[i]]
  BY <1>3
<1>7. Served'
  BY <1>1, ServedUnchanged
<1>8. LoopOK'
  BY <1>1, <1>5 DEF LoopOK
<1>9. BatchSound'
  <2>1. UNCHANGED <<comm, sock, peer, backlog>>
    BY <1>1 DEF tcp
  <2>2. ASSUME NEW i \in DOMAIN batch'
        PROVE  EventSound(batch[i], i = 1, pc = "write")'
    BY <1>1, <1>4, <1>5, <1>6, <2>1 DEF EventSound, Hung
  <2>3. \A i, j \in DOMAIN batch' : batch'[i].fd = batch'[j].fd => i = j
    BY <1>3, <1>5, <1>6
  <2>4. QED BY <1>1, <2>2, <2>3, BatchByEventsNext
<1>10. TimersKept'
  BY <1>1 DEF TimersKept, timers
<1>11. QED BY <1>1, <1>7, <1>8, <1>9, <1>10 DEF Alive

-------------------------------------------------------------------------------
(* The beginning, the end, and the theorems.                               *)

LEMMA CommInitAgrees == Agrees(comm_init) /\ comm_init.table = [fd \in Fd |-> NoFde]
                        /\ comm_init.kernel = [fd \in Fd |-> {}]
<1>1. {} \in Watched /\ NoFde \in Entry
  BY NoFdeFacts DEF Watched
<1>2. /\ comm_init.table = [fd \in Fd |-> NoFde] /\ comm_init.state = [fd \in Fd |-> {}]
      /\ comm_init.kernel = [fd \in Fd |-> {}] /\ comm_init.fds = 0
      /\ comm_init \in CommRecord
  <2> HIDE DEF NoFde
  <2>1. QED BY <1>1 DEF comm_init, CommRecord
<1>3. {f \in Fd : comm_init.kernel[f] # {}} = {}
  BY <1>2
<1>4. QED BY <1>2, <1>3, FS_EmptySet DEF Agrees

LEMMA InitAlive == Init => Alive
<1> SUFFICES ASSUME Init
             PROVE  Alive
  OBVIOUS
<1> DEFINE F == [NoFde EXCEPT !.rh = "accept", !.rd = Listener]
           c1 == [comm_init EXCEPT !.table = [comm_init.table EXCEPT ![ListenFd] = F]]
           c2 == epollSetEvents(c1, ListenFd, {"IN"})
<1>1. ListenFd \in Fd /\ ListenFd \notin ConnFd /\ ConnFd \subseteq Fd /\ Fd \subseteq Nat
      /\ {"IN"} \in Watched /\ Listener \notin Conns /\ Nobody # Listener
  BY FdFacts DEF Watched
<1>2. F \in Entry
  BY NoFdeFacts DEF Entry
<1>3. Agrees(c1) /\ c1.table = [comm_init.table EXCEPT ![ListenFd] = F]
      /\ c1.kernel = comm_init.kernel
  <2>1. \A fd \in Fd, G \in Entry :
          LET d == [comm_init EXCEPT !.table = [comm_init.table EXCEPT ![fd] = G]]
          IN  Agrees(d) /\ d.table = [comm_init.table EXCEPT ![fd] = G]
              /\ d.kernel = comm_init.kernel
    BY CommInitAgrees, EntryChange
  <2> HIDE DEF F
  <2>2. QED BY <1>1, <1>2, <2>1
<1>4. /\ Agrees(c2) /\ c2.table = c1.table
      /\ c2.kernel = [c1.kernel EXCEPT ![ListenFd] = {"IN"}]
  <2> HIDE DEF c1
  <2>1. \A ev \in Watched :
          /\ Agrees(epollSetEvents(c1, ListenFd, ev))
          /\ epollSetEvents(c1, ListenFd, ev).table = c1.table
          /\ epollSetEvents(c1, ListenFd, ev).kernel = [c1.kernel EXCEPT ![ListenFd] = ev]
    BY <1>1, <1>3, SetEventsFacts
  <2> HIDE DEF c2
  <2>2. c2 = epollSetEvents(c1, ListenFd, {"IN"})
    BY DEF c2
  <2>3. QED BY <1>1, <2>1, <2>2
<1>5. comm = c2
  <2>1. [comm_init EXCEPT !.table[ListenFd].rh = "accept", !.table[ListenFd].rd = Listener] = c1
    <3>1. comm_init \in CommRecord /\ comm_init.table[ListenFd] = NoFde
          /\ comm_init.table \in [Fd -> Entry]
      <4> HIDE DEF NoFde
      <4>1. QED BY <1>1, CommInitAgrees DEF Agrees, CommRecord
    <3>2. F = [comm_init.table[ListenFd] EXCEPT !.rh = "accept", !.rd = Listener]
      BY <3>1
    <3> HIDE DEF F
    <3>3. QED BY <1>1, <3>1, <3>2 DEF CommRecord
  <2> HIDE DEF c1
  <2>2. QED BY <2>1 DEF Init, commUpdateReadHandler, Returned
<1> HIDE DEF c1, c2
<1>6. /\ Agrees(comm)
      /\ comm.table[ListenFd] = F /\ comm.kernel[ListenFd] = {"IN"}
      /\ \A fd \in Fd \ {ListenFd} : comm.table[fd] = NoFde /\ comm.kernel[fd] = {}
  <2> HIDE DEF F, NoFde
  <2>1. QED BY ZenonT(30), <1>1, <1>3, <1>4, <1>5, CommInitAgrees
<1>7. /\ sock = [fd \in Fd |-> IF fd = ListenFd THEN Listener ELSE Nobody]
      /\ backlog = <<>>
      /\ peer = [c \in Conns |-> "none"] /\ inbox = [c \in Conns |-> "none"]
      /\ room = [c \in Conns |-> TRUE] /\ sends = 0
      /\ heap = {Listener} /\ reply = {}
      /\ pc = "select" /\ scan = 0 /\ batch = <<>>
      /\ since = 0 /\ lag = 0 /\ clock = "unset"
      /\ left = [fd \in Fd |-> 0] /\ blind = {}
  BY DEF Init, TcpInit
<1>8. DataOK
  <2>1. backlog \in Seq(Conns) /\ 0 \in 0 .. MaxSends
    BY <1>7, EmptySeq, TcpAssumption
  <2>2. 0 \in Overdue .. LongestTimeout
    BY TimeoutFacts DEF Overdue
  <2>3. QED BY <1>7, <2>1, <2>2 DEF DataOK, TcpTypeOK
<1>9. ConnEntries
  BY <1>1, <1>6, <1>7 DEF ConnEntries, EntryRight
<1>10. OtherEntries
  BY <1>6, <1>7 DEF OtherEntries
<1>11. \A c \in Conns : ~IsOpen(c)
  BY <1>1, <1>7, FdFacts DEF IsOpen
<1>12. OneFdEach /\ StatsOfOpen
  BY <1>1, <1>7, <1>11 DEF OneFdEach, StatsOfOpen
<1>13. PlacedOnce
  <2>1. DOMAIN backlog = {} /\ Range(backlog) = {}
    BY <1>7 DEF Range
  <2>2. QED BY <1>7, <1>11, <2>1 DEF PlacedOnce, Connected
<1>14. LoopOK
  BY <1>7, FdFacts, EmptySeq DEF LoopOK
<1>15. BatchSound
  <2>1. DOMAIN batch = {}
    BY <1>7
  <2>2. QED BY <1>7, <2>1 DEF BatchSound
<1>16. TimersKept
  <2>1. \A fd \in ConnFd : comm.table[fd].timeout = -1
    BY <1>1, <1>6, NoFdeFacts DEF NoTimeout
  <2>2. QED BY <1>7, <2>1 DEF TimersKept
<1>17. QED BY <1>6, <1>7, <1>8, <1>9, <1>10, <1>12, <1>13, <1>14, <1>15, <1>16 DEF Alive, Served

\* SIGPIPE leaves nothing.
LEMMA BrokenEnds == Alive /\ CallWriteBroken => TableSound' /\ pc' = "killed"
<1> SUFFICES ASSUME Alive, CallWriteBroken
             PROVE  TableSound' /\ pc' = "killed"
  OBVIOUS
<1>1. /\ sock' = [fd \in Fd |-> Nobody]
      /\ peer' = [c \in Conns |-> IF IsOpen(c) \/ peer[c] = "gone" THEN "gone" ELSE "none"]
      /\ inbox' = [c \in Conns |-> "none"] /\ room' = [c \in Conns |-> TRUE]
      /\ backlog' = <<>> /\ sends' = sends /\ comm' = comm_init
      /\ heap' = {} /\ reply' = {} /\ batch' = <<>>
      /\ left' = [fd \in Fd |-> 0] /\ blind' = {} /\ pc' = "killed"
      /\ scan' = 0 /\ since' = 0 /\ lag' = 0 /\ clock' = clock
  BY DEF CallWriteBroken, Killed, processEnds
<1>2. sends \in 0 .. MaxSends /\ clock \in {"unset", "set"}
  BY DEF Alive, Served, DataOK, TcpTypeOK, LoopOK
<1>3. /\ Agrees(comm')
      /\ \A fd \in Fd : /\ comm'.table[fd] = NoFde /\ comm'.kernel[fd] = {}
                        /\ sock'[fd] = Nobody
  <2> HIDE DEF NoFde
  <2>1. QED BY <1>1, CommInitAgrees
<1>4. DOMAIN backlog' = {} /\ Range(backlog') = {} /\ DOMAIN batch' = {}
  BY <1>1 DEF Range
<1>5. ConnFd \subseteq Fd /\ ListenFd \in Fd /\ Nobody \notin Conns /\ Biggest_FD \in Nat
      /\ Nobody # Listener
  BY FdFacts
<1>6. TypeOK'
  <2>1. 0 \in Overdue .. LongestTimeout
    BY TimeoutFacts DEF Overdue
  <2>2. TcpTypeOK'
    BY <1>1, <1>2, EmptySeq DEF TcpTypeOK
  <2>3. comm' \in CommRecord
    BY <1>3 DEF Agrees
  <2>4. QED BY <1>1, <1>2, <1>5, <2>1, <2>2, <2>3, EmptySeq DEF TypeOK, CommRecord
<1>7. RegistrationAgrees'
  BY <1>3 DEF RegistrationAgrees, Agrees
<1>8. \A c \in Conns : ~IsOpen(c)'
  BY <1>3, <1>5 DEF IsOpen
<1>9. EntryOwnsStat'
  BY <1>1, <1>3, <1>5, <1>8 DEF EntryOwnsStat
<1>10. PlacedOnce'
  BY <1>1, <1>4, <1>8 DEF PlacedOnce, Connected
<1>11. HandlersInTurn'
  BY <1>1, <1>3, <1>5 DEF HandlersInTurn
<1>12. BatchSound'
  BY <1>1, <1>4 DEF BatchSound
<1>13. TimersKept'
  <2>1. \A fd \in ConnFd : comm'.table[fd].timeout = -1
    BY <1>3, <1>5, NoFdeFacts DEF NoTimeout
  <2>2. QED BY <1>1, <2>1 DEF TimersKept
<1>14. QED BY <1>1, <1>6, <1>7, <1>9, <1>10, <1>11, <1>12, <1>13 DEF TableSound

LEMMA AliveIsSound == TableSound /\ pc # "killed" <=> Alive
BY ServedIsSound DEF Alive

LEMMA AliveIsSoundNext == (TableSound /\ pc # "killed" <=> Alive)'
BY AliveIsSound, PTL

LEMMA AliveStutters == ASSUME Alive, UNCHANGED vars
                       PROVE  Alive'
<1>1. UNCHANGED <<comm, tcp, heap, reply, loop, timers>>
  BY DEF vars
<1>2. Served'
  BY <1>1, ServedUnchanged DEF Alive
<1>3. LoopOK' /\ BatchSound' /\ TimersKept' /\ pc' = pc
  BY <1>1 DEF Alive, LoopOK, BatchSound, TimersKept, loop, timers, tcp, Hung
<1>4. QED BY <1>2, <1>3 DEF Alive

\* A step of a server that lives.
LEMMA AliveStep == Alive /\ [Next]_vars => Alive' \/ (CallWriteBroken /\ TableSound' /\ pc' = "killed")
BY CallReadKeeps, CallWriteKeeps, ScanFdKeeps, SelectKeeps, WaitEmptyKeeps, WaitReturnsKeeps,
   TickKeeps, RoundEndKeeps, ClientsKeep, BrokenEnds, AliveStutters DEF Next, Loop

\* One that was killed takes no more.
LEMMA KilledStays == TableSound /\ pc = "killed" /\ [Next]_vars => UNCHANGED vars
BY DEF Next, Loop, Clients, Observed, Tick, SelectChecks, SelectSkips, ScanFd, WaitReturns,
       WaitEmpty, CallRead, CallWrite, CallWriteBroken, RoundEnd

LEMMA SoundStutters == ASSUME TableSound, UNCHANGED vars
                       PROVE  TableSound'
<1>1. UNCHANGED <<comm, sock, backlog, peer, inbox, room, sends, heap, reply,
                  pc, scan, batch, since, lag, clock, left, blind>>
  BY DEF vars, tcp, loop, timers
<1>2. TypeOK' /\ RegistrationAgrees'
  BY <1>1 DEF TableSound, TypeOK, TcpTypeOK, RegistrationAgrees
<1>3. EntryOwnsStat' /\ PlacedOnce' /\ HandlersInTurn'
  BY <1>1 DEF TableSound, EntryOwnsStat, PlacedOnce, HandlersInTurn, IsOpen, Connected
<1>4. BatchSound' /\ TimersKept'
  BY <1>1 DEF TableSound, BatchSound, TimersKept, Hung
<1>5. QED BY <1>2, <1>3, <1>4 DEF TableSound

\* Between any two system calls of the server and its clients, the descriptor
\* table, epoll_state, epoll_fds, the kernel, the heap, the events fetched and
\* the timers agree.
THEOREM TableStaysSound == Spec => []TableSound
<1>1. Init => TableSound
  BY InitAlive, AliveIsSound
<1>2. TableSound /\ [Next]_vars => TableSound'
  <2>1. CASE pc = "killed"
    BY <2>1, KilledStays, SoundStutters
  <2>2. CASE pc # "killed"
    BY <2>2, AliveIsSound, AliveIsSoundNext, AliveStep
  <2>3. QED BY <2>1, <2>2
<1>3. QED BY <1>1, <1>2, PTL DEF Spec

\* No event reaches a connection that it was not reported for, although
\* descriptors are closed and used again while events wait.
THEOREM EventsNeverStale == Spec => []NoStaleEvent
<1>1. TableSound => NoStaleEvent
  BY DEF TableSound, BatchSound, NoStaleEvent
<1>2. QED BY <1>1, TableStaysSound, PTL

\* Timers expire in time, and not before, whatever the timeouts.
THEOREM TimersStayPunctual == Spec => []TimersPunctual
<1>1. TableSound => TimersPunctual
  <2> SUFFICES ASSUME TableSound, NEW fd \in ConnFd, comm.table[fd].timeout # NoTimeout
               PROVE  left[fd] >= -1 /\ (Expired(fd) /\ fd \notin blind => left[fd] <= 1)
    BY DEF TimersPunctual
  <2> DEFINE t == comm.table[fd].timeout
  <2>1. /\ t \in NoTimeout .. LongestTimeout /\ left[fd] \in Overdue .. LongestTimeout
        /\ LongestTimeout \in Nat /\ NoTimeout = -1 /\ Overdue = -3
        /\ lag \in 0 .. 1 /\ clock \in {"unset", "set"}
    <3>1. fd \in Fd
      BY FdFacts
    <3>2. comm.table[fd] \in Entry /\ left \in [Fd -> Overdue .. LongestTimeout]
          /\ lag \in 0 .. 1 /\ clock \in {"unset", "set"}
      BY <3>1 DEF TableSound, TypeOK
    <3>3. QED BY <3>1, <3>2, TimeoutFacts DEF Entry, NoTimeout, Overdue
  <2>2. /\ t > 0 /\ clock = "set" => left[fd] - (t - lag) \in {0, 1}
        /\ t > 0 /\ clock = "unset" => left[fd] = t
        /\ t = 0 => left[fd] >= -1 /\ (fd \notin blind => left[fd] <= 1)
    BY DEF TableSound, TimersKept
  <2> HIDE DEF t
  <2>3. t # NoTimeout
    BY DEF t
  <2>4. left[fd] >= -1 /\ (t = 0 /\ fd \notin blind => left[fd] <= 1)
    BY <2>1, <2>2, <2>3
  <2>5. QED BY <2>4 DEF t, Expired
<1>2. QED BY <1>1, TableStaysSound, PTL

\* While a reply waits its connection is registered for writing, and only a
\* reset has it read.
LEMMA ReadAfterReply ==
  ASSUME Alive, Next, NEW c \in reply, inbox[c] # "none", inbox'[c] = "none"
  PROVE  peer'[c] \in {"gone", "reset", "broken"}
<1>1. /\ Served /\ LoopOK /\ BatchSound /\ DataOK /\ c \in Conns /\ IsOpen(c)
  BY DEF Alive, Served, DataOK, StatsOfOpen
<1>2. /\ peer \in [Conns -> {"none", "open", "fin", "reset", "broken", "gone"}]
      /\ inbox \in [Conns -> {"text", "quit", "none"}]
  BY <1>1, ConnTypes
<1>3. ASSUME NEW fd \in Fd, sock[fd] \in Conns, Forget(fd)
      PROVE  peer'[c] \in {"gone", "reset", "broken"}
  <2>1. /\ peer' = [peer EXCEPT ![sock[fd]] = "gone"]
        /\ inbox' = [inbox EXCEPT ![sock[fd]] = "none"]
    BY <1>3 DEF Forget, close
  <2>2. sock[fd] = c
    BY <1>1, <1>2, <2>1
  <2>3. QED BY <1>1, <1>2, <2>1, <2>2
<1>4. CASE Clients
  <2>1. PICK d \in Conns : Connect(d) \/ Fin(d) \/ Reset(d) \/ Drain(d)
                           \/ \E message \in Messages : Send(d, message)
    BY <1>4 DEF Clients, ClientStep
  <2>2. inbox' # inbox => \E message \in Messages : Send(d, message)
    BY <2>1 DEF Connect, Fin, Reset, Drain
  <2>3. "none" \notin Messages
    BY TcpAssumption
  <2>4. ASSUME NEW message \in Messages, Send(d, message)
        PROVE  inbox'[c] # "none"
    BY <1>1, <1>2, <2>3, <2>4 DEF Send
  <2>5. QED BY <2>2, <2>4
<1>5. CASE CallRead
  <2> DEFINE fd == Head(batch).fd
             F == comm.table[fd]
  <2>1. batch # <<>> /\ batch \in Seq(Event) /\ pc = "dispatch"
    BY <1>1, <1>5 DEF LoopOK, CallRead
  <2>2. Head(batch) \in Event /\ Head(batch) = batch[1] /\ 1 \in DOMAIN batch
    BY <2>1, HeadAndTail
  <2>3. fd \in Fd
    BY <2>2 DEF Event
  <2>4. CallsRead
    BY <1>5 DEF CallRead, tcp
  <2>5. CASE F.rh = "accept" /\ accept_connection(fd, F.rd)
    BY <2>5 DEF accept_connection, accept, tcp
  <2>6. CASE F.rh = "echo" /\ do_echo_handler(fd, F.rd)
    <3>1. fd \in ConnFd /\ sock[fd] \in Conns
      BY <1>1, <2>3, <2>6, WhichFd
    <3>2. CASE readData(sock[fd])
      <4>1. peer' = peer /\ inbox' = [inbox EXCEPT ![sock[fd]] = "none"]
        BY <3>2 DEF readData
      <4>2. sock[fd] = c
        BY <1>1, <1>2, <4>1
      <4>3. comm.kernel[fd] = {"OUT"}
        BY <1>1, <3>1, <4>2, FdFacts DEF Served, ConnEntries, EntryRight
      <4>4. Head(batch).ev \subseteq {"OUT", "HUP"} /\ Head(batch).ev \ {"OUT"} # {}
        BY <1>1, <2>1, <2>2, <2>4, <4>3 DEF BatchSound, CallsRead
      <4>5. "HUP" \in Head(batch).ev
        BY <4>4
      <4>6. Hung(c)
        BY <1>1, <2>2, <3>1, <4>2, <4>5, FdFacts DEF BatchSound
      <4>7. QED BY <4>1, <4>6 DEF Hung
    <3>3. CASE CloseAndFree(fd, F.rd)
      BY <1>3, <2>3, <3>1, <3>3 DEF CloseAndFree
    <3>4. CASE CallFails(sock[fd])
      BY <3>4 DEF CallFails, callFails
    <3>5. QED BY <2>6, <3>2, <3>3, <3>4 DEF do_echo_handler
  <2>7. QED BY <1>5, <2>4, <2>5, <2>6 DEF CallRead
<1>6. CASE CallWrite
  BY <1>6 DEF CallWrite, do_welcome_handler, do_echo_response, CallFails, callFails,
              writeAll, writeShort, tcp
<1>7. CASE CallWriteBroken
  BY <1>1, <1>7 DEF CallWriteBroken, Killed, processEnds
<1>8. CASE ScanFd
  <2>1. scan < Biggest_FD /\ Expired(scan) /\ Forget(scan)
    BY <1>8 DEF ScanFd, do_echo_timeout, CloseAndFree, tcp
  <2>2. scan \in Fd
    BY <1>1, <2>1, FdFacts DEF LoopOK, Fd
  <2>3. sock[scan] \in Conns
    BY <1>1, <2>1, <2>2, WhichFd DEF Expired, NoTimeout
  <2>4. QED BY <1>3, <2>1, <2>2, <2>3
<1>9. ~(SelectChecks \/ SelectSkips \/ WaitReturns \/ WaitEmpty \/ RoundEnd \/ Tick)
  BY DEF SelectChecks, SelectSkips, WaitReturns, WaitEmpty, RoundEnd, Tick, tcp
<1>10. QED BY <1>4, <1>5, <1>6, <1>7, <1>8, <1>9 DEF Next, Loop

THEOREM RepliesBeforeReads == Spec => ReplyBeforeNextRead
<1>1. TableSound /\ [Next]_vars =>
        [\A c \in reply : inbox[c] # "none" /\ inbox'[c] = "none"
                           => peer'[c] \in {"gone", "reset", "broken"}]_vars
  <2> SUFFICES ASSUME TableSound, [Next]_vars, ~UNCHANGED vars
               PROVE  \A c \in reply : inbox[c] # "none" /\ inbox'[c] = "none"
                                        => peer'[c] \in {"gone", "reset", "broken"}
    OBVIOUS
  <2>1. pc # "killed"
    BY KilledStays
  <2>2. Alive
    BY <2>1, AliveIsSound
  <2>3. QED BY <2>2, ReadAfterReply
<1>2. QED BY <1>1, TableStaysSound, PTL DEF Spec, ReplyBeforeNextRead

-------------------------------------------------------------------------------
(* EchoServer implements EchoSession.                                      *)

\* The stage of a connection with a descriptor.
StageAt(F, ev) == IF F.rh = NoHandler /\ ev = {"OUT"} THEN "greeting"
                  ELSE IF ev = {"IN"} THEN "reading" ELSE "replying"

StagesByFd ==
  /\ \A c \in Conns : \A fd \in ConnFd :
       sock[fd] = c => StageOf(c) = StageAt(comm.table[fd], comm.kernel[fd])
  /\ \A c \in Conns : ~IsOpen(c) =>
       StageOf(c) = IF peer[c] = "gone" THEN "closed" ELSE "absent"

LEMMA StageIs == Served => StagesByFd
<1> SUFFICES ASSUME Served
             PROVE  StagesByFd
  OBVIOUS
<1>1. ASSUME NEW c \in Conns, NEW fd \in ConnFd, sock[fd] = c
      PROVE  StageOf(c) = StageAt(comm.table[fd], comm.kernel[fd])
  <2>1. IsOpen(c)
    BY <1>1 DEF IsOpen
  <2>2. peer[c] # "gone"
    BY <2>1 DEF Served, PlacedOnce, Connected
  <2>3. \A f \in ConnFd : sock[f] = c => f = fd
    BY <1>1, FdFacts DEF Served, OneFdEach
  <2>4. (CHOOSE f \in ConnFd : sock[f] = c) = fd
    BY <1>1, <2>3
  <2>5. comm.state = comm.kernel
    BY DEF Served, Agrees
  <2>6. QED BY <2>1, <2>2, <2>4, <2>5 DEF StageOf, StageAt
<1>2. ASSUME NEW c \in Conns, ~IsOpen(c)
      PROVE  StageOf(c) = IF peer[c] = "gone" THEN "closed" ELSE "absent"
  BY <1>2 DEF StageOf
<1>3. QED BY <1>1, <1>2 DEF StagesByFd

LEMMA StageIsNext == (Served => StagesByFd)'
BY StageIs, PTL

\* Connections whose descriptor and end are the same are at the stage they were.
LEMMA StageStays ==
  ASSUME Served, Served', NEW c \in Conns,
         \A fd \in ConnFd : sock'[fd] = c <=> sock[fd] = c,
         \A fd \in ConnFd : sock[fd] = c => /\ comm'.table[fd].rh = comm.table[fd].rh
                                            /\ comm'.kernel[fd] = comm.kernel[fd],
         peer'[c] = "gone" <=> peer[c] = "gone"
  PROVE  StageOf(c)' = StageOf(c)
<1>1. StagesByFd /\ StagesByFd'
  BY StageIs, StageIsNext
<1>2. CASE IsOpen(c)
  <2>1. PICK fd \in ConnFd : sock[fd] = c
    BY <1>2 DEF IsOpen
  <2>2. StageOf(c) = StageAt(comm.table[fd], comm.kernel[fd])
        /\ StageOf(c)' = StageAt(comm'.table[fd], comm'.kernel[fd])
    BY <1>1, <2>1 DEF StagesByFd
  <2>3. QED BY <2>1, <2>2 DEF StageAt
<1>3. CASE ~IsOpen(c)
  <2>1. ~IsOpen(c)'
    BY <1>3 DEF IsOpen
  <2>2. QED BY <1>1, <1>3, <2>1 DEF StagesByFd
<1>4. QED BY <1>2, <1>3

\* A handler called for the descriptor of one connection moves no other.
LEMMA OthersStay ==
  ASSUME Served, Served', NEW c \in Conns, NEW fd \in ConnFd, OnlyFd(fd),
         sock[fd] \in {c, Nobody}, sock'[fd] \in {c, Nobody},
         \A s \in Conns \ {c} : peer'[s] = peer[s]
  PROVE  \A s \in Conns \ {c} : StageOf(s)' = StageOf(s)
<1> SUFFICES ASSUME NEW s \in Conns \ {c}
             PROVE  StageOf(s)' = StageOf(s)
  OBVIOUS
<1>1. s # Nobody /\ ConnFd \subseteq Fd
  BY FdFacts
<1>2. /\ \A f \in ConnFd : sock'[f] = s <=> sock[f] = s
      /\ \A f \in ConnFd : sock[f] = s => /\ comm'.table[f].rh = comm.table[f].rh
                                          /\ comm'.kernel[f] = comm.kernel[f]
  BY <1>1 DEF OnlyFd
<1>3. QED BY <1>2, StageStays

LEMMA MoveFacts ==
  ASSUME NEW c \in Conns, NEW from, NEW to, StageOf(c) \in from, StageOf(c)' = to,
         \A s \in Conns \ {c} : StageOf(s)' = StageOf(s)
  PROVE  Session!Move(c, from, to)
BY DEF Session!Move

LEMMA StageUnchanged ==
  ASSUME \A s \in Conns : StageOf(s)' = StageOf(s)
  PROVE  Session!Next \/ UNCHANGED [c \in Conns |-> StageOf(c)]
OBVIOUS

LEMMA CommUnchanged ==
  ASSUME Served, UNCHANGED <<comm, sock>>,
         \A c \in Conns : peer'[c] = "gone" <=> peer[c] = "gone", Served'
  PROVE  \A s \in Conns : StageOf(s)' = StageOf(s)
BY StageStays

\* What a close does to its connection.
LEMMA CloseMoves ==
  ASSUME Served, NEW fd \in ConnFd, sock[fd] \in Conns, CloseAndFree(fd, sock[fd])
  PROVE  \E c \in Conns : Session!Close(c)
<1>1. PICK c \in Conns : c = sock[fd]
  OBVIOUS
<1>2. Served' /\ Handled(fd)
  BY CloseStep
<1>3. peer' = [peer EXCEPT ![c] = "gone"] /\ sock' = [sock EXCEPT ![fd] = Nobody]
      /\ peer \in [Conns -> {"none", "open", "fin", "reset", "broken", "gone"}]
      /\ sock \in [Fd -> Conns \cup {Nobody, Listener}] /\ fd \in Fd
  BY <1>1, ConnTypes, FdFacts DEF CloseAndFree, Forget, close, Served
<1>4. \A s \in Conns \ {c} : StageOf(s)' = StageOf(s)
  BY <1>1, <1>2, <1>3, OthersStay DEF Handled
<1>5. StageOf(c) \in {"greeting", "reading", "replying"}
  BY <1>1, StageIs DEF StagesByFd, StageAt
<1>6. StageOf(c)' = "closed"
  BY <1>3 DEF StageOf
<1>7. QED BY <1>4, <1>5, <1>6, MoveFacts DEF Session!Close

\* What a handler that leaves the connection open does to it.
LEMMA ServeMoves ==
  ASSUME Served, Served', NEW fd \in ConnFd, sock[fd] \in Conns, OnlyFd(fd),
         UNCHANGED <<sock, peer>>
  PROVE  /\ StageOf(sock[fd]) = StageAt(comm.table[fd], comm.kernel[fd])
         /\ StageOf(sock[fd])' = StageAt(comm'.table[fd], comm'.kernel[fd])
         /\ \A s \in Conns \ {sock[fd]} : StageOf(s)' = StageOf(s)
<1>1. PICK c \in Conns : c = sock[fd]
  OBVIOUS
<1>2. StageOf(c) = StageAt(comm.table[fd], comm.kernel[fd])
      /\ StageOf(c)' = StageAt(comm'.table[fd], comm'.kernel[fd])
  BY <1>1, StageIs, StageIsNext DEF StagesByFd
<1>3. \A s \in Conns \ {c} : StageOf(s)' = StageOf(s)
  BY <1>1, OthersStay
<1>4. QED BY <1>1, <1>2, <1>3 DEF StageOf, IsOpen

\* Entry and registration after a handler has set the next.
LEMMA NextRead ==
  ASSUME Served, NEW fd \in ConnFd, sock[fd] \in Conns,
         SetTimeout(commUpdateReadHandler(comm, fd, "echo", sock[fd]),
                    fd, EchoTimeout, sock[fd])
  PROVE  comm'.table[fd].rh = "echo" /\ comm'.kernel[fd] = {"IN"}
<1>1. fd \in Fd /\ EchoTimeout \in 1 .. LongestTimeout /\ Agrees(comm)
  BY FdFacts, TimeoutFacts DEF Served
<1>2. \A stat \in Conns, seconds \in 1 .. LongestTimeout :
        LET e == commSetTimeout(commUpdateReadHandler(comm, fd, "echo", stat),
                                fd, seconds, "timeout", stat)
            G == [comm.table[fd] EXCEPT !.rh = "echo", !.rd = stat, !.th = "timeout",
                                        !.td = stat, !.timeout = seconds]
        IN  /\ Agrees(e) /\ G \in Entry /\ e.table = [comm.table EXCEPT ![fd] = G]
            /\ e.kernel = [comm.kernel EXCEPT ![fd] = {"IN"}]
  BY <1>1, ServeRead
<1>3. comm' = commSetTimeout(commUpdateReadHandler(comm, fd, "echo", sock[fd]),
                             fd, EchoTimeout, "timeout", sock[fd])
  BY DEF SetTimeout
<1> DEFINE e == commSetTimeout(commUpdateReadHandler(comm, fd, "echo", sock[fd]),
                               fd, EchoTimeout, "timeout", sock[fd])
           G == [comm.table[fd] EXCEPT !.rh = "echo", !.rd = sock[fd], !.th = "timeout",
                                       !.td = sock[fd], !.timeout = EchoTimeout]
<1>4. /\ e.table = [comm.table EXCEPT ![fd] = G]
      /\ e.kernel = [comm.kernel EXCEPT ![fd] = {"IN"}]
  BY <1>1, <1>2
<1>5. comm.table \in [Fd -> Entry] /\ comm.kernel \in [Fd -> Watched]
      /\ comm.table[fd] \in Entry
  BY <1>1 DEF Agrees, CommRecord
<1>6. G.rh = "echo"
  BY <1>5 DEF Entry
<1> HIDE DEF e, G
<1>7. e.table[fd] = G /\ e.kernel[fd] = {"IN"}
  BY <1>1, <1>4, <1>5
<1>8. comm' = e
  BY <1>3 DEF e
<1>9. QED BY <1>6, <1>7, <1>8

LEMMA NextWrite ==
  ASSUME Served, NEW fd \in ConnFd, NEW stat \in Conns, NEW handler \in {"welcome", "response"},
         NEW seconds \in 1 .. LongestTimeout,
         SetTimeout(commUpdateWriteHandler(comm, fd, handler, stat), fd, seconds, stat)
  PROVE  comm'.table[fd].rh = comm.table[fd].rh /\ comm'.kernel[fd] = {"OUT"}
<1>1. fd \in Fd /\ Agrees(comm)
  BY FdFacts DEF Served
<1> DEFINE e == commSetTimeout(commUpdateWriteHandler(comm, fd, handler, stat),
                               fd, seconds, "timeout", stat)
           G == [comm.table[fd] EXCEPT !.wh = handler, !.wd = stat, !.th = "timeout",
                                       !.td = stat, !.timeout = seconds]
<1>2. /\ e.table = [comm.table EXCEPT ![fd] = G]
      /\ e.kernel = [comm.kernel EXCEPT ![fd] = {"OUT"}]
  <2>1. \A s \in Conns, h \in {"welcome", "response"}, t \in 1 .. LongestTimeout :
          LET d == commSetTimeout(commUpdateWriteHandler(comm, fd, h, s), fd, t, "timeout", s)
              F == [comm.table[fd] EXCEPT !.wh = h, !.wd = s, !.th = "timeout",
                                          !.td = s, !.timeout = t]
          IN  /\ Agrees(d) /\ F \in Entry /\ d.table = [comm.table EXCEPT ![fd] = F]
              /\ d.kernel = [comm.kernel EXCEPT ![fd] = {"OUT"}]
    BY <1>1, ServeWrite
  <2>2. CASE handler = "welcome"
    BY <2>1, <2>2
  <2>3. CASE handler = "response"
    BY <2>1, <2>3
  <2>4. QED BY <2>2, <2>3
<1>3. comm.table \in [Fd -> Entry] /\ comm.kernel \in [Fd -> Watched]
      /\ comm.table[fd] \in Entry
  BY <1>1 DEF Agrees, CommRecord
<1>4. G.rh = comm.table[fd].rh
  BY <1>3 DEF Entry
<1>5. comm' = e
  BY DEF SetTimeout
<1> HIDE DEF e, G
<1>6. e.table[fd] = G /\ e.kernel[fd] = {"OUT"}
  BY <1>1, <1>2, <1>3
<1>7. QED BY <1>4, <1>5, <1>6

SessionStep == Session!Next \/ UNCHANGED [c \in Conns |-> StageOf(c)]

LEMMA ReadMoves == Alive /\ CallRead => SessionStep
<1> SUFFICES ASSUME Alive, CallRead
             PROVE  SessionStep
  OBVIOUS
<1> DEFINE fd == Head(batch).fd
           F == comm.table[fd]
<1>1. /\ Served /\ Served' /\ DataOK /\ batch # <<>> /\ batch \in Seq(Event)
      /\ backlog \in Seq(Conns)
  BY CallReadKeeps DEF Alive, LoopOK, CallRead, Served, DataOK, TcpTypeOK
<1>2. Head(batch) \in Event /\ Head(batch) = batch[1] /\ 1 \in DOMAIN batch
  BY <1>1, HeadAndTail
<1>3. fd \in Fd /\ pc = "dispatch"
  BY <1>2 DEF Event, CallRead
<1>4. CASE UNCHANGED <<comm, tcp, heap, reply, timers>>
  BY <1>1, <1>4, CommUnchanged, StageUnchanged DEF tcp, SessionStep
<1>5. CASE CallsRead /\ F.rh = "accept" /\ accept_connection(fd, F.rd)
           /\ ~UNCHANGED <<comm, tcp, heap, reply, timers>>
  <2>1. fd = ListenFd
    BY <1>1, <1>3, <1>5, WhichFd
  <2>2. backlog # <<>>
    BY <1>2, <1>3, <2>1 DEF Alive, BatchSound
  <2>3. FreeFd # {}
    BY <1>5 DEF accept_connection
  <2> DEFINE new_fd == Min(FreeFd)
  <2>4. PICK f \in ConnFd : f = new_fd /\ sock[f] = Nobody
    <3>1. FreeFd \in SUBSET Nat
      BY FdFacts DEF FreeFd
    <3>2. Min(FreeFd) \in FreeFd
      BY <2>3, <3>1, MinFacts
    <3>3. QED BY <3>2 DEF FreeFd
  <2>5. PICK c \in Conns : c = Head(backlog)
    BY <1>1, <2>2, HeadAndTail
  <2>6. /\ sock' = [sock EXCEPT ![f] = c] /\ peer' = peer
        /\ SetTimeout(commUpdateWriteHandler(comm, f, "welcome", c), f, GreetTimeout, c)
    BY <1>5, <2>3, <2>4, <2>5 DEF accept_connection, accept, Returned
  <2>7. GreetTimeout \in 1 .. LongestTimeout /\ f \in Fd
        /\ sock \in [Fd -> Conns \cup {Nobody, Listener}] /\ Nobody \notin Conns
    BY <1>1, TimeoutFacts, FdFacts, ConnTypes
  <2>8. comm'.table[f].rh = NoHandler /\ comm'.kernel[f] = {"OUT"}
    <3>1. comm.table[f].rh = NoHandler
      BY <1>1, <2>4, NoFdeFacts DEF Served, ConnEntries, EntryRight
    <3>2. comm' = commSetTimeout(commUpdateWriteHandler(comm, f, "welcome", c),
                                 f, GreetTimeout, "timeout", c)
      BY <2>6 DEF SetTimeout
    <3>3. QED BY <1>1, <2>6, <2>7, <3>1, NextWrite
  <2>9. ~IsOpen(c) /\ peer[c] # "gone"
    <3>1. c \in Range(backlog)
      BY <1>1, <2>2, <2>5, HeadAndTail DEF Range
    <3>2. QED BY <1>1, <3>1 DEF Served, PlacedOnce, Connected
  <2>10. StageOf(c) = "absent"
    BY <1>1, <2>9, StageIs DEF StagesByFd
  <2>11. StageOf(c)' = "greeting"
    BY <1>1, <2>6, <2>7, <2>8, StageIsNext DEF StagesByFd, StageAt
  <2>12. OnlyFd(f)
    <3>1. PICK g \in ConnFd : sock[g] = Nobody /\ sock'[g] \in Conns /\ OnlyFd(g)
      BY <1>1, <1>5, <2>2, Accept DEF Accepted
    <3>2. f = g
      BY <2>4, <2>6, <2>7, <3>1, FdFacts
    <3>3. QED BY <3>1, <3>2
  <2>13. \A s \in Conns \ {c} : StageOf(s)' = StageOf(s)
    BY <1>1, <2>4, <2>6, <2>7, <2>12, OthersStay
  <2>14. QED BY <2>10, <2>11, <2>13, MoveFacts DEF SessionStep, Session!Next, Session!Accept
<1>6. CASE F.rh = "echo" /\ do_echo_handler(fd, F.rd)
  <2>1. fd \in ConnFd /\ sock[fd] \in Conns
    BY <1>1, <1>3, <1>6, WhichFd
  <2>2. EntryRight(F, comm.kernel[fd], sock[fd], sock[fd] \in reply) /\ sock[fd] # Nobody
        /\ comm.kernel[fd] \in Watched
    BY <1>1, <1>3, <2>1, FdFacts DEF Served, ConnEntries, Agrees, CommRecord
  <2>3. F.rd = sock[fd] /\ comm.kernel[fd] \in {{"IN"}, {"OUT"}}
    BY <1>6, <2>2 DEF EntryRight, NoHandler, Watched
  <2>4. CASE CloseAndFree(fd, sock[fd])
    BY <1>1, <2>1, <2>4, CloseMoves DEF SessionStep, Session!Next
  <2>5. CASE CallFails(sock[fd])
    <3>1. peer' = [peer EXCEPT ![sock[fd]] = IF @ = "reset" THEN "broken" ELSE @]
          /\ UNCHANGED <<comm, sock>>
      BY <2>5 DEF CallFails, callFails
    <3>2. \A c \in Conns : peer'[c] = "gone" <=> peer[c] = "gone"
      BY <1>1, <3>1, ConnTypes
    <3>3. QED BY <1>1, <3>1, <3>2, CommUnchanged, StageUnchanged DEF SessionStep
  <2>6. CASE readData(sock[fd])
             /\ SetTimeout(commUpdateWriteHandler(comm, fd, "response", sock[fd]),
                           fd, EchoTimeout, sock[fd])
    <3>1. UNCHANGED <<sock, peer>>
      BY <2>6 DEF readData
    <3>2. comm'.table[fd].rh = "echo" /\ comm'.kernel[fd] = {"OUT"}
      <4>1. EchoTimeout \in 1 .. LongestTimeout
        BY TimeoutFacts
      <4>2. comm' = commSetTimeout(commUpdateWriteHandler(comm, fd, "response", sock[fd]),
                                   fd, EchoTimeout, "timeout", sock[fd])
        BY <2>6 DEF SetTimeout
      <4>3. QED BY <1>1, <1>6, <2>1, <2>6, <4>1, NextWrite
    <3>3. OnlyFd(fd)
      BY <1>1, <1>6, <2>1, Echo DEF Handled
    <3>4. PICK c \in Conns : c = sock[fd]
      BY <2>1
    <3>5. /\ StageOf(c) = StageAt(F, comm.kernel[fd]) /\ StageOf(c)' = "replying"
          /\ \A s \in Conns \ {c} : StageOf(s)' = StageOf(s)
      <4>1. StagesByFd /\ StagesByFd'
        BY <1>1, StageIs, StageIsNext
      <4>2. StageOf(c)' = "replying"
        BY <2>1, <3>1, <3>2, <3>4, <4>1 DEF StagesByFd, StageAt, NoHandler
      <4>3. QED BY <1>1, <2>1, <3>1, <3>3, <3>4, <4>1, <4>2, OthersStay DEF StagesByFd
    <3>6. CASE comm.kernel[fd] = {"IN"}
      <4>1. StageOf(c) = "reading"
        BY <3>5, <3>6 DEF StageAt
      <4>2. QED BY <3>5, <4>1, MoveFacts DEF SessionStep, Session!Next, Session!Read
    <3>7. CASE comm.kernel[fd] = {"OUT"}
      <4>1. StageOf(c) = "replying"
        BY <1>6, <3>5, <3>7 DEF StageAt, NoHandler
      <4>2. \A s \in Conns : StageOf(s)' = StageOf(s)
        BY <3>5, <4>1
      <4>3. QED BY <4>2, StageUnchanged DEF SessionStep
    <3>8. QED BY <2>3, <3>6, <3>7
  <2>7. QED BY <1>6, <2>3, <2>4, <2>5, <2>6 DEF do_echo_handler
<1>7. QED BY <1>4, <1>5, <1>6 DEF CallRead

LEMMA WriteMoves == Alive /\ CallWrite => SessionStep
<1> SUFFICES ASSUME Alive, CallWrite
             PROVE  SessionStep
  OBVIOUS
<1> DEFINE fd == Head(batch).fd
           F == comm.table[fd]
<1>1. /\ Served /\ Served' /\ DataOK /\ batch # <<>> /\ batch \in Seq(Event) /\ pc = "write"
  BY CallWriteKeeps DEF Alive, LoopOK, CallWrite, Served, BatchSound
<1>2. Head(batch) \in Event /\ Head(batch) = batch[1] /\ 1 \in DOMAIN batch
  BY <1>1, HeadAndTail
<1>3. fd \in Fd /\ Head(batch).ev \in Reported
  BY <1>2 DEF Event
<1>4. CASE UNCHANGED <<comm, tcp, heap, reply, timers>>
  BY <1>1, <1>4, CommUnchanged, StageUnchanged DEF tcp, SessionStep
<1>5. ASSUME CallsWrite,
             \/ F.wh = "welcome" /\ do_welcome_handler(fd, F.wd)
             \/ F.wh = "response" /\ do_echo_response(fd, F.wd)
      PROVE  SessionStep
  <2>1. fd \in ConnFd /\ sock[fd] \in Conns
    BY <1>1, <1>3, <1>5, WhichFd DEF NoHandler
  <2>2. EntryRight(F, comm.kernel[fd], sock[fd], sock[fd] \in reply) /\ sock[fd] # Nobody
        /\ comm.kernel[fd] \in Watched
    BY <1>1, <1>3, <2>1, FdFacts DEF Served, ConnEntries, Agrees, CommRecord
  <2>3. F.wd = sock[fd]
    BY <2>2 DEF EntryRight
  <2>4. CASE CallFails(sock[fd])
    <3>1. peer' = [peer EXCEPT ![sock[fd]] = IF @ = "reset" THEN "broken" ELSE @]
          /\ UNCHANGED <<comm, sock>>
      BY <2>4 DEF CallFails, callFails
    <3>2. \A c \in Conns : peer'[c] = "gone" <=> peer[c] = "gone"
      BY <1>1, <3>1, ConnTypes
    <3>3. QED BY <1>1, <3>1, <3>2, CommUnchanged, StageUnchanged DEF SessionStep
  <2>5. CASE writeShort(sock[fd]) /\ UNCHANGED <<comm, heap, reply, timers>>
    BY <1>1, <2>5, CommUnchanged, StageUnchanged DEF writeShort, SessionStep
  <2>6. CASE Writes(sock[fd]) /\ writeAll(sock[fd])
             /\ SetTimeout(commUpdateReadHandler(comm, fd, "echo", sock[fd]),
                           fd, EchoTimeout, sock[fd])
    <3>1. UNCHANGED <<sock, peer>> /\ ~Hung(sock[fd])
      BY <2>6 DEF writeAll, Writes, Hung
    <3>2. comm'.table[fd].rh = "echo" /\ comm'.kernel[fd] = {"IN"}
      BY <1>1, <2>1, <2>6, NextRead
    <3>3. OnlyFd(fd)
      BY <1>1, <1>5, <2>1, Welcome, Response DEF Handled
    <3>4. comm.kernel[fd] = {"OUT"}
      <4>1. "HUP" \notin Head(batch).ev
        BY <1>1, <1>2, <2>2, <3>1 DEF Alive, BatchSound
      <4>2. Head(batch).ev \ {"IN"} # {}
        BY <1>5 DEF CallsWrite
      <4>3. Head(batch).ev = {"OUT"}
        BY <1>3, <4>1, <4>2, ReportedFacts
      <4>4. QED BY <1>1, <1>2, <2>2, <4>3 DEF Alive, BatchSound
    <3>5. PICK c \in Conns : c = sock[fd]
      BY <2>1
    <3>6. StagesByFd /\ StagesByFd'
      BY <1>1, StageIs, StageIsNext
    <3>7. /\ StageOf(c) = StageAt(F, {"OUT"}) /\ StageOf(c)' = "reading"
          /\ \A s \in Conns \ {c} : StageOf(s)' = StageOf(s)
      <4>1. StageOf(c)' = "reading"
        BY <2>1, <3>1, <3>2, <3>5, <3>6 DEF StagesByFd, StageAt, NoHandler
      <4>2. QED BY ZenonT(30), <1>1, <2>1, <3>1, <3>3, <3>4, <3>5, <3>6, <4>1, OthersStay DEF StagesByFd
    <3>8. CASE F.wh = "welcome"
      <4>1. F.rh = NoHandler
        BY <2>2, <3>4, <3>8 DEF EntryRight
      <4>2. StageOf(c) = "greeting"
        BY <3>7, <4>1 DEF StageAt
      <4>3. QED BY <3>7, <4>2, MoveFacts DEF SessionStep, Session!Next, Session!Greet
    <3>9. CASE F.wh = "response"
      <4>1. F.rh = "echo"
        BY <2>2, <3>9 DEF EntryRight
      <4>2. StageOf(c) = "replying"
        BY <3>7, <4>1 DEF StageAt, NoHandler
      <4>3. QED BY <3>7, <4>2, MoveFacts DEF SessionStep, Session!Next, Session!Reply
    <3>10. QED BY <1>5, <3>8, <3>9
  <2>7. do_welcome_handler(fd, sock[fd]) \/ do_echo_response(fd, sock[fd])
    BY <1>5, <2>3
  <2>8. QED BY <2>4, <2>5, <2>6, <2>7 DEF do_welcome_handler, do_echo_response
<1>6. CASE CallsWrite
  <2>1. \/ F.wh = "welcome" /\ do_welcome_handler(fd, F.wd)
        \/ F.wh = "response" /\ do_echo_response(fd, F.wd)
    BY <1>6 DEF CallWrite
  <2>2. QED BY <1>5, <1>6, <2>1
<1>7. CASE ~CallsWrite
  <2>1. UNCHANGED <<comm, tcp, heap, reply, timers>>
    BY <1>7 DEF CallWrite
  <2>2. QED BY <1>4, <2>1
<1>8. QED BY <1>6, <1>7

LEMMA ScanMoves == Alive /\ ScanFd => SessionStep
<1> SUFFICES ASSUME Alive, ScanFd
             PROVE  SessionStep
  OBVIOUS
<1>1. Served /\ Served' /\ scan \in Nat /\ Biggest_FD \in Nat
  BY ScanFdKeeps, FdFacts DEF Alive, LoopOK
<1>2. CASE UNCHANGED <<comm, tcp, heap, reply, timers>>
  BY <1>1, <1>2, CommUnchanged, StageUnchanged DEF tcp, SessionStep
<1>3. CASE scan < Biggest_FD /\ Expired(scan)
  <2>1. scan \in Fd
    BY <1>1, <1>3 DEF Fd
  <2>2. scan \in ConnFd /\ sock[scan] \in Conns
    BY <1>1, <1>3, <2>1, WhichFd DEF Expired, NoTimeout
  <2>3. comm.table[scan].th = "timeout" /\ comm.table[scan].td = sock[scan]
    BY <1>1, <2>2, FdFacts DEF Served, ConnEntries, EntryRight
  <2>4. CloseAndFree(scan, sock[scan])
    BY <1>3, <2>3 DEF ScanFd, do_echo_timeout, NoHandler
  <2>5. QED BY <1>1, <2>2, <2>4, CloseMoves DEF SessionStep, Session!Next
<1>4. QED BY <1>2, <1>3 DEF ScanFd

LEMMA ClientsMove == Alive /\ Clients => SessionStep
<1> SUFFICES ASSUME Alive, Clients
             PROVE  SessionStep
  OBVIOUS
<1>1. Served /\ Served'
  BY ClientsKeep DEF Alive
<1>2. peer \in [Conns -> {"none", "open", "fin", "reset", "broken", "gone"}]
  BY <1>1, ConnTypes DEF Served
<1>3. PICK c \in Conns : \/ Connect(c) \/ Fin(c) \/ Reset(c) \/ Drain(c)
                         \/ \E message \in Messages : Send(c, message)
  BY DEF Clients, ClientStep
<1>4. UNCHANGED <<comm, sock>> /\ \A s \in Conns : peer'[s] = "gone" <=> peer[s] = "gone"
  BY <1>2, <1>3 DEF Clients, Connect, Fin, Reset, Drain, Send
<1>5. QED BY <1>1, <1>4, CommUnchanged, StageUnchanged DEF SessionStep

LEMMA RoundEndMoves == Alive /\ RoundEnd => SessionStep
<1> SUFFICES ASSUME Alive, RoundEnd
             PROVE  SessionStep
  OBVIOUS
<1>1. Served /\ Served' /\ Agrees(comm)
  BY RoundEndKeeps DEF Alive, Served
<1>2. PICK seconds : comm' = Elapse(comm, seconds)
  BY DEF RoundEnd
<1>3. UNCHANGED <<sock, peer>>
  BY DEF RoundEnd, tcp
<1> DEFINE T == [fd \in Fd |->
        IF comm.table[fd].timeout = NoTimeout THEN comm.table[fd]
        ELSE [comm.table[fd] EXCEPT !.timeout = IF @ > seconds THEN @ - seconds ELSE 0]]
<1>4. Elapse(comm, seconds) = [comm EXCEPT !.table = T]
  BY DEF Elapse
<1>5. \A fd \in Fd : T[fd].rh = comm.table[fd].rh
  <2>1. \A fd \in Fd : comm.table[fd] \in Entry
    BY <1>1 DEF Agrees, CommRecord
  <2>2. QED BY <2>1 DEF Entry
<1> HIDE DEF T
<1>6. comm'.table = T /\ comm'.kernel = comm.kernel
  <2>1. comm' = [comm EXCEPT !.table = T]
    BY <1>2, <1>4
  <2>2. QED BY <1>1, <2>1 DEF Agrees, CommRecord
<1>7. ASSUME NEW c \in Conns
      PROVE  StageOf(c)' = StageOf(c)
  <2>1. \A fd \in ConnFd : comm'.table[fd].rh = comm.table[fd].rh
                           /\ comm'.kernel[fd] = comm.kernel[fd]
    BY <1>5, <1>6, FdFacts
  <2>2. QED BY <1>1, <1>3, <2>1, StageStays
<1>8. QED BY <1>7, StageUnchanged DEF SessionStep

LEMMA BrokenMoves == Alive /\ CallWriteBroken => SessionStep
<1> SUFFICES ASSUME Alive, CallWriteBroken
             PROVE  SessionStep
  OBVIOUS
<1>1. /\ sock' = [fd \in Fd |-> Nobody]
      /\ peer' = [c \in Conns |-> IF IsOpen(c) \/ peer[c] = "gone" THEN "gone" ELSE "none"]
  BY DEF CallWriteBroken, Killed, processEnds
<1>2. Served
  BY DEF Alive
<1>3. ASSUME NEW c \in Conns
      PROVE  StageOf(c)' = IF StageOf(c) = "absent" THEN "absent" ELSE "closed"
  <2>1. ~IsOpen(c)'
    BY <1>1, FdFacts DEF IsOpen
  <2>2. StageOf(c)' = IF peer'[c] = "gone" THEN "closed" ELSE "absent"
    BY <2>1 DEF StageOf
  <2>3. CASE IsOpen(c)
    <3>1. PICK fd \in ConnFd : sock[fd] = c
      BY <2>3 DEF IsOpen
    <3>2. StageOf(c) # "absent"
      BY <1>2, <3>1, StageIs DEF StagesByFd, StageAt
    <3>3. QED BY <1>1, <2>2, <2>3, <3>2
  <2>4. CASE ~IsOpen(c)
    <3>1. StageOf(c) = IF peer[c] = "gone" THEN "closed" ELSE "absent"
      BY <1>2, <2>4, StageIs DEF StagesByFd
    <3>2. QED BY <1>1, <2>2, <2>4, <3>1
  <2>5. QED BY <2>3, <2>4
<1>4. Session!CloseAll
  BY <1>3 DEF Session!CloseAll
<1>5. QED BY <1>4 DEF SessionStep, Session!Next

LEMMA QuietMoves ==
  ASSUME Alive, SelectChecks \/ SelectSkips \/ WaitReturns \/ WaitEmpty \/ Tick \/ UNCHANGED vars
  PROVE  SessionStep
<1>1. UNCHANGED <<comm, sock, peer, tcp, heap, reply>>
  BY DEF SelectChecks, SelectSkips, WaitReturns, WaitEmpty, Tick, vars, tcp
<1>2. Served /\ Served'
  BY SelectKeeps, WaitReturnsKeeps, WaitEmptyKeeps, TickKeeps, AliveStutters DEF Alive
<1>3. QED BY <1>1, <1>2, CommUnchanged, StageUnchanged DEF SessionStep

\* Every run of the server is, for its clients, a run of EchoSession.
THEOREM ServerImplementsSession == Spec => ImplementsEchoSession
<1>1. Init => Session!Init
  <2> SUFFICES ASSUME Init
               PROVE  \A c \in Conns : StageOf(c) = "absent"
    BY DEF Session!Init
  <2> SUFFICES ASSUME NEW c \in Conns
               PROVE  StageOf(c) = "absent"
    OBVIOUS
  <2>1. sock = [fd \in Fd |-> IF fd = ListenFd THEN Listener ELSE Nobody]
        /\ peer = [d \in Conns |-> "none"]
    BY DEF Init, TcpInit
  <2>2. ~IsOpen(c)
    BY <2>1, FdFacts DEF IsOpen
  <2>3. QED BY <2>1, <2>2 DEF StageOf
<1>2. TableSound /\ [Next]_vars => [Session!Next]_([c \in Conns |-> StageOf(c)])
  <2> SUFFICES ASSUME TableSound, [Next]_vars
               PROVE  SessionStep
    BY DEF SessionStep
  <2>1. CASE pc = "killed"
    <3>1. UNCHANGED vars
      BY <2>1, KilledStays
    <3>2. \A c \in Conns : StageOf(c)' = StageOf(c)
      BY <3>1 DEF vars, tcp, StageOf, IsOpen
    <3>3. QED BY <3>2, StageUnchanged DEF SessionStep
  <2>2. CASE pc # "killed"
    <3>1. Alive
      BY <2>2, AliveIsSound
    <3>2. QED BY <3>1, ReadMoves, WriteMoves, ScanMoves, ClientsMove, RoundEndMoves,
                 BrokenMoves, QuietMoves DEF Next, Loop
  <2>3. QED BY <2>1, <2>2
<1>3. QED BY <1>1, <1>2, TableStaysSound, PTL DEF Spec, ImplementsEchoSession, Session!Spec
===============================================================================
