------------------------------- MODULE MCLarge --------------------------------
(***************************************************************************)
(* Parts whose safety is checked on instances too large for liveness: the  *)
(* memory pool, the echo server with two descriptors, evbuffers, and       *)
(* bufferevents of every kind, and further parts of libevent.  The first   *)
(* state of a behaviour says which part it is of, and the variables of the *)
(* others keep the value None.                                             *)
(***************************************************************************)
EXTENDS MemPool, TLC

CONSTANTS None, Conns, Listener

VARIABLES part,
          comm, sock, backlog, peer, inbox, room, sends, heap, reply,
          pc, scan, batch, since, lag, clock, left, blind,
          buf, outcome,
          bev, lookup, unseen,
          s1, s2, s3, s4, s5, s6

Server == INSTANCE EchoServer WITH
  Biggest_FD <- 4, ListenFd <- 1, Messages <- {"text", "quit"},
  GreetTimeout <- 1, EchoTimeout <- 1, MaxEvents <- 3, MaxSends <- 1

\* One buffer with all the ways to make room, and two that share small chains.
Inputs1 == {<<0, 1>>, <<1, 1, 0>>}
Inputs2 == {<<0, 1>>}
One == INSTANCE EvBuffer WITH
  Buffers <- {"a"}, CR <- 0, LF <- 1, Inputs <- Inputs1,
  MIN_BUFFER_SIZE <- 4, EVBUFFER_CHAIN_SIZE <- 2, MAX_AUTO_SIZE <- 4, MAX_TO_COPY <- 2,
  MAX_TO_REALIGN <- 1, NUM_READ_IOVEC <- 3, PRINTF_ROOM <- 2, MaxBytes <- 4, MaxChains <- 3
Two == INSTANCE EvBuffer WITH
  Buffers <- {"a", "b"}, CR <- 0, LF <- 1, Inputs <- Inputs2,
  MIN_BUFFER_SIZE <- 4, EVBUFFER_CHAIN_SIZE <- 2, MAX_AUTO_SIZE <- 2, MAX_TO_COPY <- 0,
  MAX_TO_REALIGN <- 1, NUM_READ_IOVEC <- 3, PRINTF_ROOM <- 1, MaxBytes <- 2, MaxChains <- 2

\* Deferred callbacks, rate limits, and bufferevents that connect.
Setup(deferred, limited, peerFirst) ==
  [deferred |-> deferred, limited |-> limited, peer |-> peerFirst]
Bev == INSTANCE BufferEvent WITH
  Setups <- {Setup(TRUE, FALSE, "open"), Setup(FALSE, TRUE, "open"),
             Setup(TRUE, FALSE, "none"), Setup(FALSE, FALSE, "none")},
  ReadMarks <- {<<0, 0>>, <<2, 2>>}, WriteMarks <- {0}, MaxBytes <- 2

(***************************************************************************)
(* The parts of src/libevent, most of them of libevent 2.1.12, that are    *)
(* checked each on its own.  s1, s2, ... hold their state.                 *)
(***************************************************************************)
\* Some backends report that the peer has closed, the others cannot.
Ev(fd, kinds, persist) == [fd |-> fd, kinds |-> kinds, persist |-> persist]
Wide == INSTANCE EvMap WITH
  Fds <- {1, 2}, QueueMax <- 2, Kernels <- {"epoll", "changelist", "poll"},
  Events <- {Ev(1, {"R"}, TRUE), Ev(1, {"R", "W"}, FALSE), Ev(2, {"W", "C"}, TRUE)},
  map <- s1, files <- s2, phase <- s3, active <- s4
Narrow == INSTANCE EvMap WITH
  Fds <- {1, 2}, QueueMax <- 2, Kernels <- {"select", "devpoll", "evport", "kqueue", "win32"},
  Events <- {Ev(1, {"R"}, TRUE), Ev(1, {"R", "W"}, FALSE), Ev(2, {"W"}, TRUE)},
  map <- s1, files <- s2, phase <- s3, active <- s4

\* One event for ever and one for once; six timers that only come and go.
Timers == INSTANCE EventTimers WITH
  NTimers <- 2, Persistent <- {1}, Watching <- {1}, Durations <- {1, 2},
  MAX_COMMON_TIMEOUTS <- 1, MaxTime <- 2, b <- s1, now <- s2, loop <- s3
Heap == INSTANCE EventTimers WITH
  NTimers <- 6, Persistent <- {}, Watching <- {}, Durations <- {1, 2},
  MAX_COMMON_TIMEOUTS <- 0, MaxTime <- 1, b <- s1, now <- s2, loop <- s3

Final == INSTANCE EventFinal WITH
  Singles <- {"x"}, Group <- {"r", "d"}, Deferred <- "d", Onces <- {"o"}, Persistent <- {"r"},
  obj <- s1, queue <- s2, later <- s3, run <- s4, other <- s5, base <- s6

Messages == INSTANCE BikeMessages WITH
  Word <- 16, MaxCalls <- 2, type <- s1, a <- s2, b <- s3, calls <- s4

Listen == INSTANCE Listener WITH
  MaxBacklog <- 2, lev <- s1, owned <- s2, loop <- s3, other <- s4, backlog <- s5

IocpListen == INSTANCE IocpListener WITH
  Sockets <- {1, 2}, lev <- s1, as <- s2, owned <- s3, loop <- s4

Pair == INSTANCE BevPair WITH
  Filter <- FALSE, CloseOnFree <- FALSE, Changing <- {"a"}, Modes <- {"finished"},
  ReadMarks <- {0, 1}, WriteHigh <- 0, MaxBytes <- 2,
  be <- s1, fin <- s2, lock <- s3, late <- s4

Filtering == INSTANCE BevPair WITH
  Filter <- TRUE, CloseOnFree <- FALSE, Changing <- {"f"}, Modes <- {"flush"},
  ReadMarks <- {1}, WriteHigh <- 1, MaxBytes <- 1,
  be <- s1, fin <- s2, lock <- s3, late <- s4

ClosingFilter == INSTANCE BevPair WITH
  Filter <- TRUE, CloseOnFree <- TRUE, Changing <- {"f"}, Modes <- {"flush"},
  ReadMarks <- {1}, WriteHigh <- 1, MaxBytes <- 1,
  be <- s1, fin <- s2, lock <- s3, late <- s4

RpcClient == INSTANCE RpcPool WITH
  Requests <- {1, 2, 3}, Conns <- {1, 2}, Timed <- TRUE, NoConn <- 0,
  pool <- s1, ctx <- s2, http <- s3

Rpc == INSTANCE RpcServer WITH
  Requests <- {1, 2}, base <- s1, rpc <- s2, http <- s3

\* SSL on sockets, and on underlying bufferevents: with marks and rate limits,
\* or without them and with another connection.
SslSetup(underlying, begin, dirty, marks, quotas, records, calls) ==
  [underlying |-> underlying, state |-> begin, dirty |-> dirty, marks |-> marks,
   quotas |-> quotas, vectors |-> {IF marks = {0} THEN 1 ELSE 2},
   records |-> records, calls |-> calls]
Ssl == INSTANCE BevOpenssl WITH
  Fresh <- <<"w", "r", "w">>, Sizes <- {1},
  Setups <- {SslSetup(FALSE, "connecting", TRUE, {2}, {0, 1, 99}, 1, 0),
             SslSetup(FALSE, "connecting", FALSE, {1}, {99}, 2, 0),
             SslSetup(FALSE, "connecting", FALSE, {0}, {1, 99}, 0, 1),
             SslSetup(FALSE, "open", FALSE, {0}, {99}, 1, 1),
             SslSetup(TRUE, "open", FALSE, {2}, {1}, 1, 0),
             SslSetup(TRUE, "connecting", TRUE, {0}, {0, 99}, 0, 0),
             SslSetup(TRUE, "connecting", TRUE, {0}, {0}, 0, 1),
             SslSetup(TRUE, "connecting", FALSE, {0}, {99}, 0, 1)},
  bev <- s1, ssl <- s2, hist <- s3, setup <- s4

-------------------------------------------------------------------------------

poolVars == <<state, blocks, current, large, chunks, freed, given>>
echoVars == <<comm, backlog, peer, inbox, room, sends, heap, reply,
              scan, batch, since, lag, clock, left, blind>>
bufVars == <<buf, outcome>>
bevVars == <<bev, lookup, unseen>>
slots == <<s1, s2, s3, s4, s5, s6>>
allVars == <<part, poolVars, echoVars, bufVars, bevVars, sock, pc, slots>>

\* The other parts never create a pool.
NoPool == Init
NoEcho ==
  /\ comm = None /\ backlog = None /\ peer = None /\ inbox = None /\ room = None
  /\ sends = None /\ heap = None /\ reply = None /\ scan = None /\ batch = None
  /\ since = None /\ lag = None /\ clock = None /\ left = None /\ blind = None
NoBuf == buf = None /\ outcome = None
NoBev == bev = None /\ lookup = None /\ unseen = None
NoSocket == sock = None /\ pc = None
NoSlots ==
  s1 = None /\ s2 = None /\ s3 = None /\ s4 = None /\ s5 = None /\ s6 = None

Unused3 == s4 = None /\ s5 = None /\ s6 = None
Unused4 == s5 = None /\ s6 = None
Unused5 == s6 = None

PartsInit ==
  \/ part = "evmap of three kinds" /\ Wide!Init /\ Unused4
  \/ part = "evmap of two kinds" /\ Narrow!Init /\ Unused4
  \/ part = "timers" /\ Timers!Init /\ Unused3
  \/ part = "heap" /\ Heap!Init /\ Unused3
  \/ part = "finalizers" /\ Final!Init
  \/ part = "messages" /\ Messages!Init /\ Unused4
  \/ part = "listener" /\ Listen!Init /\ Unused5
  \/ part = "iocp listener" /\ IocpListen!Init /\ Unused4
  \/ part = "pair" /\ Pair!Init /\ Unused4
  \/ part = "filter" /\ Filtering!Init /\ Unused4
  \/ part = "closing filter" /\ ClosingFilter!Init /\ Unused4
  \/ part = "rpc pool" /\ RpcClient!Init /\ Unused3
  \/ part = "rpc server" /\ Rpc!Init /\ Unused3
  \/ part = "ssl" /\ Ssl!Init /\ Unused4

AnyInit ==
  \/ part = "mem_pool" /\ Init /\ NoEcho /\ NoBuf /\ NoBev /\ NoSocket /\ NoSlots
  \/ part = "echo" /\ Server!Init /\ NoPool /\ NoBuf /\ NoBev /\ NoSlots
  \/ part = "one evbuffer" /\ One!Init /\ NoPool /\ NoEcho /\ NoBev /\ NoSocket /\ NoSlots
  \/ part = "two evbuffers" /\ Two!Init /\ NoPool /\ NoEcho /\ NoBev /\ NoSocket /\ NoSlots
  \/ part = "bufferevent" /\ Bev!Init /\ NoPool /\ NoEcho /\ NoBuf /\ NoSlots
  \/ PartsInit /\ NoPool /\ NoEcho /\ NoBuf /\ NoBev /\ NoSocket

Large == {"mem_pool", "echo", "one evbuffer", "two evbuffers", "bufferevent"}
Buffering == part \in {"one evbuffer", "two evbuffers"}
InPool == part = "mem_pool" /\ UNCHANGED <<part, echoVars, bufVars, bevVars, sock, pc, slots>>
InEcho == part = "echo" /\ UNCHANGED <<part, poolVars, bufVars, bevVars, slots>>
InBuf == Buffering /\ UNCHANGED <<part, poolVars, echoVars, bevVars, sock, pc, slots>>
InBev == part = "bufferevent" /\ UNCHANGED <<part, poolVars, echoVars, bufVars, slots>>
InParts == part \notin Large /\ UNCHANGED <<poolVars, echoVars, bufVars, bevVars, sock, pc>>

HeapNext ==
  \E e \in 1 .. 6 :
    \/ Heap!Has(s1, e, "TIMEOUT") /\ Heap!event_del(e)
    \/ /\ \A f \in 1 .. e : Heap!Has(s1, f, "TIMEOUT") <=> f # e
       /\ Heap!event_add(e)

\* Requests are alike: they are made in the order of their numbers.
RpcNext ==
  /\ RpcClient!Next
  /\ \A r \in {2, 3} : s2'[r].place # "none" => s2'[r - 1].place # "none"

PartsNext ==
  \/ part = "evmap of three kinds" /\ Wide!Next /\ UNCHANGED <<part, s5, s6>>
  \/ part = "evmap of two kinds" /\ Narrow!Next /\ UNCHANGED <<part, s5, s6>>
  \/ part = "timers" /\ Timers!Next /\ UNCHANGED <<part, s4, s5, s6>>
  \/ part = "heap" /\ HeapNext /\ UNCHANGED <<part, s4, s5, s6>>
  \/ part = "finalizers" /\ Final!Next /\ UNCHANGED part
  \/ part = "messages" /\ Messages!Next /\ UNCHANGED <<part, s5, s6>>
  \/ part = "listener" /\ Listen!Next /\ UNCHANGED <<part, s6>>
  \/ part = "iocp listener" /\ IocpListen!Next /\ UNCHANGED <<part, s5, s6>>
  \/ part = "pair" /\ Pair!Next /\ UNCHANGED <<part, s5, s6>>
  \/ part = "filter" /\ Filtering!Next /\ UNCHANGED <<part, s5, s6>>
  \/ part = "closing filter" /\ ClosingFilter!Next /\ UNCHANGED <<part, s5, s6>>
  \/ part = "rpc pool" /\ RpcNext /\ UNCHANGED <<part, s4, s5, s6>>
  \/ part = "rpc server" /\ Rpc!Next /\ UNCHANGED <<part, s4, s5, s6>>
  \/ part = "ssl" /\ Ssl!Next /\ UNCHANGED <<part, s5, s6>>

\* Reading is left to the one buffer: it makes room and fills it as adding does.
TwoNext == Two!Adding \/ Two!Expanding \/ Two!Taking \/ Two!Moving

AnyNext ==
  \/ InPool /\ Next
  \/ InEcho /\ Server!Next
  \/ InBuf /\ part = "one evbuffer" /\ One!Next
  \/ InBuf /\ part = "two evbuffers" /\ TwoNext
  \/ InBev /\ Bev!Next
  \/ InParts /\ PartsNext

AnySpec == AnyInit /\ [][AnyNext]_allVars

\* Connections are interchangeable.
Symmetry == Permutations(Conns)

-------------------------------------------------------------------------------
(* Chains, their pointers and lengths agree (EvBuffer).                    *)
BuffersSound ==
  /\ part = "one evbuffer" => One!BuffersSound
  /\ part = "two evbuffers" => Two!BuffersSound

(* Events, marks, references and pending callbacks agree (BufferEvent).    *)
BevSound == part = "bufferevent" => Bev!BevSound

(* What each of the other parts of libevent keeps true.                    *)
LibeventSound ==
  /\ part = "evmap of three kinds" => Wide!MapSound
  /\ part = "evmap of two kinds" => Narrow!MapSound
  /\ part = "timers" => Timers!TimersSound
  /\ part = "heap" => Heap!TimersSound
  /\ part = "finalizers" => Final!FinalSound
  /\ part = "messages" => Messages!MessagesSound
  /\ part = "listener" => Listen!ListenerSound
  /\ part = "iocp listener" => IocpListen!IocpSound
  /\ part = "pair" => Pair!PairSound
  /\ part = "filter" => Filtering!PairSound
  /\ part = "closing filter" => ClosingFilter!PairSound
  /\ part = "rpc pool" => RpcClient!PoolSound
  /\ part = "rpc server" => Rpc!ServerSound
  /\ part = "ssl" => Ssl!SslSound

(* A block is added only when none has room left (MemPool).  The end of    *)
(* file is reported last, and no read passes the high mark (BufferEvent).  *)
(* No timeout is early (EventTimers).                                      *)
StepsInOrder ==
  [][/\ AddedWhenFull
     /\ part = "bufferevent" => Bev!EofLast
     /\ part = "timers" => Timers!NoneEarly]_allVars

(* Connections go through the stages of EchoSession, while table,          *)
(* registrations, kernel, heap, events and timers agree (EchoServer); every *)
(* buffer is a queue of bytes (EvBuffer).  The other parts need not be     *)
(* compared with these.                                                    *)
StagesNow == [c \in Conns |-> Server!StageOf(c)]
Stages == INSTANCE EchoSession WITH stage <- StagesNow
SessionsKept ==
  /\ part = "echo" => Stages!Init /\ Server!TableSound
  /\ [][part = "echo" => /\ UNCHANGED StagesNow \/ Stages!Next
                        /\ Server!TableSound']_allVars

BytesNow == [x \in {"a", "b"} |-> IF x \in DOMAIN buf THEN One!Contents(buf[x]) ELSE <<>>]
Bytes == INSTANCE ByteQueues WITH
  Queues <- {"a", "b"}, Strings <- Inputs1 \cup {<<>>}, queue <- BytesNow
ImplementsByteQueues ==
  /\ Buffering => Bytes!Init
  /\ [][Buffering => UNCHANGED <<BytesNow, outcome>> \/ Bytes!Next]_allVars
===============================================================================
