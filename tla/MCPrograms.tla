------------------------------ MODULE MCPrograms ------------------------------
(***************************************************************************)
(* The small programs of the repository and its two other servers, checked *)
(* together: the first state of a behaviour says which program it is of,   *)
(* and the variables of the others keep the value None.  Modules that name *)
(* a variable alike share it.                                              *)
(***************************************************************************)
EXTENDS Integers, FiniteSets, Sequences

CONSTANTS None,
          Conns, c1,   \* the servers' connections, and the one that is followed
          MaxSends,    \* MaxSends of the two servers, and of the poll server
          MaxBytes,
          Procs, WithArgument, Rounds, Sections, MaxSem,
          Listener, ListenFd, Biggest_FD, Stats, MaxEvents,
          Senders, HeaderSize, BodySizes

\* Descriptors, headers and bodies have the sizes the modules of the programs
\* ask for, and the values that stand for nothing differ from those for something.
ASSUME ProgramsAssumption ==
  /\ IsFiniteSet(Procs) /\ Sections \in Nat
  /\ 0 \notin Senders /\ HeaderSize \in Nat \ {0} /\ BodySizes \subseteq Nat
  /\ Biggest_FD \in Nat /\ ListenFd \in 1 .. Biggest_FD - 2
  /\ Listener \notin Conns /\ "nobody" \notin Conns \cup {Listener}
  /\ IsFiniteSet(Conns) /\ MaxSends \in Nat /\ MaxBytes \in Nat
  /\ Listener \notin Stats /\ MaxEvents \in Nat

VARIABLES program, pc, i, sem, adj, late, init, locked, offset, file,
          thread, buff, line, pipe, got,
          sock, backlog, peer, inbox, room, sends,
          events, revents, cur_max_fd, ch, since, waiting,
          heap, evh, added, active, reply, failed, stat, kernel, revs, shown,
          size, sent, arrived, serving, spc, closed, cut, served

Sems == INSTANCE SemSection
Locks == INSTANCE RecordLock
Hand == INSTANCE Handover
Polls == INSTANCE PollServer WITH Messages <- {"byte"}, MaxSends <- MaxBytes
Frames == INSTANCE Framing
Echo == INSTANCE LibeventEcho WITH Messages <- {"text", "quit"}
Form == INSTANCE FormServer WITH Messages <- {"commit", "blank", "get"}

countVars == <<i, sem>>
semVars == <<adj, late, init>>
lockVars == <<locked, offset, file>>
bufferVars == <<thread, buff, line>>
pipeVars == <<pipe, got>>
tcpVars == <<sock, backlog, peer, inbox, room, sends>>
pollVars == <<events, revents, cur_max_fd, ch, since, waiting>>
frameVars == <<size, sent, arrived, serving, spc, closed, cut, served>>
echoVars == <<evh, added, active, reply, failed>>
formVars == <<stat, kernel, revs, shown>>
exerciseVars == <<semVars, lockVars, bufferVars, pipeVars, frameVars>>
serverVars == <<heap, echoVars, formVars>>
vars == <<program, pc, countVars, exerciseVars, tcpVars, pollVars, serverVars>>

NoSems == adj = None /\ late = None /\ init = None
NoLocks == locked = None /\ offset = None /\ file = None
NoBuffer == thread = None /\ buff = None /\ line = None
NoPipe == pipe = None /\ got = None
NoTcp ==
  /\ sock = None /\ backlog = None /\ peer = None
  /\ inbox = None /\ room = None /\ sends = None
NoPolls ==
  /\ events = None /\ revents = None /\ cur_max_fd = None
  /\ ch = None /\ since = None /\ waiting = None
NoFrames ==
  /\ size = None /\ sent = None /\ arrived = None /\ serving = None
  /\ spc = None /\ closed = None /\ cut = None /\ served = None
NoEcho == evh = None /\ added = None /\ active = None /\ reply = None /\ failed = None
NoForm == stat = None /\ kernel = None /\ revs = None /\ shown = None
NoExercises == NoSems /\ NoLocks /\ NoBuffer /\ NoPipe /\ NoFrames
NoServers == heap = None /\ NoEcho /\ NoForm

Init ==
  \/ /\ program = "sems" /\ Sems!Init
     /\ NoLocks /\ NoBuffer /\ NoPipe /\ NoFrames /\ NoTcp /\ NoPolls /\ NoServers
  \/ /\ program \in {"fcntl_test", "lockf"} /\ Locks!Init /\ i = None /\ sem = None
     /\ NoSems /\ NoBuffer /\ NoPipe /\ NoFrames /\ NoTcp /\ NoPolls /\ NoServers
  \/ /\ program = "threadsem" /\ Hand!LinesInit /\ i = None
     /\ NoSems /\ NoLocks /\ NoPipe /\ NoFrames /\ NoTcp /\ NoPolls /\ NoServers
  \/ /\ program = "double" /\ Hand!PipeInit /\ i = None /\ sem = None
     /\ NoSems /\ NoLocks /\ NoBuffer /\ NoFrames /\ NoTcp /\ NoPolls /\ NoServers
  \/ /\ program = "polls" /\ Polls!Init /\ pc = None /\ sem = None
     /\ NoExercises /\ NoServers
  \/ /\ program = "TCPfenbao" /\ Frames!Init /\ i = None /\ sem = None
     /\ NoSems /\ NoLocks /\ NoBuffer /\ NoPipe /\ NoTcp /\ NoPolls /\ NoServers
  \/ /\ program = "main" /\ Echo!Init /\ i = None /\ sem = None
     /\ NoExercises /\ NoPolls /\ NoForm
  \/ /\ program = "epollserver" /\ Form!Init /\ i = None /\ sem = None
     /\ NoExercises /\ NoPolls /\ NoEcho

Numbers == Procs \cup Locks!Writers \cup Senders
Locking == program \in {"fcntl_test", "lockf"}

(***************************************************************************)
(* A step of each program leaves the variables of the others alone.        *)
(***************************************************************************)
InSems ==
  /\ program = "sems"
  /\ UNCHANGED <<program, lockVars, bufferVars, pipeVars, frameVars, tcpVars, pollVars, serverVars>>
InLocks ==
  /\ Locking
  /\ UNCHANGED <<program, countVars, semVars, bufferVars, pipeVars, frameVars,
                 tcpVars, pollVars, serverVars>>
InBuffer ==
  /\ program = "threadsem"
  /\ UNCHANGED <<program, i, semVars, lockVars, pipeVars, frameVars, tcpVars, pollVars, serverVars>>
InDouble ==
  /\ program = "double"
  /\ UNCHANGED <<program, countVars, semVars, lockVars, bufferVars, frameVars,
                 tcpVars, pollVars, serverVars>>
InPolls == program = "polls" /\ UNCHANGED <<program, pc, sem, exerciseVars, serverVars>>
InFrames ==
  /\ program = "TCPfenbao"
  /\ UNCHANGED <<program, countVars, semVars, lockVars, bufferVars, pipeVars,
                 tcpVars, pollVars, serverVars>>
InEcho == program = "main" /\ UNCHANGED <<program, countVars, exerciseVars, pollVars, formVars>>
InForm ==
  program = "epollserver" /\ UNCHANGED <<program, countVars, exerciseVars, pollVars, echoVars>>

Next ==
  \/ InSems /\ Sems!Next
  \/ InLocks /\ Locks!Next
  \/ InBuffer /\ Hand!LinesNext
  \/ InDouble /\ Hand!PipeNext
  \/ InPolls /\ Polls!Next
  \/ InFrames /\ Frames!Next
  \/ InEcho /\ Echo!Next
  \/ InForm /\ Form!Next

(***************************************************************************)
(* The fairness of each program, as its own module states it.  A behaviour *)
(* is of one program, so a disjunction of actions of several programs is   *)
(* fair when each of them is.                                              *)
(***************************************************************************)
Fairness ==
  /\ WF_vars(\/ InBuffer /\ Hand!MainStep
             \/ InDouble /\ Hand!PipeNext
             \/ InPolls /\ Polls!ServerStep
             \/ InFrames /\ Frames!Serve
             \/ InEcho /\ Echo!Loop
             \/ InForm /\ Form!Loop)
  /\ WF_vars(InBuffer /\ Hand!ThreadStep)
  /\ \A n \in Numbers :
       /\ SF_vars(\/ n \in Procs /\ InSems /\ Sems!sem_p(n)
                  \/ n \in Locks!Writers /\ InLocks /\ Locks!WriterStep(n)
                  \/ n \in Senders /\ InFrames /\ Frames!Accept(n))
       /\ WF_vars(\/ n \in Procs /\ InSems /\ Sems!Leave(n)
                  \/ n \in Senders /\ InFrames /\ Frames!ClientStep(n))
  /\ \A c \in Senders, w \in Frames!Ways : WF_vars(InFrames /\ Frames!Segment(c, w))

Spec == Init /\ [][Next]_vars /\ Fairness

-----------------------------------------------------------------------------
(* The critical section, the locked file, the entries of poll and the      *)
(* packets are in order, and so are the two servers' connections, events   *)
(* and memory, as the invariants of their modules say.                     *)
Sound ==
  CASE program = "sems" -> Sems!OneInside /\ Sems!PermitLeft
    [] Locking -> Locks!Excludes /\ Locks!HeldToTheEnd
    [] program = "polls" -> Polls!TypeOK /\ Polls!EntriesAgree
    [] program = "TCPfenbao" -> Frames!AnsweredWasServed /\ Frames!FailsOnlyIfCut
    [] program = "main" -> Echo!TypeOK /\ Echo!WatchedOrFailed
    [] program = "epollserver" -> Form!StatsSound
    [] OTHER -> TRUE

(* A client of the poll server gets a byte when it waits for one, and the  *)
(* successor of its own unless the server has read from another since, or  *)
(* tried (PollServer).  A connection that the libevent server gave up is   *)
(* never touched again (LibeventEcho).                                     *)
StepsAllowed ==
  [][/\ program = "polls" => Polls!AnswerAllowed
     /\ program = "main" => Echo!StaysGivenUp]_vars

(* Connections go through the stages of EchoSession (LibeventEcho).        *)
Session == INSTANCE EchoSession WITH
  stage <- [c \in Conns |-> IF program = "main" THEN Echo!StageOf(c) ELSE "absent"]
ImplementsEchoSession == Session!Spec

(* Every request gets its page, with no other client's name (FormServer).  *)
Pages == INSTANCE FormSession WITH
  owed <- [c \in Conns |-> IF program = "epollserver" THEN Form!Owed(c) ELSE "absent"],
  name <- [c \in Conns |-> IF program = "epollserver" THEN Form!NameOf(c) ELSE "none"],
  shown <- [c \in Conns |-> IF program = "epollserver" THEN shown[c] ELSE "nothing"]
ImplementsFormSession == Pages!Spec

(* Whoever waits for the semaphore, the lock or a byte gets it             *)
(* (SemSection, RecordLock, PollServer).  The threads and processes that   *)
(* end by themselves do so, and clients get their answer (Handover,        *)
(* Framing).  A message read is answered while the client leaves  *)
(* room (LibeventEcho); pages asked for are sent, and resets noticed       *)
(* (FormServer).  The servers' connections are alike: it is c1's that is   *)
(* followed.                                                               *)
Customers == 1 .. 3
Wants(n) ==
  CASE program = "sems" -> n \in Procs /\ Sems!Waits(n)
    [] Locking -> n \in Locks!Writers /\ Locks!Waits(n)
    [] program = "polls" -> n \in Polls!ConnFd /\ Polls!Owes(n)
    [] program = "threadsem" -> n = 1 /\ Hand!Typed
    [] program = "double" -> n = 1 /\ ~Hand!EndedOrTookBoth
    [] program = "TCPfenbao" -> n \in Senders /\ Frames!Waits(n)
    [] program = "main" -> n = 1 /\ Echo!Unanswered(c1)
    [] program = "epollserver" ->
         (n = 1 /\ Form!Asked(c1)) \/ (n = 2 /\ Form!Unnoticed(c1))
Served(n) ==
  CASE program = "polls" -> ~Wants(n) \/ i = Polls!Ended
    [] program = "threadsem" -> Hand!Done
    [] program = "TCPfenbao" -> n \in Senders /\ Frames!Ends(n)
    [] program = "main" -> Echo!Excused(c1)
    [] program = "epollserver" ->
         IF n = 1 THEN Form!SentOrFull(c1) ELSE ~Form!IsOpen(c1)
    [] OTHER -> ~Wants(n)
CustomersServed == \A n \in Customers : Wants(n) ~> Served(n)
===============================================================================
