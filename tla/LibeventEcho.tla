----------------------------- MODULE LibeventEcho -----------------------------
(***************************************************************************)
(* The echo server of src/libevent/epoll_framework/main.c: the handlers of *)
(* the epoll framework's server on one-shot events of libevent 2.1.12, and *)
(* without timers.  The base is used by one thread, with one priority.     *)
(*                                                                         *)
(* A connection c has one struct event, allocated when it is accepted and  *)
(* set again by every handler that goes on: evh is its callback, added     *)
(* says whether it waits in the base.  Removing an event and calling it is *)
(* one step, in which the callback makes one system call.                  *)
(***************************************************************************)
EXTENDS Tcp

\* Messages is {"text", "quit"}.

VARIABLES
  evh,      \* ev_callback of each connection's event, "none" if none is allocated
  added,    \* connections whose event is added and not called yet
  active,   \* events activated by epoll_dispatch, in the order of their calls
  heap,     \* allocated ConnectStats
  reply,    \* connections whose send_buf holds a reply not yet written
  pc,       \* "wait", "call" or "killed"
  failed    \* history: connections on which a call failed or wrote too little

events == <<evh, added, active, pc>>
vars   == <<tcp, events, heap, reply, failed>>

Handler == {"welcome", "echo", "response"}

TypeOK ==
  /\ TcpTypeOK
  /\ evh \in [Conns -> Handler \cup {"none"}]
  /\ added \subseteq Conns
  /\ active \in Seq(Conns \cup {Listener})
  /\ heap \subseteq Conns \cup {Listener} /\ reply \subseteq heap
  /\ pc \in {"wait", "call", "killed"}
  /\ failed \subseteq heap

\* The ConnectStat made for the listening socket is used nowhere.
Init ==
  /\ TcpInit
  /\ evh = [c \in Conns |-> "none"] /\ added = {} /\ active = <<>>
  /\ heap = {Listener} /\ reply = {} /\ pc = "wait" /\ failed = {}

\* What the clients do before the next system call of the server.
Clients == pc # "killed" /\ ClientStep /\ UNCHANGED <<events, heap, reply, failed>>

-------------------------------------------------------------------------------
(***************************************************************************)
(* The handlers.  Each runs with its event removed from the base.          *)
(***************************************************************************)
\* event_set and event_add with another callback.
SetAndAdd(c, handler) ==
  /\ evh' = [evh EXCEPT ![c] = handler]
  /\ added' = added \cup {c}

NotAdded(c) == added' = added \ {c} /\ UNCHANGED evh

\* The branches of failed and short calls report them and return.
GiveUp(c) == NotAdded(c) /\ failed' = failed \cup {c} /\ UNCHANGED <<heap, reply>>

DescriptorOf(c) == CHOOSE fd \in ConnFd : sock[fd] = c

\* event_free(stat->ev); close(fd); free(stat)
CloseAndFree(c) ==
  /\ close(DescriptorOf(c))
  /\ evh' = [evh EXCEPT ![c] = "none"] /\ added' = added \ {c}
  /\ heap' = heap \ {c} /\ reply' = reply \ {c} /\ failed' = failed \ {c}

\* What the callers of stat_init get for the ConnectStat temp.  As in EchoServer
\* it ends without a return statement, and temp is the one outcome of the
\* program committed beside the source and of any build without optimisation.
Returned(temp) == temp

\* The new event's argument is the ConnectStat, which points back to it.
accept_connection ==
  IF FreeFd = {}
  THEN UNCHANGED <<tcp, evh, added, heap, reply, failed>>
  ELSE /\ accept(Min(FreeFd))
       /\ SetAndAdd(Returned(Head(backlog)), "welcome")
       /\ heap' = heap \cup {Head(backlog)}
       /\ UNCHANGED <<reply, failed>>

do_welcome_handler(c) ==
  \/ WriteFails(c) /\ callFails(c) /\ GiveUp(c)
  \/ Writes(c) /\ writeShort(c) /\ GiveUp(c)
  \/ Writes(c) /\ writeAll(c) /\ SetAndAdd(c, "echo") /\ UNCHANGED <<heap, reply, failed>>

do_echo_handler(c) ==
  \/ /\ inbox[c] = "text" /\ readData(c)
     /\ reply' = reply \cup {c}
     /\ SetAndAdd(c, "response")
     /\ UNCHANGED <<heap, failed>>
  \/ (inbox[c] = "quit" \/ ReadsEnd(c)) /\ CloseAndFree(c)
  \/ ReadFails(c) /\ callFails(c) /\ GiveUp(c)

do_echo_response_Again(c) ==
  \/ WriteFails(c) /\ callFails(c) /\ GiveUp(c)
  \/ /\ Writes(c) /\ writeAll(c)
     /\ SetAndAdd(c, "welcome")
     /\ reply' = reply \ {c}
     /\ UNCHANGED <<heap, failed>>
\* A short write counts as the whole reply, and leaves room as a full one may.
do_echo_response(c) ==
  \/ WriteFails(c) /\ callFails(c) /\ GiveUp(c)
  \/ /\ Writes(c) /\ writeAll(c)
     /\ SetAndAdd(c, "echo")
     /\ reply' = reply \ {c}
     /\ UNCHANGED <<heap, failed>>

-------------------------------------------------------------------------------
(***************************************************************************)
(* event_base_loop: epoll_dispatch, then the activated events in turn.     *)
(***************************************************************************)
Watches(c) == IF evh[c] = "echo" THEN {"IN"} ELSE {"OUT"}

\* An event is activated by what it watches, and by EPOLLHUP and EPOLLERR.
Ready == {c \in added : ReadyFor(DescriptorOf(c), Watches(c)) # {}}
           \cup (IF ReadyFor(ListenFd, {"IN"}) # {} THEN {Listener} ELSE {})

epoll_dispatch ==
  /\ pc = "wait" /\ Ready # {}
  /\ \E order \in [1 .. Cardinality(Ready) -> Ready] :
       /\ \A i, j \in DOMAIN order : order[i] = order[j] => i = j
       /\ active' = order
  /\ pc' = "call"
  /\ UNCHANGED <<tcp, evh, added, heap, reply, failed>>

\* The listener's event is persistent and stays added.
CallAccept ==
  /\ pc = "call" /\ active # <<>> /\ Head(active) = Listener
  /\ active' = Tail(active)
  /\ accept_connection
  /\ UNCHANGED pc

\* event_del, then the callback.
CallHandler ==
  /\ pc = "call" /\ active # <<>> /\ Head(active) # Listener
  /\ active' = Tail(active)
  /\ LET c == Head(active)
     IN  \/ evh[c] = "welcome" /\ do_welcome_handler(c)
         \/ evh[c] = "echo" /\ do_echo_handler(c)
         \/ evh[c] = "response" /\ do_echo_response(c)
  /\ UNCHANGED pc

\* A handler writes to a connection that was reset after its end of file.
CallKilled ==
  /\ pc = "call" /\ active # <<>> /\ Head(active) # Listener
  /\ evh[Head(active)] # "echo" /\ WriteKills(Head(active))
  /\ processEnds
  /\ evh' = [c \in Conns |-> "none"] /\ added' = {} /\ active' = <<>>
  /\ heap' = {} /\ reply' = {} /\ failed' = {} /\ pc' = "killed"

LoopAgain ==
  /\ pc = "call" /\ active = <<>>
  /\ pc' = "wait"
  /\ UNCHANGED <<tcp, evh, added, active, heap, reply, failed>>

Loop == epoll_dispatch \/ CallAccept \/ CallHandler \/ CallKilled \/ LoopAgain

Next == Clients \/ Loop

Spec == Init /\ [][Next]_vars

\* The loop goes on.  Nobody has to send, to read or to hang up.
FairSpec == Spec /\ WF_vars(Loop)

-------------------------------------------------------------------------------
(***************************************************************************)
(* Properties.                                                             *)
(***************************************************************************)
\* An open connection is watched, or one of its handlers saw a call fail: there
\* is no other way to lose its one event, and a connection closed by "quit" or
\* end of file leaves neither event nor ConnectStat behind, whatever else was
\* activated together with it.
WatchedOrFailed ==
  /\ \A c \in Conns : IsOpen(c) <=> c \in heap
  /\ \A c \in Conns : c \in heap <=> evh[c] # "none"
  /\ heap \cap Conns = added \cup failed /\ added \cap failed = {}
  /\ Range(active) \subseteq added \cup {Listener}

\* A connection given up by a handler stays as it is for good: it is never
\* closed, and no client's end of file or reset is noticed any more.
StaysGivenUp ==
  pc' # "killed" => \A c \in failed : IsOpen(c)' /\ evh'[c] = evh[c] /\ c \notin added'
GivenUpForever == [][StaysGivenUp]_vars

StageOf(c) ==
  IF peer[c] = "gone" THEN "closed"
  ELSE CASE evh[c] = "none"     -> "absent"
         [] evh[c] = "welcome"  -> "greeting"
         [] evh[c] = "echo"     -> "reading"
         [] evh[c] = "response" -> "replying"

Session == INSTANCE EchoSession WITH stage <- [c \in Conns |-> StageOf(c)]

\* The handlers serve a connection as those of the epoll framework do, although
\* each removes the event that called it and none can be called a second time.
ImplementsEchoSession == Session!Spec

\* A message that was read is answered, unless the write fails or the client
\* leaves no room for it.
Unanswered(c) == c \in reply
Excused(c) == c \notin reply \/ c \in failed \/ ~room[c]
MessageAnswered == \A c \in Conns : Unanswered(c) ~> Excused(c)
===============================================================================
