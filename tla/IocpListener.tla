----------------------------- MODULE IocpListener -----------------------------
(***************************************************************************)
(* The listener on an I/O completion port (listener.c, _WIN32).  Each of   *)
(* its accepting sockets has an AcceptEx that is pending, a completion     *)
(* that waits to be called in the loop, or is in the user's callback.      *)
(*                                                                         *)
(* The user frees the listener and changes its callbacks at any time, and  *)
(* disables it when no completion waits and no callback runs: a completion *)
(* that finds the listener disabled hands out no socket, or one that is    *)
(* still pending.  A second enable starts again what a disable cancelled   *)
(* only after the cancellation was reported, for the same reason.          *)
(***************************************************************************)
EXTENDS Integers, FiniteSets

CONSTANTS Sockets,   \* the accepting sockets, N_SOCKETS_PER_LISTENER of them
          None

VARIABLES
  lev,     \* the listener
  as,      \* its accepting sockets
  owned,   \* the user has not freed it
  loop     \* the accepting socket whose callback runs in the loop, and where

vars == <<lev, as, owned, loop>>

Idle == [at |-> "idle", as |-> None]
Alive == {x \in Sockets : as[x].alive}
Waiting(x) == as[x].deferred

\* What start_accepting makes of an accepting socket: AcceptEx pends, succeeds
\* at once, or fails, which the deferred callback reports; or nothing, because
\* the port refuses the socket.
Started(x) ==
  {[x EXCEPT !.s = TRUE, !.op = "pending"],
   [x EXCEPT !.s = TRUE, !.deferred = TRUE],
   [x EXCEPT !.s = TRUE, !.error = TRUE, !.deferred = TRUE],
   [x EXCEPT !.error = TRUE, !.deferred = TRUE],
   x}
start_accepting(x, enabled) == IF enabled THEN Started(x) ELSE {x}
Accepting ==
  [s |-> FALSE, op |-> "none", deferred |-> FALSE, error |-> FALSE,
   free_on_cb |-> FALSE, alive |-> TRUE]

\* evconnlistener_new_async
Init ==
  /\ \E cb \in BOOLEAN :
       /\ lev = [cb |-> cb, enabled |-> TRUE, refcnt |-> 1 + Cardinality(Sockets),
                 shutting_down |-> FALSE, event_added |-> TRUE, freed |-> FALSE]
       /\ as \in [Sockets -> IF cb THEN Started(Accepting) \ {Accepting} ELSE {Accepting}]
  /\ owned = TRUE
  /\ loop = Idle

listener_decref(l) == [l EXCEPT !.refcnt = @ - 1, !.freed = l.refcnt = 1]

-------------------------------------------------------------------------------
(* Completions, in a thread of the port.                                   *)

\* AcceptEx ends with a connection.
Accepted(x) ==
  /\ as[x].op = "pending"
  /\ as' = [as EXCEPT ![x].op = "none", ![x].deferred = TRUE]
  /\ UNCHANGED lev
\* Its socket may have been closed by a shutdown or by a disable.
AcceptFailed(x) ==
  /\ as[x].op # "none"
  /\ as' = [as EXCEPT ![x].op = "none", ![x].alive = ~as[x].free_on_cb,
                      ![x].deferred = ~as[x].free_on_cb /\ as[x].s,
                      ![x].error = ~as[x].free_on_cb /\ as[x].s]
  /\ lev' = IF as[x].free_on_cb THEN listener_decref(lev) ELSE lev
accepted_socket_cb(x) ==
  /\ as[x].alive
  /\ Accepted(x) \/ AcceptFailed(x)
  /\ UNCHANGED <<owned, loop>>

-------------------------------------------------------------------------------
(* The deferred callback, in the loop's thread.                            *)

FreeOnCb(x) ==
  /\ as[x].free_on_cb
  /\ as' = [as EXCEPT ![x].alive = FALSE, ![x].deferred = FALSE]
  /\ lev' = listener_decref(lev)
  /\ UNCHANGED loop
\* An accepted socket is the user's from now on.
TakeSocket(x) ==
  /\ ~as[x].free_on_cb
  /\ as' = [as EXCEPT ![x].deferred = FALSE, ![x].error = FALSE,
                      ![x].s = @ /\ as[x].error]
  /\ lev' = [lev EXCEPT !.refcnt = @ + 1]
  /\ loop' = [at |-> "user", as |-> x]
accepted_socket_invoke_user_cb(x) ==
  /\ loop = Idle /\ as[x].alive /\ Waiting(x)
  /\ FreeOnCb(x) \/ TakeSocket(x)
  /\ UNCHANGED owned

UserReturns ==
  /\ loop.at = "user"
  /\ lev' = listener_decref(lev)
  /\ loop' = IF lev.refcnt = 1 THEN Idle ELSE [loop EXCEPT !.at = "restarting"]
  /\ UNCHANGED <<as, owned>>
Restart ==
  /\ loop.at = "restarting"
  /\ \E y \in start_accepting(as[loop.as], lev.enabled) : as' = [as EXCEPT ![loop.as] = y]
  /\ loop' = Idle
  /\ UNCHANGED <<lev, owned>>

-------------------------------------------------------------------------------
(* The user's calls.                                                       *)

stop_accepting(x) ==
  [x EXCEPT !.s = FALSE, !.op = IF @ = "pending" THEN "aborted" ELSE @]

iocp_listener_enable ==
  as' \in {f \in [Sockets -> UNION {start_accepting(as[x], TRUE) : x \in Sockets}] :
             \A x \in Sockets :
               f[x] \in IF ~as[x].free_on_cb /\ ~as[x].s
                        THEN start_accepting(as[x], TRUE) ELSE {as[x]}}

\* A shutdown marks the sockets it stops to be freed when that is reported.
Disabled(shutdown) ==
  [x \in Sockets |->
     IF ~as[x].alive \/ as[x].free_on_cb \/ ~as[x].s THEN as[x]
     ELSE [stop_accepting(as[x]) EXCEPT !.free_on_cb = shutdown]]
iocp_listener_disable_impl(shutdown) == as' = Disabled(shutdown)

\* Nothing is on its way between the port and the user.
Quiet == loop = Idle /\ \A x \in Alive : ~Waiting(x) /\ as[x].op # "aborted"

evconnlistener_enable ==
  /\ Quiet
  /\ lev' = [lev EXCEPT !.enabled = TRUE, !.event_added = @ \/ lev.cb]
  /\ IF lev.cb THEN iocp_listener_enable ELSE UNCHANGED as
  /\ UNCHANGED owned
evconnlistener_disable ==
  /\ Quiet
  /\ lev' = [lev EXCEPT !.enabled = FALSE, !.event_added = FALSE]
  /\ iocp_listener_disable_impl(FALSE)
  /\ UNCHANGED owned
evconnlistener_set_cb ==
  /\ lev.cb \/ Quiet
  /\ \E cb \in BOOLEAN :
       /\ lev' = [lev EXCEPT !.cb = cb, !.event_added = @ \/ (lev.enabled /\ cb)]
       /\ IF lev.enabled /\ ~lev.cb /\ cb THEN iocp_listener_enable ELSE UNCHANGED as
  /\ UNCHANGED owned
evconnlistener_free ==
  /\ owned' = FALSE
  /\ iocp_listener_disable_impl(TRUE)
  /\ lev' = [listener_decref(lev) EXCEPT
               !.cb = FALSE, !.shutting_down = TRUE, !.event_added = FALSE]

Call ==
  /\ owned
  /\ \/ evconnlistener_enable \/ evconnlistener_disable
     \/ evconnlistener_set_cb \/ evconnlistener_free
  /\ UNCHANGED loop

Next ==
  \/ \E x \in Sockets : accepted_socket_cb(x) \/ accepted_socket_invoke_user_cb(x)
  \/ UserReturns \/ Restart \/ Call

Spec == Init /\ [][Next]_vars

-------------------------------------------------------------------------------
(* The owner, each accepting socket and a callback that runs have one      *)
(* reference each, and the listener is gone when nobody has one.           *)
ReferencesHeld ==
  /\ lev.refcnt = (IF owned THEN 1 ELSE 0) + Cardinality(Alive)
                    + (IF loop.at = "user" THEN 1 ELSE 0)
  /\ lev.freed <=> lev.refcnt = 0

(* Each accepting socket has one thing outstanding at most, and nothing    *)
(* when its memory is given back.                                          *)
OneOutstanding ==
  \A x \in Sockets :
    LET out == {k \in {"op", "deferred", "user"} :
                  CASE k = "op" -> as[x].op # "none"
                    [] k = "deferred" -> as[x].deferred
                    [] k = "user" -> loop.as = x}
    IN  Cardinality(out) <= IF as[x].alive THEN 1 ELSE 0

(* The base waits for the listener only while it is enabled.               *)
VirtualEvent == lev.event_added => lev.enabled /\ ~lev.shutting_down

IocpSound == ReferencesHeld /\ OneOutstanding /\ VirtualEvent
===============================================================================
