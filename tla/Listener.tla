------------------------------- MODULE Listener -------------------------------
(***************************************************************************)
(* An evconnlistener with a lock (listener.c): the loop's thread accepts   *)
(* connections and calls the user, who may use the listener there, while   *)
(* another thread uses it too.  event_del in the other thread waits for    *)
(* the end of the event's callback with the listener's lock in its hands,  *)
(* and the callback goes nowhere without that lock: such a wait never      *)
(* ends, and nothing the listener does happens after it.                   *)
(***************************************************************************)
EXTENDS Integers

CONSTANT MaxBacklog   \* bound: connections that wait to be accepted

VARIABLES
  lev,      \* the evconnlistener, its event's registration, and who has its lock
  owned,    \* the user has not freed it
  loop,     \* where the loop's thread is in listener_read_cb
  other,    \* where the other thread is
  backlog

vars == <<lev, owned, loop, other, backlog>>

Threads == {"loop", "other"}
Unlocked == lev.lock = "none"
MayLock(t) == lev.lock \in {"none", t}

\* The event is the current one of the base from before LOCK until its return.
Running == loop # "idle"

evconnlistener_new ==
  \E cb, errorcb, enabled \in BOOLEAN :
    lev = [cb |-> cb, errorcb |-> errorcb, enabled |-> enabled, refcnt |-> 1,
           added |-> enabled /\ cb, lock |-> "none", freed |-> FALSE]
Init ==
  /\ evconnlistener_new
  /\ owned = TRUE
  /\ loop = "idle"
  /\ other = "idle"
  /\ backlog = 0

-------------------------------------------------------------------------------
(* What the user calls, in a callback or in the other thread.              *)

\* event_del: the other thread waits for a callback that runs.
Delete(t, l) ==
  IF t = "other" /\ Running
  THEN /\ lev' = [l EXCEPT !.added = FALSE, !.lock = "other"]
       /\ other' = "deleting"
  ELSE /\ lev' = [l EXCEPT !.added = FALSE, !.freed = l.refcnt = 0]
       /\ UNCHANGED other

evconnlistener_enable(t) ==
  /\ lev' = [lev EXCEPT !.enabled = TRUE, !.added = @ \/ lev.cb]
  /\ UNCHANGED <<owned, other>>
evconnlistener_disable(t) ==
  /\ Delete(t, [lev EXCEPT !.enabled = FALSE])
  /\ UNCHANGED owned
evconnlistener_set_cb(t) ==
  /\ \E cb \in BOOLEAN :
       lev' = [lev EXCEPT !.cb = cb, !.added = @ \/ (lev.enabled /\ ~lev.cb /\ cb)]
  /\ UNCHANGED <<owned, other>>
evconnlistener_set_error_cb(t) ==
  /\ \E cb \in BOOLEAN : lev' = [lev EXCEPT !.errorcb = cb]
  /\ UNCHANGED <<owned, other>>

listener_decref_and_unlock(t, l) ==
  LET left == [l EXCEPT !.refcnt = @ - 1, !.lock = "none"]
  IN  IF left.refcnt = 0 THEN Delete(t, left) ELSE lev' = left /\ UNCHANGED other
evconnlistener_free(t) ==
  /\ owned' = FALSE
  /\ listener_decref_and_unlock(t, [lev EXCEPT !.cb = FALSE, !.errorcb = FALSE])

Call(t) ==
  /\ owned /\ MayLock(t)
  /\ IF t = "loop" THEN loop \in {"user", "errorcb"} ELSE other = "idle"
  /\ \/ evconnlistener_enable(t) \/ evconnlistener_disable(t)
     \/ evconnlistener_set_cb(t) \/ evconnlistener_set_error_cb(t)
     \/ evconnlistener_free(t)
  /\ UNCHANGED <<loop, backlog>>

-------------------------------------------------------------------------------
(* The loop's thread.                                                      *)

Arrives ==
  /\ backlog < MaxBacklog
  /\ backlog' = backlog + 1
  /\ UNCHANGED <<lev, owned, loop, other>>

Dispatched ==
  /\ loop = "idle" /\ lev.added /\ backlog > 0
  /\ loop' = "entering"
  /\ UNCHANGED <<lev, owned, other, backlog>>

EnterCb ==
  /\ loop = "entering" /\ Unlocked
  /\ loop' = "accepting"
  /\ lev' = [lev EXCEPT !.lock = "loop"]
  /\ UNCHANGED <<owned, other, backlog>>

\* A connection without an address is closed, and so is one nobody wants.
AcceptOne ==
  /\ loop = "accepting" /\ backlog > 0
  /\ backlog' = backlog - 1
  /\ \/ UNCHANGED <<lev, loop>>
     \/ ~lev.cb /\ loop' = "idle" /\ lev' = [lev EXCEPT !.lock = "none"]
     \/ /\ lev.cb /\ loop' = "user"
        /\ lev' = [lev EXCEPT !.refcnt = @ + 1, !.lock = "none"]
  /\ UNCHANGED <<owned, other>>

NothingToAccept ==
  /\ loop = "accepting" /\ backlog = 0
  /\ loop' = "idle" /\ lev' = [lev EXCEPT !.lock = "none"]
  /\ UNCHANGED <<owned, other, backlog>>

AcceptFails ==
  /\ loop = "accepting"
  /\ IF lev.errorcb
     THEN loop' = "errorcb" /\ lev' = [lev EXCEPT !.refcnt = @ + 1, !.lock = "none"]
     ELSE loop' = "idle" /\ lev' = [lev EXCEPT !.lock = "none"]
  /\ UNCHANGED <<owned, other, backlog>>

UserReturns ==
  /\ loop \in {"user", "errorcb"}
  /\ loop' = IF loop = "user" THEN "returning" ELSE "returning from errorcb"
  /\ UNCHANGED <<lev, owned, other, backlog>>

\* The callback may have freed the listener, or disabled it.
AfterUser ==
  /\ loop = "returning" /\ Unlocked
  /\ IF lev.refcnt = 1
     THEN listener_decref_and_unlock("loop", lev) /\ loop' = "idle"
     ELSE /\ lev' = [lev EXCEPT !.refcnt = @ - 1,
                                !.lock = IF lev.enabled THEN "loop" ELSE "none"]
          /\ loop' = IF lev.enabled THEN "accepting" ELSE "idle"
          /\ UNCHANGED other
  /\ UNCHANGED <<owned, backlog>>
AfterErrorCb ==
  /\ loop = "returning from errorcb" /\ Unlocked
  /\ listener_decref_and_unlock("loop", lev)
  /\ loop' = "idle"
  /\ UNCHANGED <<owned, backlog>>

Next ==
  \/ \E t \in Threads : Call(t)
  \/ Arrives \/ Dispatched \/ EnterCb \/ AcceptOne \/ NothingToAccept
  \/ AcceptFails \/ UserReturns \/ AfterUser \/ AfterErrorCb

Spec == Init /\ [][Next]_vars

-------------------------------------------------------------------------------
(* Every callback that runs has a reference, and the owner has one until   *)
(* it frees the listener.                                                  *)
ReferencesHeld ==
  lev.refcnt = (IF owned THEN 1 ELSE 0)
                 + (IF loop \in {"user", "returning", "errorcb", "returning from errorcb"}
                    THEN 1 ELSE 0)

(* Nobody is in a listener that is gone: its memory is given back once all *)
(* callbacks have returned and nobody has its lock.                        *)
NotUsedAfterFree ==
  lev.freed <=> ~owned /\ ~Running /\ other = "idle"

(* A listener accepts exactly while it is enabled and has a callback, or   *)
(* had one when it was last enabled.                                       *)
AcceptsWhenEnabled ==
  ~lev.freed =>
    /\ lev.added => lev.enabled \/ ~owned
    /\ owned /\ lev.enabled /\ lev.cb => lev.added

ListenerSound == ReferencesHeld /\ NotUsedAfterFree /\ AcceptsWhenEnabled
===============================================================================
