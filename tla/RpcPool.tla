------------------------------- MODULE RpcPool --------------------------------
(***************************************************************************)
(* The client side of evrpc.c: requests that wait in a pool for one of its *)
(* HTTP connections, hooks that may let them go on, end them or pause them *)
(* on the way out and on the way back, and the timeout of each.            *)
(*                                                                         *)
(* A connection is the queue of requests that evhttp has for it.  A user's *)
(* callback that calls back into the pool is a call that follows.          *)
(***************************************************************************)
EXTENDS Integers, FiniteSets, SequencesExt

CONSTANTS Requests, Conns,
          Timed,     \* whether the pool has a timeout
          NoConn

VARIABLES pool,   \* connections, queued requests and paused ones
          ctx,    \* the wrapper of each request
          http    \* what is on each connection

vars == <<pool, ctx, http>>

Results == {"continue", "pause", "terminate"}

evrpc_make_request_ctx ==
  [place |-> "none", conn |-> NoConn, timer |-> FALSE, owned |-> FALSE, told |-> 0,
   resumed |-> FALSE, hit |-> FALSE]
\* skipped: a request was not sent and the next one not looked for (history).
Init ==
  /\ pool = [conns |-> <<>>, queue |-> <<>>, paused |-> <<>>, skipped |-> FALSE,
             freed |-> FALSE]
  /\ ctx = [r \in Requests |-> evrpc_make_request_ctx]
  /\ http = [c \in Conns |-> <<>>]

-------------------------------------------------------------------------------
(* What is done within a call, to the state S of all three.                *)

State == [pool |-> pool, ctx |-> ctx, http |-> http]
Become(S) == pool' = S.pool /\ ctx' = S.ctx /\ http' = S.http

\* The callback, and the end of the wrapper.
Told(S, r) ==
  [S EXCEPT !.ctx[r].told = @ + 1, !.ctx[r].place = "freed", !.ctx[r].owned = FALSE]
Unstarted(S, r) == [Told(S, r) EXCEPT !.pool.skipped = TRUE]
evrpc_pause_request(S, r, cb) ==
  [S EXCEPT !.pool.paused = Append(@, [ctx |-> r, cb |-> cb]), !.ctx[r].place = "paused"]

\* evhttp_make_request may fail; the timeout stays then.
evrpc_schedule_request_closure(S, r, hook, started) ==
  LET timed == [S EXCEPT !.ctx[r].timer = Timed]
  IN  IF hook = "terminate" THEN Unstarted(S, r)
      ELSE IF started
      THEN [timed EXCEPT !.ctx[r].place = "sent", !.http[S.ctx[r].conn] = Append(@, r)]
      ELSE Unstarted(timed, r)
evrpc_schedule_request(S, c, r, hook, started) ==
  LET chosen == [S EXCEPT !.ctx[r].conn = c]
  IN  CASE hook = "terminate" -> Unstarted(chosen, r)
        [] hook = "pause" -> evrpc_pause_request(chosen, r, "schedule")
        [] hook = "continue" -> evrpc_schedule_request_closure(chosen, r, hook, started)

Idle(S) == {i \in DOMAIN S.pool.conns : S.http[S.pool.conns[i]] = <<>>}
evrpc_pool_find_connection(S) ==
  S.pool.conns[CHOOSE i \in Idle(S) : \A j \in Idle(S) : i <= j]
evrpc_pool_schedule(S, hook, started) ==
  IF S.pool.queue = <<>> \/ Idle(S) = {} THEN S
  ELSE evrpc_schedule_request([S EXCEPT !.pool.queue = Tail(@)],
                              evrpc_pool_find_connection(S), Head(S.pool.queue), hook, started)

evrpc_reply_done_closure(S, r, hook, started) ==
  evrpc_pool_schedule(Told(S, r), hook, started)
\* A reply that is paused is taken over from evhttp.
evrpc_reply_done(S, r, in, hook, started) ==
  LET quiet == [S EXCEPT !.ctx[r].timer = FALSE]
  IN  IF in = "pause"
      THEN evrpc_pause_request([quiet EXCEPT !.ctx[r].owned = TRUE], r, "reply")
      ELSE evrpc_reply_done_closure(quiet, r, hook, started)
\* evhttp_connection_fail_ ends whatever is first on the connection.
evhttp_connection_fail_(S, c, hook, started) ==
  evrpc_reply_done([S EXCEPT !.http[c] = Tail(@)], Head(S.http[c]), "continue", hook, started)

-------------------------------------------------------------------------------
(* Calls of users, and of evhttp and the event loop.                       *)

evrpc_make_request(r, hook, started) ==
  /\ ctx[r].place = "none"
  /\ pool.conns # <<>>
  /\ Become(evrpc_pool_schedule([State EXCEPT !.ctx[r].place = "queued",
                                              !.pool.queue = Append(@, r)], hook, started))

\* Users add connections that nothing is on.
evrpc_pool_add_connection(c, hook, started) ==
  /\ c \notin Range(pool.conns)
  /\ http[c] = <<>>
  /\ LET added == [State EXCEPT !.pool.conns = Append(@, c)]
     IN  Become(IF pool.queue = <<>> THEN added
                ELSE evrpc_schedule_request([added EXCEPT !.pool.queue = Tail(@)],
                                            c, Head(pool.queue), hook, started))
evrpc_pool_remove_connection(c) ==
  /\ c \in Range(pool.conns)
  /\ Become([State EXCEPT !.pool.conns = Remove(@, c)])

\* The entry is removed after its closure has run.
evrpc_resume_request(r, res, hook, started) ==
  \E i \in DOMAIN pool.paused :
    /\ pool.paused[i].ctx = r
    /\ LET on == [State EXCEPT !.ctx[r].resumed = TRUE]
           done == IF pool.paused[i].cb = "schedule"
                   THEN evrpc_schedule_request_closure(on, r, res, started)
                   ELSE evrpc_reply_done_closure(on, r, hook, started)
       IN  Become([done EXCEPT !.pool.paused = RemoveAt(@, i)])

Answered(c, in, hook, started) ==
  /\ http[c] # <<>>
  /\ Become(evrpc_reply_done([State EXCEPT !.http[c] = Tail(@)], Head(http[c]), in, hook, started))
Failed(c, hook, started) ==
  /\ http[c] # <<>>
  /\ Become(evhttp_connection_fail_(State, c, hook, started))
evrpc_request_timeout(r, hook, started) ==
  /\ ctx[r].timer /\ ctx[r].place # "freed"
  /\ LET c == ctx[r].conn
         fired == [State EXCEPT !.ctx[r].timer = FALSE, !.ctx[r].hit = Head(http[c]) # r]
     IN  Become(evhttp_connection_fail_(fired, c, hook, started))

\* Users free the pool when nothing is on its way.
evrpc_pool_free ==
  /\ \A r \in Requests : ctx[r].place \notin {"sent", "paused"}
  /\ Become([State EXCEPT
       !.pool = [@ EXCEPT !.conns = <<>>, !.queue = <<>>, !.freed = TRUE],
       !.ctx = [r \in Requests |->
                  IF @[r].place = "queued" THEN [@[r] EXCEPT !.place = "freed"] ELSE @[r]]])

Next ==
  /\ ~pool.freed
  /\ \/ \E hook \in Results, started \in BOOLEAN :
          \/ \E r \in Requests :
               \/ evrpc_make_request(r, hook, started)
               \/ evrpc_request_timeout(r, hook, started)
               \/ \E res \in {"continue", "terminate"} :
                    evrpc_resume_request(r, res, hook, started)
          \/ \E c \in Conns :
               \/ evrpc_pool_add_connection(c, hook, started)
               \/ Failed(c, hook, started)
               \/ \E in \in Results : Answered(c, in, hook, started)
     \/ \E c \in Conns : evrpc_pool_remove_connection(c)
     \/ evrpc_pool_free

Spec == Init /\ [][Next]_vars

-------------------------------------------------------------------------------
On(r) == {c \in Conns : r \in Range(http[c])}

(* Every request is in one place, and its user is told once, when it is in *)
(* none any more; only a pool that is freed drops what it has queued.      *)
InOnePlace ==
  /\ \A s \in {pool.queue, [i \in DOMAIN pool.paused |-> pool.paused[i].ctx]}
            \cup {http[c] : c \in Conns} : IsInjective(s)
  /\ \A r \in Requests :
       /\ ctx[r].place = "queued" <=> r \in Range(pool.queue)
       /\ ctx[r].place = "paused" <=> \E i \in DOMAIN pool.paused : pool.paused[i].ctx = r
       /\ On(r) = (IF ctx[r].place = "sent" THEN {ctx[r].conn} ELSE {})
       /\ ctx[r].told = (IF ctx[r].place = "freed" /\ ctx[r].conn # NoConn THEN 1 ELSE 0)
       /\ ctx[r].place = "freed" /\ ctx[r].conn = NoConn => pool.freed

(* A reply is held by the pool exactly while it is paused.                 *)
OwnedWhilePaused ==
  \A r \in Requests :
    ctx[r].owned <=> \E i \in DOMAIN pool.paused : pool.paused[i] = [ctx |-> r, cb |-> "reply"]

(* A request on a connection has its timeout, unless that went off when it *)
(* was behind another and ended that one: then it was paused, or the other.*)
(* A timeout without a request is left only where evhttp refused it.       *)
TimeoutsOwned ==
  \A r \in Requests :
    /\ ctx[r].place = "sent" => ctx[r].timer = (Timed /\ ~ctx[r].hit)
    /\ ctx[r].place \in {"none", "queued", "paused"} => ~ctx[r].timer
    /\ ctx[r].timer /\ ctx[r].place = "freed" => pool.skipped
    /\ ctx[r].hit => \E s \in Requests : ctx[s].resumed

(* Two requests are on one connection only if one of them was paused.      *)
OneEach ==
  \A c \in Conns : Len(http[c]) > 1 => \E r \in Range(http[c]) : ctx[r].resumed

(* Nothing is queued while a connection is idle, except behind a paused    *)
(* request, after one that was not started, or for connections that were   *)
(* removed.                                                                *)
NoneStranded ==
  pool.queue # <<>> /\ Idle(State) # {} => pool.skipped \/ pool.paused # <<>>

PoolSound == InOnePlace /\ OwnedWhilePaused /\ TimeoutsOwned /\ OneEach /\ NoneStranded
===============================================================================
