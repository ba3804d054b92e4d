------------------------------ MODULE HttpClient ------------------------------
(***************************************************************************)
(* An outgoing evhttp_connection of libevent 2.1.12 (http.c): the queue of *)
(* its requests, its states, its attempts to connect and the user's        *)
(* callbacks, which may make, cancel and free requests and connections     *)
(* themselves.                                                             *)
(*                                                                         *)
(* calls holds the callbacks that run, the innermost first, with what is   *)
(* left to do once the user returns.  What is parsed is a choice among     *)
(* what the parser may report.  A failed assertion aborts the program, and *)
(* so, here, does the use of what has been freed.                          *)
(* Left out: local addresses, error_cb, owned requests, malloc failures.   *)
(***************************************************************************)
EXTENDS Integers, SequencesExt

CONSTANTS Requests,
          retry_max,
          Setups, \* of the connection and its requests, as Setup gives them
          Odd     \* what else may happen: see below

(* auto is EVHTTP_CON_AUTOFREE, onwrite is EVHTTP_CON_READ_ON_WRITE_ERROR, *)
(* and chunks says that the requests have a chunk_cb.                      *)
Setup(auto, onwrite, chunks) == [auto |-> auto, onwrite |-> onwrite, chunks |-> chunks]
PlainSetup == {Setup(FALSE, FALSE, FALSE)}

(* Odd may hold "unasked data", of the server to an idle connection;       *)
(* "cancel in retry", of the user while the retry timer runs; "request     *)
(* after giving up", when all attempts to connect have failed; "request    *)
(* after cancelled failure", when the user has cancelled the last of the   *)
(* requests that fail then, of which the queue's tail knows nothing;       *)
(* "cancel after free", of one of those when the connection is freed; and  *)
(* "cancel in last callback", of the request that keeps a connection from  *)
(* freeing itself after the callback.                                      *)

VARIABLES con,   \* the evhttp_connection and its bufferevent
          queue, \* its requests
          req,   \* what each request is
          calls  \* the user's callbacks that run

httpVars == <<con, queue, req, calls>>

Reading == {"FIRSTLINE", "HEADERS", "BODY", "TRAILER"}

Init ==
  /\ \E set \in Setups :
       con = [set |-> set, state |-> "DISCONNECTED", evcb |-> "none", readcb |-> FALSE,
              rd |-> FALSE, wr |-> FALSE, out |-> FALSE, input |-> FALSE, body |-> "none",
              more |-> FALSE, detect |-> FALSE, rerr |-> FALSE,
              retry |-> FALSE, retry_cnt |-> 0, tail |-> TRUE, live |-> TRUE, aborted |-> FALSE]
  /\ queue = <<>> /\ calls = <<>>
  /\ req = [q \in Requests |-> [at |-> "new", kind |-> "REQUEST"]]

Base == [con |-> con, queue |-> queue, req |-> req, calls |-> calls]
Becomes(b) == con' = b.con /\ queue' = b.queue /\ req' = b.req /\ calls' = b.calls

Asserting(b, ok) == [b EXCEPT !.con.aborted = @ \/ ~ok]
Calls(b, frames) == [b EXCEPT !.calls = frames \o @]
\* con.tail says that tqh_last of the queue points into it: it is set right when
\* the last of the queue is taken off.
TAILQ_REMOVE(b, q) ==
  [b EXCEPT !.queue = SelectSeq(@, LAMBDA r : r # q), !.con.tail = @ \/ Last(b.queue) = q]
Deferred(b, q) == \E i \in DOMAIN b.calls : b.calls[i].what = "chunk" /\ b.calls[i].q = q
evhttp_request_free(b, q) ==
  [b EXCEPT !.req[q].at = IF Deferred(b, q) THEN "needs free" ELSE "gone"]

--------------------------------------------------------------------------------
evhttp_connected(b) == b.con.state \notin {"DISCONNECTED", "CONNECTING"}

\* The flag of close detection and the deferred read stay as they are.
evhttp_connection_reset_(b) ==
  [b EXCEPT !.con.state = "DISCONNECTED", !.con.evcb = "none", !.con.readcb = FALSE,
            !.con.rd = FALSE, !.con.wr = FALSE, !.con.out = FALSE,
            !.con.input = FALSE, !.con.rerr = FALSE]

evhttp_connection_free(b) ==
  [FoldLeft(evhttp_request_free, b, b.queue) EXCEPT
     !.queue = <<>>, !.con = [evhttp_connection_reset_(b).con EXCEPT
                                !.live = FALSE, !.retry = FALSE, !.more = FALSE]]

\* The next of the requests that fail is called; only then it is no longer the
\* connection's.
TellNext(b) ==
  IF b.calls # <<>> /\ b.req[Head(b.calls).q].at = "failing"
  THEN [b EXCEPT !.req[Head(b.calls).q].at = "told"] ELSE b

\* The attempt to connect has failed: another one later, or all requests fail.
evhttp_connection_cb_cleanup(b) ==
  LET down == evhttp_connection_reset_(b)
      frames == [i \in DOMAIN b.queue |-> [what |-> "cleanup", q |-> b.queue[i], free |-> FALSE]]
  IN  IF retry_max < 0 \/ b.con.retry_cnt < retry_max
      THEN [down EXCEPT !.con.retry = TRUE, !.con.retry_cnt = @ + 1]
      ELSE TellNext(Calls([down EXCEPT !.queue = <<>>, !.con.tail = @ \/ b.queue # <<>>,
                                       !.req = [q \in Requests |->
                                                  IF q \in ToSet(b.queue)
                                                  THEN [@[q] EXCEPT !.at = "failing"]
                                                  ELSE @[q]]], frames))

\* now says whether the attempt fails at once.
evhttp_connection_connect_(b, now) ==
  LET trying == [evhttp_connection_reset_(b) EXCEPT
                   !.con.state = "CONNECTING", !.con.evcb = "connect", !.con.wr = TRUE]
  IN  CASE b.con.state = "CONNECTING" -> b
        [] b.con.state # "CONNECTING" /\ ~now -> trying
        [] b.con.state # "CONNECTING" /\ now -> evhttp_connection_cb_cleanup(trying)

\* evhttp_request_dispatch and evhttp_write_buffer.
Writing(b) ==
  [b EXCEPT !.con.state = "WRITING", !.con.out = TRUE, !.con.evcb = "error",
            !.con.readcb = FALSE, !.con.rd = TRUE, !.con.wr = TRUE]
(* Mutant: close detection goes on while the next request is written.     *)
evhttp_request_dispatch_Detects(b) ==
  IF b.queue = <<>> THEN b
  ELSE Writing(Asserting(b, b.con.state = "IDLE" /\ b.req[Head(b.queue)].kind = "REQUEST"))
evhttp_request_dispatch(b) ==
  IF b.queue = <<>> THEN b
  ELSE Writing([Asserting(b, b.con.state = "IDLE" /\ b.req[Head(b.queue)].kind = "REQUEST")
                  EXCEPT !.con.detect = FALSE])

\* The request in front is taken off and freed, and the next one gets a new
\* connection.  The user is told last.
evhttp_connection_fail_(b, cancel, now) ==
  LET q == Head(b.queue)
      freed == evhttp_request_free(TAILQ_REMOVE(b, q), q)
      told == IF cancel THEN freed
              ELSE Calls(freed, <<[what |-> "failed", q |-> q, free |-> FALSE]>>)
      down == evhttp_connection_reset_(told)
  IN  CASE b.queue = <<>> -> Asserting(b, FALSE)
        [] b.queue # <<>> /\ down.queue # <<>> -> evhttp_connection_connect_(down, now)
        [] b.queue # <<>> /\ down.queue = <<>> /\ b.con.set.auto -> evhttp_connection_free(down)
        [] b.queue # <<>> /\ down.queue = <<>> /\ ~b.con.set.auto -> down

\* A response is complete; close says that the connection is not to be kept.
evhttp_connection_done(b, close, now) ==
  LET q == Head(b.queue)
      rest == Tail(b.queue)
      frame == [what |-> "done", q |-> q, free |-> close /\ rest = <<>> /\ b.con.set.auto]
      idle == Calls([TAILQ_REMOVE(b, q) EXCEPT !.con.state = "IDLE", !.req[q].at = "told"], <<frame>>)
      left == IF close THEN evhttp_connection_reset_(idle) ELSE idle
  IN  CASE rest # <<>> /\ close -> evhttp_connection_connect_(left, now)
        [] rest # <<>> /\ ~close -> evhttp_request_dispatch(left)
        [] rest = <<>> /\ ~close -> [left EXCEPT !.con.detect = TRUE, !.con.rd = TRUE]
        [] rest = <<>> /\ close -> left

evhttp_start_read_(b) ==
  [b EXCEPT !.con.state = "FIRSTLINE", !.con.wr = FALSE, !.con.rd = TRUE, !.con.readcb = TRUE,
            !.con.evcb = "error", !.con.more = @ \/ b.con.input]

--------------------------------------------------------------------------------
\* What has arrived is parsed from the connection's state on: the sets are of
\* what may come of it.  The last bytes of a response leave nothing behind but
\* what nobody has asked for.
Fails(b, now) == {evhttp_connection_fail_(b, FALSE, now)}
Waits(b, state) ==
  {[b EXCEPT !.con.state = state, !.con.input = left] : left \in BOOLEAN}
Done(b, now) ==
  {evhttp_connection_done([b EXCEPT !.con.rd = FALSE, !.con.input = unasked], close, now) :
     close \in BOOLEAN, unasked \in {FALSE} \cup IF "unasked data" \in Odd THEN {TRUE} ELSE {}}

evhttp_read_trailer(b, now) == Waits(b, "TRAILER") \cup Fails(b, now) \cup Done(b, now)

\* then says what follows the chunk_cb.
BodyGoesOn(b, then, now) ==
  CASE then = "more" -> Waits(b, "BODY")
    [] then = "last" /\ b.con.body = "chunked" -> evhttp_read_trailer(b, now)
    [] then = "last" /\ b.con.body = "length" -> Done(b, now)
    [] then = "last" /\ b.con.body = "eof" -> Waits(b, "BODY")
Chunk(b, then) ==
  Calls(b, <<[what |-> "chunk", q |-> Head(b.queue), free |-> FALSE, then |-> then]>>)
evhttp_read_body(b, now) ==
  UNION {IF b.con.set.chunks THEN {Chunk([b EXCEPT !.con.state = "BODY"], then)}
         ELSE BodyGoesOn(b, then, now) : then \in {"more", "last"}} \cup Fails(b, now)

evhttp_get_body(b, now) ==
  Fails(b, now) \cup   \* the length is no number
  UNION {evhttp_read_body([b EXCEPT !.con.body = kind], now) : kind \in {"chunked", "length", "eof"}}

\* A 100 Continue, of which there may be any number, sends what of the request was
\* held back.
Continues(b) == {Writing([b EXCEPT !.con.input = left]) : left \in BOOLEAN}

evhttp_read_header(b, now) ==
  Waits(b, "HEADERS") \cup Fails(b, now) \cup Continues(b) \cup Done(b, now)
    \cup evhttp_get_body(b, now)
evhttp_read_firstline(b, now) ==
  Waits(b, "FIRSTLINE") \cup Fails(b, now) \cup evhttp_read_header(b, now)

evhttp_read_cb(c, now) ==
  LET b == [c EXCEPT !.con.more = FALSE]
  IN  CASE b.con.state = "FIRSTLINE" -> evhttp_read_firstline(b, now)
        [] b.con.state = "HEADERS" -> evhttp_read_header(b, now)
        [] b.con.state = "BODY" -> evhttp_read_body(b, now)
        [] b.con.state = "TRAILER" -> evhttp_read_trailer(b, now)
        [] b.con.state = "IDLE" -> {evhttp_connection_reset_(b)}
        [] OTHER -> {Asserting(b, FALSE)}

--------------------------------------------------------------------------------
\* A write has failed: perhaps the server has answered before.
evhttp_connection_read_on_write_error(b, now) ==
  IF b.con.rerr THEN evhttp_connection_fail_([b EXCEPT !.con.rerr = FALSE], FALSE, now)
  ELSE [evhttp_start_read_([b EXCEPT !.req[Head(b.queue)].kind = "RESPONSE", !.con.out = FALSE])
          EXCEPT !.con.rerr = TRUE]

\* The other side closed a connection that was kept.
CloseDetected(b) ==
  LET down == evhttp_connection_reset_([Asserting(b, b.con.state = "IDLE") EXCEPT !.con.detect = FALSE])
  IN  IF down.queue = <<>> /\ b.con.set.auto THEN evhttp_connection_free(down) ELSE down

evhttp_error_cb(b, what, now) ==
  CASE b.con.state = "CONNECTING" /\ what = "timeout" -> {evhttp_connection_cb_cleanup(b)}
    [] b.con.state = "BODY" /\ b.con.body = "eof" /\ what = "eof" ->
         {evhttp_connection_done(b, close, now) : close \in BOOLEAN}
    [] OTHER ->
         CASE b.con.detect -> {CloseDetected(b)}
           [] ~b.con.detect /\ b.con.set.onwrite /\ what = "write" ->
                {evhttp_connection_read_on_write_error(b, now)}
           [] ~b.con.detect /\ b.con.set.onwrite /\ what \in {"eof", "read"} /\ b.con.input ->
                {[b EXCEPT !.con.more = TRUE]}
           [] OTHER -> {evhttp_connection_fail_(b, FALSE, now)}

evhttp_connection_cb(b, what, now) ==
  CASE what = "connected" ->
         {evhttp_request_dispatch([b EXCEPT !.con.retry_cnt = 0, !.con.state = "IDLE",
                                            !.con.evcb = "error", !.con.readcb = TRUE])}
    [] what = "refused" -> {evhttp_connection_cb_cleanup(b)}
    [] OTHER -> evhttp_error_cb(b, what, now)

--------------------------------------------------------------------------------
\* The loop calls nobody while a callback runs.
InLoop == calls = <<>> /\ con.live /\ ~con.aborted
Some(Outcomes(_)) == \E now \in BOOLEAN : \E b \in Outcomes(now) : Becomes(b)

Connects ==
  /\ InLoop /\ con.evcb = "connect"
  /\ \E what \in {"connected", "refused", "failed", "timeout"} :
       LET Call(now) == evhttp_connection_cb(Base, what, now) IN Some(Call)

Readable ==
  LET Call(now) == IF con.readcb THEN evhttp_read_cb([Base EXCEPT !.con.input = TRUE], now)
                   ELSE {[Base EXCEPT !.con.input = TRUE]}
  IN  /\ InLoop /\ con.evcb = "error" /\ con.rd
      /\ con.state # "IDLE" \/ "unasked data" \in Odd
      /\ Some(Call)

Breaks ==
  /\ InLoop /\ con.evcb = "error"
  /\ \E what \in {"eof", "read", "write", "timeout"} :
       LET down == CASE what \in {"eof", "read"} -> [Base EXCEPT !.con.rd = FALSE]
                     [] what = "write" -> [Base EXCEPT !.con.wr = FALSE]
                     [] what = "timeout" -> Base
           Call(now) == evhttp_error_cb(down, what, now)
       IN  /\ what \in {"eof", "read"} => con.rd
           /\ what = "write" => con.wr /\ con.out
           /\ what = "timeout" => con.rd \/ (con.wr /\ con.out)
           /\ Some(Call)

\* evhttp_write_cb and evhttp_write_connectioncb, when all is written.
Written ==
  /\ InLoop /\ con.wr /\ con.out
  /\ LET b == Asserting([Base EXCEPT !.con.out = FALSE], con.state = "WRITING" /\ queue # <<>>)
     IN  Becomes(IF b.con.aborted THEN b
                 ELSE evhttp_start_read_([b EXCEPT !.req[Head(queue)].kind = "RESPONSE"]))

evhttp_deferred_read_cb ==
  LET b == [Base EXCEPT !.con.more = FALSE]
      Call(now) == IF con.readcb THEN evhttp_read_cb(b, now) ELSE {b}
  IN  InLoop /\ con.more /\ Some(Call)

evhttp_connection_retry ==
  LET b == [Base EXCEPT !.con.retry = FALSE, !.con.state = "DISCONNECTED"]
      Call(now) == {evhttp_connection_connect_(b, now)}
  IN  InLoop /\ con.retry /\ Some(Call)

\* The user's callback returns.
After(b, frame) ==
  CASE frame.what = "failed" -> {b}
    [] frame.what = "cleanup" -> {TellNext(evhttp_request_free(b, frame.q))}
    [] frame.what = "done" ->
         LET freed == Asserting(evhttp_request_free(b, frame.q), frame.free => b.con.live)
         IN  {IF frame.free /\ freed.queue = <<>> THEN evhttp_connection_free(freed) ELSE freed}
Returns ==
  LET frame == Head(calls)
      b == [Base EXCEPT !.calls = Tail(@)]
      Call(now) == CASE frame.what # "chunk" -> After(b, frame)
                     [] frame.what = "chunk" /\ req[frame.q].at = "needs free" ->
                          {evhttp_request_free(b, frame.q)}
                     [] frame.what = "chunk" /\ req[frame.q].at # "needs free" ->
                          BodyGoesOn(b, frame.then, now)
  IN  calls # <<>> /\ ~con.aborted /\ Some(Call)

--------------------------------------------------------------------------------
GivenUp == con.retry_cnt > 0 /\ ~con.retry /\ con.state = "DISCONNECTED"
evhttp_make_request(q) ==
  LET b == Asserting([Base EXCEPT !.req[q].at = "queued", !.queue = Append(@, q)], con.tail)
      Call(now) == CASE con.retry_cnt > 0 -> {b}
                     [] con.retry_cnt = 0 /\ ~evhttp_connected(b) -> {evhttp_connection_connect_(b, now)}
                     [] con.retry_cnt = 0 /\ evhttp_connected(b) ->
                          {IF queue = <<>> THEN evhttp_request_dispatch(b) ELSE b}
  IN  /\ con.live /\ ~con.aborted /\ req[q].at = "new"
      /\ GivenUp => "request after giving up" \in Odd
      /\ con.tail \/ "request after cancelled failure" \in Odd
      /\ Some(Call)

\* One whose connection works on it takes the connection with it.  One that is to
\* fail after others is taken off their list, but the tail that is set then, if it
\* was the last there, is the queue's.
evhttp_cancel_request(q) ==
  LET waits == CHOOSE i \in DOMAIN calls : calls[i].q = q
      last == waits = Len(calls) \/ req[calls[waits + 1].q].at # "failing"
      Call(now) ==
        CASE req[q].at = "failing" ->
               {evhttp_request_free([Asserting(Base, con.live) EXCEPT
                                       !.calls = RemoveAt(@, waits), !.con.tail = @ /\ ~last], q)}
          [] req[q].at = "queued" /\ Head(queue) = q -> {evhttp_connection_fail_(Base, TRUE, now)}
          [] req[q].at = "queued" /\ Head(queue) # q ->
               {evhttp_request_free(TAILQ_REMOVE(Base, q), q)}
      keeps == con.set.auto /\ queue = <<q>> /\ \E i \in DOMAIN calls : calls[i].free
  IN  /\ ~con.aborted /\ req[q].at \in {"queued", "failing"}
      /\ con.live \/ "cancel after free" \in Odd
      /\ con.retry => "cancel in retry" \in Odd
      /\ keeps => "cancel in last callback" \in Odd
      /\ Some(Call)

\* Not in a callback after which an automatic connection frees itself.
Free ==
  /\ con.live /\ ~con.aborted /\ ~con.set.auto
  /\ Becomes(evhttp_connection_free(Base))

Next ==
  \/ Connects \/ Readable \/ Breaks \/ Written \/ evhttp_deferred_read_cb
  \/ evhttp_connection_retry \/ Returns \/ Free
  \/ \E q \in Requests : evhttp_make_request(q) \/ evhttp_cancel_request(q)

\* Timers fire and callbacks return: a connection does not wait for its socket
\* or a timer for ever, with one request in one state.
Stages == Reading \cup {"CONNECTING", "WRITING"}
StageWaits(q, s) ==
  con.state = s /\ (con.rd \/ con.wr \/ con.more) /\ queue # <<>> /\ Head(queue) = q
CallWaits(q) == calls # <<>> /\ Head(calls).q = q
Fairness ==
  /\ \A q \in Requests, s \in Stages : []<>~StageWaits(q, s)
  /\ []<>~con.retry
  /\ \A q \in Requests : []<>~CallWaits(q)
Spec == Init /\ [][Next]_httpVars /\ Fairness

--------------------------------------------------------------------------------
(* No assertion of the code fails, whatever the server sends and the user  *)
(* does in its callbacks, but for what Odd names: the state and the kind   *)
(* of the request in front are what evhttp_request_dispatch,               *)
(* evhttp_write_connectioncb, evhttp_read_cb and evhttp_error_cb count on. *)
(* A request is in the queue of the connection, or its callback runs or is *)
(* to run and frees it afterwards (http.c:1431), and it is told of once.   *)
ClientSound ==
  /\ ~con.aborted
  /\ ToSet(queue) = {q \in Requests : req[q].at = "queued"}
  /\ Len(queue) = Cardinality(ToSet(queue))
  /\ \A q \in Requests :
       req[q].at \in {"failing", "told"} =>
         Cardinality({i \in DOMAIN calls : calls[i].q = q}) = 1
  /\ con.state \in Reading => queue # <<>> /\ req[Head(queue)].kind = "RESPONSE"
  /\ con.live /\ con.detect => con.state = "IDLE" /\ queue = <<>>

(* A connection with requests to make is connected, tries to be, or will   *)
(* try again: "If the connection object is not connected to the web server *)
(* already, this will start the connection." (http.c:2642)                 *)
ConnectionStarted ==
  con.live /\ ~con.aborted /\ queue # <<>> /\ calls = <<>> =>
    con.state # "DISCONNECTED" \/ con.retry

(* A request that is made is told of, cancelled or freed with its          *)
(* connection, unless the server continues it without end.  One on a       *)
(* connection that reads on after write errors may wait for ever, for the  *)
(* rest of what came before the end.                                       *)
Owed(q) ==
  \/ con.live /\ ~con.aborted /\ ~con.set.onwrite /\ req[q].at = "queued"
  \/ req[q].at = "failing"
Continued(q) ==
  con.state = "WRITING" /\ queue # <<>> /\ Head(queue) = q /\ req[q].kind = "RESPONSE"
================================================================================
