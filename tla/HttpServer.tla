------------------------------ MODULE HttpServer ------------------------------
(***************************************************************************)
(* Incoming connections of libevent 2.1.12's evhttp (http.c), one after    *)
(* the other: the request that is read, given to the user, answered at     *)
(* once or in parts, and the next one on the same connection.              *)
(*                                                                         *)
(* What is parsed is a choice among what the parser may report.  A request *)
(* that cannot be made, for want of memory, is one too many of Requests.   *)
(* The user answers whenever it likes.  Left out: virtual hosts, close and *)
(* completion callbacks, and a user who frees connections.                 *)
(***************************************************************************)
EXTENDS Integers, FiniteSets

CONSTANTS Requests, \* numbers from 1 on, taken in their order
          Linger    \* EVHTTP_SERVER_LINGERING_CLOSE

(* A request is new, reading, with the user, answered in part, chunked (in *)
(* part, with chunks), replying, a page (the server's own answer),         *)
(* detached (with the user, its connection gone) or gone.                  *)
VARIABLES evcon, \* the evhttp_connection and its bufferevent
          cur,   \* the request in its queue, or 0
          req,   \* what each request is
          http   \* the evhttp itself is there

serverVars == <<evcon, cur, req, http>>

Held == {"user", "part", "chunked", "detached"}

NoConnection ==
  [live |-> FALSE, state |-> "none", rd |-> FALSE, wr |-> FALSE, readcb |-> FALSE,
   out |-> FALSE, cb |-> "none", input |-> FALSE, more |-> FALSE]

Init ==
  /\ evcon = NoConnection /\ cur = 0 /\ http = TRUE
  /\ req = [q \in Requests |-> "new"]

Base == [evcon |-> evcon, cur |-> cur, req |-> req]
Becomes(b) == evcon' = b.evcon /\ cur' = b.cur /\ req' = b.req /\ UNCHANGED http
Some(outcomes) == \E b \in outcomes : Becomes(b)
Is(b, what) == [b EXCEPT !.req[b.cur] = what]

evhttp_connection_free(b) ==
  [(IF b.cur = 0 THEN b ELSE Is(b, "gone")) EXCEPT !.evcon = NoConnection, !.cur = 0]

\* What is in the input already is read later: nothing else would announce it.
evhttp_start_read_(b) ==
  [b EXCEPT !.evcon.state = "FIRSTLINE", !.evcon.wr = FALSE, !.evcon.rd = TRUE,
            !.evcon.readcb = TRUE, !.evcon.more = @ \/ b.evcon.input]

New(b) == {q \in Requests : b.req[q] = "new"}
evhttp_associate_new_request_with_connection(b) ==
  IF New(b) = {} THEN evhttp_connection_free(b)
  ELSE LET q == CHOOSE q \in New(b) : \A r \in New(b) : q <= r
       IN  evhttp_start_read_([b EXCEPT !.cur = q, !.req[q] = "reading"])

\* The answer is complete and goes out; nothing is read from now on, but the
\* end of the connection is noticed.
evhttp_write_buffer(b, cb) ==
  [b EXCEPT !.evcon.cb = cb, !.evcon.readcb = FALSE, !.evcon.rd = TRUE, !.evcon.wr = TRUE]
evhttp_send(b, what) == evhttp_write_buffer([Is(b, what) EXCEPT !.evcon.out = TRUE], "done")

\* A request for the user, or one that is answered with a page of the server.
evhttp_handle_request(b) ==
  LET quiet == [b EXCEPT !.evcon.rd = FALSE]
  IN  {evhttp_send(quiet, "page"), Is(quiet, "user")}

\* One that is with the user stays there.  The server answers others that are
\* wrong, but not when the connection is broken.
(* Mutant: the request is not taken off its connection.                    *)
evhttp_connection_incoming_fail_Keeps(b) == b
evhttp_connection_incoming_fail(b) ==
  IF b.req[b.cur] \in Held THEN [Is(b, "detached") EXCEPT !.cur = 0] ELSE b
Broken(b) == evhttp_connection_free(evhttp_connection_incoming_fail(b))
Wrong(b) == {evhttp_send(b, "page")}

\* A page asks for the end of the connection, but a CONNECT keeps it.
evhttp_send_done(b) ==
  LET free == Is(b, "gone")
  IN  {evhttp_connection_free(free), evhttp_associate_new_request_with_connection(free)}

--------------------------------------------------------------------------------
\* What the parser makes of the input, from the connection's state on.  More of
\* the input may be left when the request is complete.
Waits(b, state) == {[b EXCEPT !.evcon.state = state, !.evcon.input = FALSE]}
evhttp_connection_done(b) ==
  UNION {evhttp_handle_request([b EXCEPT !.evcon.state = "WRITING", !.evcon.input = rest]) :
           rest \in BOOLEAN}

evhttp_read_trailer(b) == Waits(b, "TRAILER") \cup Wrong(b) \cup evhttp_connection_done(b)

\* Too long a body may be read to its end before it is refused.
evhttp_lingering_fail(b) == Wrong(b) \cup IF Linger THEN Waits(b, "BODY") ELSE {}
evhttp_read_body(b) ==
  Waits(b, "BODY") \cup evhttp_read_trailer(b) \cup Wrong(b)
    \cup evhttp_lingering_fail(b) \cup evhttp_connection_done(b)

evhttp_send_continue(b) ==
  [b EXCEPT !.evcon.wr = TRUE, !.evcon.out = TRUE, !.evcon.cb = "continue", !.evcon.readcb = TRUE]

evhttp_get_body(b) ==
  LET continued == [evhttp_send_continue(b) EXCEPT !.evcon.state = "BODY", !.evcon.input = FALSE]
  IN  evhttp_connection_done(b)               \* no body
        \cup Wrong(b)                         \* illegal length, expectation failed
        \cup {continued} \cup evhttp_lingering_fail(b) \cup evhttp_read_body(b)

\* header_cb is not set for incoming requests.
evhttp_read_header(b) == Waits(b, "HEADERS") \cup Wrong(b) \cup evhttp_get_body(b)
evhttp_read_firstline(b) == Waits(b, "FIRSTLINE") \cup Wrong(b) \cup evhttp_read_header(b)

evhttp_read_cb(c) ==
  LET b == [c EXCEPT !.evcon.more = FALSE]
  IN  CASE b.evcon.state = "FIRSTLINE" -> evhttp_read_firstline(b)
        [] b.evcon.state = "HEADERS" -> evhttp_read_header(b)
        [] b.evcon.state = "BODY" -> evhttp_read_body(b)
        [] b.evcon.state = "TRAILER" -> evhttp_read_trailer(b)

--------------------------------------------------------------------------------
\* A client connects.
evhttp_get_request ==
  /\ http /\ ~evcon.live /\ New(Base) # {}
  /\ Becomes(evhttp_associate_new_request_with_connection([Base EXCEPT !.evcon.live = TRUE]))

Readable ==
  LET b == [Base EXCEPT !.evcon.input = TRUE]
  IN  evcon.rd /\ IF evcon.readcb THEN Some(evhttp_read_cb(b)) ELSE Becomes(b)

evhttp_deferred_read_cb ==
  LET b == [Base EXCEPT !.evcon.more = FALSE]
  IN  evcon.more /\ IF evcon.readcb THEN Some(evhttp_read_cb(b)) ELSE Becomes(b)

\* evhttp_write_cb: all that was in the output is written.
Written ==
  LET b == [Base EXCEPT !.evcon.out = FALSE]
  IN  /\ evcon.wr /\ evcon.out
      /\ \/ evcon.cb = "done" /\ Some(evhttp_send_done(b))
         \/ evcon.cb = "continue" /\ Becomes([b EXCEPT !.evcon.wr = FALSE])
         \/ evcon.cb = "none" /\ Becomes(b)

\* evhttp_error_cb: an end, an error or a timeout.
Breaks == evcon.live /\ (evcon.rd \/ (evcon.wr /\ evcon.out)) /\ Becomes(Broken(Base))

--------------------------------------------------------------------------------
\* The user answers.  An answer to a connection that is gone is not sent.
Forget(q) == Becomes([Base EXCEPT !.req[q] = "gone"])

evhttp_send_reply(q) ==
  \/ req[q] = "user" /\ Becomes(evhttp_send(Base, "replying"))
  \/ req[q] = "detached" /\ Forget(q)

evhttp_send_reply_start(q) ==
  /\ req[q] = "user"
  /\ \E what \in {"part", "chunked"} :
       Becomes(evhttp_write_buffer([Is(Base, what) EXCEPT !.evcon.out = TRUE], "none"))

evhttp_send_reply_chunk(q) ==
  /\ req[q] \in {"part", "chunked"}
  /\ Becomes(evhttp_write_buffer([Base EXCEPT !.evcon.out = TRUE], "none"))

evhttp_send_reply_end(q) ==
  \/ req[q] = "chunked" /\ Becomes(evhttp_send(Base, "replying"))
  \/ req[q] = "part" /\ evcon.out /\ Becomes([Is(Base, "replying") EXCEPT !.evcon.cb = "done"])
  \/ req[q] = "part" /\ ~evcon.out /\ Some(evhttp_send_done(Is(Base, "replying")))
  \/ req[q] = "detached" /\ Forget(q)

\* It is for when no request is with the user (event2/http.h:210).
evhttp_free ==
  /\ http /\ \A q \in Requests : req[q] \notin Held
  /\ http' = FALSE
  /\ LET b == evhttp_connection_free(Base)
     IN  evcon' = b.evcon /\ cur' = b.cur /\ req' = b.req

Next ==
  \/ evhttp_get_request \/ Readable \/ evhttp_deferred_read_cb \/ Written \/ Breaks \/ evhttp_free
  \/ \E q \in Requests : \/ evhttp_send_reply(q) \/ evhttp_send_reply_start(q)
                        \/ evhttp_send_reply_chunk(q) \/ evhttp_send_reply_end(q)

\* The client takes what is written, or a timeout breaks the connection; what
\* is deferred runs.
WriteWaits(q) == evcon.wr /\ evcon.out /\ cur = q
Fairness == (\A q \in Requests : []<>~WriteWaits(q)) /\ []<>~evcon.more
Spec == Init /\ [][Next]_serverVars /\ Fairness

--------------------------------------------------------------------------------
(* Whatever the client and the user do in which order, the connection has  *)
(* the one request that is read or answered on it; a request the user      *)
(* still holds is there, detached when its connection is gone (http.c:669),*)
(* and every other is freed (http.c:1230).  What answers it calls          *)
(* evhttp_send_done when it is written and reads nothing; the parser is    *)
(* called in a state it knows (http.c:1180); and input that was there      *)
(* before the request is looked at (http.c:2749).                          *)
Suits(e, what) ==
  /\ what = "reading" => /\ e.rd /\ e.readcb /\ e.state # "WRITING"
                         /\ (e.input => e.more)
                         /\ (e.wr => e.out /\ e.cb = "continue")
  /\ what = "user" => ~e.rd /\ ~e.more
  /\ what \in {"part", "chunked"} => e.wr /\ ~e.readcb /\ e.cb = "none"
  /\ what \in {"replying", "page"} => e.wr /\ e.out /\ ~e.readcb /\ e.cb = "done"
ServerSound ==
  /\ (evcon.live <=> cur # 0)
  /\ \A q \in Requests :
       req[q] \in {"reading", "user", "part", "chunked", "replying", "page"} <=> q = cur
  /\ (evcon.live => Suits(evcon, req[cur]))

(* A request the user holds is not freed under it: it ends with the user's *)
(* last call for it, and loses its connection before when that breaks.     *)
HeldStays ==
  \A q \in Requests :
    req[q] \in Held /\ req'[q] = "gone" => req[q] = "detached" \/ (req[q] = "part" /\ ~evcon.out)

(* An answer that is complete is sent, or its connection ends.             *)
Answering(q) == req[q] \in {"replying", "page"}
================================================================================
