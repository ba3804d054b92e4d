------------------------------ MODULE EvDnsServer ------------------------------
(***************************************************************************)
(* A DNS server port of libevent 2.1.12: the requests it has received, the *)
(* replies that could not be sent and its reference count (evdns.c).       *)
(*                                                                         *)
(* Every operation holds the lock of the port.  A request is held by the   *)
(* user, pending, or gone.  Left out: the contents of packets, malloc      *)
(* failures, and callbacks that release the last reference while the       *)
(* port's event is handled: the code goes on to use the port then.         *)
(***************************************************************************)
EXTENDS Integers, SequencesExt

CONSTANTS Requests,  \* that the network may deliver, each once
          MaxErrors  \* bounds the sends that fail with another error than EAGAIN

VARIABLES asked,    \* where each request is
          port,     \* refcnt, closing, what its event waits for
          replies,  \* pending_replies, from the head on
          errors    \* of sendto so far

portVars == <<asked, port, replies, errors>>

Init ==
  /\ asked = [q \in Requests |-> "network"] /\ replies = <<>> /\ errors = 0
  /\ port = [refcnt |-> 1, closing |-> FALSE, events |-> {"read"}, freed |-> FALSE]

Server == [asked |-> asked, port |-> port, replies |-> replies, errors |-> errors]
Becomes(s) ==
  asked' = s.asked /\ port' = s.port /\ replies' = s.replies /\ errors' = s.errors

server_port_free(s) == [s EXCEPT !.port.freed = TRUE, !.port.events = {}]

\* The request is taken out of the list when it is its head.
server_request_free(s, q) ==
  LET left == [s EXCEPT !.port.refcnt = @ - 1, !.asked[q] = "gone",
                        !.replies = IF @ # <<>> /\ Head(@) = q THEN Tail(@) ELSE @]
  IN  IF left.port.refcnt = 0 THEN server_port_free(left) ELSE left

\* Replies go in their order until one would block: so many of them are sent or
\* fail, and are freed.
server_port_flush(s, tried, failed) ==
  LET Drop(t, i) == IF t.port.freed THEN t ELSE server_request_free(t, Head(t.replies))
      left == FoldLeft(Drop, [s EXCEPT !.errors = @ + failed], [i \in 1 .. tried |-> i])
  IN  IF left.port.freed \/ left.replies # <<>> THEN left
      ELSE [left EXCEPT !.port.events = {"read"}]
Flushed(s) ==
  UNION {{server_port_flush(s, tried, failed) :
            failed \in 0 .. Min({tried, MaxErrors - s.errors})} : tried \in 0 .. Len(s.replies)}

--------------------------------------------------------------------------------
\* A packet that is a question; the user's callback keeps the request.
request_parse(q) ==
  /\ "read" \in port.events /\ asked[q] = "network"
  /\ Becomes([Server EXCEPT !.asked[q] = "held", !.port.refcnt = @ + 1])

\* The user of a send that would block is told so, and nothing changes.  After
\* another error the reply is pending.
Pending(s, q) ==
  [s EXCEPT !.replies = Append(@, q), !.asked[q] = "pending",
            !.port.events = IF s.replies # <<>> THEN @
                            ELSE {"write"} \cup IF s.port.closing THEN {} ELSE {"read"}]
Sent(s, q) ==
  LET left == server_request_free(s, q)
  IN  IF left.port.freed \/ left.replies = <<>> THEN {left} ELSE Flushed(left)

evdns_server_request_respond(q) ==
  /\ asked[q] = "held"
  /\ \/ \E s \in Sent(Server, q) : Becomes(s)
     \/ /\ errors < MaxErrors
        /\ Becomes(Pending([Server EXCEPT !.errors = @ + 1], q))

evdns_server_request_drop(q) ==
  asked[q] = "held" /\ Becomes(server_request_free(Server, q))

\* server_port_ready_callback for writing.
Writable == "write" \in port.events /\ \E t \in Flushed(Server) : Becomes(t)

evdns_close_server_port ==
  /\ ~port.closing /\ ~port.freed
  /\ LET left == [Server EXCEPT !.port.refcnt = @ - 1]
     IN  Becomes(IF left.port.refcnt = 0 THEN server_port_free(left)
                 ELSE [left EXCEPT !.port.closing = TRUE])

Next ==
  \/ \E q \in Requests : \/ request_parse(q) \/ evdns_server_request_respond(q)
                        \/ evdns_server_request_drop(q)
  \/ Writable \/ evdns_close_server_port

\* The socket takes the first reply in the end.
WriteWaits(q) == replies # <<>> /\ Head(replies) = q
Fairness == \A q \in Requests : []<>~WriteWaits(q)
Spec == Init /\ [][Next]_portVars /\ Fairness

--------------------------------------------------------------------------------
(* The port counts its user and the requests that were received and not    *)
(* answered; it is freed with the last of them and has no reply pending    *)
(* then (evdns.c:2129); and while a reply is pending the port waits to     *)
(* write (evdns.c:2019).                                                   *)
PortSound ==
  LET out == {q \in Requests : asked[q] \in {"held", "pending"}}
  IN  /\ port.refcnt = Cardinality(out) + (IF port.closing \/ port.freed THEN 0 ELSE 1)
      /\ port.freed <=> port.refcnt = 0
      /\ {replies[i] : i \in DOMAIN replies} = {q \in Requests : asked[q] = "pending"}
      /\ ("write" \in port.events) <=> (replies # <<>>)
================================================================================
