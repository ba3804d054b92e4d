--------------------------------- MODULE EvDns ---------------------------------
(***************************************************************************)
(* The resolver of libevent 2.1.12: requests, nameservers and timers of    *)
(* evdns.c.                                                                *)
(*                                                                         *)
(* Queries of the user and probes of nameservers are the handles; a probe  *)
(* goes by the name of its nameserver.  A handle's request waits or is in  *)
(* flight; replies come from the network late, twice, in any order or      *)
(* never.  When a request ends, its callback is deferred.                  *)
(*                                                                         *)
(* Left out: the contents of packets, TCP (there is none), malloc failures *)
(* and EVDNS_BASE_DISABLE_WHEN_INACTIVE.                                   *)
(***************************************************************************)
EXTENDS Integers, SequencesExt

CONSTANTS Servers, Queries,
          NoServer,
          max_inflight, max_retransmits, max_reissues, max_timeouts,
          Names,       \* that the search of each query tries after the first
          MaxFaults,   \* bounds the sockets' errors and full buffers
          MaxSuspends  \* bounds evdns_base_clear_nameservers_and_suspend

VARIABLES ring,     \* the nameservers, from server_head on
          ns,       \* what is kept for each
          req,      \* the request of each handle
          queue,    \* req_waiting_head: handles whose requests wait
          good,     \* global_good_nameservers
          inflight, \* global_requests_inflight
          faults,   \* of the sockets so far
          suspends  \* calls of evdns_base_clear_nameservers_and_suspend

vars == <<ring, ns, req, queue, good, inflight, faults, suspends>>

Handles == Queries \cup Servers

FreshServer ==
  [up |-> TRUE, timedout |-> 0, timer |-> FALSE, probing |-> FALSE,
   choked |-> FALSE, waiting |-> FALSE, load |-> 0]
NoRequest ==
  [where |-> "none", ns |-> NoServer, tx |-> 0, reissued |-> 0, send |-> FALSE,
   timer |-> FALSE, sent |-> {}, names |-> 0, result |-> "none"]

Init ==
  /\ ring = SetToSeq(Servers) /\ ns = [s \in Servers |-> FreshServer]
  /\ req = [h \in Handles |-> NoRequest] /\ queue = <<>>
  /\ good = Cardinality(Servers) /\ inflight = 0 /\ faults = 0 /\ suspends = 0

\* The base, as the functions below hand it on.
Base == [ring |-> ring, ns |-> ns, req |-> req, queue |-> queue,
         good |-> good, inflight |-> inflight]
Becomes(b) ==
  /\ ring' = b.ring /\ ns' = b.ns /\ req' = b.req /\ queue' = b.queue
  /\ good' = b.good /\ inflight' = b.inflight

InFlight(b) == {h \in Handles : b.req[h].where = "inflight"}

--------------------------------------------------------------------------------
\* nameserver_pick: the next one that is good; when none is, the next one.
Rotated(s, n) == SubSeq(s, n + 1, Len(s)) \o SubSeq(s, 1, n)
PickAt(b) ==
  IF b.good = 0 THEN 2
  ELSE Min({i \in DOMAIN b.ring : b.ns[b.ring[i]].up} \cup {Len(b.ring)})
Picked(b) ==
  CASE b.ring = <<>> -> NoServer
    [] b.ring # <<>> -> b.ring[IF PickAt(b) > Len(b.ring) THEN 1 ELSE PickAt(b)]
Turned(b) ==
  IF Len(b.ring) < 2 THEN b
  ELSE [b EXCEPT !.ring = Rotated(@, IF b.good = 0 THEN 1 ELSE PickAt(b))]

request_swap_ns(b, h, s) ==
  IF s \in {NoServer, b.req[h].ns} THEN b
  ELSE [b EXCEPT !.req[h].ns = s, !.ns[s].load = @ + 1, !.ns[b.req[h].ns].load = @ - 1]
Repicked(b, h) == request_swap_ns(Turned(b), h, Picked(b))

\* Requests that were not sent yet are moved to another server.
nameserver_failed(b, s) ==
  LET down == [b EXCEPT !.ns[s].up = FALSE, !.ns[s].timer = TRUE, !.good = @ - 1]
      moved == {h \in InFlight(b) : b.req[h].ns = s /\ b.req[h].tx = 0}
  IN  CASE ~b.ns[s].up -> b
        [] b.ns[s].up /\ down.good = 0 -> down
        [] b.ns[s].up /\ down.good # 0 -> FoldSet(LAMBDA h, c : Repicked(c, h), down, moved)

\* The request is sent, or was not and is expected to time out.
Sent(b, h, to) ==
  [b EXCEPT !.req[h].timer = TRUE, !.req[h].tx = @ + 1, !.req[h].send = FALSE,
            !.req[h].sent = @ \cup to]

\* out says what becomes of what is written to each server's socket.
evdns_request_transmit(b, h, out) ==
  LET s == b.req[h].ns
      marked == [b EXCEPT !.req[h].send = TRUE]
  IN  CASE b.ns[s].choked -> marked
        [] ~b.ns[s].choked /\ out[s] = "again" ->
             [marked EXCEPT !.ns[s].choked = TRUE, !.ns[s].waiting = TRUE]
        [] ~b.ns[s].choked /\ out[s] = "error" -> Sent(nameserver_failed(marked, s), h, {})
        [] ~b.ns[s].choked /\ out[s] = "sent" -> Sent(marked, h, {s})

ToSend(b) == {h \in InFlight(b) : b.req[h].send}
evdns_transmit(b, out) ==
  FoldSet(LAMBDA h, c : evdns_request_transmit(c, h, out), b, ToSend(b))

\* One round of the loop in evdns_requests_pump_waiting_queue.
Promoted(b, out) ==
  LET h == Head(b.queue)
      s == Picked(b)
      promoted == [Turned(b) EXCEPT !.queue = Tail(@), !.inflight = @ + 1, !.ns[s].load = @ + 1,
                                    !.req[h].ns = s, !.req[h].where = "inflight"]
  IN  evdns_transmit(evdns_request_transmit(promoted, h, out), out)

evdns_requests_pump_waiting_queue(b, out) ==
  FoldLeft(LAMBDA c, i : IF c.inflight < max_inflight /\ c.queue # <<>> /\ c.ring # <<>>
                         THEN Promoted(c, out) ELSE c,
           b, [i \in 1 .. Len(b.queue) |-> i])

\* The request of h leaves its list, and its place is taken.
Removed(b, h) ==
  IF b.req[h].where = "inflight"
  THEN [b EXCEPT !.inflight = @ - 1, !.ns[b.req[h].ns].load = @ - 1, !.req[h] = NoRequest]
  ELSE [b EXCEPT !.queue = SelectSeq(@, LAMBDA g : g # h), !.req[h] = NoRequest]
request_finished(b, h, out) == evdns_requests_pump_waiting_queue(Removed(b, h), out)

\* What is told: nobody asks what a query has found.
Verdict(h, result) ==
  CASE h \in Queries -> "told"
    [] h \in Servers /\ result \in {"answer", "notexist"} -> "good"
    [] h \in Servers /\ result \in {"nodata", "refused", "timeout"} -> "bad"
    [] h \in Servers /\ result = "cancel" -> "cancel"

\* reply_schedule_callback, and request_finished with the handle.
Finished(b, h, result, out) ==
  LET left == Removed(b, h)
  IN  evdns_requests_pump_waiting_queue(
        [left EXCEPT !.req[h].where = "pending", !.req[h].result = Verdict(h, result)], out)

evdns_cancel_request(b, h, out) ==
  IF b.req[h].where \in {"waiting", "inflight"} THEN Finished(b, h, "cancel", out) ELSE b

\* The probe is cancelled before the server counts as good.
nameserver_up(b, s, out) ==
  LET quiet == IF b.ns[s].probing THEN evdns_cancel_request(b, s, out) ELSE b
  IN  IF b.ns[s].up THEN b
      ELSE [quiet EXCEPT !.good = @ + 1, !.ns[s].up = TRUE, !.ns[s].timedout = 0,
                         !.ns[s].timer = FALSE, !.ns[s].probing = FALSE]

--------------------------------------------------------------------------------
\* request_new picks a server when there is a place, request_submit puts the
\* request there or into the queue.
IssuingNow(b) == b.inflight < max_inflight
request_new(b) == IF IssuingNow(b) THEN Turned(b) ELSE b
ServerOfNew(b) == IF IssuingNow(b) THEN Picked(b) ELSE NoServer

request_submit(b, h, s, names, out) ==
  LET fresh == [NoRequest EXCEPT !.ns = s, !.names = names,
                                 !.where = IF s = NoServer THEN "waiting" ELSE "inflight"]
  IN  IF s = NoServer THEN [b EXCEPT !.req[h] = fresh, !.queue = Append(@, h)]
      ELSE evdns_request_transmit(
             [b EXCEPT !.req[h] = fresh, !.inflight = @ + 1, !.ns[s].load = @ + 1], h, out)

\* The next name's request is made before the last one's place is free.
search_try_next(b, h, out) ==
  request_submit(request_finished(request_new(b), h, out), h, ServerOfNew(b),
                 b.req[h].names - 1, out)

request_reissue(b, h) ==
  [Repicked(b, h) EXCEPT !.req[h].reissued = @ + 1, !.req[h].tx = 0, !.req[h].send = TRUE]

Retransmitted(b, h, out) ==
  LET sent == evdns_request_transmit(
                Repicked([b EXCEPT !.req[h].timer = FALSE], h), h, out)
      s == sent.req[h].ns
  IN  IF sent.ns[s].timedout < max_timeouts
      THEN [sent EXCEPT !.ns[s].timedout = @ + 1]
      ELSE nameserver_failed([sent EXCEPT !.ns[s].timedout = 0], s)

evdns_request_timeout_callback(b, h, out) ==
  IF b.req[h].tx >= max_retransmits
  THEN nameserver_failed(Finished(b, h, "timeout", out), b.req[h].ns)
  ELSE Retransmitted(b, h, out)

\* A good reply.  The server the request was given to last is the one it tells of.
GoodReply(b, h, out) ==
  LET s == b.req[h].ns
  IN  nameserver_up(IF h = s THEN [b EXCEPT !.ns[s].probing = FALSE] ELSE b, s, out)

NextOrFail(b, h, result, out) ==
  IF b.req[h].names > 0 THEN search_try_next(b, h, out) ELSE Finished(b, h, result, out)

RefusedReply(b, h, out) ==
  LET failed == nameserver_failed(b, b.req[h].ns)
      again == b.req[h].reissued < max_reissues
      other == Picked(failed) # failed.req[h].ns
  IN  CASE again /\ other -> request_reissue(failed, h)
        [] again /\ ~other -> NextOrFail(Turned(failed), h, "refused", out)
        [] ~again -> NextOrFail(b, h, "refused", out)

reply_handle(b, h, kind, out) ==
  CASE kind = "answer" -> Finished(GoodReply(b, h, out), h, kind, out)
    [] kind \in {"notexist", "nodata"} -> NextOrFail(GoodReply(b, h, out), h, kind, out)
    [] kind = "refused" -> RefusedReply(b, h, out)
    [] kind = "serverfailed" -> evdns_request_timeout_callback(b, h, out)

--------------------------------------------------------------------------------
\* An operation is a function of what becomes of the packets sent.
AllSent == [s \in Servers |-> "sent"]
Does(Operation(_)) ==
  /\ \/ Becomes(Operation(AllSent)) /\ UNCHANGED faults
     \/ /\ faults < MaxFaults /\ faults' = faults + 1
        /\ \E s \in Servers, bad \in {"again", "error"} :
             LET out == [AllSent EXCEPT ![s] = bad]
             IN  Operation(out) # Operation(AllSent) /\ Becomes(Operation(out))
  /\ UNCHANGED suspends

Kinds == {"answer", "notexist", "nodata", "refused", "serverfailed"}

Resolve(q) ==
  LET Submit(out) == request_submit(request_new(Base), q, ServerOfNew(Base), Names[q], out)
  IN  req[q] = NoRequest /\ Does(Submit)

\* Only what is still on its way can be cancelled.
Cancel(q) ==
  LET Finish(out) == evdns_cancel_request(Base, q, out)
  IN  req[q].where \in {"waiting", "inflight"} /\ Does(Finish)

\* The callback runs, and the user does not ask again.
Called(b, h) == [b EXCEPT !.req[h].where = "none"]
reply_run_callback(q) ==
  /\ req[q].where = "pending" /\ Becomes(Called(Base, q)) /\ UNCHANGED <<faults, suspends>>

\* A probe's callback tells what it found.
(* Mutant: the timer for the next probe is not started again.              *)
nameserver_probe_failed_Once(b, s) == b
nameserver_probe_failed(b, s) == IF b.ns[s].up THEN b ELSE [b EXCEPT !.ns[s].timer = TRUE]
nameserver_probe_callback(s) ==
  LET over == [Base EXCEPT !.req[s] = NoRequest]
      told == [over EXCEPT !.ns[s].probing = FALSE]
      Note(out) == CASE req[s].result = "cancel" -> over
                     [] req[s].result = "good" -> nameserver_up(told, s, out)
                     [] req[s].result = "bad" -> nameserver_probe_failed(told, s)
  IN  req[s].where = "pending" /\ Does(Note)

\* The server is probed whatever the limit is.  The timer is seconds long: the
\* callback of an earlier probe has run.
nameserver_send_probe(s) ==
  LET probing == [request_new(Base) EXCEPT !.ns[s].timer = FALSE, !.ns[s].probing = TRUE]
      Submit(out) == request_submit(probing, s, s, 0, out)
  IN  ns[s].timer /\ req[s].where = "none" /\ Does(Submit)

Timeout(h) ==
  LET Expire(out) == evdns_request_timeout_callback([Base EXCEPT !.req[h].timer = FALSE], h, out)
  IN  req[h].timer /\ Does(Expire)

\* nameserver_read: a packet from s, for the request whose number it bears.
Reply(h, s, kind) ==
  LET Handle(out) == reply_handle([Base EXCEPT !.ns[s].timedout = 0], h, kind, out)
  IN  s \in req[h].sent /\ Does(Handle)

\* A packet for a request that is over.
LateReply(s) ==
  /\ s \in ToSet(ring) /\ ns' = [ns EXCEPT ![s].timedout = 0]
  /\ UNCHANGED <<ring, req, queue, good, inflight, faults, suspends>>

\* recvfrom reports an error.
ReadFails(s) ==
  /\ s \in ToSet(ring) /\ ns[s].up /\ faults < MaxFaults /\ faults' = faults + 1
  /\ Becomes(nameserver_failed(Base, s)) /\ UNCHANGED suspends

\* nameserver_ready_callback for writing.
Writable(s) ==
  LET b == [Base EXCEPT !.ns[s].choked = FALSE]
      Flush(out) == IF ToSend(b) = {} THEN [b EXCEPT !.ns[s].waiting = FALSE]
                    ELSE evdns_transmit(b, out)
  IN  ns[s].waiting /\ Does(Flush)

--------------------------------------------------------------------------------
\* All requests in flight go to the front of the queue.  A server that is freed
\* while a callback has its address, or while requests could be promoted, would
\* be used again: that is left out.
Suspended(b) ==
  LET gone == FoldSet(LAMBDA s, c : evdns_cancel_request(c, s, AllSent),
                      b, {s \in Servers : b.ns[s].probing})
      back == InFlight(gone)
  IN  [gone EXCEPT !.ring = <<>>, !.good = 0, !.inflight = 0, !.queue = SetToSeq(back) \o @,
                   !.ns = [s \in Servers |-> FreshServer],
                   !.req = [h \in Handles |->
                              IF h \notin back THEN gone.req[h]
                              ELSE [NoRequest EXCEPT !.where = "waiting",
                                                     !.names = gone.req[h].names]]]
evdns_base_clear_nameservers_and_suspend ==
  /\ ring # <<>> /\ suspends < MaxSuspends /\ suspends' = suspends + 1
  /\ \A s \in Servers : req[s].where # "pending" /\ (ns[s].probing => queue = <<>>)
  /\ Becomes(Suspended(Base)) /\ UNCHANGED faults

evdns_nameserver_add(s) ==
  /\ s \notin ToSet(ring)
  /\ ring' = IF ring = <<>> THEN <<s>> ELSE <<Head(ring), s>> \o Tail(ring)
  /\ ns' = [ns EXCEPT ![s] = FreshServer] /\ good' = good + 1
  /\ UNCHANGED <<req, queue, inflight, faults, suspends>>

evdns_base_resume ==
  LET Pump(out) == evdns_requests_pump_waiting_queue(Base, out)
  IN  queue # <<>> /\ ring # <<>> /\ Does(Pump)

--------------------------------------------------------------------------------
Callback(h) == IF h \in Queries THEN reply_run_callback(h) ELSE nameserver_probe_callback(h)

Next ==
  \/ \E q \in Queries : Resolve(q) \/ Cancel(q)
  \/ \E h \in Handles : Timeout(h) \/ Callback(h)
  \/ \E h \in Handles, s \in Servers, kind \in Kinds : Reply(h, s, kind)
  \/ \E s \in Servers : \/ LateReply(s) \/ ReadFails(s) \/ Writable(s)
                       \/ nameserver_send_probe(s) \/ evdns_nameserver_add(s)
  \/ evdns_base_clear_nameservers_and_suspend \/ evdns_base_resume

\* Callbacks run, sockets can be written to, timers fire, and a server that was
\* cleared is added again: none of these waits for ever.  Nor do requests beside
\* a free place, when the user has suspended the resolver and is to resume it.
CallbackWaits(h) == req[h].where = "pending"
TimerWaits(h, n) == req[h].timer /\ req[h].tx = n
ServerWaits(s, what) ==
  CASE what = "socket" -> ns[s].choked
    [] what = "timer" -> ns[s].timer
    [] what = "user" -> s \notin ToSet(ring)
ResumeWaits == suspends > 0 /\ queue # <<>> /\ ring # <<>> /\ inflight < max_inflight
Fairness ==
  /\ \A h \in Handles : []<>~CallbackWaits(h)
  /\ \A h \in Handles, n \in 0 .. max_retransmits : []<>~TimerWaits(h, n)
  /\ \A s \in Servers, what \in {"socket", "timer", "user"} : []<>~ServerWaits(s, what)
  /\ []<>~ResumeWaits

Spec == Init /\ [][Next]_vars /\ Fairness

--------------------------------------------------------------------------------
(* However requests are sent, moved, reissued and cancelled, the counters  *)
(* of good servers, of requests in flight and of each server's requests    *)
(* (evdns.c:548, 2735) and the waiting queue agree with the requests, and  *)
(* no request in flight has a server that was freed.  Only probes go over  *)
(* the limit.                                                              *)
CountersAgree ==
  /\ good = Cardinality({s \in ToSet(ring) : ns[s].up})
  /\ inflight = Cardinality(InFlight(Base))
  /\ \A s \in Servers : ns[s].load = Cardinality({h \in InFlight(Base) : req[h].ns = s})
  /\ \A h \in InFlight(Base) : req[h].ns \in ToSet(ring)
  /\ ToSet(queue) = {h \in Handles : req[h].where = "waiting"}
  /\ Len(queue) = Cardinality(ToSet(queue))
  /\ inflight <= max_inflight + Cardinality({s \in Servers : ns[s].probing})

(* A request in flight has its timer, or is to be sent when some server's  *)
(* socket can be written to (evdns.c:2278).  A server that is down has its *)
(* timer, or its probe is on the way or has its callback to run; one that  *)
(* is up has no timer (evdns.c:505, 621).                                  *)
NobodyForgotten ==
  /\ \A h \in InFlight(Base) :
       req[h].timer \/ (req[h].send /\ \E s \in ToSet(ring) : ns[s].waiting)
  /\ \A s \in ToSet(ring) :
       IF ns[s].up THEN ~ns[s].timer
       ELSE ns[s].timer # (ns[s].probing /\ req[s].where \in {"inflight", "pending"})

(* A query of the user's, and a server that is down and not being asked:   *)
(* neither stays so.                                                       *)
Asked(q) == req[q].where \in {"waiting", "inflight", "pending"}
NotAsked(s) == s \in ToSet(ring) /\ ~ns[s].up /\ req[s].sent = {}
================================================================================
