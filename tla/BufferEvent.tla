----------------------------- MODULE BufferEvent -----------------------------
(***************************************************************************)
(* A bufferevent on a socket: bufferevent.c and bufferevent_sock.c of      *)
(* libevent 2.1.12.                                                        *)
(*                                                                         *)
(* Two events, "r" and "w", move bytes between a socket and two buffers    *)
(* whose lengths are input and output.  A direction may be disabled by its *)
(* user and suspended for several reasons at once: by the high mark        *)
(* ("wm"), by the rate limits of RateLimit ("bw") and while a name is      *)
(* looked up ("lookup").  Callbacks are made at once, or noted in pending  *)
(* and made by a deferred callback of the event base.                      *)
(*                                                                         *)
(* Everything runs in the loop's thread; the user's code runs between two  *)
(* turns and within callbacks, and may free the bufferevent in any of      *)
(* them.  Timeouts may be set at any time.  Calls that need memory succeed *)
(* and the processor's Windows parts are left out.                         *)
(***************************************************************************)
EXTENDS Integers, FiniteSets

CONSTANTS Setups,     \* records: deferred and limited, whether callbacks are and
                      \* rate limits apply, and peer, "open" or none yet
          ReadMarks,  \* pairs of a low and a high mark, 0 for none
          WriteMarks, \* low marks
          MaxBytes    \* bounds the buffers and what is on the wire

VARIABLES bev,    \* the bufferevent
          pc,     \* the callback that runs, and what called it
          sock,   \* its socket and the peer
          lookup, \* a name is being looked up
          unseen  \* history: bytes arrived that no read callback was told of

vars == <<bev, pc, sock, lookup, unseen>>

Directions == {"r", "w"}
Reports == {"connected", "eof", "error"}
Idle == [cb |-> "none", what |-> {}, from |-> "loop"]

(***************************************************************************)
(* bufferevent_init_common_ and bufferevent_socket_new, for a descriptor   *)
(* that is connected or for none.                                          *)
(***************************************************************************)
Init ==
  /\ \E setup \in Setups :
       /\ sock = [peer |-> setup.peer, wire |-> 0, error |-> "none", room |-> 1]
       /\ bev = [deferred |-> setup.deferred, limited |-> setup.limited,
              enabled |-> {"w"}, susp |-> [d \in Directions |-> {}], added |-> {},
              input |-> 0, output |-> 0, marks |-> <<0, 0>>, wlow |-> 0,
              connecting |-> FALSE, refused |-> FALSE,
              pending |-> {}, queued |-> FALSE, refs |-> 1,
              user |-> TRUE, life |-> "live"]
  /\ pc = Idle /\ lookup = FALSE /\ unseen = FALSE

------------------------------------------------------------------------------
(***************************************************************************)
(* Enabling, disabling and suspending.                                     *)
(***************************************************************************)
be_socket_enable(b, ds) == [b EXCEPT !.added = @ \cup ds]

\* The write event stays while a connection is being made.
be_socket_disable(b, ds) ==
  [b EXCEPT !.added = @ \ (IF b.connecting THEN ds \ {"w"} ELSE ds)]

bufferevent_suspend(b, d, what) ==
  LET off == IF b.susp[d] = {} THEN be_socket_disable(b, {d}) ELSE b
  IN  [off EXCEPT !.susp[d] = @ \cup {what}]

(* Mutant: other reasons to be suspended are overlooked. *)
bufferevent_unsuspend_Any(b, d, what) ==
  LET on == [b EXCEPT !.susp[d] = @ \ {what}]
  IN  IF d \in on.enabled THEN be_socket_enable(on, {d}) ELSE on
bufferevent_unsuspend(b, d, what) ==
  LET on == [b EXCEPT !.susp[d] = @ \ {what}]
  IN  IF on.susp[d] = {} /\ d \in on.enabled THEN be_socket_enable(on, {d}) ELSE on

bufferevent_enable(b, ds) ==
  be_socket_enable([b EXCEPT !.enabled = @ \cup ds], {d \in ds : b.susp[d] = {}})

bufferevent_disable(b, ds) == be_socket_disable([b EXCEPT !.enabled = @ \ ds], ds)

High(b) == b.marks[2]

\* The callback of the input buffer, called whenever its length changes.
bufferevent_inbuf_wm_cb(b) ==
  IF High(b) = 0 THEN b
  ELSE IF b.input >= High(b) THEN bufferevent_suspend(b, "r", "wm")
       ELSE bufferevent_unsuspend(b, "r", "wm")

\* The callback of the output buffer, for bytes added.
bufferevent_socket_outbuf_cb(b) ==
  IF "w" \in b.enabled /\ b.susp["w"] = {} THEN be_socket_enable(b, {"w"}) ELSE b

------------------------------------------------------------------------------
(***************************************************************************)
(* Callbacks.  Whoever calls one holds a reference; so does the deferred   *)
(* callback while it is queued.                                            *)
(***************************************************************************)
(* Mutant: a write callback is noted, and left to the next one that is due. *)
Defer_Lazy(b, what) ==
  IF what = {"write"} THEN [b EXCEPT !.pending = @ \cup what]
  ELSE [b EXCEPT !.pending = @ \cup what, !.queued = TRUE,
                 !.refs = IF b.queued THEN @ ELSE @ + 1]
Defer(b, what) ==
  [b EXCEPT !.pending = @ \cup what, !.queued = TRUE,
            !.refs = IF b.queued THEN @ ELSE @ + 1]

incref(b) == [b EXCEPT !.refs = @ + 1]
\* Without references the events go, and what is left is freed later.
decref(b) ==
  IF b.refs > 1 THEN [b EXCEPT !.refs = @ - 1]
  ELSE [b EXCEPT !.refs = 0, !.life = "finalizing", !.added = {}]

\* The frame that called the callbacks ends.
Leave(b) == bev' = decref(b) /\ pc' = Idle /\ UNCHANGED unseen

Enter(b, cb, what, from) ==
  /\ bev' = b /\ pc' = [cb |-> cb, what |-> what, from |-> from]
  /\ unseen' = (unseen /\ cb # "read")

\* bufferevent_run_readcb_, _writecb_ and _eventcb_: from says who goes on when
\* a callback that was made at once returns.
RunCallback(b, cb, what, from) ==
  CASE ~b.user -> Leave(b)
    [] b.user /\ b.deferred -> Leave(Defer(b, IF cb = "event" THEN what ELSE {cb}))
    [] b.user /\ ~b.deferred -> Enter(b, cb, what, from)

\* bufferevent_trigger_nolock_ with BEV_OPT_DEFER_CALLBACKS.
TriggerRead(b) == IF b.user /\ b.input >= b.marks[1] THEN Defer(b, {"read"}) ELSE b
TriggerWrite(b) == IF b.user /\ b.output <= b.wlow THEN Defer(b, {"write"}) ELSE b

bufferevent_inbuf_wm_check(b) ==
  IF High(b) = 0 \/ "r" \notin b.enabled \/ b.input < High(b) THEN b ELSE TriggerRead(b)

(***************************************************************************)
(* bufferevent_run_deferred_callbacks_locked, from the callback of the     *)
(* given number on.                                                        *)
(***************************************************************************)
Stage(b, k) ==
  CASE k = 1 -> b.pending \cap {"connected"}
    [] k = 2 -> b.pending \cap {"read"}
    [] k = 3 -> b.pending \cap {"write"}
    [] k = 4 -> b.pending \cap Reports

Later(from) == from + 1 .. 4

Deferred(b, done) ==
  LET next == {k \in Later(done) : Stage(b, k) # {} /\ b.user}
      k == CHOOSE k \in next : \A j \in next : k <= j
  IN  IF next = {} THEN Leave(b)
      ELSE Enter([b EXCEPT !.pending = @ \ Stage(b, k)],
                 CASE k \in {1, 4} -> "event" [] k = 2 -> "read" [] k = 3 -> "write",
                 Stage(b, k), IF k = 1 THEN "deferred connected" ELSE "deferred")

RunDeferred ==
  /\ pc = Idle /\ bev.queued
  /\ Deferred([bev EXCEPT !.queued = FALSE], 0)
  /\ UNCHANGED <<sock, lookup>>

------------------------------------------------------------------------------
(***************************************************************************)
(* bufferevent_readcb.                                                     *)
(***************************************************************************)
Readable == sock.wire > 0 \/ sock.peer \in {"eof", "dead"}

LimitedBy(b, d) ==
  IF b.limited THEN {b, bufferevent_suspend(b, d, "bw")} ELSE {b}

\* The event is disabled and the user told.
Failed(b, d, what) == RunCallback(bufferevent_disable(b, {d}), "event", what, "io")

ReadSome(b) ==
  /\ sock.wire > 0
  /\ \E n \in 1 .. sock.wire :
       LET read == bufferevent_inbuf_wm_cb([b EXCEPT !.input = @ + n])
       IN  /\ High(b) > 0 => b.input + n <= High(b)
           /\ read.input <= MaxBytes
           /\ sock' = [sock EXCEPT !.wire = @ - n]
           /\ \E after \in LimitedBy(read, "r") :
                IF after.input < after.marks[1] THEN Leave(after)
                ELSE IF after.user /\ after.deferred
                THEN /\ bev' = decref(Defer(after, {"read"}))
                     /\ pc' = Idle /\ unseen' = TRUE
                ELSE RunCallback(after, "read", {}, "io")

\* End of file, an error, or a connection that was refused.
ReadNothing(b) ==
  /\ sock.wire = 0
  /\ sock' = [sock EXCEPT !.error = "none"]
  /\ IF sock.error = "refused" THEN Leave([b EXCEPT !.refused = TRUE])
     ELSE Failed(b, "r", IF sock.peer = "eof" THEN {"eof"} ELSE {"error"})

bufferevent_readcb ==
  /\ pc = Idle /\ "r" \in bev.added /\ Readable
  /\ LET b == incref(bev)
     IN  IF High(b) > 0 /\ b.input >= High(b)
         THEN Leave(bufferevent_suspend(b, "r", "wm")) /\ UNCHANGED sock
         ELSE ReadSome(b) \/ ReadNothing(b)
  /\ UNCHANGED lookup

(***************************************************************************)
(* bufferevent_writecb.                                                    *)
(***************************************************************************)
Writable ==
  \/ sock.peer \in {"open", "eof"} /\ sock.room > 0
  \/ sock.peer = "dead"

\* The write event goes once there is nothing left to send.
WriteDone(b) == IF b.output = 0 THEN [b EXCEPT !.added = @ \ {"w"}] ELSE b

Wrote(b, n, connected) ==
  \E after \in LimitedBy([b EXCEPT !.output = @ - n], "w") :
    LET rest == WriteDone(after)
    IN  IF rest.output <= rest.wlow /\ (n > 0 \/ ~connected)
        THEN RunCallback(rest, "write", {}, "io") ELSE Leave(rest)

WriteOutput(b, connected) ==
  IF b.susp["w"] # {} THEN Leave(b) /\ UNCHANGED sock
  ELSE \/ /\ b.output = 0
          /\ Wrote(b, 0, connected) /\ UNCHANGED sock
       \/ /\ b.output > 0 /\ sock.peer # "dead" /\ sock.room > 0
          /\ Wrote(b, 1, connected) /\ sock' = [sock EXCEPT !.room = @ - 1]
       \/ /\ b.output > 0 /\ sock.peer # "dead" /\ sock.room = 0
          /\ Leave(b) /\ UNCHANGED sock
       \/ /\ b.output > 0 /\ sock.peer = "dead"
          /\ Failed(b, "w", {"error"}) /\ sock' = [sock EXCEPT !.error = "none"]

\* After the callback for a connection that was made.
Connected(b) ==
  IF "w" \notin b.enabled \/ b.susp["w"] # {}
  THEN Leave([b EXCEPT !.added = @ \ {"w"}]) /\ UNCHANGED sock
  ELSE WriteOutput(b, TRUE)

FinishConnecting(b) ==
  IF sock.error # "none" \/ b.refused
  THEN /\ RunCallback([b EXCEPT !.connecting = FALSE, !.refused = FALSE, !.added = {}],
                      "event", {"error"}, "io")
       /\ sock' = [sock EXCEPT !.error = "none"]
  ELSE LET made == [b EXCEPT !.connecting = FALSE]
       IN  CASE ~b.user -> Connected(made)
             [] b.user /\ b.deferred -> Connected(Defer(made, {"connected"}))
             [] b.user /\ ~b.deferred ->
                  Enter(made, "event", {"connected"}, "connecting") /\ UNCHANGED sock

bufferevent_writecb ==
  /\ pc = Idle /\ "w" \in bev.added /\ Writable
  /\ IF bev.connecting THEN FinishConnecting(incref(bev))
     ELSE WriteOutput(incref(bev), FALSE)
  /\ UNCHANGED lookup

\* The timeout of an event: while connecting the write event stays.
TimesOut ==
  /\ pc = Idle
  /\ \E d \in bev.added : Failed(incref(bev), d, {"error"})
  /\ UNCHANGED <<sock, lookup>>

\* The buckets are refilled.
Refill ==
  /\ pc = Idle /\ bev.life = "live"
  /\ \E d \in Directions :
       "bw" \in bev.susp[d] /\ bev' = bufferevent_unsuspend(bev, d, "bw")
  /\ UNCHANGED <<pc, sock, lookup, unseen>>

------------------------------------------------------------------------------
(***************************************************************************)
(* Connecting.                                                             *)
(***************************************************************************)
be_socket_setfd(b) == bufferevent_enable([b EXCEPT !.added = {}], b.enabled)

\* bufferevent_socket_connect on a socket of its own, by what connect said.
SocketConnect(b, said) ==
  CASE said = "in progress" ->
         [be_socket_enable(be_socket_setfd(b), {"w"}) EXCEPT !.connecting = TRUE]
    [] said = "connected" -> TriggerWrite([be_socket_setfd(b) EXCEPT !.connecting = TRUE])
    [] said = "refused" ->
         bufferevent_disable(IF b.user THEN Defer(be_socket_setfd(b), {"error"})
                             ELSE be_socket_setfd(b), Directions)

PeerAfter(said) ==
  CASE said = "in progress" -> "connecting"
    [] said = "connected" -> "open"
    [] said = "refused" -> "dead"

Said == {"in progress", "connected", "refused"}

\* connect fails, or there is no address: the bufferevent stays as it was.
bufferevent_connect_getaddrinfo_cb ==
  /\ pc = Idle /\ lookup /\ lookup' = FALSE
  /\ LET b == bufferevent_unsuspend(bufferevent_unsuspend(bev, "w", "lookup"), "r", "lookup")
     IN  \/ \E said \in Said : /\ Leave(SocketConnect(b, said))
                               /\ sock' = [sock EXCEPT !.peer = PeerAfter(said)]
         \/ RunCallback(b, "event", {"error"}, "io") /\ UNCHANGED sock

\* bufferevent_socket_connect_hostname.
ConnectHostname(b) ==
  incref(bufferevent_suspend(bufferevent_suspend(b, "w", "lookup"), "r", "lookup"))

------------------------------------------------------------------------------
(***************************************************************************)
(* The user's code, between two turns and in callbacks.                    *)
(***************************************************************************)
bufferevent_setwatermark(b, marks) ==
  LET set == [b EXCEPT !.marks = marks]
  IN  IF marks[2] = 0 THEN bufferevent_unsuspend(set, "r", "wm")
      ELSE bufferevent_inbuf_wm_cb(set)

bufferevent_free(b) == decref([b EXCEPT !.user = FALSE])

Calls ==
  LET b == bev
  IN  {bufferevent_enable(b, {d}) : d \in Directions}
      \cup {bufferevent_disable(b, {d}) : d \in Directions}
      \cup {bufferevent_setwatermark(b, m) : m \in ReadMarks}
      \cup {[b EXCEPT !.wlow = n] : n \in WriteMarks}
      \cup {bufferevent_inbuf_wm_cb([b EXCEPT !.input = @ - n]) : n \in 1 .. b.input}
      \cup (IF b.output < MaxBytes
            THEN {bufferevent_socket_outbuf_cb([b EXCEPT !.output = @ + 1])} ELSE {})
      \cup {bufferevent_free(b)}

UserCalls == bev.user /\ bev' \in Calls /\ UNCHANGED <<pc, sock, lookup, unseen>>

UserConnects ==
  /\ bev.user /\ sock.peer = "none" /\ ~lookup /\ UNCHANGED <<pc, unseen>>
  /\ \/ /\ UNCHANGED lookup
        /\ \E said \in Said : /\ bev' = SocketConnect(bev, said)
                              /\ sock' = [sock EXCEPT !.peer = PeerAfter(said)]
     \/ bev' = ConnectHostname(bev) /\ lookup' = TRUE /\ UNCHANGED sock

\* The callback ends, and the code that called it goes on.
Returns ==
  /\ pc.cb # "none" /\ UNCHANGED lookup
  /\ LET b == IF pc.cb = "read" THEN bufferevent_inbuf_wm_check(bev) ELSE bev
     IN  CASE pc.from = "io" -> Leave(b) /\ UNCHANGED sock
           [] pc.from = "connecting" -> Connected(b)
           [] pc.from = "deferred connected" -> Deferred(b, 1) /\ UNCHANGED sock
           [] pc.from = "deferred" ->
                /\ Deferred(b, CASE pc.cb = "read" -> 2 [] pc.cb = "write" -> 3
                                 [] pc.cb = "event" -> 4)
                /\ UNCHANGED sock

\* bufferevent_finalize_cb_, run by the loop.
bufferevent_finalize_cb_ ==
  /\ pc = Idle /\ bev.life = "finalizing" /\ bev' = [bev EXCEPT !.life = "gone"]
  /\ UNCHANGED <<pc, sock, lookup, unseen>>

------------------------------------------------------------------------------
(***************************************************************************)
(* The network.                                                            *)
(***************************************************************************)
ConnectEnds ==
  /\ sock.peer = "connecting"
  /\ \/ sock' = [sock EXCEPT !.peer = "open"]
     \/ \E e \in {"refused", "unreachable"} :
          sock' = [sock EXCEPT !.peer = "dead", !.error = e]

ConnectionEnds == ConnectEnds /\ UNCHANGED <<bev, pc, lookup, unseen>>

PeerActs ==
  /\ sock.peer = "open" /\ bev.life # "gone"
  /\ sock' \in {[sock EXCEPT !.wire = @ + 1], [sock EXCEPT !.room = 1],
                [sock EXCEPT !.peer = "eof"],
                [sock EXCEPT !.peer = "dead", !.wire = 0, !.error = "reset"]}
  /\ sock'.wire <= MaxBytes

Loop == \/ RunDeferred \/ bufferevent_readcb \/ bufferevent_writecb \/ TimesOut \/ Refill
        \/ bufferevent_connect_getaddrinfo_cb \/ bufferevent_finalize_cb_

Next == Loop \/ UserCalls \/ UserConnects \/ Returns
        \/ ConnectionEnds \/ (PeerActs /\ UNCHANGED <<bev, pc, lookup, unseen>>)

(***************************************************************************)
(* Callbacks return, the kernel ends a connection attempt and the resolver *)
(* a lookup; the loop runs every callback that is active or becomes so     *)
(* again and again.                                                        *)
(***************************************************************************)
Fairness ==
  /\ WF_vars(Returns)
  /\ WF_vars(ConnectionEnds)
  /\ SF_vars(bufferevent_writecb)
  /\ SF_vars(RunDeferred)
  /\ SF_vars(bufferevent_connect_getaddrinfo_cb)
  /\ SF_vars(bufferevent_finalize_cb_)

Spec == Init /\ [][Next]_vars /\ Fairness

------------------------------------------------------------------------------
TypeOK ==
  /\ bev.enabled \subseteq Directions /\ bev.added \subseteq Directions
  /\ \A d \in Directions : bev.susp[d] \subseteq {"wm", "bw", "lookup"}
  /\ bev.input \in 0 .. MaxBytes /\ bev.output \in 0 .. MaxBytes
  /\ bev.pending \subseteq Reports \cup {"read", "write"} /\ bev.refs \in 0 .. 4
  /\ bev.life \in {"live", "finalizing", "gone"}
  /\ pc.cb \in {"none", "read", "write", "event"} /\ pc.what \subseteq Reports \cup {"read", "write"}

\* An event is added exactly if its direction is enabled and nothing suspends
\* it.  A write event may be missing when there is nothing to write and be there
\* to wait for a connection and until it is reported; after a failed connection
\* both are gone.
EventsAgree ==
  bev.life = "live" =>
    \A d \in Directions :
      LET wanted == d \in bev.enabled /\ bev.susp[d] = {}
      IN  /\ d \in bev.added => wanted \/ (d = "w" /\ (bev.connecting \/ pc.from = "connecting"))
          /\ wanted /\ sock.peer \notin {"none", "dead"} /\ (d = "w" => bev.output > 0)
               => d \in bev.added

\* Reading is suspended for the high mark exactly while the input reaches it.
MarkAgrees ==
  bev.life = "live" => ("wm" \in bev.susp["r"] <=> High(bev) > 0 /\ bev.input >= High(bev))

\* There is one reference for the user, the frame that runs callbacks, the
\* deferred callback and the lookup each.
RefsCounted ==
  /\ bev.refs = Cardinality({x \in {"user", "frame", "queue", "lookup"} :
                               CASE x = "user" -> bev.user
                                 [] x = "frame" -> pc # Idle
                                 [] x = "queue" -> bev.queued
                                 [] x = "lookup" -> lookup})
  /\ bev.life = "live" <=> bev.refs > 0

\* A callback that is due is queued, or the deferred callback is at work.
PendingQueued ==
  bev.user /\ bev.pending # {} => bev.queued \/ pc.from \in {"deferred", "deferred connected"}

BevSound == TypeOK /\ EventsAgree /\ MarkAgrees /\ RefsCounted /\ PendingQueued

\* The end of file is reported after the bytes before it, and no read goes past
\* the high mark.
EofLast ==
  /\ "eof" \in pc'.what /\ pc' # pc => ~unseen
  /\ bev'.input > bev.input => High(bev) = 0 \/ bev'.input <= High(bev)
InOrder == [][EofLast]_vars

\* A bufferevent its user has freed goes in the end.
FreedGoes == ~bev.user ~> bev.life = "gone"
\* A connection attempt is reported, unless the event for it is taken away.
Attempting == bev.connecting /\ bev.user /\ "w" \in bev.added
AttemptEnds == Attempting ~> ~Attempting
\* What is due is told to the user, or the user is gone.
Due(what) == bev.user /\ what \in bev.pending
DueIsTold == \A what \in Reports \cup {"read", "write"} : Due(what) ~> ~Due(what)
==============================================================================
