------------------------------ MODULE BevOpenssl ------------------------------
(***************************************************************************)
(* A bufferevent that speaks SSL (bufferevent_openssl.c), on a socket or   *)
(* on an underlying bufferevent, which hands its callbacks on at once.     *)
(*                                                                         *)
(* Either SSL operation may need the other direction, so each flag says    *)
(* that reading waits for room or writing waits for records.  OpenSSL is   *)
(* an engine over the records that have come in and the room to send; its  *)
(* handshake is a sequence of sendings "w" and receipts "r".  The user's   *)
(* callbacks are deferred, memory is not used up, and events can be added. *)
(* What runs out of time is told to the user; with an underlying           *)
(* bufferevent its direction is disabled as by bufferevent_disable.        *)
(***************************************************************************)
EXTENDS Integers, SequencesExt

CONSTANTS Fresh,     \* the steps of a first handshake
          Sizes,     \* sizes of what the user writes
          Setups     \* how one is created, and the bounds of its behaviour

VARIABLES bev,     \* struct bufferevent_openssl and its buffers
          ssl,     \* the engine, and the connection below it
          hist,    \* history: what was done to a handshake, and what was left
          setup    \* the one of Setups

vars == <<bev, ssl, hist, setup>>

Underlying == setup.underlying   \* whether there is an underlying bufferevent
Marks == setup.marks             \* the input's high marks, 0 for none
Quotas == setup.quotas           \* what may be left in a bucket at a call
Vectors == setup.vectors         \* numbers of vectors that a read may fill
MaxRecords == setup.records      \* bound: records the peer sends on a connection
MaxCalls == setup.calls          \* bound: renegotiations and new descriptors

Again == <<"w", "r">>
Room == 1
Plenty == 99   \* of one without a rate limit
NoMark == 0
Directions == {"r", "w"}
Nothing == [d \in Directions |-> 0]

\* Events are those that are added.  With an underlying bufferevent, "r" is
\* among them while its reading is not suspended for us, and its first event
\* comes with nothing written.
\* bufferevent_openssl_new_impl
Init ==
  /\ setup \in Setups
  /\ bev = [state |-> setup.state, old_state |-> setup.state,
            evs |-> IF setup.state = "open" THEN {} ELSE IF Underlying THEN {"r"} ELSE {"w"},
            rbow |-> FALSE, wbor |-> FALSE, last |-> 0, enabled |-> {"w"},
            susp |-> [d \in Directions |-> {}], mark |-> NoMark, dirty |-> setup.dirty,
            input |-> 0, output |-> <<>>, told |-> "none", life |-> "live"]
  /\ ssl = [steps |-> IF bev.state = "open" THEN <<>> ELSE Fresh,
            in |-> <<>>, out |-> 0, rest |-> 0, first |-> Underlying, shut |-> {},
            num |-> Nothing, counts |-> Nothing, sent |-> 0, calls |-> 0]
  /\ hist = [upset |-> FALSE, left |-> FALSE]

\* A call: what it has made of bev and ssl, what is left in the buckets, the
\* vectors of a read, its result, and what it has read and not committed.
Calls ==
  {[s |-> bev, e |-> ssl, left |-> left, vecs |-> n, res |-> "none", used |-> 0] :
     left \in [Directions -> Quotas], n \in Vectors}
\* On a socket only its events, and renegotiations, read or write.
Calling == IF Underlying THEN Calls ELSE {CHOOSE C \in Calls : TRUE}
On(C, S) == [C EXCEPT !.s = S]
\* What is called within goes on with the result it has.
Within(C, D) == [D EXCEPT !.res = C.res, !.used = C.used]
Running(C) == C.s.life = "live"

-------------------------------------------------------------------------------
(* The engine, above a BIO that is a socket or an underlying bufferevent.  *)

Ends == {"close", "fin", "bad"}
bio_bufferevent_write(E) == E.out < Room
bio_bufferevent_read(E) == E.in # <<>>
Want(E, what) == [e |-> E, want |-> what]
Put(E) == [E EXCEPT !.out = @ + 1, !.num["w"] = @ + 1]
Got(E) == [E EXCEPT !.in = Tail(@), !.num["r"] = @ + 1]

\* The steps that are left, until one of them blocks.
Step(A, s) ==
  IF A.want # "ok" THEN A
  ELSE IF s = "w"
       THEN IF ~bio_bufferevent_write(A.e) THEN Want(A.e, "write")
            ELSE Want([Put(A.e) EXCEPT !.steps = Tail(@)], "ok")
  ELSE IF ~bio_bufferevent_read(A.e) THEN Want(A.e, "read")
  ELSE IF Head(A.e.in) \in Ends THEN Want(A.e, Head(A.e.in))
  ELSE Want([Got(A.e) EXCEPT !.steps = Tail(@)], "ok")
SSL_do_handshake(E) == FoldLeft(Step, Want(E, "ok"), E.steps)

\* A "big" record is read in two parts, a "hello" asks for a handshake.
Received(A) ==
  LET E == A.e
  IN  IF A.want # "ok" THEN A
      ELSE IF E.rest > 0 THEN Want([E EXCEPT !.rest = @ - 1], "ok")
      ELSE IF ~bio_bufferevent_read(E) THEN Want(E, "read")
      ELSE IF Head(E.in) \in Ends THEN Want(E, Head(E.in))
      ELSE Want([Got(E) EXCEPT !.rest = IF Head(E.in) = "big" THEN 1 ELSE 0], "ok")
Asked(A) ==
  IF A.want = "ok" /\ A.e.rest = 0 /\ A.e.in # <<>> /\ Head(A.e.in) = "hello"
  THEN SSL_do_handshake([Got(A.e) EXCEPT !.steps = Again]) ELSE A
SSL_read(E) == Received(Asked(SSL_do_handshake(E)))

Sent(A) ==
  IF A.want # "ok" THEN A
  ELSE IF "fin" \in Range(A.e.in) THEN Want(A.e, "fin")
  ELSE IF ~bio_bufferevent_write(A.e) THEN Want(A.e, "write")
  ELSE Want(Put(A.e), "ok")
SSL_write(E) == Sent(SSL_do_handshake(E))

-------------------------------------------------------------------------------
(* The events below, and the flags.                                        *)

Added(S, evs) == [S EXCEPT !.evs = @ \cup evs]
Deleted(S, evs) == [S EXCEPT !.evs = @ \ evs]
start_reading(S) ==
  IF S.rbow /\ ~Underlying THEN Added(S, {"r", "w"}) ELSE Added(S, {"r"})
start_writing(S) ==
  IF Underlying THEN (IF S.wbor THEN Added(S, {"r"}) ELSE S)
  ELSE IF S.wbor THEN Added(S, {"r", "w"}) ELSE Added(S, {"w"})
stop_reading(S) == IF S.wbor THEN S ELSE Deleted(S, {"r"})
\* It is reading that is let on below.
stop_writing(S) ==
  IF S.rbow THEN S ELSE IF Underlying THEN Added(S, {"r"}) ELSE Deleted(S, {"w"})

set_rbow(S) ==
  start_writing([(IF Underlying THEN S ELSE stop_reading(S)) EXCEPT !.rbow = TRUE])
set_wbor(S) ==
  start_reading([(IF Underlying THEN S ELSE stop_writing(S)) EXCEPT !.wbor = TRUE])
clear_rbow(S) ==
  LET off == [S EXCEPT !.rbow = FALSE]
      stopped == IF "w" \in S.enabled THEN off ELSE stop_writing(off)
  IN  IF "r" \in S.enabled THEN start_reading(stopped) ELSE stopped
clear_wbor(S) ==
  LET off == [S EXCEPT !.wbor = FALSE]
      stopped == IF "r" \in S.enabled THEN off ELSE stop_reading(off)
  IN  IF "w" \in S.enabled THEN start_writing(stopped) ELSE stopped

conn_closed(S, why) ==
  [stop_writing(stop_reading(S)) EXCEPT
     !.told = IF why = "close" \/ (why = "fin" /\ S.dirty) THEN "eof" ELSE "error"]

be_openssl_disable(S, ds) ==
  LET r == IF "r" \in ds THEN stop_reading(S) ELSE S
  IN  IF "w" \in ds THEN stop_writing(r) ELSE r

-------------------------------------------------------------------------------
(* Suspensions, by the high mark "wm" and by the bandwidth "bw".           *)

RECURSIVE be_openssl_enable(_, _), do_read(_), do_write(_), Unsuspended(_, _, _),
          consider_reading(_), ReadOn(_), ReadAll(_), consider_writing(_), WriteAll(_)

\* bufferevent_suspend_read_, bufferevent_suspend_write_
Suspended(S, d, what) ==
  [(IF S.susp[d] = {} THEN be_openssl_disable(S, {d}) ELSE S) EXCEPT !.susp[d] = @ \cup {what}]
\* bufferevent_unsuspend_read_, bufferevent_unsuspend_write_: enabled anew, be
\* it suspended before or not.
Unsuspended(C, d, what) ==
  LET D == [C EXCEPT !.s.susp[d] = @ \ {what}]
  IN  IF C.s.susp[d] \subseteq {what} /\ d \in C.s.enabled THEN be_openssl_enable(D, {d}) ELSE D

bufferevent_inbuf_wm_cb(C) ==
  IF C.s.mark = NoMark THEN C
  ELSE IF C.s.input >= C.s.mark THEN On(C, Suspended(C.s, "r", "wm"))
  ELSE Unsuspended(C, "r", "wm")

\* A group whose bucket is empty suspends the members it missed.
bufferevent_get_rlim_max_(C, d) ==
  IF C.left[d] = 0 THEN On(C, Suspended(C.s, d, "bw")) ELSE C
\* A bucket may have been filled again before its timer ran.
Decremented(C, d, n) ==
  LET left == C.left[d] - n
      D == [C EXCEPT !.left[d] = IF left < 0 THEN 0 ELSE left]
  IN  IF n = 0 \/ ~Running(C) THEN C
      ELSE IF left <= 0 THEN On(D, Suspended(D.s, d, "bw"))
      ELSE IF "bw" \in D.s.susp[d] THEN Unsuspended(D, d, "bw") ELSE D
decrement_buckets(C) ==
  LET num == C.e.num
      After(D, d) == Decremented(D, d, num[d] - C.e.counts[d])
  IN  [FoldLeft(After, C, <<"w", "r">>) EXCEPT !.e.counts = num]

-------------------------------------------------------------------------------
(* Reading and writing.                                                    *)

HasRead(C, A) ==
  LET D == [C EXCEPT !.e = A.e]
      S == C.s
      clear == IF S.rbow THEN clear_rbow(S) ELSE S
  IN  IF A.want = "ok"
      THEN decrement_buckets([D EXCEPT !.s = clear, !.res = "progress", !.used = @ + 1])
      ELSE [D EXCEPT !.res = "blocked",
                     !.s = CASE A.want = "read" -> clear
                             [] A.want = "write" -> (IF S.rbow THEN S ELSE set_rbow(S))
                             [] OTHER -> conn_closed(S, A.want)]
ReadVec(C, i) ==
  IF C.res = "blocked" \/ C.s.susp["r"] # {} \/ ~Running(C) THEN C ELSE HasRead(C, SSL_read(C.e))
\* evbuffer_commit_space, and the callback of the mark.
Committed(C) ==
  IF C.used = 0 \/ ~Running(C) THEN C
  ELSE bufferevent_inbuf_wm_cb([C EXCEPT !.s.input = @ + C.used, !.used = 0])
do_read(C) ==
  LET D == [C EXCEPT !.res = "none", !.used = 0]
  IN  IF C.s.susp["r"] # {} THEN D
      ELSE Committed(FoldLeft(ReadVec, bufferevent_get_rlim_max_(D, "r"),
                              [i \in 1 .. C.vecs |-> i]))

\* After one that blocked, only the chunk it was for.
Peeked(S) == IF S.last > 0 THEN SubSeq(S.output, 1, 1) ELSE S.output
HasWritten(C, A, len) ==
  LET D == [C EXCEPT !.e = A.e]
      S == C.s
      clear == IF S.wbor THEN clear_wbor(S) ELSE S
  IN  IF A.want = "ok"
      THEN decrement_buckets([D EXCEPT !.res = "progress",
                                       !.s = [clear EXCEPT !.last = 0, !.output = Tail(@)]])
      ELSE [D EXCEPT !.res = "blocked",
                     !.s = CASE A.want = "write" -> [clear EXCEPT !.last = len]
                             [] A.want = "read" -> [(IF S.wbor THEN S ELSE set_wbor(S)) EXCEPT !.last = len]
                             [] OTHER -> [conn_closed(S, A.want) EXCEPT !.last = 0]]
WriteChunk(C, len) ==
  IF C.res = "blocked" \/ C.s.susp["w"] # {} \/ ~Running(C) THEN C
  ELSE HasWritten(C, SSL_write(C.e), len)
do_write(C) ==
  LET D == [C EXCEPT !.res = "none"]
  IN  FoldLeft(WriteChunk, IF C.s.last > 0 THEN D ELSE bufferevent_get_rlim_max_(D, "w"),
               Peeked(C.s))

\* A blocked operation is retried until it blocks again: for ever, with the
\* lock held, when its direction is suspended.
Spins(C) == [C EXCEPT !.s.life = "spins"]

MayRead(S) ==
  /\ ~S.wbor /\ "r" \in S.enabled /\ S.susp["r"] = {}
  /\ S.mark = NoMark \/ S.input < S.mark
bytes_to_read(C) == IF MayRead(C.s) THEN bufferevent_get_rlim_max_(C, "r") ELSE C
ReadEnds(C) ==
  IF ~Underlying /\ (C.s.susp["r"] # {} \/ "r" \notin C.s.enabled)
  THEN On(C, Deleted(C.s, {"r"})) ELSE C
ReadIf(C) == IF Running(C) /\ MayRead(C.s) THEN ReadOn(C) ELSE ReadEnds(C)
ReadAll(C) == ReadIf(bytes_to_read(C))
\* Reads what is inside SSL, and all there is in an underlying bufferevent.
ReadMore(R) ==
  IF R.res = "blocked" \/ R.s.susp["r"] # {} \/ ~Running(R) THEN ReadEnds(R)
  ELSE IF R.e.rest > 0 THEN ReadOn(R)
  ELSE IF Underlying THEN ReadAll(R) ELSE ReadEnds(R)
ReadOn(C) == ReadMore(do_read(C))
Retried(D) == IF D.res = "none" THEN Spins(D) ELSE D
WriteRetried(W) == IF Running(W) /\ ~W.s.wbor THEN ReadAll(W) ELSE W
consider_reading(C) ==
  WriteRetried(IF Running(C) /\ C.s.wbor THEN Retried(do_write(C)) ELSE C)

MayWrite(C) ==
  /\ "w" \in C.s.enabled /\ C.s.susp["w"] = {} /\ C.s.output # <<>>
  /\ Underlying => bio_bufferevent_write(C.e)
WriteEnds(C) ==
  IF ~Underlying /\ (C.s.output = <<>> \/ C.s.susp["w"] # {} \/ "w" \notin C.s.enabled)
  THEN On(C, Deleted(C.s, {"w"})) ELSE C
WriteMore(W) == IF W.res = "blocked" THEN WriteEnds(W) ELSE WriteAll(W)
WriteAll(C) ==
  IF Running(C) /\ MayWrite(C) THEN WriteMore(do_write(C)) ELSE WriteEnds(C)
ReadRetried(R) == IF Running(R) /\ ~R.s.rbow THEN WriteAll(R) ELSE R
consider_writing(C) ==
  ReadRetried(IF Running(C) /\ C.s.rbow THEN Retried(do_read(C)) ELSE C)

be_openssl_enable(C, ds) ==
  LET r == IF "r" \in ds THEN start_reading(C.s) ELSE C.s
      D == On(C, IF "w" \in ds THEN start_writing(r) ELSE r)
      Then(R) == IF Underlying /\ "w" \in ds THEN consider_writing(R) ELSE R
  IN  Within(C, Then(IF Underlying /\ "r" \in ds THEN consider_reading(D) ELSE D))
bufferevent_enable(C, ds) ==
  be_openssl_enable([C EXCEPT !.s.enabled = @ \cup ds], {d \in ds : C.s.susp[d] = {}})

Connected(C) == IF Running(C) THEN [C EXCEPT !.s.told = "connected"] ELSE C
\* What it suspends is started again if the handshake waits for it.
HandshakeDone(C, A) ==
  IF ~Running(C) THEN C ELSE
  CASE A.want = "ok" ->
         Connected(bufferevent_enable([C EXCEPT !.s.state = "open"], C.s.enabled))
    [] A.want = "write" -> On(C, start_writing(stop_reading(C.s)))
    [] A.want = "read" -> On(C, start_reading(stop_writing(C.s)))
    [] OTHER -> On(C, conn_closed(C.s, A.want))
do_handshake(C) ==
  LET A == SSL_do_handshake(C.e)
  IN  HandshakeDone(decrement_buckets([C EXCEPT !.e = A.e]), A)

-------------------------------------------------------------------------------
(* What happens below.                                                     *)

Live == bev.life = "live"
Handshaking(S) == S.state = "connecting"
\* A record is left half read, by a suspension or because writing read it.
Left(C) ==
  /\ C.e.rest > 0
  /\ hist.left \/ C.s.susp["r"] # {} \/ (bev.rbow /\ ~C.s.rbow)
\* Of what is not counted yet, two records are as good as more.
Uncounted(E) == [d \in Directions |-> IF E.num[d] > E.counts[d] + 1 THEN 2 ELSE E.num[d] - E.counts[d]]
OutcomeOr(C, upset) ==
  /\ bev' = C.s /\ ssl' = [C.e EXCEPT !.num = Uncounted(C.e), !.counts = Nothing]
  /\ hist' = [upset |-> (hist.upset \/ upset) /\ Handshaking(C.s), left |-> Left(C)]
Outcome(C) ==
  OutcomeOr(C, Underlying /\ C.s.susp["r"] # {} /\ C.s.evs # bev.evs)

\* The peer takes its turns in a handshake, and ends the connection once.
Kinds ==
  IF Range(ssl.in) \cap Ends # {} THEN {}
  ELSE IF ssl.steps = <<>> /\ "hello" \notin Range(ssl.in)
       THEN {"data", "big", "hello", "close", "bad"} \cup (IF Underlying THEN {} ELSE {"fin"})
  ELSE IF ssl.steps # <<>> /\ Head(ssl.steps) = "r" /\ ssl.in = <<>> /\ ssl.out = 0
       THEN {"hs", "bad"} \cup (IF Underlying THEN {} ELSE {"fin"})
  ELSE {}
Arrived(kind) ==
  [ssl EXCEPT !.in = Append(@, kind), !.sent = IF kind = "hs" THEN @ ELSE @ + 1]
Coming ==
  IF (ssl.sent < MaxRecords \/ ssl.steps # <<>>) /\ Len(ssl.in) < 2 /\ "r" \notin ssl.shut
  THEN {Arrived(kind) : kind \in Kinds} ELSE {}
Drained == [ssl EXCEPT !.out = IF @ > 0 THEN @ - 1 ELSE 0, !.first = @ /\ ssl.out > 1]
Going ==
  IF (ssl.out > 0 \/ ssl.first) /\ "w" \notin ssl.shut THEN {Drained} ELSE {}

\* Records come and go below without a call: by a socket, and in an underlying
\* bufferevent until all is written.
Arrives ==
  /\ ~Underlying
  /\ ssl' \in Coming /\ UNCHANGED <<bev, hist>>
Drains ==
  /\ ssl' \in Going /\ (Underlying => ssl'.out > 0)
  /\ UNCHANGED <<bev, hist>>

\* The calls of a socket's events, or of an underlying bufferevent that reads
\* a record or has written all.
Readable ==
  {C \in Calls : ~Underlying /\ "r" \in bev.evs /\ bio_bufferevent_read(ssl)}
    \cup {[C EXCEPT !.e = E] : C \in Calls, E \in IF Underlying /\ "r" \in bev.evs THEN Coming ELSE {}}
Writable ==
  {C \in Calls : ~Underlying /\ "w" \in bev.evs /\ bio_bufferevent_write(ssl)}
    \cup {[C EXCEPT !.e = E] : C \in Calls, E \in {F \in Going : Underlying /\ F.out = 0}}
be_openssl_readcb ==
  \E C \in Readable :
    Outcome(IF Handshaking(C.s) THEN do_handshake(C) ELSE consider_reading(C))
be_openssl_writecb ==
  \E C \in Writable :
    Outcome(IF Handshaking(C.s) THEN do_handshake(C) ELSE consider_writing(C))

\* The underlying bufferevent has ended a direction, one of them, and tells it.
be_openssl_eventcb(what, d) ==
  /\ Underlying /\ ssl.shut = {} /\ (d = "w" => ssl.out > 0)
  /\ ssl' = [ssl EXCEPT !.shut = @ \cup {d}]
  /\ bev' = [bev EXCEPT !.told = CASE what = "timeout" -> @
                                   [] what = "eof" /\ ~bev.dirty -> "error"
                                   [] OTHER -> what]
  /\ UNCHANGED hist

-------------------------------------------------------------------------------
(* The user, and the rate limiter.                                         *)

bufferevent_disable(ds) == be_openssl_disable([bev EXCEPT !.enabled = @ \ ds], ds)
Upset(ds) ==
  hist' = [hist EXCEPT !.upset = @ \/ (Handshaking(bev) /\ (ds \cap bev.evs # {} \/ Underlying))]

\* Bytes go into the last chunk or into a new one.
Output(len, extend) ==
  IF extend THEN [bev.output EXCEPT ![Len(bev.output)] = @ + len] ELSE Append(bev.output, len)
be_openssl_outbuf_cb(C, orig) ==
  LET on == IF orig = <<>> /\ ~Underlying THEN Added(C.s, {"w"}) ELSE C.s
  IN  IF Handshaking(C.s) THEN C
      ELSE IF Underlying THEN consider_writing(C) ELSE On(C, on)
evbuffer_add(len, extend) ==
  /\ IF extend THEN bev.output # <<>> /\ Last(bev.output) + len <= 2 ELSE Len(bev.output) < 2
  /\ \E C \in Calling :
       Outcome(be_openssl_outbuf_cb([C EXCEPT !.s.output = Output(len, extend)], bev.output))

evbuffer_drain(left) ==
  /\ left < bev.input
  /\ \E C \in Calling : Outcome(bufferevent_inbuf_wm_cb([C EXCEPT !.s.input = left]))
bufferevent_setwatermark(mark) ==
  /\ mark # bev.mark
  /\ \E C \in Calling :
       LET D == [C EXCEPT !.s.mark = mark]
       IN  IF mark # NoMark /\ bev.input >= mark
           THEN OutcomeOr(On(D, Suspended(D.s, "r", "wm")), TRUE)
           ELSE Outcome(Unsuspended(D, "r", "wm"))

\* The bucket of its group is emptied by another member, or filled again.
SuspendedForGroup(d) ==
  /\ Quotas # {Plenty} /\ "bw" \notin bev.susp[d]
  /\ bev' = Suspended(bev, d, "bw")
  /\ Upset({d}) /\ UNCHANGED ssl
Refilled(d) ==
  /\ "bw" \in bev.susp[d]
  /\ \E C \in Calling : Outcome(Unsuspended(C, d, "bw"))

\* With a descriptor, an underlying bufferevent begins the handshake at once.
set_handshake_callbacks(C) ==
  bufferevent_enable(On(C, Deleted(C.s, {"r", "w"})), C.s.enabled)
Renegotiating(C) ==
  [C EXCEPT !.s.state = "connecting", !.e.steps = Again, !.e.calls = @ + 1]
\* Between records, as the engine allows it.
bufferevent_ssl_renegotiate ==
  /\ ssl.calls < MaxCalls /\ ssl.steps = <<>> /\ ssl.in = <<>> /\ ssl.rest = 0
  /\ \E C \in Calls :
       Outcome(IF Underlying THEN Renegotiating(C)
               ELSE do_handshake(set_handshake_callbacks(Renegotiating(C))))
\* BEV_CTRL_SET_FD: another connection below, but for an underlying
\* bufferevent's buffers, and SSL_clear unless one was open when created.  The
\* flags stay, and so do the counts, which are those of the old BIO.
Counted(E) == [E EXCEPT !.num = [d \in Directions |-> 1], !.calls = @ + 1]
Connection(E) ==
  IF Underlying
  THEN [E EXCEPT !.in = IF @ = <<>> THEN @ ELSE <<"bad">>, !.first = TRUE, !.sent = 0]
  ELSE [E EXCEPT !.in = <<>>, !.out = 0, !.sent = 0]
\* An engine that has been told so by the peer stays closed.
Closed == bev.told = "eof" /\ "close" \in Range(ssl.in)
Cleared(C) ==
  [C EXCEPT !.e = [Connection(@) EXCEPT !.steps = Fresh, !.rest = 0],
            !.s.state = "connecting", !.s.told = "none"]
be_openssl_set_fd ==
  /\ ssl.calls < MaxCalls
  /\ \E C \in Calling :
       LET D == [C EXCEPT !.e = Counted(@)]
       IN  IF bev.old_state = "open"
           THEN Outcome(IF Underlying \/ Closed THEN D ELSE [D EXCEPT !.e = Connection(@)])
           ELSE OutcomeOr(IF Underlying THEN do_handshake(Cleared(D))
                          ELSE set_handshake_callbacks(Cleared(D)),
                          bev.susp["w"] # {} \/ "w" \notin bev.enabled)

\* be_openssl_unlink, be_openssl_destruct: below, nothing calls back.
bufferevent_free ==
  /\ bev' = [bev EXCEPT !.life = "freed", !.evs = {}]
  /\ ssl' = [ssl EXCEPT !.in = <<>>, !.out = 0] /\ UNCHANGED hist

Next ==
  /\ Live
  /\ UNCHANGED setup
  /\ \/ Arrives \/ Drains \/ be_openssl_readcb \/ be_openssl_writecb
     \/ \E what \in {"eof", "error", "timeout"}, d \in Directions : be_openssl_eventcb(what, d)
     \/ \E d \in Directions, C \in Calling : Outcome(bufferevent_enable(C, {d}))
     \/ \E d \in Directions : bev' = bufferevent_disable({d}) /\ Upset({d}) /\ UNCHANGED ssl
     \/ \E len \in Sizes, extend \in BOOLEAN : evbuffer_add(len, extend)
     \/ \E left \in 0 .. 2 * MaxRecords : evbuffer_drain(left)
     \/ \E mark \in Marks : bufferevent_setwatermark(mark)
     \/ \E d \in Directions : SuspendedForGroup(d) \/ Refilled(d)
     \/ bufferevent_ssl_renegotiate \/ be_openssl_set_fd \/ bufferevent_free

Spec == Init /\ [][Next]_vars

-------------------------------------------------------------------------------
Open == Live /\ bev.state = "open" /\ bev.told \notin {"eof", "error"}

(* What waits for the other direction is woken by it, whatever the user    *)
(* and the rate limiter switch off.                                        *)
BlockedIsWatched ==
  Open => /\ bev.rbow => IF Underlying THEN ssl.out > 0 \/ ssl.steps = <<>> ELSE "w" \in bev.evs
          /\ bev.wbor => "r" \in bev.evs

(* A user who may read or has written is served by an event, or by the     *)
(* callback of an underlying bufferevent with records or without room.     *)
NoStall ==
  Open => /\ MayRead(bev) /\ (Underlying \/ ~bev.rbow)
             => "r" \in bev.evs /\ (Underlying => ssl.in = <<>>)
          /\ "w" \in bev.enabled /\ bev.susp["w"] = {} /\ ~bev.wbor /\ bev.output # <<>>
             => IF Underlying THEN ssl.out > 0 ELSE "w" \in bev.evs

(* A handshake goes on unless the user or the limiter stopped what it      *)
(* waits for.                                                              *)
HandshakeGoesOn ==
  Live /\ Handshaking(bev) /\ bev.told = "none" /\ ~hist.upset /\ ssl.steps # <<>>
  => IF Head(ssl.steps) = "r" THEN "r" \in bev.evs
     ELSE Underlying \/ "w" \in bev.evs

(* SSL_write is called again with at least what it blocked on.             *)
RetriedWhole == bev.last > 0 => bev.output # <<>> /\ bev.output[1] >= bev.last

(* Writes and reads go on for ever only when a suspension came between.    *)
SpinsOnlySuspended ==
  bev.life = "spins" => (bev.wbor /\ bev.susp["w"] # {}) \/ (bev.rbow /\ bev.susp["r"] # {})

(* The end of a connection below is an end of file for a user who allows   *)
(* it, or who was told by the peer.                                        *)
EofGenuine == Live /\ bev.told = "eof" => bev.dirty \/ "close" \in Range(ssl.in)

(* No event reports what SSL has decrypted already, so it is read at once  *)
(* unless reading was suspended, or was done for writing, in a record.     *)
PendingIsRead == Live /\ ssl.rest > 0 => hist.left

SslSound ==
  /\ BlockedIsWatched /\ NoStall /\ HandshakeGoesOn /\ PendingIsRead
  /\ RetriedWhole /\ SpinsOnlySuspended /\ EofGenuine
===============================================================================
