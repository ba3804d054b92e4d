------------------------------- MODULE BevPair --------------------------------
(***************************************************************************)
(* Two bufferevents "a" and "b" that are each other's peer                 *)
(* (bufferevent_pair.c), and a filter "f" on top of "a"                    *)
(* (bufferevent_filter.c) that hands bytes on as they are.                 *)
(*                                                                         *)
(* Bytes go from one's output to the other's input whenever the one may    *)
(* write and the other read; the filter's user reaches them through a.     *)
(* All share a lock, callbacks are deferred, and what has no references is *)
(* freed by finalizers that run in the order they were queued in.          *)
(***************************************************************************)
EXTENDS Integers, SequencesExt

CONSTANTS Filter,      \* whether there is a filter
          CloseOnFree, \* whether freeing it frees a
          Changing,    \* those with callbacks, that are enabled, disabled and flushed
          Modes,       \* how they are flushed
          ReadMarks,   \* high marks for input, 0 for none
          WriteHigh,   \* the high mark of a's output, 0 for none
          MaxBytes     \* bound: bytes in one buffer

VARIABLES be,      \* the bufferevents
          fin,     \* those that wait for their finalizers
          lock,    \* "shared" or "freed"
          late     \* history: the filter had data to pass on before it was able to

vars == <<be, fin, lock, late>>

Names == {"a", "b", "f"}
Peer(x) == IF x = "a" THEN "b" ELSE "a"
Users(x) == x # "a" \/ ~Filter
Top == IF Filter THEN "f" ELSE "a"

\* bufferevent_pair_new, bufferevent_filter_new
New(x, owner, high) ==
  [in |-> 0, out |-> 0, high |-> high, enabled |-> IF x \in Changing THEN {"w"} ELSE {"r", "w"},
   susp |-> IF x = "a" /\ Filter THEN {"filt"} ELSE {}, incb |-> FALSE,
   partner |-> x # "f", unlinked |-> FALSE, refs |-> IF x = "a" /\ Filter THEN 2 ELSE 1,
   user |-> TRUE, cbs |-> (x = "a" /\ Filter) \/ x \in Changing, pend |-> {}, queued |-> FALSE, own_lock |-> owner = x,
   life |-> "live"]
Init ==
  /\ \E owner \in {"a", "b"}, high \in ReadMarks :
       be = [x \in (IF Filter THEN Names ELSE {"a", "b"}) |->
               New(x, owner, IF x = "a" /\ Filter THEN 0 ELSE high)]
  /\ fin = <<>> /\ lock = "shared" /\ late = {}

-------------------------------------------------------------------------------
(* Callbacks and suspensions.  S is what be is while a call goes on.       *)

\* The deferred callback has a reference while it is queued.
Schedule(S, x, what) ==
  IF ~S[x].cbs THEN S
  ELSE [S EXCEPT ![x].pend = @ \cup {what}, ![x].queued = TRUE,
                 ![x].refs = IF S[x].queued THEN @ ELSE @ + 1]
Triggered(S, x, what) ==
  IF what = "write" /\ S[x].out > 0 THEN S ELSE Schedule(S, x, what)

Full(S, x) == S[x].high > 0 /\ S[x].in >= S[x].high
Wants(S, src, dst) ==
  /\ S[src].partner /\ "w" \in S[src].enabled /\ "r" \in S[dst].enabled
  /\ S[dst].susp = {} /\ S[src].out > 0

\* bufferevent_suspend_read_ of one of the pair, and of the filter.
Suspend(S, x, why) ==
  LET on == IF x = "f" /\ S["f"].susp = {}
            THEN [S EXCEPT !["a"].susp = @ \cup {"filt"}] ELSE S
  IN  [on EXCEPT ![x].susp = @ \cup {why}]
Smaller(i, j) == IF i < j THEN i ELSE j
be_pair_transfer(S, src, dst, ignore) ==
  LET n == IF S[dst].high = 0 \/ Full(S, dst) THEN S[src].out
           ELSE Smaller(S[src].out, S[dst].high - S[dst].in)
      moved == [S EXCEPT ![src].out = @ - n, ![dst].in = @ + n]
      marked == IF Full(moved, dst) THEN Suspend(moved, dst, "wm") ELSE moved
  IN  IF Full(S, dst) /\ ~ignore THEN S
      ELSE Triggered(Triggered(marked, dst, "read"), src, "write")
Offered(S, src) ==
  IF Wants(S, src, Peer(src)) THEN be_pair_transfer(S, src, Peer(src), FALSE) ELSE S
be_pair_enable(S, x, ds) ==
  LET read == IF "r" \in ds THEN Offered(S, Peer(x)) ELSE S
  IN  IF "w" \in ds THEN Offered(read, x) ELSE read

UnsuspendPair(S, x, why) ==
  LET on == [S EXCEPT ![x].susp = @ \ {why}]
  IN  IF on[x].susp = {} /\ "r" \in on[x].enabled THEN be_pair_enable(on, x, {"r"}) ELSE on
be_filter_enable(S, ds) == IF "r" \in ds THEN UnsuspendPair(S, "a", "filt") ELSE S
be_filter_disable(S, ds) == IF "r" \in ds THEN Suspend(S, "a", "filt") ELSE S
Unsuspend(S, x, why) ==
  LET on == [S EXCEPT ![x].susp = @ \ {why}]
  IN  IF x # "f" THEN UnsuspendPair(S, x, why)
      ELSE IF on["f"].susp = {} /\ "r" \in on["f"].enabled
           THEN be_filter_enable(on, {"r"}) ELSE on
bufferevent_inbuf_wm_cb(S, x) ==
  IF S[x].high = 0 THEN S
  ELSE IF Full(S, x) THEN Suspend(S, x, "wm") ELSE Unsuspend(S, x, "wm")

-------------------------------------------------------------------------------
(* The filter.                                                             *)

Urged(flush) == flush # "normal"
be_filter_process_input(S, flush) ==
  LET room == IF Urged(flush) \/ S["f"].high = 0 THEN S["a"].in
              ELSE Smaller(S["a"].in, S["f"].high - S["f"].in)
  IN  bufferevent_inbuf_wm_cb([S EXCEPT !["a"].in = @ - room, !["f"].in = @ + room], "f")
MayRead(S, flush) == Urged(flush) \/ ("r" \in S["f"].enabled /\ ~Full(S, "f"))

\* Bytes that stay below wait until the user makes room.
Leftover(S) == IF S["a"].in > 0 /\ Full(S, "f") THEN [S EXCEPT !["f"].incb = TRUE] ELSE S
be_filter_read_nolock_(S) ==
  IF S["f"].refs = 0 \/ ~MayRead(S, "normal") THEN S
  ELSE Leftover(Triggered(be_filter_process_input(S, "normal"), "f", "read"))
bufferevent_filtered_inbuf_cb(S) ==
  IF ~S["f"].incb \/ Full(S, "f") THEN S
  ELSE LET off == [S EXCEPT !["f"].incb = FALSE]
       IN  IF off["a"].in > 0 THEN be_filter_read_nolock_(off) ELSE off

WriteBufFull(S) == WriteHigh > 0 /\ S["a"].out >= WriteHigh
\* Filtered bytes are added below, from where they go on at once if they can.
ProcessOnce(S, flush) ==
  LET n == IF Urged(flush) \/ WriteHigh = 0 THEN S["f"].out
           ELSE Smaller(S["f"].out, WriteHigh - S["a"].out)
  IN  Offered([S EXCEPT !["f"].out = @ - n, !["a"].out = @ + n], "a")
be_filter_process_output(S, flush) ==
  LET Step(s, i) ==
        IF "w" \in s["f"].enabled /\ s["f"].out > 0 /\ (Urged(flush) \/ ~WriteBufFull(s))
        THEN ProcessOnce(s, flush) ELSE s
      first == ProcessOnce(S, flush)
  IN  IF ~Urged(flush) /\ ("w" \notin S["f"].enabled \/ WriteBufFull(S) \/ S["f"].out = 0)
      THEN S
      ELSE Triggered(FoldLeft(Step, first, [i \in 1 .. MaxBytes |-> i]), "f", "write")

-------------------------------------------------------------------------------
(* References.                                                             *)

\* The one that is unlinked first remembers the other, for the lock's sake.
be_pair_unlink(S, x) ==
  IF ~S[x].partner THEN S
  ELSE [S EXCEPT ![x].partner = FALSE, ![x].unlinked = TRUE, ![Peer(x)].partner = FALSE]
DecrefPair(S, x) ==
  IF S[x].refs > 1 THEN [S EXCEPT ![x].refs = @ - 1]
  ELSE [be_pair_unlink(S, x) EXCEPT ![x].refs = 0, ![x].life = "finalizing"]
be_filter_unlink(S) ==
  IF CloseOnFree
  THEN IF S["a"].refs < 2 THEN S
       ELSE [DecrefPair(S, "a") EXCEPT !["a"].user = FALSE, !["a"].cbs = FALSE]
  ELSE UnsuspendPair([S EXCEPT !["a"].cbs = FALSE], "a", "filt")
Decref(S, x) ==
  IF x # "f" THEN DecrefPair(S, x)
  ELSE IF S["f"].refs > 1 THEN [S EXCEPT !["f"].refs = @ - 1]
  ELSE [be_filter_unlink(S) EXCEPT !["f"].refs = 0, !["f"].life = "finalizing"]

\* Whoever has just lost its last reference waits for its finalizer.
Become(S) ==
  /\ be' = S
  /\ fin' = fin \o SetToSeq({x \in DOMAIN be : be[x].life = "live" /\ S[x].life = "finalizing"})

\* The lock's ownership passes to the other, which may still be in use.
be_pair_destruct(S, x) ==
  IF S[x].unlinked /\ S[x].own_lock
  THEN [S EXCEPT ![Peer(x)].own_lock = TRUE, ![x].own_lock = FALSE, ![x].unlinked = FALSE]
  ELSE [S EXCEPT ![x].unlinked = FALSE]
bufferevent_finalize_cb_ ==
  /\ fin # <<>>
  /\ LET x == Head(fin)
         left == [(IF x = "f" THEN be ELSE be_pair_destruct(be, x)) EXCEPT ![x].life = "gone"]
         done == IF x = "f" THEN DecrefPair(left, "a") ELSE left
     IN  /\ be' = done
         /\ lock' = IF left[x].own_lock THEN "freed" ELSE lock
         /\ fin' = Tail(fin) \o (IF done["a"].life = "finalizing" /\ be["a"].life = "live"
                                 THEN <<"a">> ELSE <<>>)
  /\ UNCHANGED late

-------------------------------------------------------------------------------
(* What users call, and the deferred callbacks.                            *)

\* While the input is full the read callback is called again.
bufferevent_inbuf_wm_check(S, x) ==
  IF Full(S, x) /\ "r" \in S[x].enabled THEN Schedule(S, x, "read") ELSE S
UserTold(S, x) == IF "read" \in be[x].pend THEN bufferevent_inbuf_wm_check(S, x) ELSE S
be_filter_readcb(S) ==
  IF "read" \in be["a"].pend THEN be_filter_read_nolock_(S) ELSE S
be_filter_writecb(S) ==
  IF "write" \in be["a"].pend /\ S["f"].refs > 0
  THEN be_filter_process_output(S, "normal") ELSE S
be_filter_eventcb(S) ==
  IF "event" \in be["a"].pend /\ S["f"].refs > 0 THEN Schedule(S, "f", "event") ELSE S
FilterTold(S) == be_filter_eventcb(be_filter_writecb(be_filter_readcb(S)))
run_deferred_callbacks(x) ==
  LET S == [be EXCEPT ![x].pend = {}, ![x].queued = FALSE]
  IN  /\ be[x].queued
      /\ Become(Decref(IF ~S[x].cbs THEN S
                       ELSE IF Users(x) THEN UserTold(S, x) ELSE FilterTold(S), x))
      /\ late' = CASE Users(x) -> late
                   [] "read" \in be[x].pend /\ ~MayRead(be, "normal") ->
                        (late \ be[x].pend) \cup {"read"}
                   [] OTHER -> late \ be[x].pend

Added(S, x) == IF x = "f" THEN be_filter_process_output(S, "normal") ELSE Offered(S, x)
Write(x) ==
  /\ be[x].out < MaxBytes
  /\ Become(Added([be EXCEPT ![x].out = @ + 1], x))
  /\ late' = IF x = "f" THEN late \ {"write"} ELSE late
Read(x) ==
  /\ be[x].in > 0
  /\ LET taken == bufferevent_inbuf_wm_cb([be EXCEPT ![x].in = @ - 1], x)
     IN  Become(IF x = "f" THEN bufferevent_filtered_inbuf_cb(taken) ELSE taken)
  /\ UNCHANGED late
bufferevent_enable(x, d) ==
  /\ LET S == [be EXCEPT ![x].enabled = @ \cup {d}]
         ds == IF d = "r" /\ be[x].susp # {} THEN {} ELSE {d}
     IN  Become(IF x = "f" THEN be_filter_enable(S, ds) ELSE be_pair_enable(S, x, ds))
  /\ late' = late \cup (CASE x = "f" /\ d = "r" /\ be["a"].in > 0 -> {"read"}
                          [] x = "f" /\ d = "w" /\ be["f"].out > 0 -> {"write"}
                          [] OTHER -> {})
bufferevent_disable(x, d) ==
  /\ LET S == [be EXCEPT ![x].enabled = @ \ {d}]
     IN  Become(IF x = "f" THEN be_filter_disable(S, {d}) ELSE S)
  /\ UNCHANGED late
be_pair_flush(S, x, d, mode) ==
  IF ~S[x].partner THEN S
  ELSE LET from == IF d = "r" THEN Peer(x) ELSE x
           through == be_pair_transfer(S, from, Peer(from), TRUE)
       IN  IF mode = "finished" THEN Schedule(through, Peer(x), "event") ELSE through
bufferevent_flush(x, d, mode) ==
  /\ be["a"].in + be["b"].in + be["a"].out + be["b"].out <= MaxBytes
  /\ x = "f" => be["f"].in + be["f"].out + be["a"].in + be["a"].out <= MaxBytes
  /\ Become(IF x # "f" THEN be_pair_flush(be, x, d, mode)
            ELSE LET own == IF d = "r" THEN be_filter_process_input(be, mode)
                            ELSE be_filter_process_output(be, mode)
                 IN  be_pair_flush(own, "a", d, mode))
  /\ UNCHANGED late
bufferevent_free(x) ==
  /\ Become(Decref([be EXCEPT ![x].user = FALSE, ![x].cbs = FALSE], x))
  /\ UNCHANGED late

Room(x) == be[x].in < MaxBytes
Call(x) ==
  /\ be[x].user /\ Users(x)
  /\ \/ (\A y \in DOMAIN be : Room(y)) /\ Write(x)
     \/ Read(x)
     \/ x \in Changing /\ \E d \in {"r", "w"} :
          \/ d \notin be[x].enabled /\ bufferevent_enable(x, d)
          \/ d \in be[x].enabled /\ bufferevent_disable(x, d)
          \/ \E mode \in Modes : bufferevent_flush(x, d, mode)
FreeOne(x) ==
  be[x].user /\ (Users(x) \/ ~CloseOnFree) /\ bufferevent_free(x)

Next ==
  \/ \E x \in DOMAIN be :
       \/ Call(x) /\ UNCHANGED lock
       \/ FreeOne(x) /\ UNCHANGED lock
       \/ run_deferred_callbacks(x) /\ UNCHANGED lock
  \/ bufferevent_finalize_cb_

Spec == Init /\ [][Next]_vars

-------------------------------------------------------------------------------
(* Users, queued callbacks and a filter above have references, and nothing *)
(* is freed while somebody has one.                                        *)
ReferencesHeld ==
  \A x \in DOMAIN be :
    /\ be[x].refs = (IF be[x].user THEN 1 ELSE 0) + (IF be[x].queued THEN 1 ELSE 0)
                      + (IF x = "a" /\ Filter /\ be["f"].life # "gone" THEN 1 ELSE 0)
    /\ be[x].life = "live" <=> be[x].refs > 0

(* Nobody calls into a filter that is gone, or passes the lock to one.     *)
NothingDangles ==
  /\ Filter /\ be["f"].life = "gone" => ~be["a"].cbs
  /\ \A x \in {"a", "b"} :
       /\ be[x].partner => be[Peer(x)].life = "live" /\ be[Peer(x)].partner
       /\ be[x].unlinked => be[Peer(x)].life # "gone"

(* The lock they share is freed with the last of them, and not before.     *)
LockSurvives ==
  lock = "freed" <=> \A x \in DOMAIN be : be[x].life = "gone"

(* An input at its high mark is suspended, and a filter that does not read *)
(* keeps what is below it from reading.                                    *)
Suspended ==
  /\ \A x \in DOMAIN be : Full(be, x) /\ be[x].life = "live" => "wm" \in be[x].susp
  /\ Filter /\ be["f"].life = "live" =>
       ("filt" \in be["a"].susp <=> be["f"].susp # {} \/ "r" \notin be["f"].enabled)

(* Bytes that may go on do so.  Those that waited for the filter while it  *)
(* could not take them stay until the next callback of what is below it.   *)
NothingStuck ==
  /\ \A x \in {"a", "b"} : Wants(be, x, Peer(x)) => Full(be, Peer(x))
  /\ Filter /\ be["f"].life = "live" /\ be["a"].cbs =>
       /\ be["a"].in > 0 /\ MayRead(be, "normal") =>
            "read" \in be["a"].pend \cup late
       /\ be["f"].out > 0 /\ "w" \in be["f"].enabled /\ ~WriteBufFull(be) =>
            "write" \in be["a"].pend \cup late

PairSound ==
  ReferencesHeld /\ NothingDangles /\ LockSurvives /\ Suspended /\ NothingStuck
===============================================================================
