----------------------------- MODULE EventTimers ------------------------------
(***************************************************************************)
(* Timeouts in libevent 2.1.12's event loop (event.c, minheap-internal.h): *)
(* the heap, the lists of common timeouts whose first event has an         *)
(* internal event in the heap, persistent events that are scheduled again, *)
(* and the loop that sleeps until the next timeout.                        *)
(*                                                                         *)
(* One thread: the user calls between callbacks or from within them.  Time *)
(* passes anywhere.  Left out: descriptors other than that an event        *)
(* becomes ready, priorities of the user's, and memory that is short.      *)
(***************************************************************************)
EXTENDS Integers, SequencesExt, FiniteSetsExt

CONSTANTS NTimers,              \* the user's events are 1 .. NTimers
          Persistent, Watching, \* those with EV_PERSIST, those that wait for a descriptor
          Durations,            \* of timeouts
          MAX_COMMON_TIMEOUTS, MaxTime

VARIABLES b,      \* the base and its events
          now,    \* the monotonic clock
          loop    \* when the loop wakes, and how late its clock was

timerVars == <<b, now, loop>>

Users == 1 .. NTimers
Ctl(i) == NTimers + i    \* timeout_event of the list i
All == 1 .. NTimers + MAX_COMMON_TIMEOUTS
Pri(e) == IF e \in Users THEN 2 ELSE 1
Plain(d) == [d |-> d, c |-> 0]
Common(d, i) == [d |-> d, c |-> i]
Absent == Plain(-1)
Awake == [wake |-> 0, lag |-> 0]
Forever == MaxTime + Max(Durations) + 1

Init ==
  /\ b = [heap |-> <<>>, idx |-> [e \in All |-> -1], common |-> <<>>, queue |-> <<<<>>, <<>>>>,
          ev |-> [e \in All |-> [at |-> Plain(0), io |-> Plain(0), flags |-> {}, res |-> {}]],
          count |-> 0, cache |-> 0]
  /\ now = 1 /\ loop = Awake

Has(s, e, f) == f \in s.ev[e].flags
gettime(s) == IF s.cache # 0 THEN s.cache ELSE now
Counts(e) == IF e \in Users THEN 1 ELSE 0
SetFlag(s, e, f) == [s EXCEPT !.ev[e].flags = @ \cup {f}, !.count = @ + Counts(e)]
ClearFlag(s, e, f) == [s EXCEPT !.ev[e].flags = @ \ {f}, !.count = @ - Counts(e)]

-------------------------------------------------------------------------------
(***************************************************************************)
(* The heap, an array from 0 on whose elements know their index.           *)
(***************************************************************************)
At(s, i) == s.heap[i + 1]
Put(s, i, e) == [s EXCEPT !.heap[i + 1] = e, !.idx[e] = i]
Greater(s, x, y) == s.ev[x].at.d > s.ev[y].at.d
Parent(i) == (i - 1) \div 2
Levels == <<1, 2, 3>>  \* no heap here is deeper

min_heap_shift_up_(s, hole_index, e) ==
  LET Step(r, level) ==
        IF r.hole > 0 /\ Greater(r.s, At(r.s, Parent(r.hole)), e)
        THEN [s |-> Put(r.s, r.hole, At(r.s, Parent(r.hole))), hole |-> Parent(r.hole)] ELSE r
      end == FoldLeft(Step, [s |-> s, hole |-> hole_index], Levels)
  IN  Put(end.s, end.hole, e)

min_heap_shift_up_unconditional_(s, hole_index, e) ==
  min_heap_shift_up_(Put(s, hole_index, At(s, Parent(hole_index))), Parent(hole_index), e)

min_heap_shift_down_(s, hole_index, e) ==
  LET n == Len(s.heap)
      Step(r, level) ==
        LET right == 2 * (r.hole + 1)
            child == IF right = n \/ (right < n /\ Greater(r.s, At(r.s, right), At(r.s, right - 1)))
                     THEN right - 1 ELSE right
        IN  IF right > n THEN r
            ELSE IF ~Greater(r.s, e, At(r.s, child)) THEN r
            ELSE [s |-> Put(r.s, r.hole, At(r.s, child)), hole |-> child]
      end == FoldLeft(Step, [s |-> s, hole |-> hole_index], Levels)
  IN  Put(end.s, end.hole, e)

min_heap_push_(s, e) == min_heap_shift_up_([s EXCEPT !.heap = Append(@, e)], Len(s.heap), e)

min_heap_erase_(s, e) ==
  LET i == s.idx[e]
      last == Last(s.heap)
      less == [s EXCEPT !.heap = Front(@)]
      filled == IF i = Len(less.heap) THEN less
                ELSE IF i > 0 /\ Greater(s, At(s, Parent(i)), last)
                THEN min_heap_shift_up_unconditional_(less, i, last)
                ELSE min_heap_shift_down_(less, i, last)
  IN  [filled EXCEPT !.idx[e] = -1]

-------------------------------------------------------------------------------
(***************************************************************************)
(* Queues and lists.                                                       *)
(***************************************************************************)
is_common_timeout(tv) == tv.c # 0

\* From the end to the place where it fits.
insert_common_timeout_inorder(events, s, e) ==
  LET before == {i \in DOMAIN events : ~Greater(s, events[i], e)}
  IN  InsertAt(events, IF before = {} THEN 1 ELSE Max(before) + 1, e)

event_queue_insert_timeout(s0, e) ==
  LET s == SetFlag(s0, e, "TIMEOUT")
  IN  IF is_common_timeout(s.ev[e].at)
      THEN [s EXCEPT !.common[s.ev[e].at.c].events = insert_common_timeout_inorder(@, s, e)]
      ELSE min_heap_push_(s, e)

event_queue_remove_timeout(s0, e) ==
  LET s == ClearFlag(s0, e, "TIMEOUT")
  IN  IF is_common_timeout(s.ev[e].at) THEN [s EXCEPT !.common[s.ev[e].at.c].events = Remove(@, e)]
      ELSE min_heap_erase_(s, e)

event_queue_insert_active(s, e) ==
  [SetFlag(s, e, "ACTIVE") EXCEPT !.queue[Pri(e)] = Append(@, e)]
event_queue_remove_active(s, e) ==
  [ClearFlag(s, e, "ACTIVE") EXCEPT !.queue[Pri(e)] = Remove(@, e)]

event_active_nolock_(s, e, res) ==
  IF Has(s, e, "ACTIVE") THEN [s EXCEPT !.ev[e].res = @ \cup {res}]
  ELSE event_queue_insert_active([s EXCEPT !.ev[e].res = {res}], e)

NotTimed(s, e) == IF Has(s, e, "TIMEOUT") THEN event_queue_remove_timeout(s, e) ELSE s
NotActive(s, e) == IF Has(s, e, "ACTIVE") THEN event_queue_remove_active(s, e) ELSE s
NotInserted(s, e) == IF Has(s, e, "INSERTED") THEN ClearFlag(s, e, "INSERTED") ELSE s
event_del_nolock_(s, e) == NotInserted(NotActive(NotTimed(s, e), e), e)

-------------------------------------------------------------------------------
(***************************************************************************)
(* event_add.  An absolute time keeps the mark of the list it belongs to.  *)
(***************************************************************************)
NotExpired(s, e) ==
  IF Has(s, e, "ACTIVE") /\ "TIMEOUT" \in s.ev[e].res THEN event_queue_remove_active(s, e) ELSE s
Due(s, e, at) == event_queue_insert_timeout([s EXCEPT !.ev[e].at = at], e)
AddTimeout(s, e, tv, absolute) ==
  LET io == IF e \in Persistent /\ ~absolute THEN [s EXCEPT !.ev[e].io = tv] ELSE s
  IN  Due(NotExpired(NotTimed(io, e), e), e,
          IF absolute THEN tv ELSE [tv EXCEPT !.d = @ + gettime(s)])

common_timeout_schedule(s, i) ==
  AddTimeout(s, Ctl(i), Plain(s.ev[Head(s.common[i].events)].at.d), TRUE)
FirstScheduled(s, e, tv) ==
  IF is_common_timeout(tv) /\ Head(s.common[tv.c].events) = e
  THEN common_timeout_schedule(s, tv.c) ELSE s

event_add_nolock_(s0, e, tv, absolute) ==
  LET new == e \in Watching /\ s0.ev[e].flags \cap {"INSERTED", "ACTIVE"} = {}
      s == IF new THEN SetFlag(s0, e, "INSERTED") ELSE s0
  IN  IF tv = Absent THEN s ELSE FirstScheduled(AddTimeout(s, e, tv, absolute), e, tv)

event_remove_timer_nolock_(s, e) ==
  IF Has(s, e, "TIMEOUT")
  THEN [event_queue_remove_timeout(s, e) EXCEPT !.ev[e].io = Plain(0)] ELSE s

event_base_init_common_timeout(s, d) ==
  IF \E i \in DOMAIN s.common : s.common[i].duration = d THEN s
  ELSE IF Len(s.common) = MAX_COMMON_TIMEOUTS THEN s
  ELSE [s EXCEPT !.common = Append(@, [duration |-> d, events |-> <<>>])]

-------------------------------------------------------------------------------
(***************************************************************************)
(* The loop.                                                               *)
(***************************************************************************)
Expire(s, e) == event_active_nolock_(event_del_nolock_(s, e), e, "TIMEOUT")

timeout_process(s) ==
  LET Step(r, i) == IF r.heap = <<>> THEN r
                    ELSE IF r.ev[Head(r.heap)].at.d > gettime(s) THEN r ELSE Expire(r, Head(r.heap))
  IN  FoldLeft(Step, s, s.heap)

common_timeout_callback(s, i) ==
  LET Step(r, e) == IF Head(r.common[i].events) # e \/ r.ev[e].at.d > gettime(s) THEN r ELSE Expire(r, e)
      Rescheduled(due) == IF due.common[i].events = <<>> THEN due ELSE common_timeout_schedule(due, i)
  IN  Rescheduled(FoldLeft(Step, s, s.common[i].events))

\* The next time counts from the last, unless that has been missed.
event_persist_closure(s, e) ==
  LET io == s.ev[e].io
      from == IF "TIMEOUT" \in s.ev[e].res THEN s.ev[e].at.d ELSE gettime(s)
      run_at == IF from + io.d < gettime(s) THEN gettime(s) + io.d ELSE from + io.d
  IN  IF io.d = 0 THEN s ELSE event_add_nolock_(s, e, [io EXCEPT !.d = run_at], TRUE)

\* An event of event_process_active_single_queue.
RunEvent(s, e) ==
  IF e \notin Users THEN common_timeout_callback(event_del_nolock_(s, e), e - NTimers)
  ELSE IF e \in Persistent THEN event_persist_closure(event_queue_remove_active(s, e), e)
  ELSE event_del_nolock_(s, e)

timeout_next(s) ==
  IF s.heap = <<>> THEN Forever
  ELSE now + Max({0, s.ev[Head(s.heap)].at.d - gettime(s)})

Active == Len(b.queue[1]) + Len(b.queue[2]) > 0

\* The time to sleep is reckoned with the time the last dispatch ended.  The
\* loop does not sleep over active events that it has put off.
Sleep ==
  /\ loop = Awake /\ (b.count > 0 \/ Active)
  /\ loop' = [wake |-> IF Active THEN now ELSE timeout_next(b), lag |-> now - gettime(b)]
  /\ b' = [b EXCEPT !.cache = 0]
  /\ UNCHANGED now

Wake ==
  /\ loop # Awake
  /\ \E ready \in SUBSET {e \in Users : Has(b, e, "INSERTED")} :
       /\ ready # {} \/ now >= loop.wake
       /\ LET woken == [b EXCEPT !.cache = now]
              io == FoldLeft(LAMBDA s, e : event_active_nolock_(s, e, "READ"), woken, SetToSeq(ready))
          IN  b' = timeout_process(io)
  /\ loop' = Awake
  /\ UNCHANGED now

Process ==
  /\ loop = Awake /\ Active
  /\ b' = RunEvent(b, IF b.queue[1] # <<>> THEN Head(b.queue[1]) ELSE Head(b.queue[2]))
  /\ UNCHANGED <<now, loop>>

Tick == now < MaxTime /\ now' = now + 1 /\ UNCHANGED <<b, loop>>

\* What the user may call.
Timeouts ==
  {Absent} \cup {Plain(d) : d \in Durations}
    \cup {Common(b.common[i].duration, i) : i \in DOMAIN b.common}
User(s) == loop = Awake /\ b' = s /\ UNCHANGED <<now, loop>>

event_add(e) == \E tv \in Timeouts : User(event_add_nolock_(b, e, tv, FALSE))
event_del(e) == User(event_del_nolock_(b, e))
event_remove_timer(e) == User(event_remove_timer_nolock_(b, e))
InitCommon == \E d \in Durations : User(event_base_init_common_timeout(b, d))

\* Timers of this process have no descriptor, the internal ones neither.
event_base_active_by_fd ==
  LET OnFd(seq) == SelectSeq(seq, LAMBDA e : e \notin Watching)
      lists == FoldLeft(LAMBDA all, l : all \o OnFd(l.events), OnFd(b.heap), b.common)
  IN  User(FoldLeft(LAMBDA s, e : event_active_nolock_(s, e, "TIMEOUT"), b, lists))

Next ==
  \/ \E e \in Users : event_add(e) \/ event_del(e) \/ event_remove_timer(e)
  \/ InitCommon \/ event_base_active_by_fd
  \/ Sleep \/ Wake \/ Process \/ Tick

Spec == Init /\ [][Next]_timerVars

-------------------------------------------------------------------------------
Timed == {e \in All : Has(b, e, "TIMEOUT")}

(* What event_base_assert_ok_nolock_ asserts (event.c:3974): the heap is   *)
(* one and its elements know their index; lists are in order; whoever has  *)
(* a timeout is in one of them, and the count is that of the flags.        *)
HeapAndLists ==
  /\ \A i \in 1 .. Len(b.heap) - 1 : ~Greater(b, At(b, Parent(i)), At(b, i))
  /\ \A e \in All : IF e \in Timed /\ ~is_common_timeout(b.ev[e].at)
                    THEN b.idx[e] \in 0 .. Len(b.heap) - 1 /\ At(b, b.idx[e]) = e
                    ELSE b.idx[e] = -1 /\ e \notin ToSet(b.heap)
  /\ \A i \in DOMAIN b.common :
       LET events == b.common[i].events
       IN  /\ \A j \in 1 .. Len(events) - 1 : ~Greater(b, events[j], events[j + 1])
           /\ ToSet(events) = {e \in Timed : b.ev[e].at.c = i} /\ IsInjective(events)
  /\ b.count = SumSet({100 * e + Cardinality(b.ev[e].flags) : e \in Users}) - SumSet({100 * e : e \in Users})

(* The internal event of a list is due no later than the list's first, or  *)
(* about to run.                                                           *)
ListsScheduled ==
  \A i \in DOMAIN b.common :
    b.common[i].events # <<>> =>
      \/ Has(b, Ctl(i), "ACTIVE")
      \/ Has(b, Ctl(i), "TIMEOUT") /\ ~Greater(b, Ctl(i), Head(b.common[i].events))

(* No timeout is slept over for longer than the loop's clock was late.     *)
NoOversleep ==
  loop # Awake => \A e \in Timed : loop.wake <= Max({b.ev[e].at.d + loop.lag, now})

(* event_base_foreach_event_nolock_ comes to every event once.             *)
event_base_foreach_event_nolock_(s) ==
  LET Not(seq, flags) == SelectSeq(seq, LAMBDA e : s.ev[e].flags \cap flags = {})
      lists == FoldLeft(LAMBDA all, l : all \o Not(l.events, {"INSERTED"}), <<>>, s.common)
      active == Not(s.queue[1] \o s.queue[2], {"INSERTED", "TIMEOUT"})
  IN  SetToSeq({e \in All : Has(s, e, "INSERTED")}) \o Not(s.heap, {"INSERTED"}) \o lists \o active
VisitsAllOnce ==
  LET visited == event_base_foreach_event_nolock_(b)
  IN  IsInjective(visited) /\ ToSet(visited) = {e \in All : b.ev[e].flags # {}}

TimersSound == HeapAndLists /\ ListsScheduled /\ NoOversleep /\ VisitsAllOnce

(* Whatever expires in the loop was due by the loop's clock.               *)
NoneEarly ==
  \A e \in All :
    /\ Has(b', e, "ACTIVE") /\ ~Has(b, e, "ACTIVE") /\ Has(b, e, "TIMEOUT")
    /\ "TIMEOUT" \in b'.ev[e].res \ b'.ev[e].flags /\ ~event_base_active_by_fd
    => b.ev[e].at.d <= gettime(b')
===============================================================================
