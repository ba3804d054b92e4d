------------------------------ MODULE EventBase ------------------------------
(***************************************************************************)
(* The core of libevent 2.1.12: an event_base, the thread that runs        *)
(* event_base_loop, and other threads that add, delete and activate events *)
(* while it runs (event.c, evmap.c, epoll.c, signal.c).                    *)
(*                                                                         *)
(* Every call holds th_base_lock from beginning to end, and the loop gives *)
(* the lock up in two places only: around epoll_wait and around a          *)
(* callback.  So a call is one step, and so is the loop's way from one of  *)
(* these places to the next.  What such a step does to the event_base is   *)
(* written as the functions of the source are, each from one value of the  *)
(* record base to the next.                                                *)
(*                                                                         *)
(* Time is relative: timeout[e] is the time left until ev_timeout, and     *)
(* tv_cache the age of the cached time.                                    *)
(***************************************************************************)
EXTENDS Integers, Sequences, SequencesExt, FiniteSetsExt

CONSTANTS
  Events,       \* what the program uses: struct event and deferred callbacks
  Threads,      \* the threads that do not run the loop
  LoopThread,   \* the thread that does
  Notify,       \* th_notify, the event of the eventfd that wakes the loop
  Evsig,        \* sig.ev_signal, the event of the pipe that signals write to
  None,
  Fd,           \* the descriptor of each event, None for timers
  Interest,     \* what each event waits for: a set of READ, WRITE, SIGNAL
  Persist,      \* the events with EV_PERSIST
  Deferred,     \* the event_callbacks with EV_CLOSURE_CB_SELF
  Pri,          \* the priority of each event
  Manual,       \* the events that the program activates itself
  Exits,        \* the events whose callback is event_loopexit_cb
  Scenarios,    \* which events a program uses together
  Delays,       \* the timeouts given to event_add for each event
  MaxDeferreds, \* MAX_DEFERREDS_QUEUED
  MaxRaised,    \* bound: signals in the pipe
  MaxAge,       \* bound: how long the loop is away from epoll_wait
  MaxLate       \* bound: how late epoll_wait returns

All == Events \cup {Notify, Evsig}
Internal == {Notify, Evsig}
Flags == {"INSERTED", "TIMEOUT", "ACTIVE", "LATER"}
Results == {"READ", "WRITE", "SIGNAL", "TIMEOUT"}

(* The eventfd is the base's own.  An event_callback is no event: it cannot*)
(* be added.                                                               *)
ASSUME EventsAssumption ==
  /\ IsFiniteSet(Events) /\ Events \cap Internal = {} /\ Notify # Evsig
  /\ None \notin All \cup Int /\ LoopThread \notin Threads
  /\ Persist \cup Deferred \cup Manual \cup Exits \subseteq Events
  /\ \A e \in Deferred : e \notin Persist /\ Interest[e] = {} /\ Delays[e] = {}
  /\ Interest \in [All -> SUBSET {"READ", "WRITE", "SIGNAL"}]
  /\ \A e \in Internal : Interest[e] = {"READ"} /\ Fd[e] # None
  /\ \A e \in All \ {Notify} : Fd[e] # Fd[Notify]
  /\ Pri \in [All -> Nat]
  /\ Scenarios \subseteq SUBSET Events
  /\ Delays \in [Events -> SUBSET Nat]
  /\ {MaxDeferreds, MaxRaised, MaxAge, MaxLate} \subseteq Nat

Priorities == 0 .. Max({Pri[e] : e \in All})
Fds == {Fd[e] : e \in All} \ {None}
NoCache == -1          \* tv_cache is clear
Forever == -1          \* epoll_wait without a timeout
Idle == [op |-> "none", ev |-> None, tv |-> None, woken |-> FALSE]

VARIABLES
  base,    \* struct event_base, and the fields of the events in it
  loop,    \* where the loop stands, and its local variables
  thr,     \* what each other thread waits for in event_add, _del, _active
  ready,   \* the program's descriptors that are readable or writable
  use      \* the events this program uses
vars == <<base, loop, thr, ready, use>>

Has(b, e, f) == f \in b.flags[e]
IsSignal(e) == "SIGNAL" \in Interest[e]
Counted(e) == IF e \in Internal THEN 0 ELSE 1
N_ACTIVE_CALLBACKS(b) == b.event_count_active
event_haveevents(b) == b.event_count > 0
gettime(b) == IF b.tv_cache = NoCache THEN 0 ELSE -b.tv_cache

(***************************************************************************)
(* The queues, their flags and their counters.                             *)
(***************************************************************************)
Enter(b, e, f) ==
  [b EXCEPT !.flags[e] = @ \cup {f}, !.event_count = @ + Counted(e)]
Leave(b, e, f) ==
  [b EXCEPT !.flags[e] = @ \ {f}, !.event_count = @ - Counted(e)]

event_queue_insert_active(b, e) ==
  [Enter(b, e, "ACTIVE") EXCEPT !.event_count_active = @ + 1,
                                !.activequeues[Pri[e]] = Append(@, e)]
event_queue_remove_active(b, e) ==
  [Leave(b, e, "ACTIVE") EXCEPT !.event_count_active = @ - 1,
                                !.activequeues[Pri[e]] = RemoveFirst(@, e)]
event_queue_insert_active_later(b, e) ==
  [Enter(b, e, "LATER") EXCEPT !.event_count_active = @ + 1,
                               !.active_later_queue = Append(@, e)]
event_queue_remove_active_later(b, e) ==
  [Leave(b, e, "LATER") EXCEPT !.event_count_active = @ - 1,
                               !.active_later_queue = RemoveFirst(@, e)]

(* The base after Act for each event of the list in turn.                  *)
InTurn(Act(_, _), b, order) ==
  LET after[i \in 0 .. Len(order)] == IF i = 0 THEN b ELSE Act(after[i - 1], order[i])
  IN  after[Len(order)]

(* Mutant: leaves the old flag.                                            *)
MakeActive_KeepsFlag(b, e) ==
  [b EXCEPT !.activequeues[Pri[e]] = Append(@, e),
            !.active_later_queue = RemoveFirst(@, e)]

MakeActive(b, e) ==
  [event_queue_insert_active(event_queue_remove_active_later(b, e), e) EXCEPT
     !.n_deferreds_queued = IF e \in Deferred THEN @ + 1 ELSE @]

event_queue_make_later_events_active(b) ==
  InTurn(LAMBDA c, e : MakeActive(c, e), b, b.active_later_queue)

(* Wakes the loop out of epoll_wait, once until the loop has drained it.   *)
evthread_notify_base(b, t) ==
  IF b.running_loop /\ t # LoopThread /\ ~b.is_notify_pending
  THEN [b EXCEPT !.is_notify_pending = TRUE, !.eventfd = @ + 1]
  ELSE b

(***************************************************************************)
(* Timeouts and descriptors.                                               *)
(***************************************************************************)
Timers(b) == {e \in All : Has(b, e, "TIMEOUT")}

(* What the kernel watches a descriptor for, through other events than e.  *)
WatchedBeside(b, e) ==
  UNION {Interest[f] : f \in {g \in All \ {e} : /\ Fd[g] = Fd[e]
                                               /\ Has(b, g, "INSERTED")}}
(* evmap_io_add_ and evmap_io_del_ return 1 when epoll_ctl was called.     *)
evmap_changes(b, e) ==
  Interest[e] # {} /\ (IsSignal(e) \/ ~(Interest[e] \subseteq WatchedBeside(b, e)))

evmap_add(b, e) ==
  LET b1 == Enter(b, e, "INSERTED")
  IN IF IsSignal(e) /\ ~Has(b, Evsig, "INSERTED")
     THEN Enter(b1, Evsig, "INSERTED")
     ELSE b1

(* A signal's callback is being called in a loop: end that loop.           *)
AbortCalls(b, e) ==
  IF IsSignal(e) /\ b.ncalls[e] # 0 /\ b.pncalls[e] THEN [b EXCEPT !.calls = 0] ELSE b

AddsIo(b, e) ==
  Interest[e] # {} /\ b.flags[e] \cap {"INSERTED", "ACTIVE", "LATER"} = {}

AddTimeout(b, e, tv, absolute) ==
  LET b1 == IF e \in Persist /\ ~IsSignal(e) /\ ~absolute
            THEN [b EXCEPT !.io_timeout[e] = tv] ELSE b
      b2 == IF Has(b1, e, "TIMEOUT") THEN Leave(b1, e, "TIMEOUT") ELSE b1
      b3 == IF Has(b2, e, "ACTIVE") /\ "TIMEOUT" \in b2.res[e]
            THEN event_queue_remove_active(AbortCalls(b2, e), e) ELSE b2
  IN [Enter(b3, e, "TIMEOUT") EXCEPT
        !.timeout[e] = IF absolute THEN tv ELSE gettime(b) + tv]

(* Mutant: the first timer does not count as a new earliest one.           *)
TimeoutNotifies_NotFirst(b, e) ==
  LET others == Timers(b) \ {e}
  IN others # {} /\ \A f \in others : b.timeout[e] < b.timeout[f]

(* The new timeout is the earliest, or the clock has jumped past another.  *)
TimeoutNotifies(b, e) ==
  LET others == Timers(b) \ {e}
  IN \/ \A f \in others : b.timeout[e] < b.timeout[f]
     \/ \E f \in others : b.timeout[f] < gettime(b)

event_add_nolock_(b, t, e, tv, absolute) ==
  LET b1 == IF AddsIo(b, e) THEN evmap_add(b, e) ELSE b
      b2 == IF tv = None THEN b1 ELSE AddTimeout(b1, e, tv, absolute)
  IN IF \/ AddsIo(b, e) /\ evmap_changes(b, e)
        \/ tv # None /\ TimeoutNotifies(b2, e)
     THEN evthread_notify_base(b2, t)
     ELSE b2

event_del_nolock_(b, t, e) ==
  LET b0 == AbortCalls(b, e)
      b1 == IF Has(b0, e, "TIMEOUT") THEN Leave(b0, e, "TIMEOUT") ELSE b0
      b2 == IF Has(b1, e, "ACTIVE") THEN event_queue_remove_active(b1, e)
            ELSE IF Has(b1, e, "LATER") THEN event_queue_remove_active_later(b1, e)
            ELSE b1
      b3 == IF Has(b2, e, "INSERTED") THEN Leave(b2, e, "INSERTED") ELSE b2
  IN IF /\ Has(b, e, "INSERTED")
        /\ \/ evmap_changes(b, e)
           \/ ~event_haveevents(b3) /\ N_ACTIVE_CALLBACKS(b3) = 0
     THEN evthread_notify_base(b3, t)
     ELSE b3

(* Mutant: the loop is not woken.                                          *)
event_callback_activate_nolock__Quiet(b, t, e) ==
  IF Has(b, e, "ACTIVE") THEN b ELSE event_queue_insert_active(b, e)

(***************************************************************************)
(* Activation.                                                             *)
(***************************************************************************)
event_callback_activate_nolock_(b, t, e) ==
  IF Has(b, e, "ACTIVE") THEN b
  ELSE LET b1 == IF Has(b, e, "LATER") THEN event_queue_remove_active_later(b, e) ELSE b
       IN evthread_notify_base(event_queue_insert_active(b1, e), t)

event_callback_activate_later_nolock_(b, t, e) ==
  IF Has(b, e, "ACTIVE") \/ Has(b, e, "LATER") THEN b
  ELSE evthread_notify_base(event_queue_insert_active_later(b, e), t)

(* The part of event_active_nolock_ before it waits for a signal's         *)
(* callback, and the part after that.                                      *)
NoteResult(b, e, res) ==
  [b EXCEPT !.res[e] = IF Has(b, e, "LATER") THEN @ \cup res ELSE res,
            !.event_continue = @ \/ Pri[e] < b.event_running_priority]
Activate(b, t, e, n) ==
  event_callback_activate_nolock_(
    IF IsSignal(e) THEN [b EXCEPT !.ncalls[e] = n, !.pncalls[e] = FALSE] ELSE b, t, e)

event_active_nolock_(b, t, e, res, n) ==
  IF Has(b, e, "ACTIVE") THEN [b EXCEPT !.res[e] = @ \cup res]
  ELSE Activate(NoteResult(b, e, res), t, e, n)

(* Mutant: the number queued in this round is not kept.                    *)
event_deferred_cb_schedule__Uncounted(b, t, e) ==
  event_callback_activate_nolock_(b, t, e)

event_deferred_cb_schedule_(b, t, e) ==
  IF b.n_deferreds_queued > MaxDeferreds
  THEN event_callback_activate_later_nolock_(b, t, e)
  ELSE LET b1 == event_callback_activate_nolock_(b, t, e)
       IN IF Has(b, e, "ACTIVE") \/ Has(b, e, "LATER") THEN b1
          ELSE [b1 EXCEPT !.n_deferreds_queued = @ + 1]

(***************************************************************************)
(* The loop.  A step of it ends where the lock is released; LoopAt is the  *)
(* pair of values it leaves behind.                                        *)
(***************************************************************************)
LoopAt(b, pc, left, count) ==
  [b |-> b, l |-> [loop EXCEPT !.pc = pc, !.left = left, !.count = count, !.got = {}]]

EndLoop(b) ==
  LoopAt([b EXCEPT !.running_loop = FALSE, !.tv_cache = NoCache], "out", 0, 0)

timeout_next(b) ==
  IF Timers(b) = {} THEN Forever
  ELSE Max({0, Min({b.timeout[e] : e \in Timers(b)}) - gettime(b)})

(* From the head of the while loop to epoll_wait.                          *)
NextRound(b0) ==
  LET b == [b0 EXCEPT !.event_continue = FALSE, !.n_deferreds_queued = 0]
  IN IF b.event_gotterm \/ b.event_break THEN EndLoop(b)
     ELSE IF ~event_haveevents(b) /\ N_ACTIVE_CALLBACKS(b) = 0 THEN EndLoop(b)
     ELSE LoopAt([event_queue_make_later_events_active(b) EXCEPT !.tv_cache = NoCache],
                 "wait", IF N_ACTIVE_CALLBACKS(b) > 0 THEN 0 ELSE timeout_next(b), 0)

(* A persistent event with a timeout is scheduled again before it is       *)
(* called: from the time it was scheduled for, or from now.                *)
event_persist_closure(b, e) ==
  IF b.io_timeout[e] = 0 THEN b
  ELSE LET now == gettime(b)
           from == IF "TIMEOUT" \in b.res[e] THEN b.timeout[e] ELSE now
           at == from + b.io_timeout[e]
       IN event_add_nolock_(b, LoopThread, e, IF at < now THEN now + b.io_timeout[e] ELSE at,
                            TRUE)

event_signal_closure(b, e) ==
  [b EXCEPT !.calls = b.ncalls[e], !.pncalls[e] = @ \/ b.ncalls[e] # 0]

(* The fields of an event that will be written before they are read again. *)
Forget(b, e) ==
  [b EXCEPT !.res[e] = {},
            !.timeout[e] = IF Has(b, e, "TIMEOUT") THEN @ ELSE 0]

(* Mutant: an event for one call stays added.                              *)
CallFirst_Keeps(b, p, count) ==
  LET e == Head(b.activequeues[p])
  IN LoopAt([event_queue_remove_active(b, e) EXCEPT !.current_event = e,
                                                    !.event_running_priority = p],
            "callback", 0, Max({count, Counted(e)}))

(* Takes the first event of queue p and calls it.  Whether any event but   *)
(* the internal ones was called is all that is asked of count.             *)
CallFirst(b, p, count) ==
  LET e == Head(b.activequeues[p])
      b1 == IF e \in Persist \cup Deferred \cup Internal
            THEN event_queue_remove_active(b, e)
            ELSE event_del_nolock_(b, LoopThread, e)
      b2 == [b1 EXCEPT !.current_event = e, !.current_event_waiters = 0,
                       !.event_running_priority = p]
      b3 == IF IsSignal(e) THEN event_signal_closure(b2, e)
            ELSE IF e \in Persist THEN event_persist_closure(b2, e)
            ELSE b2
  IN LoopAt(Forget(b3, e), IF IsSignal(e) THEN "calls" ELSE "callback", 0, Max({count, Counted(e)}))

EndProcess(b) == NextRound([b EXCEPT !.event_running_priority = -1])

(* The first queue from p on that is not empty.                            *)
CallFrom(b, p) ==
  LET queues == {q \in Priorities : q >= p /\ b.activequeues[q] # <<>>}
  IN IF queues = {} THEN EndProcess(b) ELSE CallFirst(b, Min(queues), 0)

event_process_active(b) == CallFrom(b, 0)

(* Mutant: goes on with the lower priorities in any case.                  *)
CallbackDone_GoesOn(b0) ==
  LET b == [b0 EXCEPT !.current_event = None, !.current_event_waiters = 0]
      p == b.event_running_priority
  IN IF b.event_break THEN EndProcess(b)
     ELSE IF b.activequeues[p] # <<>> /\ ~b.event_continue
          THEN CallFirst(b, p, loop.count)
     ELSE CallFrom(b, p + 1)

(* The callback has returned, and the lock is taken again.                 *)
CallbackDone(b0) ==
  LET b == [b0 EXCEPT !.current_event = None, !.current_event_waiters = 0]
      p == b.event_running_priority
  IN IF b.event_break THEN EndProcess(b)
     ELSE IF b.activequeues[p] # <<>> /\ ~b.event_continue
          THEN CallFirst(b, p, loop.count)
     ELSE IF loop.count > 0 THEN EndProcess(b)
     ELSE CallFrom(b, p + 1)

Step(r) == base' = r.b /\ loop' = r.l

(* Mutant: nobody is woken.                                                *)
Broadcast_None == thr' = thr

(* The threads that wait for the callback wake up when it is over.         *)
Broadcast ==
  thr' = IF base.current_event_waiters = 0 THEN thr
         ELSE [t \in Threads |-> IF thr[t] = Idle THEN Idle
                                 ELSE [thr[t] EXCEPT !.woken = TRUE]]

StartLoop ==
  /\ loop.pc = "out"
  /\ Step(NextRound([base EXCEPT !.running_loop = TRUE, !.tv_cache = NoCache,
                                 !.event_gotterm = FALSE, !.event_break = FALSE]))
  /\ UNCHANGED <<thr, ready, use>>

(* What epoll_wait finds.  The lock is not held.                           *)
Reported ==
  {fd \in ready : \E e \in All : Fd[e] = fd /\ Has(base, e, "INSERTED")}
    \cup {Fd[e] : e \in {i \in Internal : /\ Has(base, i, "INSERTED")
                                          /\ IF i = Notify THEN base.eventfd > 0
                                             ELSE base.raised > 0}}

WaitReturns ==
  /\ loop.pc = "wait"
  /\ loop.left = 0 \/ Reported # {}
  /\ loop' = [loop EXCEPT !.pc = "reported", !.got = Reported]
  /\ UNCHANGED <<base, thr, ready, use>>

(* A signal of some other kind.                                            *)
WaitInterrupted ==
  /\ loop.pc = "wait"
  /\ loop' = [loop EXCEPT !.pc = "reported", !.got = {}]
  /\ UNCHANGED <<base, thr, ready, use>>

(* Activates events in the order given.                                    *)
ActivateIo(b, order) ==
  InTurn(LAMBDA c, e : event_active_nolock_(c, LoopThread, e, Interest[e], 1), b, order)
TimesOut(b, e) ==
  event_active_nolock_(event_del_nolock_(b, LoopThread, e), LoopThread, e, {"TIMEOUT"}, 1)
ActivateTimeouts(b, order) == InTurn(LAMBDA c, e : TimesOut(c, e), b, order)
ByTimeout(b, order) ==
  \A i, j \in DOMAIN order : i < j => b.timeout[order[i]] <= b.timeout[order[j]]

(* From epoll_wait to the first callback, or to the next epoll_wait.       *)
Dispatch ==
  /\ loop.pc = "reported"
  /\ \E io \in SetToSeqs({e \in All : /\ Fd[e] \in loop.got
                                      /\ Has(base, e, "INSERTED")}) :
       LET b == [ActivateIo(base, io) EXCEPT !.tv_cache = 0]
       IN \E due \in SetToSeqs({e \in Timers(b) : b.timeout[e] <= 0}) :
            /\ ByTimeout(b, due)
            /\ LET b1 == ActivateTimeouts(b, due)
               IN Step(IF N_ACTIVE_CALLBACKS(b1) > 0 THEN event_process_active(b1)
                       ELSE NextRound(b1))
  /\ UNCHANGED <<thr, ready, use>>

InCallback == loop.pc = "callback" /\ base.current_event \in Events

CallbackReturns ==
  /\ InCallback /\ ~IsSignal(base.current_event)
  /\ Broadcast
  /\ Step(CallbackDone(IF base.current_event \in Exits
                       THEN [base EXCEPT !.event_gotterm = TRUE] ELSE base))
  /\ UNCHANGED <<ready, use>>

(* A signal's callback is called once for every time the signal was        *)
(* caught.  The counter is read and written without the lock: an end that  *)
(* event_del puts to the calls between the two is lost.                    *)
SignalCall ==
  /\ loop.pc = "calls"
  /\ IF base.calls = 0
     THEN Broadcast /\ Step(CallbackDone(base))
     ELSE /\ loop' = [loop EXCEPT !.pc = "counted", !.left = base.calls]
          /\ UNCHANGED <<base, thr>>
  /\ UNCHANGED <<ready, use>>

SignalCount ==
  /\ loop.pc = "counted"
  /\ LET e == base.current_event
         n == loop.left - 1
     IN base' = [base EXCEPT !.calls = n, !.ncalls[e] = n,
                             !.pncalls[e] = @ /\ n # 0]
  /\ loop' = [loop EXCEPT !.pc = "callback", !.left = 0]
  /\ UNCHANGED <<thr, ready, use>>

SignalReturns ==
  /\ InCallback /\ IsSignal(base.current_event)
  /\ IF base.event_break
     THEN /\ Broadcast
          /\ Step(CallbackDone([base EXCEPT !.pncalls[base.current_event] =
                                  @ /\ base.calls = 0]))
     ELSE loop' = [loop EXCEPT !.pc = "calls"] /\ UNCHANGED <<base, thr>>
  /\ UNCHANGED <<ready, use>>

(***************************************************************************)
(* The callbacks of the two internal events.                               *)
(***************************************************************************)
(* evthread_notify_drain_eventfd reads the eventfd, then takes the lock to *)
(* say so.                                                                 *)
DrainRead ==
  /\ loop.pc = "callback" /\ base.current_event = Notify
  /\ base' = [base EXCEPT !.eventfd = 0]
  /\ loop' = [loop EXCEPT !.pc = "drained"]
  /\ UNCHANGED <<thr, ready, use>>

DrainClear ==
  /\ loop.pc = "drained"
  /\ base' = [base EXCEPT !.is_notify_pending = FALSE]
  /\ loop' = [loop EXCEPT !.pc = "returning"]
  /\ UNCHANGED <<thr, ready, use>>

(* evsig_cb empties the pipe, then activates what was caught.              *)
EvsigRead ==
  /\ loop.pc = "callback" /\ base.current_event = Evsig
  /\ base' = [base EXCEPT !.raised = 0]
  /\ loop' = [loop EXCEPT !.pc = "caught", !.left = base.raised]
  /\ UNCHANGED <<thr, ready, use>>

evmap_signal_active_(b, n, order) ==
  InTurn(LAMBDA c, e : event_active_nolock_(c, LoopThread, e, Interest[e], n), b, order)

EvsigActivate ==
  /\ loop.pc = "caught"
  /\ \E order \in SetToSeqs({e \in Events : IsSignal(e) /\ Has(base, e, "INSERTED")}) :
       base' = evmap_signal_active_(base, loop.left, order)
  /\ loop' = [loop EXCEPT !.pc = "returning", !.left = 0]
  /\ UNCHANGED <<thr, ready, use>>

InternalReturns ==
  /\ loop.pc = "returning"
  /\ Step(CallbackDone(base))
  /\ UNCHANGED <<thr, ready, use>>

(***************************************************************************)
(* What the program calls: from the callbacks and before event_base_loop   *)
(* in LoopThread, and at any time in another thread.  A call for an event *)
(* whose callback is running may wait for the callback's end.  The number  *)
(* of those who wait is only compared with 0, and kept as 0 or 1.          *)
(***************************************************************************)
CanCall(t) ==
  IF t = LoopThread THEN loop.pc = "out" \/ InCallback ELSE thr[t] = Idle

IsCalled(t, e) == t # LoopThread /\ base.current_event = e

WaitFor(b, t, op, e, tv) ==
  /\ base' = [b EXCEPT !.current_event_waiters = 1]
  /\ thr' = [thr EXCEPT ![t] = [op |-> op, ev |-> e, tv |-> tv, woken |-> FALSE]]

Return(b) == base' = b /\ thr' = thr

event_add(t, e, tv) ==
  /\ CanCall(t)
  /\ IF IsSignal(e) /\ IsCalled(t, e)
     THEN WaitFor(base, t, "add", e, tv)
     ELSE Return(event_add_nolock_(base, t, e, tv, FALSE))
  /\ UNCHANGED <<loop, ready, use>>

event_del(t, e) ==
  /\ CanCall(t)
  /\ IF IsCalled(t, e)
     THEN WaitFor(Forget(event_del_nolock_(base, t, e), e), t, "del", e, None)
     ELSE Return(Forget(event_del_nolock_(base, t, e), e))
  /\ UNCHANGED <<loop, ready, use>>

event_active(t, e, n) ==
  /\ CanCall(t)
  /\ IF ~Has(base, e, "ACTIVE") /\ IsSignal(e) /\ IsCalled(t, e)
     THEN WaitFor(NoteResult(base, e, Interest[e]), t, "active", e, n)
     ELSE Return(event_active_nolock_(base, t, e, Interest[e], n))
  /\ UNCHANGED <<loop, ready, use>>

schedule(t, e) ==
  /\ CanCall(t)
  /\ Return(event_deferred_cb_schedule_(base, t, e))
  /\ UNCHANGED <<loop, ready, use>>

(* event_deferred_cb_cancel_ leaves n_deferreds_queued as it is.           *)
cancel(t, e) ==
  /\ CanCall(t)
  /\ Return(IF Has(base, e, "ACTIVE") THEN event_queue_remove_active(base, e)
            ELSE IF Has(base, e, "LATER") THEN event_queue_remove_active_later(base, e)
            ELSE base)
  /\ UNCHANGED <<loop, ready, use>>

event_base_loopbreak(t) ==
  /\ CanCall(t)
  /\ Return(evthread_notify_base([base EXCEPT !.event_break = TRUE], t))
  /\ UNCHANGED <<loop, ready, use>>

event_base_loopcontinue(t) ==
  /\ CanCall(t)
  /\ Return(evthread_notify_base([base EXCEPT !.event_continue = TRUE], t))
  /\ UNCHANGED <<loop, ready, use>>

(* A thread that waited goes on.  It does not look whether the callback is *)
(* really over.                                                            *)
Resume(t) ==
  /\ thr[t] # Idle /\ thr[t].woken
  /\ LET w == thr[t]
     IN base' = CASE w.op = "add" -> event_add_nolock_(base, t, w.ev, w.tv, FALSE)
                  [] w.op = "active" -> Activate(base, t, w.ev, w.tv)
                  [] OTHER -> base
  /\ thr' = [thr EXCEPT ![t] = Idle]
  /\ UNCHANGED <<loop, ready, use>>

SpuriousWakeup(t) ==
  /\ thr[t] # Idle /\ ~thr[t].woken
  /\ thr' = [thr EXCEPT ![t].woken = TRUE]
  /\ UNCHANGED <<base, loop, ready, use>>

Calls(t) ==
  \/ \E e \in use : \E tv \in Delays[e] : event_add(t, e, tv)
  \/ \E e \in use : Interest[e] # {} /\ event_add(t, e, None)
  \/ \E e \in use \ Deferred : event_del(t, e)
  \/ \E e \in use \cap Manual : event_active(t, e, 1)
  \/ \E e \in use \cap Deferred : schedule(t, e) \/ cancel(t, e)
  \/ event_base_loopbreak(t)
  \/ event_base_loopcontinue(t)

(***************************************************************************)
(* The rest of the world: descriptors, signals and time.                   *)
(***************************************************************************)
BecomesReady(fd) ==
  /\ fd \notin ready /\ \E e \in use : Fd[e] = fd
  /\ ready' = ready \cup {fd}
  /\ UNCHANGED <<base, loop, thr, use>>

(* A callback reads its descriptor empty.                                  *)
Consume ==
  /\ InCallback /\ Fd[base.current_event] \in ready
  /\ ready' = ready \ {Fd[base.current_event]}
  /\ UNCHANGED <<base, loop, thr, use>>

(* A signal whose handler is installed: evsig_handler writes a byte.       *)
Raise ==
  /\ \E e \in Events : IsSignal(e) /\ Has(base, e, "INSERTED")
  /\ base.raised < MaxRaised
  /\ base' = [base EXCEPT !.raised = @ + 1]
  /\ UNCHANGED <<loop, thr, ready, use>>

(* The times that still matter: also that of a persistent event which is   *)
(* active since it timed out.                                              *)
Running(e) ==
  \/ Has(base, e, "TIMEOUT")
  \/ e \in Persist /\ Has(base, e, "ACTIVE") /\ "TIMEOUT" \in base.res[e]

Tick ==
  /\ \A e \in use : Running(e) => base.timeout[e] > -MaxLate
  /\ base.tv_cache < MaxAge
  /\ \E e \in use : Running(e)
  /\ base' = [base EXCEPT
       !.timeout = [e \in All |-> IF Running(e) THEN base.timeout[e] - 1 ELSE base.timeout[e]],
       !.tv_cache = IF @ = NoCache THEN @ ELSE @ + 1]
  /\ loop' = [loop EXCEPT !.left = IF loop.pc = "wait" /\ @ > 0 THEN @ - 1 ELSE @]
  /\ UNCHANGED <<thr, ready, use>>

Init ==
  /\ base = [flags |-> [e \in All |-> IF e = Notify THEN {"INSERTED"} ELSE {}],
             res |-> [e \in All |-> {}],
             timeout |-> [e \in All |-> 0], io_timeout |-> [e \in All |-> 0],
             ncalls |-> [e \in All |-> 0], pncalls |-> [e \in All |-> FALSE],
             calls |-> 0,
             activequeues |-> [p \in Priorities |-> <<>>],
             active_later_queue |-> <<>>,
             event_count |-> 0, event_count_active |-> 0, n_deferreds_queued |-> 0,
             running_loop |-> FALSE, event_break |-> FALSE,
             event_gotterm |-> FALSE, event_continue |-> FALSE,
             event_running_priority |-> -1,
             current_event |-> None, current_event_waiters |-> 0,
             is_notify_pending |-> FALSE, eventfd |-> 0, raised |-> 0,
             tv_cache |-> NoCache]
  /\ loop = [pc |-> "out", left |-> 0, count |-> 0, got |-> {}]
  /\ thr = [t \in Threads |-> Idle]
  /\ ready = {}
  /\ use \in Scenarios

LoopNext ==
  \/ WaitReturns \/ Dispatch
  \/ CallbackReturns \/ SignalCall \/ SignalCount \/ SignalReturns
  \/ DrainRead \/ DrainClear \/ EvsigRead \/ EvsigActivate \/ InternalReturns

Next ==
  \/ StartLoop \/ LoopNext \/ WaitInterrupted
  \/ \E t \in Threads \cup {LoopThread} : Calls(t)
  \/ \E t \in Threads : Resume(t) \/ SpuriousWakeup(t)
  \/ \E fd \in Fds : BecomesReady(fd)
  \/ Consume \/ Raise \/ Tick

(* The loop's thread and the woken threads are scheduled, callbacks come   *)
(* back, and time goes on.  LoopReady is ENABLED LoopNext.                 *)
LoopReady ==
  /\ loop.pc # "out"
  /\ loop.pc = "wait" => loop.left = 0 \/ Reported # {}
Fairness ==
  /\ []<>~LoopReady \/ []<><<LoopNext>>_vars
  /\ WF_vars(Tick)
  /\ \A t \in Threads : []<>~thr[t].woken \/ []<><<Resume(t)>>_vars

Spec == Init /\ [][Next]_vars /\ Fairness

----------------------------------------------------------------------------
(***************************************************************************)
(* Properties.                                                             *)
(***************************************************************************)
(* The types; the loop calls an event exactly while current_event names    *)
(* it, and the base knows that it runs exactly until it is out.            *)
Base == [flags : [All -> SUBSET Flags],
         res : [All -> SUBSET Results],
         timeout : [All -> Int], io_timeout : [All -> Nat],
         ncalls : [All -> Nat], pncalls : [All -> BOOLEAN],
         calls : Nat,
         activequeues : [Priorities -> Seq(All)],
         active_later_queue : Seq(All),
         event_count : Int, event_count_active : Int, n_deferreds_queued : Nat,
         running_loop : BOOLEAN, event_break : BOOLEAN,
         event_gotterm : BOOLEAN, event_continue : BOOLEAN,
         event_running_priority : Priorities \cup {-1},
         current_event : All \cup {None}, current_event_waiters : {0, 1},
         is_notify_pending : BOOLEAN, eventfd : {0, 1}, raised : 0 .. MaxRaised,
         tv_cache : NoCache .. MaxAge]
Calling == {"callback", "calls", "counted", "drained", "caught", "returning"}
Call == [op : {"add", "del"}, ev : Events, tv : Nat \cup {None}, woken : BOOLEAN]
        \cup [op : {"active"}, ev : Events, tv : Nat, woken : BOOLEAN]
TypeOK ==
  /\ base \in Base
  /\ loop \in [pc : {"out", "wait", "reported"} \cup Calling,
              left : Nat \cup {Forever}, count : {0, 1}, got : SUBSET Fds]
  /\ thr \in [Threads -> Call \cup {Idle}]
  /\ ready \subseteq Fds \ {Fd[Notify]} /\ use \in SUBSET Events
  /\ base.current_event # None <=> loop.pc \in Calling
  /\ base.event_running_priority # -1 <=> loop.pc \in Calling
  /\ base.running_loop <=> loop.pc # "out"
  /\ loop.pc \in {"calls", "counted"} => IsSignal(base.current_event)
  /\ loop.pc = "counted" => loop.left > 0
  /\ loop.pc = "caught" => loop.left # Forever

(* event_base_assert_ok_nolock_: an event is in a queue exactly when its   *)
(* flag says so, once and with its priority, and the counters of the base  *)
(* are those of the flags.                                                 *)
Lists(queue, events) == IsInjective(queue) /\ Range(queue) = events
event_base_assert_ok_nolock_(b) ==
  /\ \A e \in All : ~({"ACTIVE", "LATER"} \subseteq b.flags[e])
  /\ \A p \in Priorities :
       Lists(b.activequeues[p], {e \in All : Has(b, e, "ACTIVE") /\ Pri[e] = p})
  /\ Lists(b.active_later_queue, {e \in All : Has(b, e, "LATER")})
  /\ b.event_count = Cardinality({x \in Events \X Flags : x[2] \in b.flags[x[1]]})
  /\ b.event_count_active =
       Cardinality({e \in All : b.flags[e] \cap {"ACTIVE", "LATER"} # {}})

(* While the loop sleeps in epoll_wait and nothing is written to its       *)
(* eventfd, it has nothing to do: no event is active, nobody asked it to   *)
(* end, and it wakes up for the earliest timer - late at most by what the  *)
(* callbacks before it took, since the time it reckons from is theirs.     *)
NoLostWakeup ==
  loop.pc = "wait" /\ base.eventfd = 0 =>
    /\ N_ACTIVE_CALLBACKS(base) > 0 => loop.left = 0
    /\ ~base.event_break
    /\ \A e \in Timers(base) :
         loop.left # Forever /\ loop.left <= Max({0, base.timeout[e]}) + MaxAge

(* The flag that saves a second write to the eventfd agrees with it, for   *)
(* its callback is called only after a write and then once.                *)
NotifyAgrees ==
  /\ base.is_notify_pending <=> (base.eventfd = 1 \/ loop.pc = "drained")
  /\ \/ loop.pc = "reported" /\ Fd[Notify] \in loop.got
     \/ Has(base, Notify, "ACTIVE")
     \/ loop.pc = "callback" /\ base.current_event = Notify
     => base.eventfd = 1
  /\ loop.pc = "drained" => base.eventfd = 0 /\ base.current_event = Notify
  /\ base.current_event = Notify => ~Has(base, Notify, "ACTIVE")
  /\ \A e \in Internal : base.flags[e] \subseteq {"INSERTED", "ACTIVE"}

(* Queues, flags, counters and the eventfd agree.  This is inductive.      *)
BaseSound == TypeOK /\ event_base_assert_ok_nolock_(base) /\ NotifyAgrees

(* event.h:1447: active events of a higher priority are always processed   *)
(* first.  But after event_base_loopcontinue the loop goes on to a lower   *)
(* one, when only internal events were called since the round began.  And  *)
(* nobody sees that the running priority is exceeded when a callback is    *)
(* scheduled, or when event_active waited for a signal's callback: it has  *)
(* compared the priorities before.                                         *)
Unnoticed == Deferred \cup {e \in Manual : IsSignal(e)}
HigherFirst ==
  [][/\ base'.current_event \in Events
     /\ base'.current_event # base.current_event
     /\ ~(base.event_continue /\ loop.count = 0)
     => \A p \in Priorities : p < Pri[base'.current_event] =>
          Range(base'.activequeues[p]) \subseteq Unnoticed]_vars

(* event.h:1214: an event that was added with a timeout is scheduled when  *)
(* its condition occurs or the time has elapsed.  So its descriptor is     *)
(* watched as long as its timer runs.                                      *)
AddedIsWatched ==
  \A e \in Timers(base) : Interest[e] # {} => Has(base, e, "INSERTED")

(* libevent keeps what a program counts on.  A persistent event may be gone*)
(* when it is called if it is a signal, deleted while event_active waits,  *)
(* if it is the program's to activate, since event_active needs not find it*)
(* added, or if it may be given a timeout of zero: timeout_process deletes *)
(* it when it times out, and event_persist_closure does not add it again.  *)
Lasting == {e \in Persist \ Manual : ~IsSignal(e) /\ 0 \notin Delays[e]}
Life == INSTANCE EventLife WITH
  Waiting <- {e \in Events : Interest[e] # {} \/ Delays[e] # {}},
  Persist <- Lasting, OneShot <- Events \ Persist,
  Manual <- Manual \cup Deferred,
  pending <- {e \in Events : base.flags[e] # {}},
  active <- {e \in Events : base.flags[e] \cap {"ACTIVE", "LATER"} # {}},
  running <- IF base.current_event \in Events THEN base.current_event ELSE None
ImplementsEventLife == Life!Spec

(* event_base_loopbreak ends the loop, from whatever thread it is called,  *)
(* or the loop was started anew, which forgets it.                         *)
BreakEndsLoop == base.event_break ~> loop.pc = "out" \/ ~base.event_break

(* An active event of the highest priority is called, or deleted, or the   *)
(* loop ends before its turn.                                              *)
ActiveIsCalled ==
  \A e \in Events : Pri[e] = 0 =>
    (Has(base, e, "ACTIVE") ~> (~Has(base, e, "ACTIVE") \/ loop.pc = "out"))

(* event_del, event_add and event_active that wait for the callback of     *)
(* their event in another thread come back.                                *)
DelReturns == \A t \in Threads : thr[t] # Idle ~> thr[t] = Idle

(* Nobody who asks the loop to end or waits for its callbacks is forgotten.*)
CallersReturn == BreakEndsLoop /\ DelReturns

(* Callbacks that schedule callbacks, deferred ones too, do not keep the   *)
(* loop from looking at its descriptors - where the program does not       *)
(* activate events itself again and again.                                 *)
PollsAgain ==
  use \cap Manual = {} => []<>(loop.pc \in {"wait", "out"})

--------------------------------------------------------------------------------
(* The events of the small programs that TLC runs: "rd", a persistent READ *)
(* event, and "wr", a WRITE event for one call; "tm", the timer of         *)
(* event_base_loopexit; "hi" and "lo", which the program activates; "sg",  *)
(* a persistent signal event; "df", a deferred callback; and "zr", a       *)
(* persistent READ event that may be given a timeout of zero.              *)
SmallInterest == [e \in All |-> CASE e \in {"rd", "zr", Notify, Evsig} -> {"READ"}
                                   [] e = "wr" -> {"WRITE"}
                                   [] e = "sg" -> {"SIGNAL"}
                                   [] OTHER -> {}]
SmallFd == [e \in All |-> IF e \in {"rd", "wr", "zr", Notify, Evsig} THEN e ELSE None]
SmallPri == [e \in All |-> IF e = "lo" THEN 1 ELSE 0]
SmallDelays == [e \in Events |-> CASE e \in {"rd", "wr", "tm"} -> {1}
                                     [] e = "zr" -> {0, 1}
                                     [] OTHER -> {}]
SixPrograms == {{"rd", "tm"}, {"wr", "lo"}, {"hi", "lo"}, {"sg"}, {"df", "wr"}, {"zr"}}
TwoTimers == {{"rd", "tm"}}
=============================================================================
