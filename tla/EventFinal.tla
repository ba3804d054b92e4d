------------------------------ MODULE EventFinal -------------------------------
(***************************************************************************)
(* The end of events in libevent 2.1.12 (event.c): deleting and freeing    *)
(* them while another thread runs their callbacks, finalizers, events that *)
(* are scheduled once, the end of the base, and the map that debug mode    *)
(* keeps of all events.                                                    *)
(*                                                                         *)
(* Two threads: "loop" runs the loop and calls from its callbacks, "other" *)
(* calls at any time; a call under the base's lock is one step.  Users do  *)
(* not touch what they have given up, and free the base when they are      *)
(* done.  Left out: signals and what makes an event due.                   *)
(***************************************************************************)
EXTENDS Integers, SequencesExt, FiniteSetsExt

CONSTANTS Singles,    \* events with finalizers of their own
          Group,      \* events and one deferred callback that are finalized together
          Deferred,   \* that callback
          Onces,      \* the memory of event_base_once's events
          Persistent  \* events with EV_PERSIST

VARIABLES obj,    \* each event or callback
          queue,  \* activequeues, one priority
          later,  \* active_later_queue
          run,    \* the loop: its phase and what it calls
          other,  \* what the other thread waits to delete and to free
          base    \* "ok" or "freed", once_events, who leaked th_base_lock

finalVars == <<obj, queue, later, run, other, base>>

Nothing == "none"
Objects == Singles \cup Group \cup Onces
IsEvent(o) == o # Deferred
Fresh(o) == [pending |-> FALSE, finalizing |-> FALSE, closure |-> "call", live |-> o \notin Onces,
             debug |-> IF o \in Onces \/ ~IsEvent(o) THEN "absent" ELSE "setup",
             mine |-> o \notin Onces, finalized |-> 0, aborted |-> FALSE]

Init ==
  /\ obj = [o \in Objects |-> Fresh(o)]
  /\ queue = <<>> /\ later = <<>>
  /\ run = [pc |-> "idle", cur |-> Nothing] /\ other = Nothing
  /\ base = [state |-> "ok", once |-> {}, leaked |-> Nothing]

\* What the calls below work on.
Here == [obj |-> obj, queue |-> queue, later |-> later]
Become(s) == obj' = s.obj /\ queue' = s.queue /\ later' = s.later

-------------------------------------------------------------------------------
(***************************************************************************)
(* Debug mode.                                                             *)
(***************************************************************************)
\* An event that is not in the map ends the process.
Note(s, o, debug) ==
  IF ~IsEvent(o) THEN s
  ELSE IF s.obj[o].debug = "absent" THEN [s EXCEPT !.obj[o].aborted = TRUE]
  ELSE [s EXCEPT !.obj[o].debug = debug]
event_debug_note_add_(s, o) == Note(s, o, "added")
event_debug_note_del_(s, o) == Note(s, o, "setup")
event_debug_note_setup_(s, o) == [s EXCEPT !.obj[o].debug = "setup"]
event_debug_note_teardown_(s, o) == [s EXCEPT !.obj[o].debug = "absent"]
event_debug_assert_is_setup_(s, o) == Note(s, o, s.obj[o].debug)
event_debug_assert_not_added_(s, o) ==
  [s EXCEPT !.obj[o].aborted = @ \/ s.obj[o].debug = "added"]

-------------------------------------------------------------------------------
(***************************************************************************)
(* Adding, activating, deleting.                                           *)
(***************************************************************************)
event_add_nolock_(s, o) ==
  LET set == event_debug_assert_is_setup_(s, o)
  IN  IF s.obj[o].finalizing THEN set
      ELSE event_debug_note_add_([set EXCEPT !.obj[o].pending = TRUE], o)

event_callback_activate_nolock_(s, o) ==
  IF s.obj[o].finalizing \/ o \in ToSet(s.queue) THEN s
  ELSE [s EXCEPT !.later = Remove(@, o), !.queue = Append(@, o)]

event_callback_activate_later_nolock_(s, o) ==
  IF o \in ToSet(s.queue \o s.later) THEN s ELSE [s EXCEPT !.later = Append(@, o)]

event_del_nolock_(s, o, even_if_finalizing) ==
  IF s.obj[o].finalizing /\ ~even_if_finalizing THEN s
  ELSE event_debug_note_del_(
         [s EXCEPT !.obj[o].pending = FALSE, !.queue = Remove(@, o), !.later = Remove(@, o)], o)

event_callback_cancel_nolock_(s, o, even_if_finalizing) ==
  IF IsEvent(o) THEN event_del_nolock_(s, o, even_if_finalizing)
  ELSE IF s.obj[o].finalizing /\ ~even_if_finalizing THEN s
  ELSE [s EXCEPT !.queue = Remove(@, o), !.later = Remove(@, o)]

\* mm_free: nothing of it is in use any more.
mm_free(s, o) == [s EXCEPT !.obj[o].live = FALSE]
GiveUp(s, os) == [s EXCEPT !.obj = [o \in Objects |-> [@[o] EXCEPT !.mine = @ /\ o \notin os]]]

Free(s, o) == mm_free(event_debug_note_teardown_(s, o), o)

-------------------------------------------------------------------------------
(***************************************************************************)
(* Finalizers.                                                             *)
(***************************************************************************)
Finalizing(s, o, closure) ==
  LET c == [s EXCEPT !.obj[o].closure = closure]
  IN  [event_callback_activate_nolock_(c, o) EXCEPT !.obj[o].finalizing = TRUE]

event_finalize_nolock_(s, o, closure) == Finalizing(event_del_nolock_(s, o, FALSE), o, closure)

event_callback_finalize_nolock_(s, o) ==
  Finalizing(event_callback_cancel_nolock_(s, o, FALSE), o, "cb_finalize")

\* The one whose callback runs gets the finalizer, or else the first.
FirstOf(os) == IF os \ {Deferred} = {} THEN Deferred ELSE CHOOSE o \in os \ {Deferred} : TRUE

event_callback_finalize_many_(s, os) ==
  LET running == os \cap {run.cur}
      Cancel(t, o) == event_callback_cancel_nolock_(t, o, FALSE)
      cancelled == FoldLeft(Cancel, s, SetToSeq(os \ running))
  IN  event_callback_finalize_nolock_(cancelled, FirstOf(IF running = {} THEN os ELSE running))

-------------------------------------------------------------------------------
(***************************************************************************)
(* Callers.  The loop's thread calls from callbacks or between turns, not  *)
(* from finalizers; the other one when it does not wait.                   *)
(***************************************************************************)
LoopCalls == run.pc \in {"idle", "callback"} /\ base.leaked # "other"
OtherCalls == other = Nothing /\ base.leaked # "loop"
Calling == base.state = "ok" /\ (LoopCalls \/ OtherCalls)
Do(s) == Calling /\ Become(s) /\ UNCHANGED <<run, other, base>>

event_add(o) == obj[o].mine /\ IsEvent(o) /\ Do(event_add_nolock_(Here, o))
event_active(o) ==
  /\ obj[o].mine
  /\ \/ Do(event_callback_activate_nolock_(Here, o))
     \/ Do(event_callback_activate_later_nolock_(Here, o))
event_finalize(o) ==
  /\ obj[o].mine /\ o \in Singles
  /\ \E closure \in {"finalize", "finalize_free"} :
       Do(GiveUp(event_finalize_nolock_(Here, o, closure), {o}))
FinalizeGroup ==
  /\ \A o \in Group : obj[o].mine
  /\ Group # {} /\ Do(GiveUp(event_callback_finalize_many_(Here, Group), Group))

\* The other thread waits for the end of the callback before it frees.
event_free(o) ==
  /\ obj[o].mine /\ o \in Singles /\ base.state = "ok"
  /\ LET deleted == GiveUp(event_del_nolock_(Here, o, FALSE), {o})
     IN  \/ LoopCalls /\ Become(Free(deleted, o)) /\ UNCHANGED other
         \/ OtherCalls /\ run.cur # o /\ Become(Free(deleted, o)) /\ UNCHANGED other
         \/ OtherCalls /\ run.cur = o /\ Become(deleted) /\ other' = o
  /\ UNCHANGED <<run, base>>
FreeAfterWait ==
  /\ other # Nothing /\ run.cur # other /\ base.leaked # "loop"
  /\ Become(Free(Here, other)) /\ other' = Nothing
  /\ UNCHANGED <<run, base>>

\* An event that cannot be added is freed, and the lock is not released.
event_base_once(o, thread) ==
  /\ base.state = "ok" /\ ~obj[o].live
  /\ IF thread = "loop" THEN LoopCalls ELSE OtherCalls
  /\ LET new == event_debug_note_setup_([Here EXCEPT !.obj[o] = [Fresh(o) EXCEPT !.live = TRUE]], o)
     IN  \/ Become(event_callback_activate_nolock_(new, o)) /\ base' = [base EXCEPT !.once = @ \cup {o}]
         \/ Become(event_add_nolock_(new, o)) /\ base' = [base EXCEPT !.once = @ \cup {o}]
         \/ Become(mm_free(new, o)) /\ base' = [base EXCEPT !.leaked = thread]
  /\ UNCHANGED <<run, other>>

-------------------------------------------------------------------------------
(***************************************************************************)
(* The loop.                                                               *)
(***************************************************************************)
Fire(o) ==
  /\ run.pc = "idle" /\ base.state = "ok" /\ base.leaked # "other" /\ obj[o].pending
  /\ Become(event_callback_activate_nolock_(Here, o)) /\ UNCHANGED <<run, other, base>>

event_queue_make_later_events_active ==
  /\ run.pc = "idle" /\ base.state = "ok" /\ base.leaked # "other" /\ later # <<>>
  /\ queue' = queue \o later /\ later' = <<>>
  /\ UNCHANGED <<obj, run, other, base>>

Take(s, o) ==
  IF IsEvent(o) /\ o \notin Persistent /\ ~s.obj[o].finalizing THEN event_del_nolock_(s, o, FALSE)
  ELSE [s EXCEPT !.queue = Remove(@, o)]

\* The start of a callback or a finalizer, and its end.
event_process_active_single_queue ==
  /\ run.pc = "idle" /\ base.state = "ok" /\ base.leaked # "other" /\ queue # <<>>
  /\ LET o == Head(queue)
         s == Take(Here, o)
     IN  IF obj[o].closure = "call" THEN Become(s) /\ run' = [pc |-> "callback", cur |-> o]
         ELSE /\ Become(IF obj[o].closure = "cb_finalize" THEN s ELSE event_debug_note_teardown_(s, o))
              /\ run' = [pc |-> o, cur |-> Nothing]
  /\ UNCHANGED <<other, base>>

event_once_cb ==
  LET s == event_debug_assert_not_added_(Here, run.cur)
  IN  Become(Free(s, run.cur)) /\ base' = [base EXCEPT !.once = @ \ {run.cur}]

Return ==
  /\ run.pc = "callback" /\ base.leaked # "other"
  /\ IF run.cur \in Onces THEN event_once_cb ELSE UNCHANGED <<obj, queue, later, base>>
  /\ run' = [pc |-> "idle", cur |-> Nothing] /\ UNCHANGED other

Finalized(s, o) ==
  LET done == [s EXCEPT !.obj[o].finalized = @ + 1]
  IN  IF s.obj[o].closure = "finalize_free" THEN mm_free(done, o) ELSE done
FinalizerReturns ==
  /\ run.pc \in Objects /\ base.leaked # "other"
  /\ Become(Finalized(Here, run.pc))
  /\ run' = [pc |-> "idle", cur |-> Nothing] /\ UNCHANGED <<other, base>>

\* event_base_free and event_base_free_nofinalize.
event_base_cancel_single_callback_(s, o, run_finalizers) ==
  LET gone == event_callback_cancel_nolock_(s, o, TRUE)
  IN  IF run_finalizers /\ s.obj[o].finalizing THEN Finalized(gone, o) ELSE gone

event_base_free_(run_finalizers) ==
  /\ base.state = "ok" /\ run.pc = "idle" /\ other = Nothing /\ base.leaked = Nothing
  /\ LET Del(s, o) == event_del_nolock_(s, o, FALSE)
         Cancel(s, o) == event_base_cancel_single_callback_(s, o, run_finalizers)
         deleted == FoldLeft(Del, Here, SetToSeq({o \in Objects : obj[o].pending}))
         empty == FoldLeft(Cancel, deleted, deleted.queue \o deleted.later)
     IN  Become(FoldLeft(mm_free, empty, SetToSeq(base.once)))
  /\ base' = [base EXCEPT !.state = IF run_finalizers THEN "freed" ELSE "freed raw", !.once = {}]
  /\ UNCHANGED <<run, other>>

Next ==
  \/ \E o \in Objects : event_add(o) \/ event_active(o) \/ event_finalize(o) \/ event_free(o) \/ Fire(o)
  \/ \E o \in Onces, thread \in {"loop", "other"} : event_base_once(o, thread)
  \/ FinalizeGroup \/ FreeAfterWait
  \/ event_queue_make_later_events_active \/ event_process_active_single_queue
  \/ Return \/ FinalizerReturns
  \/ \E run_finalizers \in BOOLEAN : event_base_free_(run_finalizers)

Spec == Init /\ [][Next]_finalVars

-------------------------------------------------------------------------------
Queued == ToSet(queue \o later)

(* Nothing that is freed is queued, pending, running or waited for, and    *)
(* debug mode never ends a process that keeps to the rules.                *)
NothingFreedInUse ==
  \A o \in Objects :
    /\ ~obj[o].live => o \notin Queued /\ ~obj[o].pending /\ other # o
    /\ ~obj[o].live /\ run.cur = o => run.pc = "callback" /\ ~obj[o].mine
    /\ ~obj[o].aborted
    /\ obj[o].pending => obj[o].debug = "added"

(* When a finalizer starts no callback of its events runs or can run any   *)
(* more, and none runs a second time; the end of the base leaves none out. *)
FinalizersLast ==
  /\ \A o \in Objects :
       LET all == IF o \in Group THEN Group ELSE {o}
       IN  run.pc = o \/ obj[o].finalized > 0 =>
             \A p \in all : p \notin Queued /\ ~obj[p].pending /\ run.cur # p
  /\ \A o \in Objects : obj[o].finalized <= 1
  /\ base.state # "ok" => Queued = {}
  /\ base.state = "freed" => \A o \in Objects : obj[o].finalizing => obj[o].finalized = 1

FinalSound == NothingFreedInUse /\ FinalizersLast
================================================================================
