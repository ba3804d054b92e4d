--------------------------------- MODULE EvMap ---------------------------------
(***************************************************************************)
(* The map from descriptors to events of libevent 2.1.12 (evmap.c) on top  *)
(* of each backend: events are added and deleted by the loop's             *)
(* thread and, while it sleeps, by others; descriptors are closed and      *)
(* opened again; the process forks.                                        *)
(*                                                                         *)
(* Users add events to open descriptors only and open a number again when  *)
(* no event of the old file is left; they delete events before or after    *)
(* the descriptor is closed, and may hold a duplicate of it.               *)
(*                                                                         *)
(* The backends themselves come first: epoll.c with the changelist of      *)
(* evmap.c and without it, poll.c, select.c, devpoll.c, evport.c, kqueue.c *)
(* and win32select.c, as operators on what a backend and its kernel keep.  *)
(* A descriptor is asked for kinds of events: R(ead), W(rite), C(losed).   *)
(* Left out: edge triggering, timeouts, memory that is short, and errors   *)
(* of a kernel other than those for a descriptor that was closed.          *)
(***************************************************************************)
EXTENDS Integers, SequencesExt, FiniteSetsExt

CONSTANTS Kernels,  \* the kinds of backends
          Events,   \* records with fd, kinds and persist
          Fds,      \* numbers from 1 on
          QueueMax  \* the changes /dev/poll takes at once

Kinds == {"R", "W", "C"}
Unset == [f \in Fds |-> 0]
Nothing == [f \in Fds |-> {}]

\* What each of them keeps; those that have no use for a field leave it alone.
epoll_init == [kernel |-> [f \in Fds |-> [on |-> FALSE, watch |-> {}]]]
event_changelist_init_ == [changes |-> <<>>]       \* /dev/poll has one of its own
poll_init == [set |-> <<>>, copy |-> <<>>]         \* event_set and event_set_copy
select_init == [fdset |-> [R |-> {}, W |-> {}], fds |-> 0]
evport_init == [what |-> Nothing, pending |-> <<>>, npending |-> 0]
win32_init == [arr |-> [R |-> <<>>, W |-> <<>>], pos |-> [R |-> Unset, W |-> Unset]]

\* With idxplus1 or pending_idx_plus_1, and the array that poll was given.
Fresh(kind) ==
  [kind |-> kind, idx |-> Unset, given |-> <<>>, aborted |-> FALSE]
    @@ epoll_init @@ event_changelist_init_ @@ poll_init @@ select_init @@ evport_init @@ win32_init

Watch(d, f, kinds) == [d EXCEPT !.kernel[f] = [on |-> TRUE, watch |-> kinds]]
Unwatch(d, f) == [d EXCEPT !.kernel[f] = [on |-> FALSE, watch |-> {}]]

-------------------------------------------------------------------------------
(***************************************************************************)
(* epoll.  A change says for each kind whether it is added or deleted, and *)
(* what was asked for before.                                              *)
(***************************************************************************)
\* The table's 512 entries, by its rule: what remains of the kinds in the end.
Remaining(c) ==
  {k \in Kinds : c.chg[k] = "add" \/ (k \in c.old /\ c.chg[k] # "del")}
epoll_op_table(c) ==
  LET changed(what) == {k \in Kinds : c.chg[k] = what}
      Op(op, events) == [op |-> op, events |-> events]
  IN  IF changed("add") # {} THEN Op(IF c.old # {} THEN "MOD" ELSE "ADD", Remaining(c))
      ELSE IF changed("del") = {} THEN Op("none", {})
      ELSE IF Remaining(c) # {} THEN Op("MOD", Remaining(c)) ELSE Op("DEL", changed("del"))

\* The kernel forgets a file that is closed, unless a duplicate keeps it open.
epoll_ctl(d, open, op, f, events) ==
  LET errno == IF f \notin open THEN "EBADF"
               ELSE IF op = "ADD" /\ d.kernel[f].on THEN "EEXIST"
               ELSE IF op # "ADD" /\ ~d.kernel[f].on THEN "ENOENT" ELSE "0"
  IN  [errno |-> errno,
       d |-> IF errno # "0" THEN d ELSE IF op = "DEL" THEN Unwatch(d, f) ELSE Watch(d, f, events)]

Result(ok, d) == [ok |-> ok, d |-> d]

(* Mutant: a descriptor opened again is not added.                         *)
epoll_apply_one_change_NoRetry(d, open, c) ==
  LET t == epoll_op_table(c)
      r == epoll_ctl(d, open, t.op, c.fd, t.events)
  IN  IF t.op = "none" THEN Result(TRUE, d) ELSE Result(r.errno = "0", r.d)

epoll_apply_one_change(d, open, c) ==
  LET t == epoll_op_table(c)
      r == epoll_ctl(d, open, t.op, c.fd, t.events)
      again(op) == epoll_ctl(d, open, op, c.fd, t.events)
  IN  IF t.op = "none" THEN Result(TRUE, d)
      ELSE IF t.op = "MOD" /\ r.errno = "ENOENT" THEN Result(again("ADD").errno = "0", again("ADD").d)
      ELSE IF t.op = "ADD" /\ r.errno = "EEXIST" THEN Result(again("MOD").errno = "0", again("MOD").d)
      ELSE Result(r.errno = "0" \/ t.op = "DEL", r.d)

NoChange(f, old) == [fd |-> f, old |-> old, chg |-> [k \in Kinds |-> "none"]]
Changed(c, events, what) ==
  [c EXCEPT !.chg = [k \in Kinds |-> IF k \in events THEN what[k] ELSE @[k]]]
Each(what) == [k \in Kinds |-> what]

epoll_nochangelist_add(d, open, f, old, events) ==
  epoll_apply_one_change(d, open, Changed(NoChange(f, old), events, Each("add")))
epoll_nochangelist_del(d, open, f, old, events) ==
  epoll_apply_one_change(d, open, Changed(NoChange(f, old), events, Each("del")))

(***************************************************************************)
(* The changelist: at most one change for a descriptor, which keeps the    *)
(* change's place from 1 on.                                               *)
(***************************************************************************)
event_changelist_get_or_construct(d, f, old) ==
  IF d.idx[f] # 0 THEN d
  ELSE [d EXCEPT !.changes = Append(@, NoChange(f, old)), !.idx[f] = Len(d.changes) + 1]

event_changelist_add_(d, f, old, events) ==
  LET c == event_changelist_get_or_construct(d, f, old)
  IN  [c EXCEPT !.changes[c.idx[f]] = Changed(@, events, Each("add"))]

\* What the kernel was not asked for before is not deleted either.
event_changelist_del_(d, f, old, events) ==
  LET c == event_changelist_get_or_construct(d, f, old)
      was == c.changes[c.idx[f]].old
  IN  [c EXCEPT !.changes[c.idx[f]] =
         Changed(@, events, [k \in Kinds |-> IF k \in was THEN "del" ELSE "none"])]

event_changelist_remove_all_(d) ==
  [d EXCEPT !.changes = <<>>,
            !.idx = [f \in Fds |-> IF \E c \in ToSet(d.changes) : c.fd = f THEN 0 ELSE @[f]]]

epoll_apply_changes(d, open) ==
  FoldLeft(LAMBDA e, c : epoll_apply_one_change(e, open, c).d, d, d.changes)

-------------------------------------------------------------------------------
(***************************************************************************)
(* poll: an array without gaps, whose entries' places the descriptors know.*)
(***************************************************************************)
poll_add(d, f, events) ==
  IF events = {} THEN d
  ELSE IF d.idx[f] # 0 THEN [d EXCEPT !.set[d.idx[f]].watch = @ \cup events]
  ELSE [d EXCEPT !.set = Append(@, [fd |-> f, watch |-> events]), !.idx[f] = Len(d.set) + 1]

poll_del(d, f, events) ==
  LET i == d.idx[f]
      left == [d EXCEPT !.set[i].watch = @ \ events]
      moved == [left.set EXCEPT ![i] = left.set[Len(left.set)]]
  IN  IF events = {} \/ i = 0 THEN d
      ELSE IF left.set[i].watch # {} THEN left
      ELSE [left EXCEPT !.set = Front(moved),
                        !.idx = [g \in Fds |-> IF g = f THEN 0
                                               ELSE IF @[g] = Len(left.set) THEN i ELSE @[g]]]

\* Other threads may change event_set while poll sleeps.
poll_dispatch(d) == [d EXCEPT !.copy = d.set, !.given = d.set]

(***************************************************************************)
(* select: two sets and the highest descriptor.                            *)
(***************************************************************************)
select_add(d, f, events) ==
  [d EXCEPT !.fds = IF @ < f THEN f ELSE @,
            !.fdset = [k \in {"R", "W"} |-> IF k \in events THEN @[k] \cup {f} ELSE @[k]]]

select_del(d, f, events) ==
  IF d.fds < f THEN d
  ELSE [d EXCEPT !.fdset = [k \in {"R", "W"} |-> IF k \in events THEN @[k] \ {f} ELSE @[k]]]

select_dispatch(d, f) == IF f < d.fds + 1 THEN {k \in {"R", "W"} : f \in d.fdset[k]} ELSE {}

-------------------------------------------------------------------------------
(***************************************************************************)
(* /dev/poll: changes are queued; the driver adds kinds to those it has,   *)
(* and can only remove all of them.                                        *)
(***************************************************************************)
devpoll_commit(d, open) ==
  LET Write(e, c) == IF c.fd \notin open THEN e
                     ELSE IF c.remove THEN Unwatch(e, c.fd)
                     ELSE Watch(e, c.fd, e.kernel[c.fd].watch \cup c.events)
  IN  [FoldLeft(Write, d, d.changes) EXCEPT !.changes = <<>>]

devpoll_queue(d, open, c) ==
  LET room == IF Len(d.changes) >= QueueMax THEN devpoll_commit(d, open) ELSE d
  IN  [room EXCEPT !.changes = Append(@, c)]

Asked(f, events) == [fd |-> f, remove |-> FALSE, events |-> events]
POLLREMOVE(f) == [fd |-> f, remove |-> TRUE, events |-> {}]

devpoll_add(d, open, f, events) == devpoll_queue(d, open, Asked(f, events \cap {"R", "W"}))

\* What is still wanted after a removal is asked for again.
devpoll_del(d, open, f, old, events) ==
  LET gone == devpoll_queue(d, open, POLLREMOVE(f))
      again == IF "R" \in events /\ "W" \notin events /\ "W" \in old THEN {"W"}
               ELSE IF "W" \in events /\ "R" \notin events /\ "R" \in old THEN {"R"} ELSE {}
  IN  IF again = {} THEN gone ELSE devpoll_queue(gone, open, Asked(f, again))

-------------------------------------------------------------------------------
(***************************************************************************)
(* Event ports: an association ends when it has reported; the descriptor   *)
(* is pending then until the next dispatch.                                *)
(***************************************************************************)
reassociate(d, open, f) ==
  IF d.what[f] = {} \/ f \notin open THEN d ELSE Watch(d, f, d.what[f])

evport_add(d, open, f, events) ==
  reassociate([d EXCEPT !.what[f] = @ \cup (events \cap {"R", "W"})], open, f)

evport_del(d, open, f, events) ==
  LET left == [d EXCEPT !.what[f] = @ \ events]
      i == d.idx[f]
  IN  IF i = 0 THEN IF left.what[f] = {} THEN Unwatch(left, f) ELSE reassociate(left, open, f)
      ELSE IF left.what[f] # {} THEN left
      ELSE IF d.pending[i] # f THEN [left EXCEPT !.aborted = TRUE]
      ELSE [left EXCEPT !.pending[i] = -1, !.idx[f] = 0]

\* The start of evport_dispatch.
Reassociated(d, open) ==
  LET Again(e, f) == IF f = -1 THEN e
                     ELSE IF e.what[f] = {} THEN e
                     ELSE [reassociate(e, open, f) EXCEPT !.idx[f] = 0]
  IN  FoldLeft(Again, d, SubSeq(d.pending, 1, d.npending))

\* port_getn reports these descriptors; the array keeps what is behind them.
Pending(d, fs) ==
  LET gone == FoldLeft(Unwatch, d, fs)
  IN  [gone EXCEPT !.pending = fs \o SubSeq(@, Len(fs) + 1, Len(@)), !.npending = Len(fs),
                   !.idx = [f \in Fds |-> IF \E i \in DOMAIN fs : fs[i] = f
                                          THEN CHOOSE i \in DOMAIN fs : fs[i] = f ELSE @[f]]]

-------------------------------------------------------------------------------
(***************************************************************************)
(* kqueue: a filter of its own for each of two kinds; errors of deleting   *)
(* what is not there are ignored.                                          *)
(***************************************************************************)
kq_setup_kevent(d, open, c, k) ==
  LET watch == d.kernel[c.fd].watch
  IN  IF c.fd \notin open \/ c.chg[k] = "none" THEN d
      ELSE Watch(d, c.fd, IF c.chg[k] = "add" THEN watch \cup {k} ELSE watch \ {k})

kq_build_changes_list(d, open) ==
  FoldLeft(LAMBDA e, c : kq_setup_kevent(kq_setup_kevent(e, open, c, "R"), open, c, "W"),
           d, d.changes)

(***************************************************************************)
(* Windows: two arrays without gaps and the descriptors' places in each.   *)
(***************************************************************************)
do_fd_set(d, f, k) ==
  IF d.pos[k][f] > 0 THEN d
  ELSE [d EXCEPT !.arr[k] = Append(@, f), !.pos[k][f] = Len(d.arr[k]) + 1]

do_fd_clear(d, f, k) ==
  LET i == d.pos[k][f]
      last == d.arr[k][Len(d.arr[k])]
      gone == [d EXCEPT !.pos[k][f] = 0, !.arr[k] = Front([@ EXCEPT ![i] = last])]
  IN  IF i = 0 THEN d ELSE IF last = f THEN gone ELSE [gone EXCEPT !.pos[k][last] = i]

BothKinds(Op(_, _, _), d, f, events) ==
  LET r == IF "R" \in events THEN Op(d, f, "R") ELSE d
  IN  IF "W" \in events THEN Op(r, f, "W") ELSE r
win32_add(d, f, events) == BothKinds(do_fd_set, d, f, events)
win32_del(d, f, events) == BothKinds(do_fd_clear, d, f, events)

-------------------------------------------------------------------------------
(***************************************************************************)
(* struct eventop: add, del, the part of dispatch before it sleeps, and    *)
(* what the kernel looks at then.                                          *)
(***************************************************************************)
EvselAdd(d, open, f, old, events) ==
  CASE d.kind = "epoll" -> epoll_nochangelist_add(d, open, f, old, events)
    [] d.kind \in {"changelist", "kqueue"} -> Result(TRUE, event_changelist_add_(d, f, old, events))
    [] d.kind = "poll" -> Result(TRUE, poll_add(d, f, events))
    [] d.kind = "select" -> Result(TRUE, select_add(d, f, events))
    [] d.kind = "devpoll" -> Result(TRUE, devpoll_add(d, open, f, events))
    [] d.kind = "evport" -> Result(f \in open, evport_add(d, open, f, events))
    [] d.kind = "win32" -> Result(TRUE, win32_add(d, f, events))

EvselDel(d, open, f, old, events) ==
  CASE d.kind = "epoll" -> epoll_nochangelist_del(d, open, f, old, events).d
    [] d.kind \in {"changelist", "kqueue"} -> event_changelist_del_(d, f, old, events)
    [] d.kind = "poll" -> poll_del(d, f, events)
    [] d.kind = "select" -> select_del(d, f, events)
    [] d.kind = "devpoll" -> devpoll_del(d, open, f, old, events)
    [] d.kind = "evport" -> evport_del(d, open, f, events)
    [] d.kind = "win32" -> win32_del(d, f, events)

Prepared(d, open) ==
  CASE d.kind \in {"epoll", "changelist"} ->
         event_changelist_remove_all_(epoll_apply_changes(d, open))
    [] d.kind = "kqueue" -> event_changelist_remove_all_(kq_build_changes_list(d, open))
    [] d.kind = "poll" -> poll_dispatch(d)
    [] d.kind = "devpoll" -> devpoll_commit(d, open)
    [] d.kind = "evport" -> Reassociated(d, open)
    [] OTHER -> d

Watched(d, f) ==
  CASE d.kind = "poll" -> UNION {e.watch : e \in {s \in ToSet(d.set) : s.fd = f}}
    [] d.kind = "select" -> select_dispatch(d, f)
    [] d.kind = "win32" -> {k \in {"R", "W"} : f \in ToSet(d.arr[k])}
    [] OTHER -> d.kernel[f].watch

(***************************************************************************)
(* What dispatch makes of what the kernel reports: IN, OUT, the end of     *)
(* the peer's data (RDHUP), the end of the connection (HUP), an error.     *)
(***************************************************************************)
Plain(what) == {k \in Kinds : [R |-> "IN", W |-> "OUT", C |-> "RDHUP"][k] \in what}

epoll_dispatch(what) ==
  IF "ERR" \in what \/ ("HUP" \in what /\ "RDHUP" \notin what) THEN {"R", "W"} ELSE Plain(what)
PollReports(what) == Plain(what) \cup IF what \cap {"HUP", "ERR"} # {} THEN {"R", "W"} ELSE {}
devpoll_dispatch(what) == PollReports(what) \ {"C"}
evport_dispatch(what) ==
  IF what \cap {"HUP", "ERR"} # {} THEN {"R", "W"} ELSE Plain(what) \ {"C"}

\* These kernels tell of an end or an error by what they were asked for.
AsReady(what) == IF what \cap {"HUP", "ERR"} # {} THEN {"R", "W"} ELSE Plain(what) \ {"C"}
\* An add that failed as the peer is gone is reported as a read.
kq_dispatch(what) == IF "ERR" \in what THEN {"R"} ELSE AsReady(what)

Occurred(d, f, what) ==
  CASE d.kind \in {"epoll", "changelist"} -> epoll_dispatch(what)
    [] d.kind = "poll" -> PollReports(what)
    [] d.kind = "devpoll" -> devpoll_dispatch(what)
    [] d.kind = "evport" -> evport_dispatch(what)
    [] d.kind = "kqueue" -> kq_dispatch(what)
    [] OTHER -> AsReady(what) \cap Watched(d, f)

-------------------------------------------------------------------------------
(* The map.                                                                *)

VARIABLES map,    \* the events added, the counts of each kind, and the backend
          files,  \* the descriptors that are open, and those with a duplicate
          phase,  \* of the loop: "running" or "waiting"
          active  \* the events to call

mapVars == <<map, files, phase, active>>

NoEvents(kind) ==
  [added |-> {}, n |-> [f \in Fds |-> [k \in Kinds |-> 0]], d |-> Fresh(kind), touched |-> FALSE]

Init ==
  /\ map \in {NoEvents(kind) : kind \in Kernels}
  /\ files = [open |-> Fds, dup |-> {}] /\ phase = "running" /\ active = {}

EvsOf(m, f) == {e \in m.added : e.fd = f}
Counted(m, f) == {k \in Kinds : m.n[f][k] > 0}

--------------------------------------------------------------------------------
\* Nothing is counted when the backend refuses.
evmap_io_add_(m, e) ==
  LET f == e.fd
      n == [k \in Kinds |-> m.n[f][k] + IF k \in e.kinds THEN 1 ELSE 0]
      res == {k \in e.kinds : n[k] = 1}
      r == IF res = {} THEN Result(TRUE, m.d)
           ELSE EvselAdd(m.d, files.open, f, Counted(m, f), res)
  IN  IF r.ok THEN [m EXCEPT !.added = @ \cup {e}, !.n[f] = n, !.d = r.d] ELSE [m EXCEPT !.d = r.d]

evmap_io_del_(m, e) ==
  LET f == e.fd
      n == [k \in Kinds |-> m.n[f][k] - IF k \in e.kinds THEN 1 ELSE 0]
      res == {k \in e.kinds : n[k] = 0}
      d == IF res = {} THEN m.d ELSE EvselDel(m.d, files.open, f, Counted(m, f), res)
  IN  [m EXCEPT !.added = @ \ {e}, !.n[f] = n, !.d = d]

Touched(m) == [m EXCEPT !.touched = (phase = "waiting")]
Alive == ~map.d.aborted

event_add(e) ==
  /\ Alive /\ e \notin map.added /\ e.fd \in files.open
  /\ map' = Touched(evmap_io_add_(map, e))
  /\ UNCHANGED <<files, phase, active>>

event_del(e) ==
  /\ Alive /\ e \in map.added
  /\ map' = Touched(evmap_io_del_(map, e)) /\ active' = active \ {e}
  /\ UNCHANGED <<files, phase>>

\* Kernels forget the descriptor; epoll does when the file has no other.
Close(f, dup) ==
  /\ Alive /\ f \in files.open
  /\ files' = [open |-> files.open \ {f}, dup |-> IF dup THEN files.dup \cup {f} ELSE files.dup \ {f}]
  /\ map' = Touched([map EXCEPT !.d = IF dup /\ @.kind \in {"epoll", "changelist"} THEN @
                                      ELSE Unwatch(@, f)])
  /\ UNCHANGED <<phase, active>>

\* When there is a duplicate it is the same file.
Reopen(f) ==
  /\ Alive /\ f \notin files.open /\ EvsOf(map, f) = {}
  /\ files' = [files EXCEPT !.open = @ \cup {f}]
  /\ UNCHANGED <<map, phase, active>>

--------------------------------------------------------------------------------
\* dispatch, until it releases the lock and sleeps.
Dispatch ==
  /\ Alive /\ phase = "running" /\ active = {}
  /\ map' = [map EXCEPT !.d = Prepared(@, files.open)]
  /\ phase' = "waiting"
  /\ UNCHANGED <<files, active>>

Reports == {{"IN"}, {"OUT"}, {"IN", "RDHUP"}, {"HUP"}, {"ERR"}}

\* The events on a descriptor of these kinds.
evmap_io_active_(f, kinds) == {e \in EvsOf(map, f) : e.kinds \cap kinds # {}}

\* The kernel reports some descriptors.
Report ==
  /\ Alive /\ phase = "waiting"
  /\ \E fs \in SUBSET {f \in Fds : Watched(map.d, f) # {}}, what \in Reports :
       /\ active' = UNION {evmap_io_active_(f, Occurred(map.d, f, what)) : f \in fs}
       /\ map' = [map EXCEPT !.touched = FALSE, !.d.given = <<>>, !.d.copy = <<>>,
                             !.d = IF @.kind = "evport" /\ fs # {}
                                   THEN Pending(@, SetToSeq(fs)) ELSE @]
  /\ phase' = "running"
  /\ UNCHANGED files

\* event_process_active_single_queue: events for once are deleted first.
Call(e) ==
  /\ Alive /\ phase = "running" /\ e \in active
  /\ active' = active \ {e}
  /\ map' = IF e.persist THEN map ELSE evmap_io_del_(map, e)
  /\ UNCHANGED <<files, phase>>

\* The child of a fork starts with a new kernel queue and an empty fdinfo.
evmap_io_reinit_iter_fn(d, f) ==
  LET kinds == Counted(map, f)
  IN  EvselAdd(d, files.open, f, {}, kinds).d
event_reinit ==
  /\ Alive /\ phase = "running" /\ active = {} /\ map.added # {} /\ map.d.kind # "win32"
  /\ map' = [map EXCEPT !.d = FoldLeft(evmap_io_reinit_iter_fn, Fresh(@.kind), SetToSeq(Fds))]
  /\ UNCHANGED <<files, phase, active>>

\* event_base_free_ deletes what the user has left.
evmap_delete_all_ ==
  /\ Alive /\ phase = "running" /\ map.added # {}
  /\ map' = FoldLeft(evmap_io_del_, map, SetToSeq(map.added))
  /\ active' = {}
  /\ UNCHANGED <<files, phase>>

Next ==
  \/ \E e \in Events : event_add(e) \/ event_del(e) \/ Call(e)
  \/ \E f \in Fds : (\E dup \in BOOLEAN : Close(f, dup)) \/ Reopen(f)
  \/ Dispatch \/ Report \/ event_reinit \/ evmap_delete_all_

Spec == Init /\ [][Next]_mapVars

--------------------------------------------------------------------------------
(* The counts are those of the events added (evmap.c:975), and only events *)
(* that are added are active.                                              *)
CountsAgree ==
  /\ \A f \in Fds, k \in Kinds : map.n[f][k] = Cardinality({e \in EvsOf(map, f) : k \in e.kinds})
  /\ active \subseteq map.added

(* The places that descriptors know are those of their entries: in the     *)
(* changelist (evmap.c:776), poll's array (poll.c:127), Windows' arrays.   *)
PlacesAgree ==
  LET d == map.d
      Agree(idx, seq) == \A f \in Fds : {i \in DOMAIN seq : seq[i] = f} = {idx[f]} \ {0}
      FdsIn(seq) == [i \in DOMAIN seq |-> seq[i].fd]
  IN  /\ d.kind \in {"changelist", "kqueue"} => Agree(d.idx, FdsIn(d.changes))
      /\ d.kind = "poll" => Agree(d.idx, FdsIn(d.set))
      /\ d.kind = "win32" => \A k \in {"R", "W"} : Agree(d.pos[k], d.arr[k])

(* When the loop goes to sleep its kernel is asked for what the events     *)
(* want, of every open descriptor, whatever was added, deleted, closed and *)
(* opened again before; poll reads the array that it gave to the kernel.   *)
(* Event ports may ask for more, and so does epoll for a file with a       *)
(* duplicate when no event is left.                                        *)
KernelAgrees ==
  LET d == map.d
      wanted(f) == UNION {e.kinds : e \in EvsOf(map, f)}
      Possible(f) == IF d.kind \in {"epoll", "changelist", "poll"} THEN wanted(f)
                     ELSE wanted(f) \cap {"R", "W"}
  IN  phase = "waiting" =>
        /\ d.copy = d.given
        /\ ~map.touched =>
             \A f \in files.open :
               /\ Possible(f) \subseteq Watched(d, f)
               /\ \/ Watched(d, f) \subseteq Possible(f) \/ d.kind = "evport"
                  \/ f \in files.dup /\ EvsOf(map, f) = {}

MapSound == CountsAgree /\ PlacesAgree /\ KernelAgrees
================================================================================
