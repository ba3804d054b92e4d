------------------------------ MODULE RateGroup ------------------------------
(***************************************************************************)
(* Bufferevents that share a token bucket: the groups of                   *)
(* bufferevent_ratelim.c of libevent 2.1.12.  Each member runs in a thread *)
(* of its own; one direction is modelled, the other is the same code.      *)
(*                                                                         *)
(* A thread holds the lock of its bufferevent and takes the group's within *)
(* it.  Whoever holds the group's lock may only try the locks of members:  *)
(* a member that is busy is passed over, finds out later that the group is *)
(* suspended, and is tried again when it should go on.                     *)
(***************************************************************************)
EXTENDS Integers, FiniteSets

CONSTANTS Bevs,
          Holders,  \* bufferevents that the user's threads lock at any time
          Rate, Maximum, ConfiguredShare,
          MaxTicks, \* that pass at once
          Word,     \* the values of a size_t: 2^64
          MaxDebt,  \* bounds what a user takes beyond the bucket
          MaxTokens, \* bounds what a user fills it with, and what it grows to
          MaxCalls  \* bounds the calls of users that leave an empty bucket empty

VARIABLES members,
          limit,     \* the tokens of the group
          stopped,   \* read_suspended of the group
          pending,   \* pending_unsuspend_read
          suspended, \* the bufferevents with BEV_SUSPEND_BW_GROUP
          pc,        \* what holds the lock of each: "reading", "adding",
                     \* "suspending", "held", or "free"
          atmost,    \* what each may read
          calls

vars == <<members, limit, stopped, pending, suspended, pc, atmost, calls>>

Init ==
  /\ members = {} /\ limit = Rate /\ stopped = FALSE /\ pending = FALSE
  /\ suspended = {} /\ pc = [b \in Bevs |-> "free"] /\ atmost = [b \in Bevs |-> 0]
  /\ calls = 0

Smaller(x, y) == IF x < y THEN x ELSE y
Larger(x, y) == IF x > y THEN x ELSE y

\* bufferevent_rate_limit_group_set_min_share
min_share == Smaller(ConfiguredShare, Rate)

\* EVLOCK_TRY_LOCK_ for the thread of b, whose own lock it may take again.
Lockable(b) == {m \in members : pc[m] = "free" \/ m = b}

------------------------------------------------------------------------------
bev_group_suspend_reading_(b) ==
  /\ stopped' = TRUE /\ pending' = FALSE
  /\ suspended' = suspended \cup Lockable(b)

(* Mutant: a member that is busy is passed over for good. *)
bev_group_unsuspend_reading__Once(b) ==
  /\ stopped' = FALSE /\ pending' = FALSE
  /\ suspended' = suspended \ Lockable(b)
bev_group_unsuspend_reading_(b) ==
  /\ stopped' = FALSE /\ pending' = (Lockable(b) # members)
  /\ suspended' = suspended \ Lockable(b)

\* The share of bufferevent_get_rlim_max_.
Share == Larger(limit \div Cardinality(members), min_share)

\* A read callback locks its bufferevent and asks how much it may read.
StartRead(b) ==
  /\ b \in members /\ b \notin suspended /\ pc[b] = "free"
  /\ IF stopped THEN suspended' = suspended \cup {b} /\ UNCHANGED <<pc, atmost>>
     ELSE /\ pc' = [pc EXCEPT ![b] = "reading"] /\ atmost' = [atmost EXCEPT ![b] = Share]
          /\ UNCHANGED suspended
  /\ UNCHANGED <<members, limit, stopped, pending, calls>>

\* It has read n bytes; the group part of bufferevent_decrement_read_buckets_.
FinishRead(b) ==
  /\ pc[b] = "reading"
  /\ \E n \in 1 .. atmost[b] : limit' = limit - n
  /\ \/ limit' <= 0 /\ bev_group_suspend_reading_(b)
     \/ limit' > 0 /\ stopped /\ bev_group_unsuspend_reading_(b)
     \/ limit' > 0 /\ ~stopped /\ UNCHANGED <<stopped, pending, suspended>>
  /\ pc' = [pc EXCEPT ![b] = "free"] /\ atmost' = [atmost EXCEPT ![b] = 0]
  /\ UNCHANGED <<members, calls>>

\* bufferevent_rate_limit_group_decrement_read, called by another thread: it
\* takes tokens or gives some, without regard to what the bucket holds at most.
UserDecrements ==
  /\ limit' \in -MaxDebt .. MaxTokens
  /\ \/ limit > 0 /\ limit' <= 0 /\ bev_group_suspend_reading_("user") /\ UNCHANGED calls
     \/ limit <= 0 /\ limit' > 0 /\ bev_group_unsuspend_reading_("user") /\ UNCHANGED calls
     \/ limit > 0 /\ limit' > 0 /\ UNCHANGED <<stopped, pending, suspended, calls>>
     \/ /\ limit <= 0 /\ limit' <= 0 /\ UNCHANGED <<stopped, pending, suspended>>
        /\ calls < MaxCalls /\ calls' = calls + 1
  /\ UNCHANGED <<members, pc, atmost>>

\* What ev_token_bucket_update_ makes of the tokens after n ticks (RateLimit).
Filled(n) ==
  IF ((Maximum - limit) % Word) \div n < Rate THEN Maximum
  ELSE Smaller(limit + n * Rate, MaxTokens)

\* bev_group_refill_callback_, every tick.
bev_group_refill_callback_ ==
  /\ \E n \in 1 .. MaxTicks : limit' = Filled(n)
  /\ IF pending \/ (stopped /\ limit' >= min_share) THEN bev_group_unsuspend_reading_("timer")
     ELSE UNCHANGED <<stopped, pending, suspended>>
  /\ UNCHANGED <<members, pc, atmost, calls>>

------------------------------------------------------------------------------
\* bufferevent_add_to_rate_limit_group: it joins under the group's lock, and is
\* suspended, if the group was then, after that lock is given up.
Add(b) ==
  /\ b \notin members /\ pc[b] = "free" /\ members' = members \cup {b}
  /\ pc' = [pc EXCEPT ![b] = IF stopped THEN "suspending" ELSE "adding"]
  /\ UNCHANGED <<limit, stopped, pending, suspended, atmost, calls>>

Added(b) ==
  /\ pc[b] \in {"suspending", "adding"} /\ pc' = [pc EXCEPT ![b] = "free"]
  /\ suspended' = IF pc[b] = "suspending" THEN suspended \cup {b} ELSE suspended
  /\ UNCHANGED <<members, limit, stopped, pending, atmost, calls>>

bufferevent_remove_from_rate_limit_group(b) ==
  /\ b \in members /\ pc[b] = "free"
  /\ members' = members \ {b} /\ suspended' = suspended \ {b}
  /\ UNCHANGED <<limit, stopped, pending, pc, atmost, calls>>

\* bufferevent_lock and bufferevent_unlock in another thread.
Hold(b) ==
  /\ b \in Holders /\ pc[b] \in {"free", "held"}
  /\ pc' = [pc EXCEPT ![b] = IF @ = "free" THEN "held" ELSE "free"]
  /\ UNCHANGED <<members, limit, stopped, pending, suspended, atmost, calls>>

Finish(b) == FinishRead(b) \/ Added(b)

Next ==
  \/ \E b \in Bevs : \/ StartRead(b) \/ Add(b) \/ Finish(b) \/ Hold(b)
                     \/ bufferevent_remove_from_rate_limit_group(b)
  \/ UserDecrements \/ bev_group_refill_callback_

\* Threads go on, and the refill event comes every tick.
Fairness ==
  /\ \A b \in Bevs : WF_vars(Finish(b))
  /\ WF_vars(bev_group_refill_callback_)

Spec == Init /\ [][Next]_vars /\ Fairness

------------------------------------------------------------------------------
\* A member is suspended only while the group is, or while it waits to be tried
\* again; one that is left out of a suspended group is busy.  Nobody outside the
\* group is suspended, and nobody asks for less than the least share: to ask for
\* nothing would be taken for the end of file.  So it would be with a share of no
\* byte, which the code accepts, and then a group without tokens goes on.
GroupSound ==
  /\ suspended # {} => stopped \/ pending
  /\ suspended \subseteq members
  /\ \A b \in Bevs : pc[b] = "reading" => atmost[b] >= min_share
  /\ ~(stopped /\ pending)
  /\ limit <= 0 /\ min_share > 0 => stopped

\* Only a user brings the group's bucket beyond the most it holds.
OnlyUsersOverfill == limit <= Maximum /\ limit' > Maximum => UserDecrements

\* A suspended member goes on, unless a user's thread keeps it locked, or users
\* take from the empty bucket without end.
MembersGoOn == \A b \in Bevs \ Holders : b \in suspended ~> b \notin suspended
==============================================================================
