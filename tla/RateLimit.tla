------------------------------ MODULE RateLimit ------------------------------
(***************************************************************************)
(* The token bucket of one bufferevent: bufferevent_ratelim.c of libevent  *)
(* 2.1.12, as far as it does not concern groups (RateGroup).               *)
(*                                                                         *)
(* A configuration has a length of its tick, and for each direction the    *)
(* tokens of a tick and the most a bucket holds.  Ticks are counted from   *)
(* the epoch in an unsigned of Ticks values, half of which is INT_MAX; the *)
(* clock repeats itself after all of them.  What is missing in a bucket is *)
(* reckoned in a size_t of Word values: for a bucket its user has filled   *)
(* beyond the most it holds that is nearly all of them, so such a bucket   *)
(* is not cut down but grows with every tick.                              *)
(***************************************************************************)
EXTENDS Integers

CONSTANTS Starts,  \* what the clock may show at first
          Cfgs,    \* records: len, and rate and maximum of a direction
          NoCfg,
          Ticks,   \* an even number
          Period,  \* of the clock: Ticks of every length divide it
          Word,    \* 2^64
          MaxDebt, \* bounds what a user takes beyond the bucket
          MaxTokens, \* bounds what a user fills it with, and what it grows to
          MaxCalls \* bounds the calls of the user

VARIABLES now,       \* the base's clock
          cfg,       \* bev->rate_limiting->cfg
          limit,     \* the tokens of each direction
          last,      \* last_updated
          suspended, \* the directions with BEV_SUSPEND_BW
          timer,     \* what is left until refill_bucket_event, or NoTimer
          calls

vars == <<now, cfg, limit, last, suspended, timer, calls>>

Directions == {"r", "w"}
Other(d) == IF d = "r" THEN "w" ELSE "r"
NoTimer == -1

Init ==
  /\ now \in Starts /\ cfg = NoCfg /\ limit = [d \in Directions |-> 0] /\ last = 0
  /\ suspended = {} /\ timer = NoTimer /\ calls = 0

TickOf(c) == (now \div c.len) % Ticks
(* Mutant: signed, so that a wrapped number of the tick lies in the past. *)
Elapsed_Signed(c) == TickOf(c) - last
\* Unsigned, so that it stays right when the number of the tick wraps around.
Elapsed(c) == (TickOf(c) - last) % Ticks

Least(S) == CHOOSE x \in S : \A y \in S : x <= y

------------------------------------------------------------------------------
\* What ev_token_bucket_update_ makes of the tokens: the quotient is taken to
\* keep the product from overflowing.
Missing(c, d) == (c.maximum[d] - limit[d]) % Word
Filled(c, n, d) ==
  IF Missing(c, d) \div n < c.rate[d] THEN c.maximum[d]
  ELSE Least({limit[d] + n * c.rate[d], MaxTokens})

UpdatedLimit(c) ==
  LET n == Elapsed(c)
  IN  [d \in Directions |-> IF n \in 1 .. Ticks \div 2 - 1 THEN Filled(c, n, d)
                            ELSE limit[d]]
UpdatedLast(c) == IF Elapsed(c) \in 1 .. Ticks \div 2 - 1 THEN TickOf(c) ELSE last

\* The timer is needed until nothing waits for it.
(* Mutant: the other direction is forgotten. *)
TimerWithout_Forgets(d) == NoTimer
TimerWithout(d) == IF Other(d) \in suspended THEN timer ELSE NoTimer

\* Taking n tokens suspends a direction, or ends its suspension.
Decrement(lim, d, n) ==
  LET left == lim[d] - n
  IN  /\ limit' = [lim EXCEPT ![d] = left]
      /\ \/ left <= 0 /\ suspended' = suspended \cup {d} /\ timer' = cfg.len
         \/ /\ left > 0 /\ d \in suspended
            /\ suspended' = suspended \ {d} /\ timer' = TimerWithout(d)
         \/ left > 0 /\ d \notin suspended /\ UNCHANGED <<suspended, timer>>

\* bufferevent_get_read_max_, what it allows read or written, and
\* bufferevent_decrement_read_buckets_; or the same for writing.
Allowed(d) == UpdatedLimit(cfg)[d]
Transfer(d) ==
  /\ cfg # NoCfg /\ d \notin suspended
  /\ \E n \in 1 .. Allowed(d) : Decrement(UpdatedLimit(cfg), d, n)
  /\ last' = UpdatedLast(cfg)
  /\ UNCHANGED <<now, cfg, calls>>

\* bufferevent_get_read_limit: only the bucket is brought up to date.
Look ==
  /\ cfg # NoCfg
  /\ limit' = UpdatedLimit(cfg) /\ last' = UpdatedLast(cfg)
  /\ UNCHANGED <<now, cfg, suspended, timer, calls>>

\* bufferevent_decrement_read_limit and _write_limit: a user takes tokens, or
\* gives some, without regard to what the bucket holds at most.
UserDecrements(d) ==
  /\ cfg # NoCfg /\ calls < MaxCalls /\ calls' = calls + 1
  /\ \E left \in -MaxDebt .. MaxTokens :
       /\ limit' = [limit EXCEPT ![d] = left]
       /\ \/ /\ limit[d] > 0 /\ left <= 0
             /\ suspended' = suspended \cup {d} /\ timer' = cfg.len
          \/ /\ limit[d] <= 0 /\ left > 0
             /\ suspended' = suspended \ {d} /\ timer' = TimerWithout(d)
          \/ (limit[d] > 0 <=> left > 0) /\ UNCHANGED <<suspended, timer>>
  /\ UNCHANGED <<now, cfg, last>>

bufferevent_set_rate_limit(c) ==
  /\ calls < MaxCalls /\ calls' = calls + 1 /\ UNCHANGED now
  /\ c # cfg /\ cfg' = c
  /\ IF c = NoCfg THEN suspended' = {} /\ timer' = NoTimer /\ UNCHANGED <<limit, last>>
     ELSE LET fresh == cfg = NoCfg
              empty == {d \in Directions : limit'[d] <= 0}
          IN  /\ limit' = [d \in Directions |-> IF fresh THEN c.rate[d]
                                                ELSE Least({limit[d], c.maximum[d]})]
              /\ last' = IF fresh THEN TickOf(c) ELSE last
              /\ suspended' = empty
              /\ timer' = IF empty = {} THEN NoTimer ELSE c.len

bev_refill_callback_ ==
  /\ timer = 0 /\ UNCHANGED <<now, cfg, calls>>
  /\ limit' = UpdatedLimit(cfg) /\ last' = UpdatedLast(cfg)
  /\ suspended' = {d \in suspended : limit'[d] <= 0}
  /\ timer' = IF suspended' = {} THEN NoTimer ELSE cfg.len

\* No bucket is left alone for half of INT_MAX ticks, but while a timer runs.
Tick ==
  /\ cfg # NoCfg /\ Elapsed(cfg) \in Ticks \div 4 .. Ticks \div 2 - 1 => timer > 0
  /\ now' = (now + 1) % Period
  /\ timer' = IF timer > 0 THEN timer - 1 ELSE timer
  /\ UNCHANGED <<cfg, limit, last, suspended, calls>>

Next ==
  \/ \E d \in Directions : Transfer(d) \/ UserDecrements(d)
  \/ \E c \in Cfgs \cup {NoCfg} : bufferevent_set_rate_limit(c)
  \/ Look \/ bev_refill_callback_ \/ Tick

\* Time passes, and the loop runs a timer that is due.
Fairness == WF_vars(Tick) /\ WF_vars(bev_refill_callback_)

Spec == Init /\ [][Next]_vars /\ Fairness

------------------------------------------------------------------------------
TypeOK ==
  /\ now \in 0 .. Period - 1 /\ cfg \in Cfgs \cup {NoCfg}
  /\ limit \in [Directions -> Int] /\ last \in 0 .. Ticks - 1
  /\ suspended \subseteq Directions /\ timer \in Nat \cup {NoTimer}

\* A direction without tokens is suspended, and one that is not may read or
\* write at least a byte: nothing to read would be taken for the end of file.
\* Whatever is suspended has a timer to wait for.
BucketSound ==
  cfg # NoCfg =>
    /\ \A d \in Directions : /\ (limit[d] <= 0 => d \in suspended)
                             /\ (d \notin suspended => Allowed(d) >= 1)
    /\ (suspended # {} <=> timer # NoTimer)

RunsOver(d) == limit[d] > cfg.maximum[d]

\* The comment in ev_token_bucket_init_: the next update adds the appropriate
\* amount.  A refill finds the bucket to be of an earlier tick than its own,
\* unless somebody has looked at it in this one.  (A bucket that runs over
\* grows in the code as well; here up to MaxTokens.)
RefillAdds ==
  bev_refill_callback_ /\ last # TickOf(cfg) =>
    \A d \in suspended :
      limit'[d] > limit[d] \/ limit'[d] = cfg.maximum[d] \/ RunsOver(d)

\* Neither the refills, whatever the number of ticks, nor a change of the
\* configuration, nor reading and writing bring a bucket beyond the most it
\* holds: only a user who gives it tokens does.
OnlyUsersOverfill ==
  \A d \in Directions :
    cfg # NoCfg /\ ~RunsOver(d) /\ cfg' # NoCfg /\ RunsOver(d)' => UserDecrements(d)

\* A direction that is suspended goes on.
GoesOn == \A d \in Directions : d \in suspended ~> d \notin suspended
==============================================================================
