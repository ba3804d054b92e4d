---------------------------- MODULE LibeventProofs ----------------------------
(***************************************************************************)
(* Proofs about the parts of libevent above its loop (MCLibevent).  A part *)
(* has an inductive invariant of its own, stated and proved in its         *)
(* section; a step is of one part and leaves the others alone.             *)
(***************************************************************************)
EXTENDS MCLibevent, FiniteSetTheorems, WellFoundedInduction, TLAPS

-------------------------------------------------------------------------------
(* What ev_token_bucket_update_ makes of a bucket: a quotient that is at   *)
(* least the rate leaves room for all its tokens, so that the bucket gains *)
(* and does not run over, if it did not before.                            *)
LEMMA QuotientBounds ==
  ASSUME NEW a \in Int, NEW n \in Nat \ {0}, NEW r \in Int, a \div n >= r
  PROVE  n * r <= a
<1>1. a = n * (a \div n) + (a % n) /\ a \div n \in Int /\ a % n \in 0 .. n - 1
  OBVIOUS
<1>2. PICK q \in Int : q = a \div n
  BY <1>1
<1>3. n * r <= n * q
  BY <1>2
<1>4. QED BY <1>1, <1>2, <1>3

\* The tokens of a bucket after n ticks.
Full(max, now0, n, r, tokens, word) ==
  IF ((max - now0) % word) \div n < r THEN max
  ELSE IF now0 + n * r < tokens THEN now0 + n * r ELSE tokens

\* A bucket with tokens keeps some, however much it holds, and one that does not
\* run over does not do so after n ticks.
LEMMA FillBounds ==
  ASSUME NEW now0 \in Int, NEW tokens \in Nat \ {0}, NEW word \in Nat \ {0},
         NEW max \in Nat \ {0}, NEW n \in Nat \ {0}, NEW r \in Nat
  PROVE  LET full == Full(max, now0, n, r, tokens, word)
         IN  full \in Int /\ (now0 > 0 => full > 0) /\ (now0 <= max => full <= max)
<1> DEFINE missing == (max - now0) % word
<1>1. PICK gain \in Nat : gain = n * r
  OBVIOUS
<1>2. CASE missing \div n < r
  BY <1>2 DEF Full
<1>3. CASE ~(missing \div n < r)
  <2>1. missing \in Int /\ missing \div n \in Int /\ gain <= missing
    BY <1>1, <1>3, QuotientBounds
  <2>2. now0 <= max => missing <= max - now0
    <3>1. SUFFICES ASSUME now0 <= max PROVE missing <= max - now0
      OBVIOUS
    <3>2. PICK x \in Nat : x = max - now0
      BY <3>1
    <3>3. x = word * (x \div word) + (x % word) /\ x \div word \in Nat
      BY <3>2
    <3>4. word * (x \div word) >= 0 /\ x % word \in Int
      BY <3>3
    <3>5. QED BY <3>2, <3>3, <3>4
  <2>3. QED BY <1>1, <1>3, <2>1, <2>2 DEF Full
<1>4. QED BY <1>2, <1>3

-------------------------------------------------------------------------------
(* The bucket of one bufferevent.                                          *)

\* A direction without tokens is suspended, and there is a timer just when
\* something waits for it.
BucketInv ==
  /\ Bucket!TypeOK
  /\ cfg # NoConfig => \A d \in Bucket!Directions : limit[d] <= 0 => d \in suspended
  /\ (suspended # {} <=> timer # Bucket!NoTimer)
  /\ (cfg = NoConfig => suspended = {})

\* What ev_token_bucket_cfg_new has let pass.
LEMMA ConfigBounds ==
  ASSUME NEW c \in Cfgs, NEW d \in Bucket!Directions
  PROVE  /\ c.len \in Nat \ {0} /\ c.rate[d] \in Nat \ {0}
         /\ c.maximum[d] \in Nat /\ c.rate[d] <= c.maximum[d]
         /\ c.maximum[d] <= BucketTokens
BY RatesAssumption

\* The lesser of two numbers.
LEMMA LeastOfTwo ==
  ASSUME NEW x \in Int, NEW y \in Int
  PROVE  Bucket!Least({x, y}) = IF x < y THEN x ELSE y
<1>1. \E z \in {x, y} : \A w \in {x, y} : z <= w
  OBVIOUS
<1>2. Bucket!Least({x, y}) \in {x, y} /\ Bucket!Least({x, y}) <= x /\ Bucket!Least({x, y}) <= y
  BY <1>1 DEF Bucket!Least
<1>3. QED BY <1>2

\* An update of the bucket leaves a direction its tokens, and lets none run over
\* that did not.
LEMMA UpdateBounds ==
  ASSUME BucketInv, NEW c \in Cfgs, c = cfg, cfg # NoConfig
  PROVE  /\ Bucket!UpdatedLimit(c) \in [Bucket!Directions -> Int]
         /\ \A d \in Bucket!Directions :
              /\ (limit[d] > 0 => Bucket!UpdatedLimit(c)[d] > 0)
              /\ (limit[d] <= c.maximum[d] => Bucket!UpdatedLimit(c)[d] <= c.maximum[d])
         /\ Bucket!UpdatedLast(c) \in 0 .. Ticks - 1
<1>1. c.len \in Nat \ {0} /\ now \in Int /\ Ticks \in Nat \ {0} /\ last \in 0 .. Ticks - 1
  BY ConfigBounds, RatesAssumption DEF BucketInv, Bucket!TypeOK, Bucket!Directions
<1>2. Bucket!TickOf(c) \in 0 .. Ticks - 1
  <2>1. now \div c.len \in Int
    BY <1>1
  <2>2. QED BY <1>1, <2>1 DEF Bucket!TickOf
<1>3. ASSUME NEW d \in Bucket!Directions, NEW n \in 1 .. Ticks \div 2 - 1
      PROVE  /\ Bucket!Filled(c, n, d) \in Int
             /\ (limit[d] > 0 => Bucket!Filled(c, n, d) > 0)
             /\ (limit[d] <= c.maximum[d] => Bucket!Filled(c, n, d) <= c.maximum[d])
  <2>1. /\ limit[d] \in Int /\ n \in Nat \ {0} /\ c.maximum[d] \in Nat \ {0}
        /\ c.rate[d] \in Nat /\ BucketTokens \in Nat \ {0} /\ Word \in Nat \ {0}
    BY <1>1, ConfigBounds, RatesAssumption DEF BucketInv, Bucket!TypeOK
  <2>2. limit[d] + n * c.rate[d] \in Int
    BY <2>1
  <2>3. Bucket!Filled(c, n, d) = Full(c.maximum[d], limit[d], n, c.rate[d], BucketTokens, Word)
    BY <2>1, <2>2, LeastOfTwo DEF Bucket!Filled, Bucket!Missing, Full
  <2>4. PICK max, now0, r : max = c.maximum[d] /\ now0 = limit[d] /\ r = c.rate[d]
    OBVIOUS
  <2>5. PICK full : full = Full(max, now0, n, r, BucketTokens, Word)
    OBVIOUS
  <2>6. full \in Int /\ (now0 > 0 => full > 0) /\ (now0 <= max => full <= max)
    BY <2>1, <2>4, <2>5, FillBounds
  <2>7. QED BY <2>3, <2>4, <2>5, <2>6
<1>4. ASSUME NEW d \in Bucket!Directions
      PROVE  limit[d] \in Int
  BY DEF BucketInv, Bucket!TypeOK
<1>5. PICK n : n = Bucket!Elapsed(c)
  OBVIOUS
<1>6. CASE n \in 1 .. Ticks \div 2 - 1
  BY <1>2, <1>3, <1>4, <1>5, <1>6 DEF Bucket!UpdatedLimit, Bucket!UpdatedLast
<1>7. CASE n \notin 1 .. Ticks \div 2 - 1
  BY <1>1, <1>4, <1>5, <1>7 DEF Bucket!UpdatedLimit, Bucket!UpdatedLast
<1>8. QED BY <1>6, <1>7

\* The first state of a bucket.
LEMMA BucketInit == Bucket!Init => BucketInv
<1> SUFFICES ASSUME Bucket!Init PROVE BucketInv
  OBVIOUS
<1>1. 0 \in 0 .. Ticks - 1 /\ now \in 0 .. Period - 1
  BY RatesAssumption DEF Bucket!Init
<1>2. QED BY <1>1 DEF Bucket!Init, BucketInv, Bucket!TypeOK, Bucket!NoTimer

\* What is left of two directions without one of them.
LEMMA WithoutOne ==
  ASSUME NEW S, S \subseteq {"r", "w"}, NEW d \in {"r", "w"}
  PROVE  S \ {d} # {} <=> Bucket!Other(d) \in S
<1>1. Bucket!Other(d) # d
  BY DEF Bucket!Other
<1>2. \A x \in S : x = d \/ x = Bucket!Other(d)
  BY DEF Bucket!Other
<1>3. QED BY <1>1, <1>2

\* Taking tokens that are there.
LEMMA DecrementKeeps ==
  ASSUME BucketInv, cfg \in Cfgs, cfg # NoConfig, NEW d \in Bucket!Directions,
         NEW lim \in [Bucket!Directions -> Int], NEW n \in 1 .. lim[d],
         \A x \in Bucket!Directions : limit[x] > 0 => lim[x] > 0,
         Bucket!Decrement(lim, d, n),
         UNCHANGED <<now, cfg>>, last' \in 0 .. Ticks - 1
  PROVE  BucketInv'
<1>1. /\ lim[d] - n \in Int
      /\ limit' = [lim EXCEPT ![d] = lim[d] - n] /\ cfg.len \in Nat
  BY ConfigBounds, RatesAssumption DEF Bucket!Decrement
<1>2. suspended \subseteq {"r", "w"} /\ timer \in Nat \cup {-1}
      /\ (suspended # {} <=> timer # -1) /\ d \in {"r", "w"}
  BY DEF BucketInv, Bucket!TypeOK, Bucket!NoTimer, Bucket!Directions
<1>3. /\ suspended' \subseteq {"r", "w"} /\ timer' \in Nat \cup {-1}
      /\ (suspended' # {} <=> timer' # -1)
      /\ (limit'[d] <= 0 => d \in suspended')
      /\ \A x \in Bucket!Directions : x # d /\ x \in suspended => x \in suspended'
  <2>1. CASE lim[d] - n <= 0
    <3>1. suspended' = suspended \cup {d} /\ timer' = cfg.len
      BY <1>1, <2>1 DEF Bucket!Decrement
    <3>2. QED BY <1>1, <1>2, <3>1
  <2>2. CASE lim[d] - n > 0 /\ d \in suspended
    <3>1. /\ suspended' = suspended \ {d}
          /\ timer' = IF Bucket!Other(d) \in suspended THEN timer ELSE -1
      BY <1>1, <2>2 DEF Bucket!Decrement, Bucket!TimerWithout, Bucket!NoTimer
    <3>2. limit'[d] > 0 /\ limit'[d] \in Int
      BY <1>1, <2>2
    <3>3. suspended' # {} <=> Bucket!Other(d) \in suspended
      BY <1>2, <3>1, WithoutOne
    <3>4. QED BY <1>2, <3>1, <3>2, <3>3
  <2>3. CASE lim[d] - n > 0 /\ d \notin suspended
    <3>1. suspended' = suspended /\ timer' = timer
      BY <1>1, <2>3 DEF Bucket!Decrement
    <3>2. limit'[d] > 0 /\ limit'[d] \in Int
      BY <1>1, <2>3
    <3>3. QED BY <1>2, <3>1, <3>2
  <2>4. QED BY <1>1, <2>1, <2>2, <2>3
<1>4. \A x \in Bucket!Directions : limit'[x] <= 0 => x \in suspended'
  <2>1. TAKE x \in Bucket!Directions
  <2>2. CASE x = d
    BY <1>1, <1>3, <2>2
  <2>3. CASE x # d
    <3>1. limit'[x] = lim[x] /\ (limit[x] <= 0 => x \in suspended) /\ limit[x] \in Int
      BY <1>1, <2>3 DEF BucketInv, Bucket!TypeOK
    <3>2. QED BY <1>3, <2>3, <3>1
  <2>4. QED BY <2>2, <2>3
<1>5. QED
  BY <1>1, <1>3, <1>4 DEF BucketInv, Bucket!TypeOK, Bucket!NoTimer, Bucket!Directions

\* A direction that is not suspended is read or written.
LEMMA TransferKeeps ==
  ASSUME BucketInv, NEW d \in Bucket!Directions, Bucket!Transfer(d)
  PROVE  BucketInv'
<1>1. cfg \in Cfgs /\ cfg # NoConfig
  BY DEF Bucket!Transfer, BucketInv, Bucket!TypeOK
<1>2. PICK n \in 1 .. Bucket!Allowed(d) : Bucket!Decrement(Bucket!UpdatedLimit(cfg), d, n)
  BY DEF Bucket!Transfer
<1>5. last' \in 0 .. Ticks - 1 /\ UNCHANGED <<now, cfg>>
  BY <1>1, UpdateBounds DEF Bucket!Transfer
<1>6. PICK lim \in [Bucket!Directions -> Int] : lim = Bucket!UpdatedLimit(cfg)
  BY <1>1, UpdateBounds
<1>7. n \in 1 .. lim[d]
  BY <1>2, <1>6 DEF Bucket!Allowed
<1>8. QED BY <1>1, <1>2, <1>5, <1>6, <1>7, UpdateBounds, DecrementKeeps

\* Somebody looks at the bucket.
LEMMA LookKeeps ==
  ASSUME BucketInv, Bucket!Look
  PROVE  BucketInv'
<1>1. cfg \in Cfgs /\ cfg # NoConfig
  BY DEF Bucket!Look, BucketInv, Bucket!TypeOK
<1>2. /\ limit' \in [Bucket!Directions -> Int] /\ last' \in 0 .. Ticks - 1
      /\ \A d \in Bucket!Directions : limit[d] > 0 => limit'[d] > 0
  BY <1>1, UpdateBounds DEF Bucket!Look
<1>3. \A d \in Bucket!Directions : limit[d] \in Int /\ limit'[d] \in Int
  BY <1>2 DEF BucketInv, Bucket!TypeOK
<1>4. QED BY <1>2, <1>3 DEF Bucket!Look, BucketInv, Bucket!TypeOK

\* A user takes tokens or gives some.
LEMMA UserDecrementsKeeps ==
  ASSUME BucketInv, NEW d \in Bucket!Directions, Bucket!UserDecrements(d)
  PROVE  BucketInv'
<1>1. cfg \in Cfgs /\ cfg # NoConfig /\ UNCHANGED <<now, cfg, last>>
  BY DEF Bucket!UserDecrements, BucketInv, Bucket!TypeOK
<1>2. /\ limit \in [Bucket!Directions -> Int] /\ cfg.len \in Nat
      /\ \A x \in Bucket!Directions : limit[x] <= 0 => x \in suspended
      /\ d \in {"r", "w"} /\ suspended \subseteq {"r", "w"} /\ timer \in Nat \cup {-1}
      /\ (suspended # {} <=> timer # -1)
  BY <1>1, ConfigBounds DEF BucketInv, Bucket!TypeOK, Bucket!Directions, Bucket!NoTimer
<1>3. PICK left \in -BucketDebt .. BucketTokens :
        /\ limit' = [limit EXCEPT ![d] = left]
        /\ \/ /\ limit[d] > 0 /\ left <= 0
              /\ suspended' = suspended \cup {d} /\ timer' = cfg.len
           \/ /\ limit[d] <= 0 /\ left > 0
              /\ suspended' = suspended \ {d} /\ timer' = Bucket!TimerWithout(d)
           \/ (limit[d] > 0 <=> left > 0) /\ UNCHANGED <<suspended, timer>>
  BY DEF Bucket!UserDecrements
<1>4. /\ left \in Int /\ limit[d] \in Int /\ limit'[d] = left
      /\ limit' \in [Bucket!Directions -> Int]
      /\ \A x \in Bucket!Directions : x # d => limit'[x] = limit[x]
  BY <1>2, <1>3, RatesAssumption
<1>5. /\ (left <= 0 => d \in suspended')
      /\ suspended' \subseteq {"r", "w"} /\ timer' \in Nat \cup {-1}
      /\ (suspended' # {} <=> timer' # -1)
      /\ \A x \in Bucket!Directions : x # d /\ x \in suspended => x \in suspended'
  <2>1. CASE suspended' = suspended \cup {d} /\ timer' = cfg.len
    BY <1>2, <2>1
  <2>2. CASE /\ left > 0 /\ suspended' = suspended \ {d}
             /\ timer' = Bucket!TimerWithout(d)
    <3>1. timer' = IF Bucket!Other(d) \in suspended THEN timer ELSE -1
      BY <2>2 DEF Bucket!TimerWithout, Bucket!NoTimer
    <3>2. suspended' # {} <=> Bucket!Other(d) \in suspended
      BY <1>2, <2>2, WithoutOne
    <3>3. QED BY <1>2, <1>4, <2>2, <3>1, <3>2
  <2>3. CASE (limit[d] > 0 <=> left > 0) /\ UNCHANGED <<suspended, timer>>
    <3>1. left <= 0 => limit[d] <= 0
      BY <1>4, <2>3
    <3>2. QED BY <1>2, <2>3, <3>1
  <2>4. QED BY <1>3, <2>1, <2>2, <2>3
<1>6. \A x \in Bucket!Directions : limit'[x] <= 0 => x \in suspended'
  BY <1>2, <1>3, <1>4, <1>5
<1>7. QED
  BY <1>1, <1>2, <1>4, <1>5, <1>6 DEF BucketInv, Bucket!TypeOK, Bucket!NoTimer, Bucket!Directions

\* A new configuration lets no bucket run over.
LEMMA SetRateLimitBounds ==
  ASSUME BucketInv, NEW c \in Cfgs, c # NoConfig, Bucket!bufferevent_set_rate_limit(c),
         NEW d \in Bucket!Directions
  PROVE  limit'[d] \in Int /\ limit'[d] <= c.maximum[d]
<1>1. /\ limit[d] \in Int /\ c.maximum[d] \in Int
      /\ c.rate[d] \in Int /\ c.rate[d] <= c.maximum[d]
  BY ConfigBounds DEF BucketInv, Bucket!TypeOK
<1>2. limit'[d] = IF cfg = NoConfig THEN c.rate[d]
                  ELSE Bucket!Least({limit[d], c.maximum[d]})
  BY DEF Bucket!bufferevent_set_rate_limit
<1>3. CASE cfg = NoConfig
  BY <1>1, <1>2, <1>3
<1>4. CASE cfg # NoConfig
  <2>1. limit'[d] = IF limit[d] < c.maximum[d] THEN limit[d] ELSE c.maximum[d]
    BY <1>1, <1>2, <1>4, LeastOfTwo
  <2>2. QED BY <1>1, <2>1
<1>5. QED BY <1>3, <1>4

\* bufferevent_set_rate_limit puts a configuration on, changes it or takes it off.
LEMMA SetRateLimitKeeps ==
  ASSUME BucketInv, NEW c \in Cfgs \cup {NoConfig}, Bucket!bufferevent_set_rate_limit(c)
  PROVE  BucketInv'
<1>1. CASE c = NoConfig
  BY <1>1 DEF Bucket!bufferevent_set_rate_limit, BucketInv, Bucket!TypeOK, Bucket!NoTimer
<1>2. CASE c # NoConfig
  <2>1. c \in Cfgs /\ cfg' = c /\ now' = now
    BY <1>2 DEF Bucket!bufferevent_set_rate_limit
  <2>2. ASSUME NEW d \in Bucket!Directions
        PROVE  limit'[d] \in Int /\ limit'[d] <= c.maximum[d]
    BY <1>2, <2>1, SetRateLimitBounds
  <2>3. limit' \in [Bucket!Directions -> Int]
    BY <1>2, <2>2 DEF Bucket!bufferevent_set_rate_limit
  <2>4. last' \in 0 .. Ticks - 1
    <3>1. c.len \in Nat \ {0} /\ now \in Int /\ Ticks \in Nat \ {0}
      BY <2>1, ConfigBounds, RatesAssumption DEF BucketInv, Bucket!TypeOK, Bucket!Directions
    <3>2. now \div c.len \in Int
      BY <3>1
    <3>3. Bucket!TickOf(c) \in 0 .. Ticks - 1
      BY <3>1, <3>2 DEF Bucket!TickOf
    <3>4. QED BY <1>2, <3>3 DEF Bucket!bufferevent_set_rate_limit, BucketInv, Bucket!TypeOK
  <2>5. /\ suspended' = {d \in Bucket!Directions : limit'[d] <= 0}
        /\ timer' = (IF suspended' = {} THEN Bucket!NoTimer ELSE c.len)
    BY <1>2 DEF Bucket!bufferevent_set_rate_limit
  <2>6. c.len \in Nat
    BY <2>1, ConfigBounds DEF Bucket!Directions
  <2>7. QED
    BY <1>2, <2>1, <2>2, <2>3, <2>4, <2>5, <2>6 DEF BucketInv, Bucket!TypeOK, Bucket!NoTimer
<1>3. QED BY <1>1, <1>2

\* The bucket is refilled when its timer runs out.
LEMMA RefillKeeps ==
  ASSUME BucketInv, Bucket!bev_refill_callback_
  PROVE  BucketInv'
<1>1. cfg \in Cfgs /\ cfg # NoConfig /\ UNCHANGED <<now, cfg>>
  BY DEF Bucket!bev_refill_callback_, BucketInv, Bucket!TypeOK, Bucket!NoTimer
<1>2. /\ limit' \in [Bucket!Directions -> Int] /\ last' \in 0 .. Ticks - 1
      /\ \A d \in Bucket!Directions : limit[d] > 0 => limit'[d] > 0
  BY <1>1, UpdateBounds DEF Bucket!bev_refill_callback_
<1>3. \A d \in Bucket!Directions : limit[d] \in Int /\ limit'[d] \in Int
  BY <1>2 DEF BucketInv, Bucket!TypeOK
<1>4. cfg.len \in Nat
  BY <1>1, ConfigBounds DEF Bucket!Directions
<1>5. \A d \in Bucket!Directions : limit'[d] <= 0 => d \in suspended'
  BY <1>1, <1>2, <1>3 DEF Bucket!bev_refill_callback_, BucketInv
<1>6. QED
  BY <1>1, <1>2, <1>4, <1>5 DEF Bucket!bev_refill_callback_, BucketInv, Bucket!TypeOK, Bucket!NoTimer

\* Time passes.
LEMMA TickKeeps ==
  ASSUME BucketInv, Bucket!Tick
  PROVE  BucketInv'
<1>1. now' \in 0 .. Period - 1
  BY RatesAssumption DEF BucketInv, Bucket!TypeOK, Bucket!Tick
<1>2. timer' \in Nat \cup {-1} /\ (timer = -1 <=> timer' = -1)
  BY DEF BucketInv, Bucket!TypeOK, Bucket!Tick, Bucket!NoTimer
<1>3. QED BY <1>1, <1>2 DEF BucketInv, Bucket!TypeOK, Bucket!Tick, Bucket!NoTimer

\* A step of the bucket.
LEMMA BucketNext ==
  ASSUME BucketInv, Bucket!Next
  PROVE  BucketInv'
BY TransferKeeps, UserDecrementsKeeps, SetRateLimitKeeps, LookKeeps, RefillKeeps, TickKeeps
   DEF Bucket!Next

\* A direction that is not suspended has tokens, and an update takes none of them.
LEMMA BucketIsSound == BucketInv => Bucket!TypeOK /\ Bucket!BucketSound
<1> SUFFICES ASSUME BucketInv, cfg # NoConfig PROVE Bucket!BucketSound
  BY DEF BucketInv, Bucket!BucketSound
<1>1. cfg \in Cfgs
  BY DEF BucketInv, Bucket!TypeOK
<1>2. ASSUME NEW d \in Bucket!Directions, d \notin suspended
      PROVE  Bucket!Allowed(d) >= 1
  <2>1. limit[d] \in Int /\ limit[d] > 0
    BY <1>2 DEF BucketInv, Bucket!TypeOK
  <2>2. Bucket!UpdatedLimit(cfg)[d] \in Int /\ Bucket!UpdatedLimit(cfg)[d] > 0
    BY <1>1, <2>1, UpdateBounds
  <2>3. QED BY <2>1, <2>2 DEF Bucket!Allowed
<1>3. QED BY <1>2 DEF BucketInv, Bucket!BucketSound

\* Only the user's step lets a bucket run over.
LEMMA BucketOverfill ==
  ASSUME BucketInv, Bucket!Next
  PROVE  Bucket!OnlyUsersOverfill
<1> SUFFICES ASSUME NEW d \in Bucket!Directions, cfg # NoConfig, cfg' # NoConfig,
                    ~(limit[d] > cfg.maximum[d]), ~Bucket!UserDecrements(d)
             PROVE  ~(limit'[d] > cfg'.maximum[d])
  BY DEF Bucket!OnlyUsersOverfill, Bucket!RunsOver
<1>1. cfg \in Cfgs /\ limit \in [Bucket!Directions -> Int]
  BY DEF BucketInv, Bucket!TypeOK
<1>2. limit[d] \in Int /\ cfg.maximum[d] \in Int /\ limit[d] <= cfg.maximum[d]
  BY <1>1, ConfigBounds
<1>3. PICK lim \in [Bucket!Directions -> Int] :
        lim = Bucket!UpdatedLimit(cfg) /\ lim[d] <= cfg.maximum[d]
  BY <1>1, <1>2, UpdateBounds
<1>4. CASE limit'[d] \in Int /\ limit'[d] <= lim[d] /\ cfg' = cfg
  BY <1>2, <1>3, <1>4
<1>5. CASE limit'[d] = limit[d] /\ cfg' = cfg
  BY <1>2, <1>5
<1>6. ASSUME NEW x \in Bucket!Directions, Bucket!Transfer(x)
      PROVE  limit'[d] \in Int /\ limit'[d] <= lim[d] /\ cfg' = cfg
  <2>1. PICK n \in 1 .. lim[x] : limit' = [lim EXCEPT ![x] = lim[x] - n]
    BY <1>3, <1>6 DEF Bucket!Transfer, Bucket!Decrement, Bucket!Allowed
  <2>2. lim[x] \in Int /\ lim[d] \in Int /\ cfg' = cfg
    BY <1>3, <1>6 DEF Bucket!Transfer
  <2>3. QED BY <2>1, <2>2
<1>7. ASSUME NEW x \in Bucket!Directions, Bucket!UserDecrements(x)
      PROVE  limit'[d] = limit[d] /\ cfg' = cfg
  BY <1>1, <1>7 DEF Bucket!UserDecrements
<1>8. ASSUME NEW c \in Cfgs \cup {NoConfig}, Bucket!bufferevent_set_rate_limit(c)
      PROVE  ~(limit'[d] > cfg'.maximum[d])
  <2>1. cfg' = c /\ c \in Cfgs /\ c # NoConfig
    BY <1>8 DEF Bucket!bufferevent_set_rate_limit
  <2>2. limit'[d] \in Int /\ limit'[d] <= c.maximum[d] /\ c.maximum[d] \in Int
    BY <1>8, <2>1, SetRateLimitBounds, ConfigBounds
  <2>3. QED BY <2>1, <2>2
<1>9. CASE Bucket!Look \/ Bucket!bev_refill_callback_
  BY <1>3, <1>4, <1>9 DEF Bucket!Look, Bucket!bev_refill_callback_
<1>10. CASE Bucket!Tick
  BY <1>5, <1>10 DEF Bucket!Tick
<1>11. QED BY <1>4, <1>5, <1>6, <1>7, <1>8, <1>9, <1>10 DEF Bucket!Next

-------------------------------------------------------------------------------
(* The bucket of a group.                                                  *)

\* Besides GroupSound: a bufferevent that joins is a member already, and while one
\* has not found out yet that it joined a suspended group, the group is suspended
\* or tries its members again.
GroupInv ==
  /\ members \subseteq Bevs /\ limit \in Int /\ stopped \in BOOLEAN /\ pending \in BOOLEAN
  /\ pc \in [Bevs -> {"free", "reading", "adding", "suspending", "held"}]
  /\ atmost \in [Bevs -> Int]
  /\ Group!GroupSound
  /\ \A b \in Bevs : pc[b] = "suspending" => (b \in members /\ (stopped \/ pending))

\* The least share is no less than nothing.
LEMMA ShareBounds ==
  Group!min_share \in Nat /\ Rate \in Nat \ {0}
BY RatesAssumption DEF Group!min_share, Group!Smaller

\* The first state of a group.
LEMMA GroupInit == Group!Init => GroupInv
<1> SUFFICES ASSUME Group!Init PROVE GroupInv
  OBVIOUS
<1>1. limit \in Int /\ ~(limit <= 0)
  BY RatesAssumption DEF Group!Init
<1>2. Group!GroupSound
  BY <1>1 DEF Group!Init, Group!GroupSound
<1>3. pc = [b \in Bevs |-> "free"]
  BY DEF Group!Init
<1>4. members \subseteq Bevs /\ stopped \in BOOLEAN /\ pending \in BOOLEAN
  BY DEF Group!Init
<1>5. atmost \in [Bevs -> Int]
  BY DEF Group!Init
<1>6. /\ pc \in [Bevs -> {"free", "reading", "adding", "suspending", "held"}]
      /\ \A b \in Bevs : pc[b] # "suspending"
  BY <1>3
<1>7. QED BY <1>1, <1>2, <1>4, <1>5, <1>6 DEF GroupInv

\* The group is suspended, and every member that is not busy.
LEMMA SuspendKeeps ==
  ASSUME GroupInv, NEW u, Group!bev_group_suspend_reading_(u), limit' \in Int,
         UNCHANGED members,
         \A b \in Bevs : (pc'[b] = pc[b] /\ atmost'[b] = atmost[b]) \/ pc'[b] = "free",
         pc' \in [Bevs -> {"free", "reading", "adding", "suspending", "held"}],
         atmost' \in [Bevs -> Int]
  PROVE  GroupInv'
<1>1. /\ stopped' = TRUE /\ pending' = FALSE /\ suspended' \subseteq members
      /\ Group!min_share' = Group!min_share
  BY DEF Group!bev_group_suspend_reading_, Group!Lockable, GroupInv, Group!GroupSound,
         Group!min_share, Group!Smaller
<1>2. \A b \in Bevs : pc'[b] = "reading" => atmost'[b] >= Group!min_share
  BY DEF GroupInv, Group!GroupSound
<1>3. Group!GroupSound'
  BY <1>1, <1>2 DEF Group!GroupSound
<1>4. \A b \in Bevs : pc'[b] = "suspending" => (b \in members' /\ (stopped' \/ pending'))
  BY <1>1 DEF GroupInv
<1>5. QED BY <1>1, <1>3, <1>4 DEF GroupInv

\* The group goes on, and with it every member that is not busy; one that is left
\* behind is tried again.  Who does that is not on its way to be suspended itself.
LEMMA UnsuspendKeeps ==
  ASSUME GroupInv, NEW u, Group!bev_group_unsuspend_reading_(u), limit' \in Int,
         limit' > 0 \/ Group!min_share = 0,
         u \in Bevs => pc[u] # "suspending",
         UNCHANGED members,
         \A b \in Bevs : (pc'[b] = pc[b] /\ atmost'[b] = atmost[b]) \/ pc'[b] = "free",
         pc' \in [Bevs -> {"free", "reading", "adding", "suspending", "held"}],
         atmost' \in [Bevs -> Int]
  PROVE  GroupInv'
<1>1. /\ stopped' = FALSE /\ pending' \in BOOLEAN /\ suspended' \subseteq members
      /\ (suspended' # {} => pending') /\ Group!min_share' = Group!min_share
  BY DEF Group!bev_group_unsuspend_reading_, Group!Lockable, GroupInv, Group!GroupSound,
         Group!min_share, Group!Smaller
<1>2. \A b \in Bevs : pc'[b] = "reading" => atmost'[b] >= Group!min_share
  BY DEF GroupInv, Group!GroupSound
<1>3. ~(limit' <= 0 /\ Group!min_share > 0)
  BY ShareBounds
<1>4. Group!GroupSound'
  BY <1>1, <1>2, <1>3 DEF Group!GroupSound
<1>5. ASSUME NEW b \in Bevs, pc'[b] = "suspending"
      PROVE  b \in members' /\ pending'
  <2>1. b \in members /\ pc[b] = "suspending"
    BY <1>5 DEF GroupInv
  <2>2. b \notin Group!Lockable(u)
    BY <2>1 DEF Group!Lockable
  <2>3. QED BY <2>1, <2>2 DEF Group!bev_group_unsuspend_reading_
<1>6. QED BY <1>1, <1>4, <1>5 DEF GroupInv

\* A share is no less than the least.
LEMMA ShareIsEnough ==
  ASSUME GroupInv, members # {}
  PROVE  Group!Share \in Int /\ Group!Share >= Group!min_share
<1>1. IsFiniteSet(members) /\ Cardinality(members) \in Nat \ {0}
  BY RatesAssumption, FS_Subset, FS_CardinalityType, FS_EmptySet DEF GroupInv
<1>2. Group!Cardinality(members) = Cardinality(members)
  BY DEF Group!Cardinality, Cardinality, Group!IsFiniteSet, IsFiniteSet
<1>3. limit \div Cardinality(members) \in Int
  BY <1>1 DEF GroupInv
<1>4. QED BY <1>2, <1>3, ShareBounds DEF Group!Share, Group!Larger

\* A member starts to read, or finds the group suspended.
LEMMA StartReadKeeps ==
  ASSUME GroupInv, NEW b \in Bevs, Group!StartRead(b)
  PROVE  GroupInv'
<1>1. b \in members /\ Group!Share \in Int /\ Group!Share >= Group!min_share
  BY ShareIsEnough DEF Group!StartRead
<1>2. Group!min_share' = Group!min_share
  BY DEF Group!min_share, Group!Smaller
<1>3. CASE stopped
  BY <1>1, <1>2, <1>3 DEF Group!StartRead, GroupInv, Group!GroupSound
<1>4. CASE ~stopped
  <2>1. /\ pc' = [pc EXCEPT ![b] = "reading"] /\ atmost' = [atmost EXCEPT ![b] = Group!Share]
        /\ UNCHANGED <<members, limit, stopped, pending, suspended>>
    BY <1>4 DEF Group!StartRead
  <2>2. \A x \in Bevs : pc'[x] = "reading" => atmost'[x] >= Group!min_share
    BY <1>1, <2>1 DEF GroupInv, Group!GroupSound
  <2>3. QED BY <1>1, <1>2, <2>1, <2>2 DEF GroupInv, Group!GroupSound
<1>5. QED BY <1>3, <1>4

\* A member has read: the group is suspended, goes on, or neither.
LEMMA FinishReadKeeps ==
  ASSUME GroupInv, NEW b \in Bevs, Group!FinishRead(b)
  PROVE  GroupInv'
<1>1. PICK n \in 1 .. atmost[b] : limit' = limit - n
  BY DEF Group!FinishRead
<1>2. limit \in Int /\ atmost[b] \in Int
  BY DEF GroupInv
<1>3. limit' \in Int
  BY <1>1, <1>2
<1>4. /\ pc[b] = "reading" /\ UNCHANGED members
      /\ pc' = [pc EXCEPT ![b] = "free"] /\ atmost' = [atmost EXCEPT ![b] = 0]
  BY DEF Group!FinishRead
<1>5. /\ \A x \in Bevs : (pc'[x] = pc[x] /\ atmost'[x] = atmost[x]) \/ pc'[x] = "free"
      /\ pc' \in [Bevs -> {"free", "reading", "adding", "suspending", "held"}]
      /\ atmost' \in [Bevs -> Int]
  BY <1>4 DEF GroupInv
<1>6. CASE limit' <= 0 /\ Group!bev_group_suspend_reading_(b)
  BY <1>3, <1>4, <1>5, <1>6, SuspendKeeps
<1>7. CASE limit' > 0 /\ stopped /\ Group!bev_group_unsuspend_reading_(b)
  BY <1>3, <1>4, <1>5, <1>7, UnsuspendKeeps
<1>8. CASE limit' > 0 /\ ~stopped /\ UNCHANGED <<stopped, pending, suspended>>
  <2>1. \A x \in Bevs : pc'[x] = "reading" => atmost'[x] >= Group!min_share
    BY <1>5 DEF GroupInv, Group!GroupSound
  <2>2. Group!min_share' = Group!min_share /\ ~(limit' <= 0)
    BY <1>3, <1>8 DEF Group!min_share, Group!Smaller
  <2>3. Group!GroupSound'
    BY <1>3, <1>4, <1>8, <2>1, <2>2 DEF GroupInv, Group!GroupSound
  <2>4. QED BY <1>3, <1>4, <1>5, <1>8, <2>3 DEF GroupInv
<1>9. QED BY <1>6, <1>7, <1>8 DEF Group!FinishRead

\* Another thread takes tokens or gives some.
LEMMA GroupDecrementsKeeps ==
  ASSUME GroupInv, Group!UserDecrements
  PROVE  GroupInv'
<1>1. UNCHANGED <<members, pc, atmost>> /\ limit' \in Int /\ limit \in Int /\ "user" \notin Bevs
  BY RatesAssumption DEF Group!UserDecrements, GroupInv
<1>2. /\ \A x \in Bevs : (pc'[x] = pc[x] /\ atmost'[x] = atmost[x]) \/ pc'[x] = "free"
      /\ pc' \in [Bevs -> {"free", "reading", "adding", "suspending", "held"}]
      /\ atmost' \in [Bevs -> Int]
  BY <1>1 DEF GroupInv
<1>3. CASE Group!bev_group_suspend_reading_("user")
  BY <1>1, <1>2, <1>3, SuspendKeeps
<1>4. CASE limit' > 0 /\ Group!bev_group_unsuspend_reading_("user")
  BY <1>1, <1>2, <1>4, UnsuspendKeeps
<1>5. CASE (limit > 0 <=> limit' > 0) /\ UNCHANGED <<stopped, pending, suspended>>
  <2>1. Group!min_share' = Group!min_share
    BY DEF Group!min_share, Group!Smaller
  <2>2. limit' <= 0 => limit <= 0
    BY <1>1, <1>5
  <2>3. Group!GroupSound'
    BY <1>1, <1>5, <2>1, <2>2 DEF GroupInv, Group!GroupSound
  <2>4. QED BY <1>1, <1>2, <1>5, <2>3 DEF GroupInv
<1>6. QED BY <1>1, <1>3, <1>4, <1>5 DEF Group!UserDecrements

\* Every tick the group gets tokens, and goes on when a member may have its share.
LEMMA GroupRefillKeeps ==
  ASSUME GroupInv, Group!bev_group_refill_callback_
  PROVE  GroupInv'
<1>1. UNCHANGED <<members, pc, atmost>> /\ "timer" \notin Bevs
  BY RatesAssumption DEF Group!bev_group_refill_callback_
<1>2. /\ \A x \in Bevs : (pc'[x] = pc[x] /\ atmost'[x] = atmost[x]) \/ pc'[x] = "free"
      /\ pc' \in [Bevs -> {"free", "reading", "adding", "suspending", "held"}]
      /\ atmost' \in [Bevs -> Int]
  BY <1>1 DEF GroupInv
<1>3. limit' \in Int /\ (limit > 0 => limit' > 0) /\ limit \in Int
  <2>1. PICK n \in 1 .. MaxTicks : limit' = Group!Filled(n)
    BY DEF Group!bev_group_refill_callback_
  <2>2. /\ n \in Nat \ {0} /\ limit \in Int /\ Maximum \in Nat \ {0} /\ Rate \in Nat
        /\ GroupTokens \in Nat \ {0} /\ Word \in Nat \ {0}
    BY <2>1, RatesAssumption DEF GroupInv
  <2>3. Group!Filled(n) = Full(Maximum, limit, n, Rate, GroupTokens, Word)
    BY DEF Group!Filled, Group!Smaller, Full
  <2>4. QED BY <2>1, <2>2, <2>3, FillBounds
<1>4. CASE /\ pending \/ (stopped /\ limit' >= Group!min_share)
           /\ Group!bev_group_unsuspend_reading_("timer")
  <2>1. pending => (limit > 0 \/ Group!min_share = 0)
    BY <1>3, ShareBounds DEF GroupInv, Group!GroupSound
  <2>2. limit' > 0 \/ Group!min_share = 0
    BY <1>3, <1>4, <2>1, ShareBounds
  <2>3. QED BY <1>1, <1>2, <1>3, <1>4, <2>2, UnsuspendKeeps
<1>5. CASE UNCHANGED <<stopped, pending, suspended>>
  <2>1. Group!min_share' = Group!min_share /\ Group!min_share \in Nat
    BY ShareBounds DEF Group!min_share, Group!Smaller
  <2>2. limit' <= 0 /\ Group!min_share > 0 => stopped
    BY <1>3, <2>1 DEF GroupInv, Group!GroupSound
  <2>3. Group!GroupSound'
    BY <1>1, <1>3, <1>5, <2>1, <2>2 DEF GroupInv, Group!GroupSound
  <2>4. QED BY <1>1, <1>2, <1>3, <1>5, <2>3 DEF GroupInv
<1>6. QED BY <1>4, <1>5 DEF Group!bev_group_refill_callback_

\* A bufferevent joins, finds out whether to be suspended, leaves, or is locked.
LEMMA MembersKeep ==
  ASSUME GroupInv, NEW b \in Bevs,
         \/ Group!Add(b) \/ Group!Added(b) \/ Group!Hold(b)
         \/ Group!bufferevent_remove_from_rate_limit_group(b)
  PROVE  GroupInv'
<1>1. Group!min_share' = Group!min_share /\ UNCHANGED <<limit, stopped, pending, atmost>>
  BY DEF Group!min_share, Group!Smaller, Group!Add, Group!Added, Group!Hold,
         Group!bufferevent_remove_from_rate_limit_group
<1>2. /\ pc' \in [Bevs -> {"free", "reading", "adding", "suspending", "held"}]
      /\ \A x \in Bevs : pc'[x] = "reading" => pc[x] = "reading"
  BY DEF GroupInv, Group!Add, Group!Added, Group!Hold,
         Group!bufferevent_remove_from_rate_limit_group
<1>3. \A x \in Bevs : pc'[x] = "reading" => atmost'[x] >= Group!min_share
  BY <1>1, <1>2 DEF GroupInv, Group!GroupSound
<1>4. CASE Group!Add(b)
  BY <1>1, <1>2, <1>3, <1>4 DEF GroupInv, Group!GroupSound, Group!Add
<1>5. CASE Group!Added(b)
  BY <1>1, <1>2, <1>3, <1>5 DEF GroupInv, Group!GroupSound, Group!Added
<1>6. CASE Group!Hold(b)
  BY <1>1, <1>2, <1>3, <1>6 DEF GroupInv, Group!GroupSound, Group!Hold
<1>7. CASE Group!bufferevent_remove_from_rate_limit_group(b)
  BY <1>1, <1>2, <1>3, <1>7
     DEF GroupInv, Group!GroupSound, Group!bufferevent_remove_from_rate_limit_group
<1>8. QED BY <1>4, <1>5, <1>6, <1>7

\* A step of the group.
LEMMA GroupNext ==
  ASSUME GroupInv, Group!Next
  PROVE  GroupInv'
BY StartReadKeeps, FinishReadKeeps, GroupDecrementsKeeps, GroupRefillKeeps, MembersKeep
   DEF Group!Next, Group!Finish

\* Only a user's step lets the group's bucket run over.
LEMMA GroupOverfill ==
  ASSUME GroupInv, Group!Next
  PROVE  Group!OnlyUsersOverfill
<1> SUFFICES ASSUME limit <= Maximum, ~Group!UserDecrements
             PROVE  ~(limit' > Maximum)
  BY DEF Group!OnlyUsersOverfill
<1>1. limit \in Int /\ Maximum \in Nat \ {0} /\ Rate \in Nat /\ GroupTokens \in Nat \ {0} /\ Word \in Nat \ {0}
  BY RatesAssumption DEF GroupInv
<1>2. CASE limit' = limit
  BY <1>1, <1>2
<1>3. ASSUME NEW b \in Bevs, Group!FinishRead(b)
      PROVE  ~(limit' > Maximum)
  <2>1. PICK n \in 1 .. atmost[b] : limit' = limit - n
    BY <1>3 DEF Group!FinishRead
  <2>2. atmost[b] \in Int
    BY DEF GroupInv
  <2>3. QED BY <1>1, <2>1, <2>2
<1>4. CASE Group!bev_group_refill_callback_
  <2>1. PICK n \in 1 .. MaxTicks : limit' = Group!Filled(n)
    BY <1>4 DEF Group!bev_group_refill_callback_
  <2>2. n \in Nat \ {0}
    BY <2>1, RatesAssumption
  <2>3. Group!Filled(n) = Full(Maximum, limit, n, Rate, GroupTokens, Word)
    BY DEF Group!Filled, Group!Smaller, Full
  <2>4. PICK full : full = Full(Maximum, limit, n, Rate, GroupTokens, Word)
    OBVIOUS
  <2>5. full \in Int /\ full <= Maximum
    BY <1>1, <2>2, <2>4, FillBounds
  <2>6. QED BY <1>1, <2>1, <2>3, <2>4, <2>5
<1>5. ASSUME NEW b \in Bevs, \/ Group!StartRead(b) \/ Group!Add(b) \/ Group!Added(b) \/ Group!Hold(b)
                              \/ Group!bufferevent_remove_from_rate_limit_group(b)
      PROVE  limit' = limit
  BY <1>5 DEF Group!StartRead, Group!Add, Group!Added, Group!Hold,
              Group!bufferevent_remove_from_rate_limit_group
<1>6. QED BY <1>2, <1>3, <1>4, <1>5 DEF Group!Next, Group!Finish

-------------------------------------------------------------------------------
(* The server of http.                                                     *)

Open == {"reading", "user", "part", "chunked", "replying", "page"}
Cons == [live : BOOLEAN, state : {"none", "FIRSTLINE", "HEADERS", "BODY", "TRAILER", "WRITING"},
         rd : BOOLEAN, wr : BOOLEAN, readcb : BOOLEAN, out : BOOLEAN,
         cb : {"none", "continue", "done"}, input : BOOLEAN, more : BOOLEAN]
Bases == [evcon : Cons, cur : Incoming \cup {0},
          req : [Incoming -> Open \cup {"new", "detached", "gone"}]]
\* Besides ServerSound: the parser is in one of its states while a request is read,
\* and what is still to be written for a request that is with the user is the
\* answer to its "Expect: 100-continue".
Expects(e, what) ==
  /\ Server!Suits(e, what)
  /\ (what = "reading" => e.state \in {"FIRSTLINE", "HEADERS", "BODY", "TRAILER"})
  /\ (what = "user" => (e.wr => e.cb = "continue"))
\* A base that is as it should be, as the functions of the source leave it.
Serving(b) ==
  /\ b \in Bases
  /\ (b.evcon.live <=> b.cur # 0)
  /\ (b.evcon.live \/ b.evcon = Server!NoConnection)
  /\ \A q \in Incoming : (b.req[q] \in Open <=> q = b.cur)
  /\ (b.evcon.live => Expects(b.evcon, b.req[b.cur]))
\* Its connection has a request, and the functions work on it.
Busy(b) ==
  /\ b \in Bases /\ b.evcon.live /\ b.cur \in Incoming
  /\ \A q \in Incoming : (q # b.cur => b.req[q] \notin Open)
\* Of the other requests only a new one is touched.
Others(b, c) ==
  \A q \in Incoming : q # b.cur => (c.req[q] = b.req[q] \/ (b.req[q] = "new" /\ c.req[q] = "reading"))
Handled(b, c) == Serving(c) /\ Others(b, c)

LEMMA NoRequestZero == 0 \notin Incoming
BY HttpAssumption

\* What becomes of a request.
LEMMA IsFacts ==
  ASSUME NEW b \in Bases, b.cur # 0, NEW what \in Open \cup {"new", "detached", "gone"}
  PROVE  /\ Server!Is(b, what) \in Bases
         /\ Server!Is(b, what).evcon = b.evcon /\ Server!Is(b, what).cur = b.cur
         /\ Server!Is(b, what).req = [b.req EXCEPT ![b.cur] = what]
<1>1. Server!Is(b, what) = [b EXCEPT !.req = [b.req EXCEPT ![b.cur] = what]]
  BY DEF Server!Is, Bases
<1>2. [b.req EXCEPT ![b.cur] = what] \in [Incoming -> Open \cup {"new", "detached", "gone"}]
  BY DEF Bases
<1>3. QED BY <1>1, <1>2 DEF Bases

\* The answer goes out.
LEMMA WriteBufferFacts ==
  ASSUME NEW b \in Bases, NEW cb \in {"none", "continue", "done"}
  PROVE  LET w == Server!evhttp_write_buffer(b, cb)
         IN  /\ w \in Bases /\ w.cur = b.cur /\ w.req = b.req
             /\ w.evcon = [b.evcon EXCEPT !.cb = cb, !.readcb = FALSE, !.rd = TRUE, !.wr = TRUE]
<1> DEFINE e == [b.evcon EXCEPT !.cb = cb, !.readcb = FALSE, !.rd = TRUE, !.wr = TRUE]
<1>1. Server!evhttp_write_buffer(b, cb) = [b EXCEPT !.evcon = e]
  BY DEF Server!evhttp_write_buffer, Bases
<1>2. e \in Cons
  BY DEF Bases, Cons
<1>3. QED BY <1>1, <1>2 DEF Bases

\* A connection is freed, and its request with it.
LEMMA FreeServes ==
  ASSUME NEW b \in Bases, \A q \in Incoming : (q # b.cur => b.req[q] \notin Open)
  PROVE  LET c == Server!evhttp_connection_free(b)
         IN  Serving(c) /\ \A q \in Incoming : q # b.cur => c.req[q] = b.req[q]
<1>1. PICK d : d = (IF b.cur = 0 THEN b ELSE Server!Is(b, "gone"))
  OBVIOUS
<1>2. /\ d \in Bases /\ \A q \in Incoming : q # b.cur => d.req[q] = b.req[q]
      /\ \A q \in Incoming : d.req[q] \notin Open
  <2>1. CASE b.cur = 0
    BY <1>1, <2>1, NoRequestZero
  <2>2. CASE b.cur # 0
    <3>1. d \in Bases /\ d.req = [b.req EXCEPT ![b.cur] = "gone"]
      BY <1>1, <2>2, IsFacts
    <3>2. "gone" \notin Open
      BY DEF Open
    <3>3. QED BY <3>1, <3>2 DEF Bases
  <2>3. QED BY <2>1, <2>2
<1>3. Server!evhttp_connection_free(b) = [d EXCEPT !.evcon = Server!NoConnection, !.cur = 0]
  BY <1>1 DEF Server!evhttp_connection_free
<1>4. Server!NoConnection \in Cons /\ Server!NoConnection.live = FALSE
  BY DEF Server!NoConnection, Cons
<1>5. PICK c : c = Server!evhttp_connection_free(b)
  OBVIOUS
<1>6. c \in Bases /\ c.evcon = Server!NoConnection /\ c.cur = 0 /\ c.req = d.req
  BY <1>2, <1>3, <1>4, <1>5 DEF Bases
<1>7. Serving(c)
  BY <1>2, <1>4, <1>6, NoRequestZero DEF Serving
<1>8. QED BY <1>2, <1>5, <1>6, <1>7

\* The order of the natural numbers as a set of pairs.
LEMMA LessIsPairs == OpToRel(<, Nat) = {ss \in Nat \X Nat : ss[1] < ss[2]}
BY DEF OpToRel

\* A set of natural numbers has a least one.
LEMMA LeastExists ==
  ASSUME NEW S \in SUBSET Nat, S # {}
  PROVE  \E x \in S : \A y \in S : x <= y
<1> DEFINE Less == {ss \in Nat \X Nat : ss[1] < ss[2]}
<1>1. IsWellFoundedOn(Less, Nat)
  BY NatLessThanWellFounded, LessIsPairs
<1>2. PICK x \in S : \A y \in S : ~ (<<y, x>> \in Less)
  <2> HIDE DEF Less
  <2> QED BY <1>1, WFMin
<1>3. ASSUME NEW y \in S
      PROVE  x <= y
  <2>1. x \in Nat /\ y \in Nat
    OBVIOUS
  <2>2. y < x => <<y, x>> \in Less
    BY <2>1
  <2>3. QED BY <2>1, <2>2, <1>3, <1>2
<1>4. QED BY <1>3

\* The next request: the least that is new.
LEMMA NextRequest ==
  ASSUME NEW b \in Bases, Server!New(b) # {}
  PROVE  LET q == CHOOSE q \in Server!New(b) : \A r \in Server!New(b) : q <= r
         IN  q \in Incoming /\ b.req[q] = "new"
<1>1. Server!New(b) \subseteq Nat
  BY HttpAssumption DEF Server!New
<1>2. \E q \in Server!New(b) : \A r \in Server!New(b) : q <= r
  BY <1>1, LeastExists
<1>3. QED BY <1>2 DEF Server!New

\* The next request is read, or the connection ends with the last.
LEMMA AssociateServes ==
  ASSUME NEW b \in Bases, b.evcon.live, \A q \in Incoming : b.req[q] \notin Open,
         b.cur = 0 \/ b.req[b.cur] = "gone"
  PROVE  LET c == Server!evhttp_associate_new_request_with_connection(b)
         IN  /\ Serving(c) /\ Others(b, c)
             /\ \A q \in Incoming : b.req[q] \in Server!Held => c.req[q] = b.req[q]
<1>1. PICK c : c = Server!evhttp_associate_new_request_with_connection(b)
  OBVIOUS
<1>2. CASE Server!New(b) = {}
  <2>1. c = Server!evhttp_connection_free(b)
    BY <1>1, <1>2 DEF Server!evhttp_associate_new_request_with_connection
  <2>2. Serving(c) /\ \A q \in Incoming : q # b.cur => c.req[q] = b.req[q]
    BY <2>1, FreeServes
  <2>3. \A q \in Incoming : b.req[q] \in Server!Held => q # b.cur
    BY NoRequestZero DEF Server!Held
  <2>4. QED BY <1>1, <2>2, <2>3 DEF Others
<1>3. CASE Server!New(b) # {}
  <2>1. PICK q \in Incoming :
          /\ b.req[q] = "new"
          /\ c = Server!evhttp_start_read_([b EXCEPT !.cur = q, !.req[q] = "reading"])
    BY <1>1, <1>3, NextRequest DEF Server!evhttp_associate_new_request_with_connection
  <2> DEFINE r == [b.req EXCEPT ![q] = "reading"]
             e == [b.evcon EXCEPT !.state = "FIRSTLINE", !.wr = FALSE, !.rd = TRUE, !.readcb = TRUE,
                                  !.more = b.evcon.more \/ b.evcon.input]
  <2>2. c = [evcon |-> e, cur |-> q, req |-> r]
    BY <2>1 DEF Server!evhttp_start_read_, Bases
  <2>3. e \in Cons
    BY DEF Bases, Cons
  <2>4. /\ r \in [Incoming -> Open \cup {"new", "detached", "gone"}]
        /\ r[q] = "reading" /\ \A x \in Incoming : x # q => r[x] = b.req[x]
    BY DEF Bases, Open
  <2>5. /\ e.live /\ e.state = "FIRSTLINE" /\ ~e.wr /\ e.rd /\ e.readcb
        /\ (e.input => e.more)
    BY DEF Bases, Cons
  <2> HIDE DEF r, e
  <2>6. Expects(e, "reading")
    BY <2>5 DEF Expects, Server!Suits
  <2>7. c \in Bases /\ c.evcon = e /\ c.cur = q /\ c.req = r /\ q # 0 /\ "reading" \in Open
    BY <2>2, <2>3, <2>4, NoRequestZero DEF Bases, Open
  <2>8. Serving(c)
    BY <2>4, <2>5, <2>6, <2>7 DEF Serving
  <2>9. QED BY <1>1, <2>1, <2>4, <2>7, <2>8 DEF Others, Server!Held
<1>4. QED BY <1>2, <1>3

\* A whole answer goes out: nothing is read from now on.
LEMMA SendServes ==
  ASSUME NEW b, Busy(b), NEW what \in {"replying", "page"}
  PROVE  LET c == Server!evhttp_send(b, what) IN Handled(b, c) /\ c.req[b.cur] = what
<1>1. b \in Bases /\ b.evcon \in Cons /\ b.cur \in Incoming /\ b.cur # 0
      /\ b.req \in [Incoming -> Open \cup {"new", "detached", "gone"}]
  BY NoRequestZero DEF Busy, Bases
<1>2. PICK d : d = Server!Is(b, what)
  OBVIOUS
<1>3. /\ d \in Bases /\ d.evcon = b.evcon /\ d.cur = b.cur
      /\ d.req = [b.req EXCEPT ![b.cur] = what] /\ what \in Open
  BY <1>1, <1>2, IsFacts DEF Open
<1> DEFINE e == [b.evcon EXCEPT !.out = TRUE]
<1>4. PICK o \in Bases : /\ o = [Server!Is(b, what) EXCEPT !.evcon.out = TRUE]
                         /\ o.cur = b.cur /\ o.req = d.req /\ o.evcon = e
  <2>1. e \in Cons
    BY <1>1 DEF Cons
  <2>2. [d EXCEPT !.evcon.out = TRUE] = [d EXCEPT !.evcon = e]
    BY <1>3
  <2>3. QED BY <1>2, <1>3, <2>1, <2>2 DEF Bases
<1>5. PICK c : c = Server!evhttp_send(b, what)
  OBVIOUS
<1>6. /\ c \in Bases /\ c.cur = b.cur /\ c.req = d.req
      /\ c.evcon = [e EXCEPT !.cb = "done", !.readcb = FALSE, !.rd = TRUE, !.wr = TRUE]
  <2> HIDE DEF e
  <2>1. c = Server!evhttp_write_buffer(o, "done")
    BY <1>4, <1>5 DEF Server!evhttp_send
  <2>2. QED BY <1>4, <2>1, WriteBufferFacts
<1>7. /\ c.evcon.live /\ c.evcon.out /\ c.evcon.wr /\ ~c.evcon.readcb /\ c.evcon.cb = "done"
  BY <1>1, <1>6 DEF Cons, Busy
<1>8. c.req[b.cur] = what /\ \A q \in Incoming : q # b.cur => c.req[q] = b.req[q]
  BY <1>1, <1>3, <1>6
<1>9. Expects(c.evcon, what)
  BY <1>7 DEF Expects, Server!Suits
<1>10. Serving(c)
  BY <1>1, <1>3, <1>6, <1>7, <1>8, <1>9 DEF Serving, Busy
<1>11. QED BY <1>5, <1>8, <1>10 DEF Handled, Others

\* The parser works on a request.
Reads(b) ==
  /\ Busy(b) /\ b.req[b.cur] = "reading" /\ b.evcon.rd /\ b.evcon.readcb /\ ~b.evcon.more
  /\ (b.evcon.wr => b.evcon.out /\ b.evcon.cb = "continue")
\* What comes of it.
Parsed(b, S) == \A c \in S : Handled(b, c)

\* It waits for more of the input.
LEMMA WaitsParsed ==
  ASSUME NEW b, Reads(b), NEW s \in {"FIRSTLINE", "HEADERS", "BODY", "TRAILER"}
  PROVE  Parsed(b, Server!Waits(b, s))
<1> DEFINE e == [b.evcon EXCEPT !.state = s, !.input = FALSE]
           c == [b EXCEPT !.evcon = e]
<1>1. b \in Bases /\ b.evcon \in Cons
  BY DEF Reads, Busy, Bases
<1>2. Server!Waits(b, s) = {c}
  BY <1>1 DEF Server!Waits, Bases
<1>3. /\ e \in Cons /\ e.live = b.evcon.live /\ e.state = s /\ ~e.input
      /\ e.rd = b.evcon.rd /\ e.readcb = b.evcon.readcb /\ e.wr = b.evcon.wr
      /\ e.out = b.evcon.out /\ e.cb = b.evcon.cb /\ e.more = b.evcon.more
  BY <1>1 DEF Cons
<1> HIDE DEF e
<1>4. c \in Bases /\ c.evcon = e /\ c.cur = b.cur /\ c.req = b.req
  BY <1>1, <1>3 DEF Bases
<1> HIDE DEF c
<1>5. Expects(e, "reading")
  BY <1>3 DEF Expects, Server!Suits, Reads
<1>6. Serving(c)
  BY <1>3, <1>4, <1>5, NoRequestZero DEF Serving, Reads, Busy, Open
<1>7. QED BY <1>2, <1>4, <1>6 DEF Parsed, Handled, Others

\* A wrong request is answered with a page.
LEMMA WrongParsed ==
  ASSUME NEW b, Busy(b)
  PROVE  Parsed(b, Server!Wrong(b))
BY SendServes DEF Server!Wrong, Parsed

\* A request for the user, or one the server itself answers.
LEMMA HandleParsed ==
  ASSUME NEW b, Busy(b), ~b.evcon.more, b.evcon.wr => b.evcon.cb = "continue"
  PROVE  Parsed(b, Server!evhttp_handle_request(b))
<1> DEFINE e == [b.evcon EXCEPT !.rd = FALSE]
           quiet == [b EXCEPT !.evcon = e]
<1>1. b \in Bases /\ b.evcon \in Cons /\ b.cur # 0
  BY NoRequestZero DEF Busy, Bases
<1>2. Server!evhttp_handle_request(b) = {Server!evhttp_send(quiet, "page"), Server!Is(quiet, "user")}
  <2>1. quiet = [b EXCEPT !.evcon.rd = FALSE]
    BY <1>1 DEF Bases
  <2>2. QED BY <2>1 DEF Server!evhttp_handle_request
<1>3. /\ e \in Cons /\ e.live /\ ~e.rd /\ ~e.more /\ (e.wr => e.cb = "continue")
  BY <1>1 DEF Cons, Busy
<1> HIDE DEF e
<1>4. quiet \in Bases /\ quiet.evcon = e /\ quiet.cur = b.cur /\ quiet.req = b.req
  BY <1>1, <1>3 DEF Bases
<1> HIDE DEF quiet
<1>5. Busy(quiet)
  BY <1>3, <1>4 DEF Busy
<1>6. Handled(b, Server!evhttp_send(quiet, "page"))
  BY <1>4, <1>5, SendServes DEF Handled, Others
<1>7. Handled(b, Server!Is(quiet, "user"))
  <2>1. PICK c : c = Server!Is(quiet, "user")
    OBVIOUS
  <2>2. c \in Bases /\ c.evcon = e /\ c.cur = b.cur /\ c.req = [b.req EXCEPT ![b.cur] = "user"]
    <3>1. "user" \in Open \cup {"new", "detached", "gone"} /\ quiet.cur # 0
      BY <1>1, <1>4 DEF Open
    <3>2. QED BY <1>4, <2>1, <3>1, IsFacts
  <2>3. c.req[b.cur] = "user" /\ \A q \in Incoming : q # b.cur => c.req[q] = b.req[q]
    BY <1>1, <2>2 DEF Busy, Bases
  <2>4. Expects(e, "user") /\ "user" \in Open
    BY <1>3 DEF Expects, Server!Suits, Open
  <2>5. Serving(c)
    BY <1>1, <1>3, <2>2, <2>3, <2>4 DEF Serving, Busy
  <2>6. QED BY <2>1, <2>3, <2>5 DEF Handled, Others
<1>8. QED BY <1>2, <1>6, <1>7 DEF Parsed

\* A request is complete, whatever of the input is left.
LEMMA DoneParsed ==
  ASSUME NEW b, Reads(b)
  PROVE  Parsed(b, Server!evhttp_connection_done(b))
<1>1. b \in Bases /\ b.evcon \in Cons
  BY DEF Reads, Busy, Bases
<1>2. ASSUME NEW rest \in BOOLEAN
      PROVE  Parsed(b, Server!evhttp_handle_request([b EXCEPT !.evcon.state = "WRITING", !.evcon.input = rest]))
  <2> DEFINE e == [b.evcon EXCEPT !.state = "WRITING", !.input = rest]
  <2>1. PICK d : d = [b EXCEPT !.evcon.state = "WRITING", !.evcon.input = rest]
    OBVIOUS
  <2>2. /\ e \in Cons /\ e.live = b.evcon.live /\ e.more = b.evcon.more
        /\ e.wr = b.evcon.wr /\ e.cb = b.evcon.cb
    BY <1>1 DEF Cons
  <2>3. d = [b EXCEPT !.evcon = e]
    BY <1>1, <2>1 DEF Bases
  <2> HIDE DEF e
  <2>4. d \in Bases /\ d.evcon = e /\ d.cur = b.cur /\ d.req = b.req
    BY <1>1, <2>2, <2>3 DEF Bases
  <2>5. Busy(d) /\ ~d.evcon.more /\ (d.evcon.wr => d.evcon.cb = "continue")
    BY <2>2, <2>4 DEF Reads, Busy
  <2>6. Parsed(d, Server!evhttp_handle_request(d))
    BY <2>5, HandleParsed
  <2>7. QED BY <2>1, <2>4, <2>6 DEF Parsed, Handled, Others
<1>3. QED BY <1>2 DEF Server!evhttp_connection_done, Parsed

\* The client is told to go on.
LEMMA ContinueParsed ==
  ASSUME NEW b, Reads(b)
  PROVE  Handled(b, [Server!evhttp_send_continue(b) EXCEPT !.evcon.state = "BODY", !.evcon.input = FALSE])
<1> DEFINE e == [b.evcon EXCEPT !.wr = TRUE, !.out = TRUE, !.cb = "continue", !.readcb = TRUE,
                               !.state = "BODY", !.input = FALSE]
           c == [b EXCEPT !.evcon = e]
<1>1. b \in Bases /\ b.evcon \in Cons
  BY DEF Reads, Busy, Bases
<1>2. [Server!evhttp_send_continue(b) EXCEPT !.evcon.state = "BODY", !.evcon.input = FALSE] = c
  BY <1>1 DEF Server!evhttp_send_continue, Bases
<1>3. /\ e \in Cons /\ e.live = b.evcon.live /\ e.state = "BODY" /\ ~e.input
      /\ e.rd = b.evcon.rd /\ e.readcb /\ e.wr /\ e.out /\ e.cb = "continue"
  BY <1>1 DEF Cons
<1> HIDE DEF e
<1>4. c \in Bases /\ c.evcon = e /\ c.cur = b.cur /\ c.req = b.req
  BY <1>1, <1>3 DEF Bases
<1> HIDE DEF c
<1>5. Expects(e, "reading")
  BY <1>3 DEF Expects, Server!Suits, Reads
<1>6. Serving(c)
  BY <1>3, <1>4, <1>5, NoRequestZero DEF Serving, Reads, Busy, Open
<1>7. QED BY <1>2, <1>4, <1>6 DEF Handled, Others

\* From each of its states on the parser leaves a base as it should be.
LEMMA ReadParsed ==
  ASSUME NEW b, Reads(b), b.evcon.state \in {"FIRSTLINE", "HEADERS", "BODY", "TRAILER"}
  PROVE  Parsed(b, Server!evhttp_read_cb(b))
<1>1. Busy(b)
  BY DEF Reads
<1>2. Parsed(b, Server!evhttp_read_trailer(b))
  BY <1>1, WaitsParsed, WrongParsed, DoneParsed DEF Parsed, Server!evhttp_read_trailer
<1>3. Parsed(b, Server!evhttp_lingering_fail(b))
  BY <1>1, WaitsParsed, WrongParsed DEF Parsed, Server!evhttp_lingering_fail
<1>4. Parsed(b, Server!evhttp_read_body(b))
  BY <1>1, <1>2, <1>3, WaitsParsed, WrongParsed, DoneParsed DEF Parsed, Server!evhttp_read_body
<1>5. Parsed(b, Server!evhttp_get_body(b))
  BY <1>1, <1>3, <1>4, WrongParsed, DoneParsed, ContinueParsed DEF Parsed, Server!evhttp_get_body
<1>6. Parsed(b, Server!evhttp_read_header(b))
  BY <1>1, <1>5, WaitsParsed, WrongParsed DEF Parsed, Server!evhttp_read_header
<1>7. Parsed(b, Server!evhttp_read_firstline(b))
  BY <1>1, <1>6, WaitsParsed, WrongParsed DEF Parsed, Server!evhttp_read_firstline
<1>8. b = [b EXCEPT !.evcon.more = FALSE]
  BY <1>1 DEF Reads, Busy, Bases, Cons
<1>9. QED BY <1>2, <1>4, <1>6, <1>7, <1>8 DEF Server!evhttp_read_cb

--------------------------------------------------------------------------------
\* The base of the connection that is there.
ServerInv == Serving(Server!Base)
\* A step: the base stays as it should be, and a request the user holds is not freed.
Kept == ServerInv' /\ Server!HeldStays

\* What a step becomes.
LEMMA BecomesFacts ==
  ASSUME NEW b, Server!Becomes(b), Serving(b)
  PROVE  ServerInv' /\ evcon' = b.evcon /\ cur' = b.cur /\ req' = b.req
<1>1. Server!Base' = b
  BY DEF Server!Becomes, Server!Base, Serving, Bases
<1>2. QED BY <1>1 DEF Server!Becomes, ServerInv, Serving

\* The base in short.
LEMMA BaseFacts ==
  ASSUME ServerInv
  PROVE  /\ Server!Base.evcon = evcon /\ Server!Base.cur = cur /\ Server!Base.req = req
         /\ Server!Base \in Bases /\ evcon \in Cons /\ cur \in Incoming \cup {0}
         /\ req \in [Incoming -> Open \cup {"new", "detached", "gone"}]
         /\ (evcon.live <=> cur # 0) /\ (evcon.live \/ evcon = Server!NoConnection)
         /\ \A q \in Incoming : (req[q] \in Open <=> q = cur)
         /\ (evcon.live => Expects(evcon, req[cur]))
<1>1. Server!Base.evcon = evcon /\ Server!Base.cur = cur /\ Server!Base.req = req
  BY DEF Server!Base
<1>2. QED BY <1>1 DEF ServerInv, Serving, Bases

\* Only the request of the connection may have been freed.
LEMMA OthersHeld ==
  ASSUME ServerInv, NEW b \in Bases, b.cur = cur, b.req = req, NEW c, Handled(b, c), Server!Becomes(c),
         req[cur] \notin Server!Held \/ c.req[cur] # "gone" \/ (req[cur] = "part" /\ ~evcon.out)
  PROVE  Kept
<1>1. ServerInv' /\ req' = c.req
  BY BecomesFacts DEF Handled
<1>2. ASSUME NEW q \in Incoming, req[q] \in Server!Held, req'[q] = "gone"
      PROVE  req[q] = "detached" \/ (req[q] = "part" /\ ~evcon.out)
  <2>1. CASE q = cur
    BY <1>1, <1>2, <2>1
  <2>2. CASE q # cur
    BY <1>1, <1>2, <2>2 DEF Handled, Others, Server!Held
  <2>3. QED BY <2>1, <2>2
<1>3. QED BY <1>1, <1>2 DEF Kept, Server!HeldStays

\* A client connects.
LEMMA GetRequestKept ==
  ASSUME ServerInv, Server!evhttp_get_request
  PROVE  Kept
<1> DEFINE e == [evcon EXCEPT !.live = TRUE]
           b == [Server!Base EXCEPT !.evcon = e]
<1>1. ~evcon.live /\ cur = 0 /\ evcon \in Cons
  BY BaseFacts DEF Server!evhttp_get_request
<1>2. b = [Server!Base EXCEPT !.evcon.live = TRUE]
  BY BaseFacts
<1>3. e \in Cons /\ e.live
  BY <1>1 DEF Cons
<1>4. b \in Bases /\ b.evcon = e /\ b.cur = 0 /\ b.req = req
  BY <1>1, <1>3, BaseFacts DEF Bases
<1>5. Server!Becomes(Server!evhttp_associate_new_request_with_connection(b))
  BY <1>2 DEF Server!evhttp_get_request
<1> HIDE DEF e, b
<1>6. \A q \in Incoming : b.req[q] \notin Open
  BY <1>1, <1>4, BaseFacts, NoRequestZero
<1>7. PICK c : c = Server!evhttp_associate_new_request_with_connection(b)
  OBVIOUS
<1>8. Serving(c) /\ \A q \in Incoming : b.req[q] \in Server!Held => c.req[q] = b.req[q]
  BY <1>3, <1>4, <1>6, <1>7, AssociateServes
<1>9. ServerInv' /\ req' = c.req
  BY <1>5, <1>7, <1>8, BecomesFacts
<1>10. QED BY <1>4, <1>8, <1>9 DEF Kept, Server!HeldStays, Server!Held

\* The parser looks at the input of the request that is read.
LEMMA ReadKept ==
  ASSUME ServerInv, NEW b \in Bases, b.cur = cur, b.req = req,
         evcon.live, req[cur] = "reading",
         b.evcon.live, b.evcon.rd, b.evcon.readcb, b.evcon.state = evcon.state,
         b.evcon.wr => b.evcon.out /\ b.evcon.cb = "continue",
         Server!Some(Server!evhttp_read_cb(b))
  PROVE  Kept
<1> DEFINE e == [b.evcon EXCEPT !.more = FALSE]
           d == [b EXCEPT !.evcon = e]
<1>1. e \in Cons /\ d = [b EXCEPT !.evcon.more = FALSE]
  BY DEF Bases, Cons
<1>2. /\ d \in Bases /\ d.evcon = e /\ d.cur = cur /\ d.req = req
      /\ e.live /\ e.rd /\ e.readcb /\ ~e.more /\ e.state = evcon.state
      /\ (e.wr => e.out /\ e.cb = "continue")
  BY <1>1 DEF Bases, Cons
<1>3. d = [d EXCEPT !.evcon.more = FALSE]
  BY <1>2 DEF Bases, Cons
<1>4. Server!evhttp_read_cb(b) = Server!evhttp_read_cb(d)
  BY <1>1, <1>3 DEF Server!evhttp_read_cb
<1> HIDE DEF e, d
<1>5. Reads(d) /\ d.evcon.state \in {"FIRSTLINE", "HEADERS", "BODY", "TRAILER"}
  BY <1>2, BaseFacts DEF Reads, Busy, Expects
<1>6. PICK c \in Server!evhttp_read_cb(d) : Server!Becomes(c)
  BY <1>4 DEF Server!Some
<1>7. Handled(d, c)
  BY <1>5, <1>6, ReadParsed DEF Parsed
<1>8. QED BY <1>2, <1>6, <1>7, OthersHeld DEF Server!Held

\* The connection alone changes: its request stays what it is.
LEMMA ConnectionKept ==
  ASSUME ServerInv, evcon.live, NEW e \in Cons, e.live, Expects(e, req[cur]),
         Server!Becomes([Server!Base EXCEPT !.evcon = e])
  PROVE  Kept
<1>1. PICK c : c = [Server!Base EXCEPT !.evcon = e]
  OBVIOUS
<1>2. c \in Bases /\ c.evcon = e /\ c.cur = cur /\ c.req = req
  BY <1>1, BaseFacts DEF Bases
<1>3. Handled(Server!Base, c)
  BY <1>2, BaseFacts DEF Handled, Others, Serving
<1>4. "gone" \notin Server!Held
  BY DEF Server!Held
<1>5. QED BY <1>1, <1>2, <1>3, <1>4, BaseFacts, OthersHeld

\* The client has sent something.
LEMMA ReadableKept ==
  ASSUME ServerInv, Server!Readable
  PROVE  Kept
<1> DEFINE e == [evcon EXCEPT !.input = TRUE]
           b == [Server!Base EXCEPT !.evcon = e]
<1>1. evcon.rd /\ evcon \in Cons /\ evcon.live /\ b = [Server!Base EXCEPT !.evcon.input = TRUE]
  <2>1. evcon.rd
    BY DEF Server!Readable
  <2>2. evcon \in Cons /\ evcon.live
    BY <2>1, BaseFacts DEF Server!NoConnection
  <2>3. b = [Server!Base EXCEPT !.evcon.input = TRUE]
    BY BaseFacts
  <2>4. QED BY <2>1, <2>2, <2>3
<1>2. /\ e \in Cons /\ e.live /\ e.state = evcon.state /\ e.rd /\ e.readcb = evcon.readcb
      /\ e.wr = evcon.wr /\ e.out = evcon.out /\ e.cb = evcon.cb /\ e.more = evcon.more
  BY <1>1 DEF Cons
<1>3. b \in Bases /\ b.evcon = e /\ b.cur = cur /\ b.req = req
  BY <1>2, BaseFacts DEF Bases
<1>4. IF evcon.readcb THEN Server!Some(Server!evhttp_read_cb(b)) ELSE Server!Becomes(b)
  BY <1>1 DEF Server!Readable
<1>5. req[cur] \in Open /\ Expects(evcon, req[cur])
  BY <1>1, BaseFacts
<1>6. CASE evcon.readcb
  <2>1. req[cur] = "reading"
    BY <1>1, <1>5, <1>6 DEF Open, Expects, Server!Suits
  <2>2. evcon.wr => (evcon.out /\ evcon.cb = "continue")
    BY <1>5, <2>1 DEF Expects, Server!Suits
  <2> HIDE DEF e, b
  <2>3. QED BY <1>1, <1>2, <1>3, <1>4, <1>6, <2>1, <2>2, ReadKept
<1>7. CASE ~evcon.readcb
  <2> HIDE DEF e
  <2>1. Expects(e, req[cur])
    BY <1>1, <1>2, <1>5, <1>7 DEF Expects, Server!Suits
  <2>2. Server!Becomes([Server!Base EXCEPT !.evcon = e])
    BY <1>4, <1>7
  <2>3. QED BY <1>1, <1>2, <2>1, <2>2, ConnectionKept
<1>8. QED BY <1>6, <1>7

\* What was in the input is looked at.
LEMMA DeferredReadKept ==
  ASSUME ServerInv, Server!evhttp_deferred_read_cb
  PROVE  Kept
<1> DEFINE e == [evcon EXCEPT !.more = FALSE]
           b == [Server!Base EXCEPT !.evcon = e]
<1>1. evcon.more /\ evcon \in Cons /\ evcon.live /\ b = [Server!Base EXCEPT !.evcon.more = FALSE]
  <2>1. evcon.more
    BY DEF Server!evhttp_deferred_read_cb
  <2>2. evcon \in Cons /\ evcon.live
    BY <2>1, BaseFacts DEF Server!NoConnection
  <2>3. b = [Server!Base EXCEPT !.evcon.more = FALSE]
    BY BaseFacts
  <2>4. QED BY <2>1, <2>2, <2>3
<1>2. /\ e \in Cons /\ e.live /\ e.state = evcon.state /\ e.rd = evcon.rd /\ e.readcb = evcon.readcb
      /\ e.wr = evcon.wr /\ e.out = evcon.out /\ e.cb = evcon.cb /\ ~e.more
  BY <1>1 DEF Cons
<1>3. b \in Bases /\ b.evcon = e /\ b.cur = cur /\ b.req = req
  BY <1>2, BaseFacts DEF Bases
<1>4. IF evcon.readcb THEN Server!Some(Server!evhttp_read_cb(b)) ELSE Server!Becomes(b)
  BY <1>1 DEF Server!evhttp_deferred_read_cb
<1>5. req[cur] \in Open /\ Expects(evcon, req[cur])
  BY <1>1, BaseFacts
<1>6. CASE evcon.readcb
  <2>1. req[cur] = "reading"
    BY <1>1, <1>5, <1>6 DEF Open, Expects, Server!Suits
  <2>2. evcon.rd /\ (evcon.wr => (evcon.out /\ evcon.cb = "continue"))
    BY <1>5, <2>1 DEF Expects, Server!Suits
  <2> HIDE DEF e, b
  <2>3. QED BY <1>1, <1>2, <1>3, <1>4, <1>6, <2>1, <2>2, ReadKept
<1>7. CASE ~evcon.readcb
  <2> HIDE DEF e
  <2>1. Expects(e, req[cur])
    BY <1>1, <1>2, <1>5, <1>7 DEF Expects, Server!Suits
  <2>2. Server!Becomes([Server!Base EXCEPT !.evcon = e])
    BY <1>4, <1>7
  <2>3. QED BY <1>1, <1>2, <2>1, <2>2, ConnectionKept
<1>8. QED BY <1>6, <1>7

\* A complete answer is written: the connection ends or the next request is read.
LEMMA SendDoneServes ==
  ASSUME NEW b, Busy(b), NEW c \in Server!evhttp_send_done(b)
  PROVE  Handled(b, c)
<1>1. b \in Bases /\ b.cur # 0 /\ "gone" \notin Open
  BY NoRequestZero DEF Busy, Open
<1>2. PICK d \in Bases : /\ d = Server!Is(b, "gone") /\ d.evcon = b.evcon /\ d.cur = b.cur
                        /\ d.req = [b.req EXCEPT ![b.cur] = "gone"]
  BY <1>1, IsFacts
<1>3. /\ d.evcon.live /\ d.req[d.cur] = "gone"
      /\ \A q \in Incoming : d.req[q] \notin Open
      /\ \A q \in Incoming : q # b.cur => d.req[q] = b.req[q]
  BY <1>1, <1>2 DEF Busy, Bases
<1>4. Handled(b, Server!evhttp_connection_free(d))
  BY <1>2, <1>3, FreeServes DEF Handled, Others
<1>5. Handled(b, Server!evhttp_associate_new_request_with_connection(d))
  <2>1. PICK x : x = Server!evhttp_associate_new_request_with_connection(d)
    OBVIOUS
  <2>2. Serving(x) /\ Others(d, x)
    BY <1>3, <2>1, AssociateServes
  <2>3. QED BY <1>2, <1>3, <2>1, <2>2 DEF Handled, Others
<1>6. QED BY <1>2, <1>4, <1>5 DEF Server!evhttp_send_done

\* All of the output is written.
LEMMA WrittenKept ==
  ASSUME ServerInv, Server!Written
  PROVE  Kept
<1> DEFINE e == [evcon EXCEPT !.out = FALSE]
           b == [Server!Base EXCEPT !.evcon = e]
<1>1. evcon.wr /\ evcon.out /\ evcon \in Cons /\ evcon.live /\ b = [Server!Base EXCEPT !.evcon.out = FALSE]
  <2>1. evcon.wr /\ evcon.out
    BY DEF Server!Written
  <2>2. evcon \in Cons /\ evcon.live
    BY <2>1, BaseFacts DEF Server!NoConnection
  <2>3. b = [Server!Base EXCEPT !.evcon.out = FALSE]
    BY BaseFacts
  <2>4. QED BY <2>1, <2>2, <2>3
<1>2. /\ e \in Cons /\ e.live /\ e.state = evcon.state /\ e.rd = evcon.rd /\ e.readcb = evcon.readcb
      /\ e.wr = evcon.wr /\ ~e.out /\ e.cb = evcon.cb /\ e.more = evcon.more /\ e.input = evcon.input
  BY <1>1 DEF Cons
<1>3. b \in Bases /\ b.evcon = e /\ b.cur = cur /\ b.req = req
  BY <1>2, BaseFacts DEF Bases
<1>4. /\ req[cur] \in Open /\ Expects(evcon, req[cur]) /\ cur \in Incoming
      /\ \A q \in Incoming : (req[q] \in Open <=> q = cur)
  BY <1>1, BaseFacts
<1>5. \/ evcon.cb = "done" /\ Server!Some(Server!evhttp_send_done(b))
      \/ evcon.cb = "continue" /\ Server!Becomes([b EXCEPT !.evcon.wr = FALSE])
      \/ evcon.cb = "none" /\ Server!Becomes(b)
  BY <1>1 DEF Server!Written
<1>6. CASE evcon.cb = "done" /\ Server!Some(Server!evhttp_send_done(b))
  <2> HIDE DEF e, b
  <2>1. req[cur] \in {"replying", "page"}
    BY <1>1, <1>4, <1>6 DEF Open, Expects, Server!Suits
  <2>2. Busy(b)
    BY <1>2, <1>3, <1>4 DEF Busy
  <2>3. PICK c \in Server!evhttp_send_done(b) : Server!Becomes(c)
    BY <1>6 DEF Server!Some
  <2>4. Handled(b, c)
    BY <2>2, <2>3, SendDoneServes
  <2>5. QED BY <1>3, <2>1, <2>3, <2>4, OthersHeld DEF Server!Held
<1>7. CASE evcon.cb = "continue" /\ Server!Becomes([b EXCEPT !.evcon.wr = FALSE])
  <2> DEFINE f == [e EXCEPT !.wr = FALSE]
  <2>1. /\ f \in Cons /\ f.live /\ f.state = evcon.state /\ f.rd = evcon.rd /\ f.readcb = evcon.readcb
        /\ ~f.wr /\ f.cb = evcon.cb /\ f.more = evcon.more /\ f.input = evcon.input
    BY <1>1, <1>2 DEF Cons
  <2>2. [b EXCEPT !.evcon.wr = FALSE] = [Server!Base EXCEPT !.evcon = f]
    BY <1>3, BaseFacts DEF Bases
  <2> HIDE DEF e, f, b
  <2>3. Expects(f, req[cur])
    BY <1>4, <1>7, <2>1 DEF Open, Expects, Server!Suits
  <2>4. QED BY <1>1, <1>7, <2>1, <2>2, <2>3, ConnectionKept
<1>8. CASE evcon.cb = "none" /\ Server!Becomes(b)
  <2> HIDE DEF e
  <2>1. Expects(e, req[cur])
    BY <1>1, <1>2, <1>4, <1>8 DEF Open, Expects, Server!Suits
  <2>2. QED BY <1>1, <1>2, <1>8, <2>1, ConnectionKept
<1>9. QED BY <1>5, <1>6, <1>7, <1>8

\* The connection breaks: the user keeps a request it holds.
LEMMA BreaksKept ==
  ASSUME ServerInv, Server!Breaks
  PROVE  Kept
<1>1. evcon.live /\ cur \in Incoming /\ cur # 0 /\ "detached" \notin Open /\ "detached" \in Server!Held
  BY BaseFacts DEF Server!Breaks, Open, Server!Held
<1>2. CASE req[cur] \in Server!Held
  <2>1. PICK d \in Bases : /\ d = Server!Is(Server!Base, "detached")
                          /\ d.evcon = evcon /\ d.cur = cur /\ d.req = [req EXCEPT ![cur] = "detached"]
    <3>1. PICK b : b = Server!Base
      OBVIOUS
    <3>2. b \in Bases /\ b.evcon = evcon /\ b.cur = cur /\ b.req = req /\ b.cur # 0
      BY <1>1, <3>1, BaseFacts
    <3>3. "detached" \in Open \cup {"new", "detached", "gone"}
      OBVIOUS
    <3>4. QED BY <3>1, <3>2, <3>3, IsFacts
  <2>2. PICK b : b = [d EXCEPT !.cur = 0]
    OBVIOUS
  <2>3. b \in Bases /\ b.evcon = evcon /\ b.cur = 0 /\ b.req = d.req
    BY <2>1, <2>2 DEF Bases
  <2>4. b = Server!evhttp_connection_incoming_fail(Server!Base)
    BY <1>2, <2>1, <2>2, BaseFacts DEF Server!evhttp_connection_incoming_fail
  <2>5. \A q \in Incoming : b.req[q] \notin Open /\ b.req[q] = IF q = cur THEN "detached" ELSE req[q]
    BY <1>1, <2>1, <2>3, BaseFacts
  <2>6. PICK c : c = Server!evhttp_connection_free(b) /\ Server!Becomes(c)
    BY <2>4 DEF Server!Breaks, Server!Broken
  <2>7. Serving(c) /\ \A q \in Incoming : q # 0 => c.req[q] = b.req[q]
    BY <2>3, <2>5, <2>6, FreeServes
  <2>8. ServerInv' /\ req' = c.req
    BY <2>6, <2>7, BecomesFacts
  <2>9. \A q \in Incoming : req[q] \in Server!Held => req'[q] # "gone"
    BY <2>5, <2>7, <2>8, NoRequestZero DEF Server!Held
  <2>10. QED BY <2>8, <2>9 DEF Kept, Server!HeldStays
<1>3. CASE req[cur] \notin Server!Held
  <2>1. Server!Becomes(Server!evhttp_connection_free(Server!Base))
    BY <1>3, BaseFacts DEF Server!Breaks, Server!Broken, Server!evhttp_connection_incoming_fail
  <2>2. PICK c : c = Server!evhttp_connection_free(Server!Base)
    OBVIOUS
  <2>3. Handled(Server!Base, c)
    BY <2>2, BaseFacts, FreeServes DEF Handled, Others
  <2>4. QED BY <1>3, <2>1, <2>2, <2>3, BaseFacts, OthersHeld
<1>4. QED BY <1>2, <1>3

\* An answer to a connection that is gone.
LEMMA ForgetKept ==
  ASSUME ServerInv, NEW q \in Incoming, req[q] = "detached", Server!Forget(q)
  PROVE  Kept
<1>1. PICK b : b = [Server!Base EXCEPT !.req[q] = "gone"]
  OBVIOUS
<1>2. b.evcon = evcon /\ b.cur = cur /\ b.req = [req EXCEPT ![q] = "gone"] /\ b \in Bases
  BY <1>1, BaseFacts DEF Bases
<1>3. cur # q /\ "gone" \notin Open /\ "detached" \notin Open
  BY BaseFacts DEF Open
<1>4. /\ \A x \in Incoming : (b.req[x] \in Open <=> x = b.cur)
      /\ (evcon.live => b.req[cur] = req[cur])
  BY <1>2, <1>3, BaseFacts
<1>5. Serving(b)
  BY <1>2, <1>4, BaseFacts DEF Serving
<1>6. ServerInv' /\ req' = [req EXCEPT ![q] = "gone"]
  BY <1>1, <1>2, <1>5, BecomesFacts DEF Server!Forget
<1>7. QED BY <1>6, BaseFacts DEF Kept, Server!HeldStays, Server!Held

\* A request that is read or answered is the one of the connection.
LEMMA AnswerFacts ==
  ASSUME ServerInv, NEW q \in Incoming, req[q] \in Open
  PROVE  q = cur /\ cur # 0 /\ evcon.live /\ Busy(Server!Base) /\ Expects(evcon, req[q])
<1>1. q = cur /\ evcon.live /\ Expects(evcon, req[q])
  BY BaseFacts, NoRequestZero
<1>2. \A x \in Incoming : (x # cur => req[x] \notin Open)
  BY BaseFacts
<1>3. Busy(Server!Base)
  BY <1>1, <1>2, BaseFacts DEF Busy
<1>4. QED BY <1>1, <1>3, NoRequestZero

\* Its request goes on, and the connection as it has to for that.
LEMMA AnswerServes ==
  ASSUME NEW b, Busy(b), NEW what \in Open, NEW c \in Bases, c.cur = b.cur,
         c.req[b.cur] = what, \A q \in Incoming : q # b.cur => c.req[q] = b.req[q],
         c.evcon.live, Expects(c.evcon, what)
  PROVE  Handled(b, c)
<1>1. b \in Bases /\ b.cur # 0 /\ b.cur \in Incoming
  BY NoRequestZero DEF Busy
<1>2. Serving(c)
  BY <1>1 DEF Serving, Busy
<1>3. QED BY <1>2 DEF Handled, Others

\* The whole answer at once.
LEMMA SendReplyKept ==
  ASSUME ServerInv, NEW q \in Incoming, Server!evhttp_send_reply(q)
  PROVE  Kept
<1>1. CASE req[q] = "user" /\ Server!Becomes(Server!evhttp_send(Server!Base, "replying"))
  <2>1. q = cur /\ Busy(Server!Base)
    BY <1>1, AnswerFacts DEF Open
  <2>2. PICK c : c = Server!evhttp_send(Server!Base, "replying")
    OBVIOUS
  <2>3. Handled(Server!Base, c) /\ c.req[cur] = "replying"
    BY <2>1, <2>2, SendServes, BaseFacts
  <2>4. QED BY <1>1, <2>2, <2>3, BaseFacts, OthersHeld
<1>2. CASE req[q] = "detached" /\ Server!Forget(q)
  BY <1>2, ForgetKept
<1>3. QED BY <1>1, <1>2 DEF Server!evhttp_send_reply

\* What is written of an answer in parts.
LEMMA PartKept ==
  ASSUME ServerInv, NEW what \in {"part", "chunked"}, NEW d \in Bases, Busy(Server!Base),
         d.evcon = evcon, d.cur = cur, d.req = [req EXCEPT ![cur] = what],
         Server!Becomes(Server!evhttp_write_buffer([d EXCEPT !.evcon.out = TRUE], "none"))
  PROVE  Kept
<1> DEFINE e == [evcon EXCEPT !.out = TRUE]
           o == [d EXCEPT !.evcon = e]
<1>1. e \in Cons /\ e.live /\ cur \in Incoming
  BY BaseFacts DEF Cons, Busy
<1>2. o = [d EXCEPT !.evcon.out = TRUE]
  OBVIOUS
<1>3. o \in Bases /\ o.evcon = e /\ o.cur = cur /\ o.req = d.req
  BY <1>1 DEF Bases
<1> HIDE DEF e, o
<1>4. PICK c : c = Server!evhttp_write_buffer(o, "none")
  OBVIOUS
<1>5. /\ c \in Bases /\ c.cur = cur /\ c.req = d.req
      /\ c.evcon = [e EXCEPT !.cb = "none", !.readcb = FALSE, !.rd = TRUE, !.wr = TRUE]
  BY <1>3, <1>4, WriteBufferFacts
<1>6. c.evcon.live /\ c.evcon.wr /\ ~c.evcon.readcb /\ c.evcon.cb = "none"
  BY <1>1, <1>5 DEF Cons
<1>7. Expects(c.evcon, what) /\ what \in Open
  BY <1>6 DEF Expects, Server!Suits, Open
<1>8. Handled(Server!Base, c) /\ c.req[cur] = what
  <2>1. PICK b : b = Server!Base
    OBVIOUS
  <2>2. Busy(b) /\ b.cur = cur /\ b.req = req
    BY <2>1, BaseFacts
  <2>3. c.req[b.cur] = what /\ \A q \in Incoming : q # b.cur => c.req[q] = b.req[q]
    BY <1>1, <1>5, <2>2, BaseFacts
  <2>4. c \in Bases /\ c.cur = b.cur
    BY <1>5, <2>2
  <2>5. Handled(b, c)
    BY <1>6, <1>7, <2>2, <2>3, <2>4, AnswerServes
  <2>6. QED BY <2>1, <2>2, <2>3, <2>5
<1>9. Server!Becomes(c)
  BY <1>2, <1>4
<1>10. QED BY <1>8, <1>9, BaseFacts, OthersHeld

\* An answer in parts is begun.
LEMMA SendReplyStartKept ==
  ASSUME ServerInv, NEW q \in Incoming, Server!evhttp_send_reply_start(q)
  PROVE  Kept
<1>1. q = cur /\ cur # 0 /\ Busy(Server!Base)
  BY AnswerFacts DEF Server!evhttp_send_reply_start, Open
<1>2. PICK what \in {"part", "chunked"} :
        Server!Becomes(Server!evhttp_write_buffer(
          [Server!Is(Server!Base, what) EXCEPT !.evcon.out = TRUE], "none"))
  BY DEF Server!evhttp_send_reply_start
<1>3. PICK d : d = Server!Is(Server!Base, what)
  OBVIOUS
<1>4. d \in Bases /\ d.evcon = evcon /\ d.cur = cur /\ d.req = [req EXCEPT ![cur] = what]
  <2>1. PICK b : b = Server!Base
    OBVIOUS
  <2>2. b \in Bases /\ b.evcon = evcon /\ b.cur = cur /\ b.req = req /\ b.cur # 0
    BY <1>1, <2>1, BaseFacts
  <2>3. what \in Open \cup {"new", "detached", "gone"}
    BY DEF Open
  <2>4. QED BY <1>3, <2>1, <2>2, <2>3, IsFacts
<1>5. QED BY <1>1, <1>2, <1>3, <1>4, PartKept

\* And goes on.
LEMMA SendReplyChunkKept ==
  ASSUME ServerInv, NEW q \in Incoming, Server!evhttp_send_reply_chunk(q)
  PROVE  Kept
<1>1. q = cur /\ cur # 0 /\ Busy(Server!Base) /\ req[cur] \in {"part", "chunked"}
  BY AnswerFacts DEF Server!evhttp_send_reply_chunk, Open
<1>2. Server!Becomes(Server!evhttp_write_buffer([Server!Base EXCEPT !.evcon.out = TRUE], "none"))
  BY DEF Server!evhttp_send_reply_chunk
<1>3. req = [req EXCEPT ![cur] = req[cur]]
  BY BaseFacts
<1>4. PICK d : d = Server!Base
  OBVIOUS
<1>5. d \in Bases /\ d.evcon = evcon /\ d.cur = cur /\ d.req = [req EXCEPT ![cur] = req[cur]]
  BY <1>3, <1>4, BaseFacts
<1>6. QED BY <1>1, <1>2, <1>4, <1>5, PartKept

\* And ends.
LEMMA SendReplyEndKept ==
  ASSUME ServerInv, NEW q \in Incoming, Server!evhttp_send_reply_end(q)
  PROVE  Kept
<1>1. CASE req[q] = "chunked" /\ Server!Becomes(Server!evhttp_send(Server!Base, "replying"))
  <2>1. q = cur /\ Busy(Server!Base)
    BY <1>1, AnswerFacts DEF Open
  <2>2. PICK c : c = Server!evhttp_send(Server!Base, "replying")
    OBVIOUS
  <2>3. Handled(Server!Base, c) /\ c.req[cur] = "replying"
    BY <2>1, <2>2, SendServes, BaseFacts
  <2>4. QED BY <1>1, <2>2, <2>3, BaseFacts, OthersHeld
<1>2. ASSUME req[q] = "part"
      PROVE  /\ q = cur /\ Busy(Server!Base) /\ evcon.wr /\ ~evcon.readcb
             /\ Server!Is(Server!Base, "replying") \in Bases
             /\ Server!Is(Server!Base, "replying").evcon = evcon
             /\ Server!Is(Server!Base, "replying").cur = cur
             /\ Server!Is(Server!Base, "replying").req = [req EXCEPT ![cur] = "replying"]
  <2>1. q = cur /\ cur # 0 /\ Busy(Server!Base) /\ Expects(evcon, "part")
    BY <1>2, AnswerFacts DEF Open
  <2>2. evcon.wr /\ ~evcon.readcb
    BY <2>1 DEF Expects, Server!Suits
  <2>3. PICK b : b = Server!Base
    OBVIOUS
  <2>4. b \in Bases /\ b.evcon = evcon /\ b.cur = cur /\ b.req = req /\ b.cur # 0
    BY <2>1, <2>3, BaseFacts
  <2>5. "replying" \in Open \cup {"new", "detached", "gone"}
    BY DEF Open
  <2>6. QED BY <2>1, <2>2, <2>3, <2>4, <2>5, IsFacts
<1>3. CASE req[q] = "part" /\ evcon.out /\ Server!Becomes([Server!Is(Server!Base, "replying") EXCEPT !.evcon.cb = "done"])
  <2> DEFINE e == [evcon EXCEPT !.cb = "done"]
  <2>1. PICK d \in Bases : /\ d = Server!Is(Server!Base, "replying")
                          /\ d.evcon = evcon /\ d.cur = cur /\ d.req = [req EXCEPT ![cur] = "replying"]
    BY <1>2, <1>3
  <2>2. Busy(Server!Base) /\ evcon.wr /\ ~evcon.readcb /\ evcon \in Cons /\ evcon.live
    BY <1>2, <1>3, BaseFacts DEF Busy
  <2>3. /\ e \in Cons /\ e.live /\ e.wr /\ e.out /\ ~e.readcb /\ e.cb = "done"
    BY <1>3, <2>2 DEF Cons
  <2>4. PICK c : c = [d EXCEPT !.evcon.cb = "done"]
    OBVIOUS
  <2>5. c = [d EXCEPT !.evcon = e]
    BY <2>1, <2>4
  <2> HIDE DEF e
  <2>6. c \in Bases /\ c.evcon = e /\ c.cur = cur /\ c.req = d.req
    BY <2>1, <2>3, <2>5 DEF Bases
  <2>7. Expects(e, "replying") /\ "replying" \in Open
    BY <2>3 DEF Expects, Server!Suits, Open
  <2>8. Handled(Server!Base, c) /\ c.req[cur] = "replying"
    <3>1. PICK b : b = Server!Base
      OBVIOUS
    <3>2. Busy(b) /\ b.cur = cur /\ b.req = req
      BY <2>2, <3>1, BaseFacts
    <3>3. cur \in Incoming /\ c.req = [req EXCEPT ![cur] = "replying"]
      BY <2>1, <2>2, <2>6, BaseFacts DEF Busy
    <3>4. c.req[b.cur] = "replying" /\ \A x \in Incoming : x # b.cur => c.req[x] = b.req[x]
      BY <3>2, <3>3, BaseFacts
    <3>5. Handled(b, c)
      BY <2>3, <2>6, <2>7, <3>2, <3>4, AnswerServes
    <3>6. QED BY <3>1, <3>2, <3>4, <3>5
  <2>9. QED BY <1>3, <2>1, <2>4, <2>8, BaseFacts, OthersHeld
<1>4. CASE req[q] = "part" /\ ~evcon.out /\ Server!Some(Server!evhttp_send_done(Server!Is(Server!Base, "replying")))
  <2>1. PICK d \in Bases : /\ d = Server!Is(Server!Base, "replying")
                          /\ d.evcon = evcon /\ d.cur = cur /\ d.req = [req EXCEPT ![cur] = "replying"]
    BY <1>2, <1>4
  <2>2. q = cur /\ Busy(Server!Base)
    BY <1>2, <1>4
  <2>3. \A x \in Incoming : x # cur => d.req[x] = req[x]
    BY <2>1, BaseFacts
  <2>4. Busy(d)
    BY <2>1, <2>2, <2>3, BaseFacts DEF Busy
  <2>5. PICK c \in Server!evhttp_send_done(d) : Server!Becomes(c)
    BY <1>4, <2>1 DEF Server!Some
  <2>6. Handled(d, c)
    BY <2>4, <2>5, SendDoneServes
  <2>7. Handled(Server!Base, c)
    BY <2>1, <2>3, <2>6, BaseFacts DEF Handled, Others
  <2>8. QED BY <1>4, <2>2, <2>5, <2>7, BaseFacts, OthersHeld
<1>5. CASE req[q] = "detached" /\ Server!Forget(q)
  BY <1>5, ForgetKept
<1>6. QED BY <1>1, <1>3, <1>4, <1>5 DEF Server!evhttp_send_reply_end

\* The evhttp is freed, when no request is with the user.
LEMMA HttpFreeKept ==
  ASSUME ServerInv, Server!evhttp_free
  PROVE  Kept
<1>1. PICK c : c = Server!evhttp_connection_free(Server!Base)
  OBVIOUS
<1>2. Serving(c)
  BY <1>1, BaseFacts, FreeServes
<1>3. evcon' = c.evcon /\ cur' = c.cur /\ req' = c.req
  BY <1>1 DEF Server!evhttp_free
<1>4. Server!Base' = c
  BY <1>2, <1>3 DEF Server!Base, Serving, Bases
<1>5. \A q \in Incoming : req[q] \notin Server!Held
  BY DEF Server!evhttp_free
<1>6. QED BY <1>2, <1>4, <1>5 DEF Kept, ServerInv, Server!HeldStays

\* The server begins without a connection.
LEMMA ServerInit ==
  ASSUME Server!Init
  PROVE  ServerInv
<1>1. /\ Server!Base.evcon = Server!NoConnection /\ Server!Base.cur = 0
      /\ Server!Base.req = [q \in Incoming |-> "new"]
      /\ Server!Base = [evcon |-> Server!NoConnection, cur |-> 0, req |-> [q \in Incoming |-> "new"]]
  BY DEF Server!Init, Server!Base
<1>2. Server!NoConnection \in Cons /\ ~Server!NoConnection.live
  BY DEF Server!NoConnection, Cons
<1>3. [q \in Incoming |-> "new"] \in [Incoming -> Open \cup {"new", "detached", "gone"}]
  OBVIOUS
<1>4. \A q \in Incoming : [x \in Incoming |-> "new"][q] \notin Open
  BY DEF Open
<1>5. Server!Base \in Bases
  BY <1>1, <1>2, <1>3 DEF Bases
<1>6. QED BY <1>1, <1>2, <1>4, <1>5, NoRequestZero DEF ServerInv, Serving

\* Every step of the server leaves it as it should be.
LEMMA ServerNext ==
  ASSUME ServerInv, Server!Next
  PROVE  Kept
<1>1. ASSUME NEW q \in Incoming,
             \/ Server!evhttp_send_reply(q) \/ Server!evhttp_send_reply_start(q)
             \/ Server!evhttp_send_reply_chunk(q) \/ Server!evhttp_send_reply_end(q)
      PROVE  Kept
  BY <1>1, SendReplyKept, SendReplyStartKept, SendReplyChunkKept, SendReplyEndKept
<1>2. QED BY <1>1, GetRequestKept, ReadableKept, DeferredReadKept, WrittenKept, BreaksKept,
             HttpFreeKept DEF Server!Next

\* What runs besides the server does not touch it.
LEMMA ServerStays ==
  ASSUME ServerInv, UNCHANGED <<evcon, cur, req>>
  PROVE  Kept
<1>1. Server!Base' = Server!Base
  BY DEF Server!Base
<1>2. QED BY <1>1 DEF Kept, ServerInv, Server!HeldStays, Server!Held

\* The invariant is the one the run checks, and more.
LEMMA ServerInvSound ==
  ASSUME ServerInv
  PROVE  Server!ServerSound
<1>1. \A q \in Incoming :
        (req[q] \in {"reading", "user", "part", "chunked", "replying", "page"} <=> q = cur)
  BY BaseFacts DEF Open
<1>2. QED BY <1>1, BaseFacts DEF Server!ServerSound, Expects
-------------------------------------------------------------------------------
(* The parts together.                                                     *)

\* Each part has its inductive invariant.
PartsInv ==
  /\ (part = "bucket" => BucketInv)
  /\ (part = "group" => GroupInv)
  /\ (part = "http server" => ServerInv)

\* In the first state the part that has begun is in its own first state.
LEMMA PartsInit == Init => PartsInv
BY BucketInit, GroupInit, ServerInit DEF Init, PartsInv

\* A step of a part keeps its invariant, and a step of another leaves it alone.
LEMMA PartsNext ==
  PartsInv /\ [Next]_vars => PartsInv' /\ (part = "http server" => Server!HeldStays)
<1> SUFFICES ASSUME PartsInv, [Next]_vars
             PROVE  PartsInv' /\ (part = "http server" => Server!HeldStays)
  OBVIOUS
<1>1. CASE InBucket /\ Bucket!Next
  BY <1>1, BucketNext DEF InBucket, PartsInv
<1>2. CASE InGroup /\ Group!Next
  BY <1>2, GroupNext DEF InGroup, PartsInv
<1>3. CASE InServer /\ Server!Next
  BY <1>3, ServerNext DEF InServer, PartsInv, Kept
<1>4. CASE \/ InBev /\ Bev!Next
           \/ InDns("two servers") /\ Dns2!Next
           \/ InDns("two queries") /\ Dns1!Next
           \/ InGai /\ Gai!Next
           \/ InPort /\ Port!Next
           \/ InClient /\ Client!Next
  <2>1. part' = part /\ part \notin {"bucket", "group", "http server"}
    BY <1>4 DEF InBev, InDns, InGai, InPort, InClient
  <2>2. QED BY <2>1 DEF PartsInv
<1>5. CASE UNCHANGED vars
  <2>1. UNCHANGED <<part, now, cfg, limit, last, suspended, timer, pc, members, stopped,
                    pending, atmost, evcon, cur, req>>
    BY <1>5 DEF vars, rateVars, bucketVars, groupVars, serverVars
  <2>2. CASE part = "bucket"
    BY <2>1, <2>2 DEF PartsInv, BucketInv, Bucket!TypeOK
  <2>3. CASE part = "group"
    BY <2>1, <2>3 DEF PartsInv, GroupInv, Group!GroupSound, Group!min_share, Group!Smaller
  <2>4. CASE part = "http server"
    BY <2>1, <2>4, ServerStays DEF PartsInv, Kept
  <2>5. QED BY <2>1, <2>2, <2>3, <2>4 DEF PartsInv
<1>6. QED BY <1>1, <1>2, <1>3, <1>4, <1>5 DEF Next

\* PartsInv holds in every state.
THEOREM PartsStay == Spec => []PartsInv
BY PartsInit, PartsNext, PTL DEF Spec

\* RatesSound holds in every state: for any configurations, numbers of ticks and
\* members, and whatever users take or give, no direction is read or written without
\* tokens, whatever is suspended has a timer or a refill to wait for, and a member
\* that was busy when its group was suspended or went on is not forgotten.
THEOREM RatesStaySound == Spec => []RatesSound
<1>1. PartsInv => RatesSound
  BY BucketIsSound DEF PartsInv, RatesSound, GroupInv
<1>2. QED BY <1>1, PartsStay, PTL

\* The part of RefillFills that says who brings a bucket beyond the most it holds:
\* no number of ticks, no change of a configuration and no reading or writing does,
\* only a user who gives it tokens.
THEOREM OnlyUsersFill ==
  Spec => [][ /\ part = "bucket" => Bucket!OnlyUsersOverfill
              /\ part = "group" => Group!OnlyUsersOverfill ]_vars
<1>1. ASSUME PartsInv, [Next]_vars
      PROVE  [ /\ part = "bucket" => Bucket!OnlyUsersOverfill
               /\ part = "group" => Group!OnlyUsersOverfill ]_vars
  <2>1. CASE part = "bucket" /\ Next
    <3>1. Bucket!Next
      BY <2>1 DEF Next, InBev, InGroup, InDns, InGai, InPort, InClient, InServer
    <3>2. QED BY <1>1, <2>1, <3>1, BucketOverfill DEF PartsInv
  <2>2. CASE part = "group" /\ Next
    <3>1. Group!Next
      BY <2>2 DEF Next, InBev, InBucket, InDns, InGai, InPort, InClient, InServer
    <3>2. QED BY <1>1, <2>2, <3>1, GroupOverfill DEF PartsInv
  <2>3. QED BY <1>1, <2>1, <2>2
<1>2. QED BY <1>1, PartsStay, PTL DEF Spec

\* The server's part of HttpSound holds in every state, for any number of requests
\* and whether it lingers or not: a connection has the one request that is read or
\* answered on it, and is in a state its next callback expects.
THEOREM ServerStaysSound == Spec => [](part = "http server" => Server!ServerSound)
<1>1. PartsInv => (part = "http server" => Server!ServerSound)
  BY ServerInvSound DEF PartsInv
<1>2. QED BY <1>1, PartsStay, PTL

\* HeldStays holds of every step: whatever the client does, and whichever call of the
\* user comes when, a request the user holds is not freed under it.
THEOREM HeldRequestsStay == Spec => HeldStays
<1>1. PartsInv /\ [Next]_vars => [part = "http server" => Server!HeldStays]_vars
  BY PartsNext
<1>2. QED BY <1>1, PartsStay, PTL DEF Spec, HeldStays
===============================================================================
