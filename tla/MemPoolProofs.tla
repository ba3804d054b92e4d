---------------------------- MODULE MemPoolProofs ----------------------------
(***************************************************************************)
(* Proofs about MemPool, for any sizes of the pool, its headers and the    *)
(* requests, any limits and any number of large ranges.  PoolSound is      *)
(* inductive: where a piece comes to lie is settled by PlaceFacts, once    *)
(* for all calls; then there is one lemma per action.                      *)
(***************************************************************************)
EXTENDS MemPool, SequenceTheorems, WellFoundedInduction, TLAPS

-------------------------------------------------------------------------------
(* Numbers.                                                                *)

\* The order of the natural numbers as a set of pairs.
LEMMA LessIsPairs == OpToRel(<, Nat) = {ss \in Nat \X Nat : ss[1] < ss[2]}
BY DEF OpToRel

\* A set of natural numbers has a least one.
LEMMA MinFacts ==
  ASSUME NEW S \in SUBSET Nat, S # {}
  PROVE  Min(S) \in S /\ \A y \in S : Min(S) <= y
<1> DEFINE Less == {ss \in Nat \X Nat : ss[1] < ss[2]}
<1>1. IsWellFoundedOn(Less, Nat)
  BY NatLessThanWellFounded, LessIsPairs
<1>2. PICK x \in S : \A y \in S : ~ (<<y, x>> \in Less)
  <2> HIDE DEF Less
  <2> QED BY <1>1, WFMin
<1>3. ASSUME NEW y \in S
      PROVE  x <= y
  <2>1. x \in Nat /\ y \in Nat
    OBVIOUS
  <2>2. y < x => <<y, x>> \in Less
    BY <2>1
  <2>3. QED BY <2>1, <2>2, <1>2
<1>4. QED BY <1>3 DEF Min

\* A bounded one has a greatest.
LEMMA MaxFacts ==
  ASSUME NEW n \in Nat, NEW S \in SUBSET (0 .. n), S # {}
  PROVE  Max(S) \in S /\ \A y \in S : Max(S) >= y
<1> DEFINE T == {n - x : x \in S}
<1>1. \A x \in S : n - x \in Nat /\ n - x \in T
  OBVIOUS
<1>2. T \in SUBSET Nat /\ T # {}
  BY <1>1
<1>3. Min(T) \in T /\ \A y \in T : Min(T) <= y
  <2> HIDE DEF T
  <2> QED BY <1>2, MinFacts
<1>4. PICK x \in S : Min(T) = n - x
  BY <1>3
<1>5. \A y \in S : x >= y
  <2> SUFFICES ASSUME NEW y \in S PROVE x >= y
    OBVIOUS
  <2>1. n - x <= n - y
    BY <1>1, <1>3, <1>4
  <2>2. x \in Nat /\ y \in Nat
    OBVIOUS
  <2>3. QED BY <2>1, <2>2
<1>6. QED BY <1>5 DEF Max

\* Division leaves a remainder below the divisor.
LEMMA Division ==
  ASSUME NEW m \in Nat, NEW a \in Nat \ {0}
  PROVE  /\ m \div a \in Nat /\ m % a \in 0 .. a - 1
         /\ m = (m \div a) * a + (m % a)
OBVIOUS

\* Rounding up to a multiple stays below what is a multiple already.
LEMMA AlignUpFacts ==
  ASSUME NEW n \in Nat
  PROVE  /\ AlignUp(n) \in Nat /\ n <= AlignUp(n) /\ AlignUp(n) <= n + Alignment - 1
         /\ \A m \in Nat : n <= m /\ m % Alignment = 0 => AlignUp(n) <= m
<1> DEFINE up == n + Alignment - 1
           q == up \div Alignment
<1>1. Alignment \in Nat \ {0} /\ up \in Nat
  BY PoolAssumption
<1>2. q \in Nat /\ up % Alignment \in 0 .. Alignment - 1
      /\ up = q * Alignment + (up % Alignment)
  BY <1>1, Division
<1>3. AlignUp(n) = q * Alignment
  BY DEF AlignUp
<1>4. q * Alignment \in Nat
  BY <1>1, <1>2
<1>5. AlignUp(n) \in Nat /\ n <= AlignUp(n) /\ AlignUp(n) <= up
  BY <1>1, <1>2, <1>3, <1>4
<1>6. ASSUME NEW m \in Nat, n <= m, m % Alignment = 0
      PROVE  AlignUp(n) <= m
  <2> DEFINE k == m \div Alignment
  <2>1. k \in Nat /\ m = k * Alignment
    BY <1>1, <1>6, Division
  <2>2. CASE q <= k
    <3>1. q * Alignment <= k * Alignment
      BY <1>1, <1>2, <2>1, <2>2
    <3>2. QED BY <3>1, <2>1, <1>3
  <2>3. CASE q > k
    <3>1. q >= k + 1
      BY <1>2, <2>1, <2>3
    <3>2. q * Alignment >= (k + 1) * Alignment
      BY <3>1, <1>1, <1>2, <2>1
    <3>3. (k + 1) * Alignment = k * Alignment + Alignment
      BY <1>1, <2>1
    <3> HIDE DEF q, k
    <3>4. q * Alignment >= m + Alignment /\ q * Alignment <= n + Alignment - 1
      BY <3>2, <3>3, <2>1, <1>3, <1>5, <1>1
    <3>5. QED BY <3>4, <1>1, <1>4, <1>6
  <2>4. QED BY <2>2, <2>3, <1>2, <2>1
<1>7. QED BY <1>5, <1>6

\* What is below the modulus is its own remainder: sizes do not wrap.
LEMMA SmallRemainder ==
  ASSUME NEW m \in Nat, NEW a \in Nat, m < a
  PROVE  m % a = m
<1> DEFINE q == m \div a
           r == m % a
<1>0. a \in Nat \ {0}
  OBVIOUS
<1>1. a \in Nat \ {0} /\ q \in Nat /\ r \in 0 .. a - 1 /\ m = q * a + r
  BY <1>0, Division
<1>2. q = 0
  <2> HIDE DEF q, r
  <2>1. q >= 1 => q * a >= a
    BY <1>1
  <2>2. QED BY <1>1, <2>1
<1>3. 0 * a = 0
  OBVIOUS
<1>4. QED
  <2> HIDE DEF q, r
  <2>1. m = r
    BY <1>1, <1>2, <1>3
  <2>2. QED BY <2>1 DEF r

\* What the assumption says of the sizes.
LEMMA SizeFacts ==
  /\ PoolSize \in Nat /\ SizeofPool \in Nat \ {0} /\ SizeofData \in Nat \ {0}
  /\ SizeofLarge \in Nat \ {0} /\ MaxBlocks \in Nat \ {0} /\ FailLimit \in Nat
  /\ AddressSpace \in Nat /\ Alignment \in Nat \ {0}
  /\ SizeofData < SizeofPool /\ SizeofPool + 2 * SizeofLarge <= PoolSize
  /\ PoolSize < AddressSpace /\ BlockStart = SizeofData
<1>1. /\ PoolSize \in Nat /\ SizeofPool \in Nat \ {0} /\ SizeofData \in Nat \ {0}
      /\ SizeofLarge \in Nat \ {0} /\ MaxBlocks \in Nat \ {0} /\ FailLimit \in Nat
      /\ AddressSpace \in Nat /\ Alignment \in Nat \ {0}
      /\ SizeofData < SizeofPool /\ SizeofPool + 2 * SizeofLarge <= PoolSize
      /\ 2 * PoolSize < AddressSpace
  BY PoolAssumption
<1>2. SizeofData % Alignment = 0
  BY PoolAssumption
<1>3. AlignUp(SizeofData) \in Nat /\ SizeofData <= AlignUp(SizeofData)
      /\ AlignUp(SizeofData) <= SizeofData
  BY <1>1, <1>2, AlignUpFacts
<1>4. BlockStart = SizeofData
  BY <1>1, <1>3 DEF BlockStart
<1>5. PoolSize < AddressSpace
  BY <1>1
<1>6. QED BY <1>1, <1>4, <1>5

-------------------------------------------------------------------------------
(* Where a piece comes to lie.                                             *)

Block == [last : 0 .. PoolSize, failed : 0 .. FailLimit + 2]
Entry == [block : 1 .. MaxBlocks, offset : 0 .. PoolSize, alloc : Chunks \cup {NULL}]
Piece == [range : 1 .. MaxBlocks, lo : 0 .. PoolSize, hi : 0 .. PoolSize]

\* The blocks of a pool that is live, one by one.
LEMMA BlockFacts ==
  ASSUME PoolSound, blocks # <<>>
  PROVE  /\ Len(blocks) \in 1 .. MaxBlocks /\ DOMAIN blocks = 1 .. Len(blocks)
         /\ current \in DOMAIN blocks
         /\ blocks \in [1 .. Len(blocks) -> Block]
         /\ \A b \in DOMAIN blocks : /\ blocks[b].last \in 0 .. PoolSize
                                     /\ blocks[b].failed \in 0 .. FailLimit + 2
                                     /\ blocks[b] = [last |-> blocks[b].last,
                                                     failed |-> blocks[b].failed]
<1>1. blocks \in Seq(Block) /\ Len(blocks) <= MaxBlocks
  BY DEF PoolSound, TypeOK, Block
<1>2. /\ Len(blocks) \in Nat \ {0} /\ DOMAIN blocks = 1 .. Len(blocks)
      /\ blocks \in [1 .. Len(blocks) -> Block]
  BY <1>1, LenProperties, EmptySeq
<1>3. Len(blocks) \in 1 .. MaxBlocks
  BY <1>1, <1>2, SizeFacts
<1>4. current \in DOMAIN blocks
  BY DEF PoolSound, CurrentFirstUsable
<1>5. ASSUME NEW b \in DOMAIN blocks
      PROVE  /\ blocks[b].last \in 0 .. PoolSize
             /\ blocks[b].failed \in 0 .. FailLimit + 2
             /\ blocks[b] = [last |-> blocks[b].last, failed |-> blocks[b].failed]
  <2>1. blocks[b] \in Block
    BY <1>2, <1>5
  <2>2. QED BY <2>1 DEF Block
<1>6. QED BY <1>2, <1>3, <1>4, <1>5

\* A piece starts behind what is in use and within the block.
LEMMA StartFacts ==
  ASSUME PoolSound, blocks # <<>>, NEW b \in DOMAIN blocks, NEW align \in BOOLEAN
  PROVE  /\ Start(b, align) \in blocks[b].last .. PoolSize
         /\ Start(b, align) - blocks[b].last <= Alignment - 1
         /\ (PoolSize - Start(b, align)) % AddressSpace = PoolSize - Start(b, align)
<1>1. blocks[b].last \in 0 .. PoolSize /\ PoolSize \in Nat /\ blocks[b].last \in Nat
      /\ Alignment \in Nat \ {0}
  BY BlockFacts, SizeFacts
<1>2. PoolSize % Alignment = 0
  BY PoolAssumption
<1>3. LET up == AlignUp(blocks[b].last)
      IN  up \in blocks[b].last .. PoolSize /\ up - blocks[b].last <= Alignment - 1
  <2> DEFINE last == blocks[b].last
             up == AlignUp(last)
  <2>1. /\ up \in Nat /\ last <= up /\ up <= last + Alignment - 1
        /\ \A m \in Nat : last <= m /\ m % Alignment = 0 => up <= m
    <3> HIDE DEF last
    <3>1. last \in Nat
      BY <1>1 DEF last
    <3>2. QED BY <3>1, AlignUpFacts
  <2> HIDE DEF up
  <2>2. up <= PoolSize
    BY <1>1, <1>2, <2>1
  <2>3. up \in last .. PoolSize /\ up - last <= Alignment - 1
    BY <1>1, <2>1, <2>2
  <2>4. QED BY <2>3 DEF up
<1>4. /\ Start(b, align) \in blocks[b].last .. PoolSize
      /\ Start(b, align) - blocks[b].last <= Alignment - 1
  BY <1>1, <1>3 DEF Start
<1>5. PoolSize - Start(b, align) \in Nat /\ PoolSize - Start(b, align) < AddressSpace
  BY <1>1, <1>4, SizeFacts
<1>6. QED BY <1>4, <1>5, SizeFacts, SmallRemainder

\* A piece taken from a block that has room.
LEMMA FromBlock ==
  ASSUME PoolSound, blocks # <<>>,
         NEW size \in Nat \ {0}, NEW align \in BOOLEAN,
         TakeFromBlock(size, align)
  PROVE  LET at == Place(size, align)
         IN  /\ at.block \in current .. Len(blocks) /\ at.block \in DOMAIN blocks
             /\ at.offset \in blocks[at.block].last .. PoolSize
             /\ at.offset + size <= PoolSize
             /\ blocks' = [blocks EXCEPT ![at.block].last = at.offset + size]
             /\ current' = current
<1> DEFINE S == Fitting(size, align)
           m == Min(S)
           at == Place(size, align)
<1>1. Len(blocks) \in Nat /\ current \in 1 .. Len(blocks) /\ DOMAIN blocks = 1 .. Len(blocks)
  BY BlockFacts, SizeFacts
<1>2. S \in SUBSET Nat /\ S # {}
  BY <1>1 DEF Fitting, TakeFromBlock
<1>3. m \in S
  <2> HIDE DEF S
  <2> QED BY <1>2, MinFacts
<1>4. m \in current .. Len(blocks) /\ m \in DOMAIN blocks /\ Fits(m, size, align)
  <2>1. m \in current .. Len(blocks) /\ Fits(m, size, align)
    <3> HIDE DEF m
    <3> QED BY <1>3 DEF Fitting
  <2>2. QED BY <2>1, <1>1
<1>5. at = [block |-> m, offset |-> Start(m, align)]
  BY <1>2 DEF Place
<1> HIDE DEF m, S, at
<1>6. at.block = m /\ at.offset = Start(m, align)
  BY <1>5
<1>7. /\ at.offset \in blocks[m].last .. PoolSize
      /\ (PoolSize - at.offset) % AddressSpace = PoolSize - at.offset
      /\ blocks[m].last \in 0 .. PoolSize
  BY <1>4, <1>6, StartFacts, BlockFacts
<1>8. at.offset + size <= PoolSize
  BY <1>4, <1>6, <1>7, SizeFacts DEF Fits
<1>9. blocks' = [blocks EXCEPT ![at.block].last = at.offset + size] /\ current' = current
  BY DEF TakeFromBlock, at
<1>10. QED BY <1>4, <1>6, <1>7, <1>8, <1>9 DEF at

\* A piece taken from a new block, and what becomes of the other blocks.
LEMMA FromNewBlock ==
  ASSUME PoolSound, blocks # <<>>,
         NEW size \in Nat \ {0}, NEW align \in BOOLEAN, SizeofData + size <= PoolSize,
         ngx_palloc_block(size, align)
  PROVE  LET at == Place(size, align)
         IN  /\ at.block = Len(blocks) + 1 /\ at.offset = SizeofData
             /\ Len(blocks) < MaxBlocks
             /\ blocks' \in Seq(Block) /\ Len(blocks') = Len(blocks) + 1
             /\ blocks'[Len(blocks) + 1] = [last |-> SizeofData + size, failed |-> 0]
             /\ \A b \in DOMAIN blocks :
                  /\ blocks'[b].last = blocks[b].last
                  /\ blocks'[b].failed = IF b \in Failing THEN blocks[b].failed + 1
                                         ELSE blocks[b].failed
<1> DEFINE at == Place(size, align)
           Old == [b \in DOMAIN blocks |->
                     IF b \in Failing THEN [blocks[b] EXCEPT !.failed = @ + 1]
                     ELSE blocks[b]]
           new == [last |-> BlockStart + size, failed |-> 0]
<1>1. /\ Len(blocks) \in Nat \ {0} /\ current \in 1 .. Len(blocks)
      /\ DOMAIN blocks = 1 .. Len(blocks)
      /\ blocks \in [1 .. Len(blocks) -> Block]
  BY BlockFacts, SizeFacts
<1>2. at.block = Len(blocks) + 1 /\ at.offset = SizeofData /\ Len(blocks) < MaxBlocks
  BY SizeFacts DEF Place, ngx_palloc_block
<1>3. new \in Block /\ new = [last |-> SizeofData + size, failed |-> 0]
  BY SizeFacts DEF Block
<1>4. ASSUME NEW b \in DOMAIN blocks
      PROVE  /\ Old[b] \in Block /\ Old[b].last = blocks[b].last
             /\ Old[b].failed = IF b \in Failing THEN blocks[b].failed + 1
                                ELSE blocks[b].failed
  <2>1. /\ blocks[b].last \in 0 .. PoolSize /\ blocks[b].failed \in 0 .. FailLimit + 2
        /\ blocks[b] \in Block
    BY <1>1, <1>4, BlockFacts
  <2>2. b \in Failing => blocks[b].failed # FailLimit + 2
    BY <1>1 DEF Failing, PoolSound, CurrentFirstUsable
  <2>3. QED BY SMTT(20), <2>1, <2>2, SizeFacts DEF Block
<1>5. Old \in Seq(Block) /\ Len(Old) = Len(blocks) /\ DOMAIN Old = DOMAIN blocks
  <2>1. Old \in [1 .. Len(blocks) -> Block]
    <3>1. \A b \in 1 .. Len(blocks) : Old[b] \in Block
      BY <1>4, <1>1
    <3>2. DOMAIN Old = 1 .. Len(blocks)
      BY <1>1
    <3>3. Old = [b \in 1 .. Len(blocks) |-> Old[b]]
      BY <3>2
    <3> HIDE DEF Old
    <3>4. QED BY <3>1, <3>3
  <2> HIDE DEF Old
  <2>2. Old \in Seq(Block)
    BY <1>1, <2>1, SeqDef
  <2>3. DOMAIN Old = 1 .. Len(Old) /\ Len(Old) \in Nat
    BY <2>2, LenProperties
  <2>4. QED BY <1>1, <2>1, <2>2, <2>3
<1>6. blocks' = Append(Old, new)
  BY DEF ngx_palloc_block
<1> HIDE DEF Old, new
<1>7. /\ blocks' \in Seq(Block) /\ Len(blocks') = Len(blocks) + 1
      /\ blocks'[Len(blocks) + 1] = new
      /\ \A b \in DOMAIN blocks : blocks'[b] = Old[b]
  <2>1. new \in Block
    BY <1>3
  <2>2. /\ Append(Old, new) \in Seq(Block) /\ Len(Append(Old, new)) = Len(Old) + 1
        /\ Append(Old, new)[Len(Old) + 1] = new
        /\ \A b \in 1 .. Len(Old) : Append(Old, new)[b] = Old[b]
    BY <1>5, <2>1, AppendProperties
  <2>3. QED BY <2>2, <1>1, <1>5, <1>6
<1>8. QED BY <1>2, <1>3, <1>4, <1>7

\* After a new block current is again the first that has not failed too often.
LEMMA NewBlockCurrent ==
  ASSUME PoolSound, blocks # <<>>,
         NEW size \in Nat \ {0}, NEW align \in BOOLEAN, SizeofData + size <= PoolSize,
         ngx_palloc_block(size, align)
  PROVE  CurrentFirstUsable' /\ current' \in 1 .. Len(blocks)
<1> DEFINE n == Len(blocks)
<1>1. /\ n \in Nat \ {0} /\ current \in 1 .. n /\ DOMAIN blocks = 1 .. n
      /\ FailLimit \in Nat
      /\ \A b \in 1 .. n : blocks[b].failed \in 0 .. FailLimit + 2
  BY BlockFacts, SizeFacts
<1>2. /\ blocks' \in Seq(Block) /\ Len(blocks') = n + 1
      /\ blocks'[n + 1].failed = 0
      /\ \A b \in 1 .. n : blocks'[b].failed = IF b \in Failing THEN blocks[b].failed + 1
                                               ELSE blocks[b].failed
  <2>1. /\ blocks' \in Seq(Block) /\ Len(blocks') = Len(blocks) + 1
        /\ blocks'[Len(blocks) + 1] = [last |-> SizeofData + size, failed |-> 0]
        /\ \A b \in DOMAIN blocks :
              blocks'[b].failed = IF b \in Failing THEN blocks[b].failed + 1
                                  ELSE blocks[b].failed
    BY FromNewBlock
  <2>2. QED BY <2>1, <1>1
<1>3. DOMAIN blocks' = 1 .. n + 1 /\ blocks' # <<>> /\ Last(blocks') = blocks'[n + 1]
  BY <1>1, <1>2, LenProperties, EmptySeq DEF Last
<1>4. /\ \A b \in 1 .. n : b < current <=> blocks[b].failed = FailLimit + 2
      /\ \A a, b \in 1 .. n : a <= b => blocks[b].failed <= blocks[a].failed
      /\ blocks[n].failed = 0
  BY <1>1 DEF PoolSound, CurrentFirstUsable, Last
<1>5. current' = IF Retired = {} THEN current ELSE Max(Retired) + 1
  BY DEF ngx_palloc_block
<1>6. Retired \in SUBSET (0 .. n) /\ Failing = current .. n - 1
  BY <1>1 DEF Retired, Failing
<1>7. Retired # {} => /\ current' \in Nat /\ current' - 1 \in Retired
                       /\ \A b \in Retired : current' - 1 >= b
  <2> SUFFICES ASSUME Retired # {}
               PROVE  /\ current' \in Nat /\ current' - 1 \in Retired
                      /\ \A b \in Retired : current' - 1 >= b
    OBVIOUS
  <2>1. Max(Retired) \in Retired /\ \A b \in Retired : Max(Retired) >= b
    BY <1>1, <1>6, MaxFacts
  <2>2. Max(Retired) \in Nat /\ current' = Max(Retired) + 1
    <3>1. \A b \in Retired : b \in Nat
      BY <1>6
    <3>2. QED BY <2>1, <3>1, <1>5
  <2>3. current' - 1 = Max(Retired)
    BY <2>2
  <2>4. QED BY <2>1, <2>2, <2>3
<1> HIDE DEF n
<1>8. current' \in 1 .. n
  BY <1>1, <1>5, <1>6, <1>7 DEF Retired
<1>9. ASSUME NEW b \in 1 .. n + 1
      PROVE  b < current' <=> blocks'[b].failed = FailLimit + 2
  <2>1. CASE b = n + 1
    BY <2>1, <1>1, <1>2, <1>8
  <2>2. CASE b \in 1 .. n /\ b \notin Failing
    <3>1. b < current \/ b = n
      BY <2>2, <1>1, <1>6
    <3>2. CASE b < current
      <4>1. blocks'[b].failed = FailLimit + 2
        BY <3>2, <2>2, <1>2, <1>4
      <4>2. current' >= current
        BY <1>1, <1>5, <1>6, <1>7 DEF Retired
      <4>3. QED BY <4>1, <4>2, <3>2, <1>1, <1>8
    <3>3. CASE b = n
      BY <3>3, <2>2, <1>1, <1>2, <1>4, <1>8
    <3>4. QED BY <3>1, <3>2, <3>3
  <2>3. CASE b \in Failing
    <3>1. b \in 1 .. n /\ b >= current /\ blocks[b].failed \in 0 .. FailLimit + 1
          /\ blocks'[b].failed = blocks[b].failed + 1
      BY <2>3, <1>1, <1>2, <1>4, <1>6
    <3>2. CASE blocks[b].failed = FailLimit + 1
      <4>1. b \in Retired
        BY <2>3, <3>2, <1>1 DEF Retired
      <4>2. QED BY <4>1, <3>1, <3>2, <1>1, <1>5, <1>6, <1>7
    <3>3. CASE blocks[b].failed # FailLimit + 1
      <4>1. \A m \in Retired : b > m
        <5> SUFFICES ASSUME NEW m \in Retired, ~ (b > m) PROVE FALSE
          OBVIOUS
        <5>1. m \in 1 .. n /\ blocks[m].failed > FailLimit
          BY <1>1, <1>6 DEF Retired
        <5>2. blocks[m].failed <= blocks[b].failed
          BY <5>1, <3>1, <1>4, <1>1
        <5>3. QED BY <5>1, <5>2, <3>1, <3>3, <1>1
      <4>2. ~ (b < current')
        BY <4>1, <3>1, <1>1, <1>5, <1>6, <1>7
      <4>3. QED BY <4>2, <3>1, <3>3, <1>1
    <3>4. QED BY <3>2, <3>3
  <2>4. QED BY <2>1, <2>2, <2>3, <1>1
<1>10. ASSUME NEW a \in 1 .. n + 1, NEW b \in 1 .. n + 1, a <= b
       PROVE  blocks'[b].failed <= blocks'[a].failed
  <2>1. CASE b \in {n, n + 1}
    <3>1. blocks'[b].failed = 0
      BY <2>1, <1>1, <1>2, <1>4, <1>6
    <3>2. blocks'[a].failed \in Nat
      BY SMTT(20), <1>1, <1>2, <1>6
    <3>3. QED BY <3>1, <3>2
  <2>2. CASE b \in 1 .. n - 1
    <3>1. a \in 1 .. n /\ b \in 1 .. n /\ blocks[b].failed <= blocks[a].failed
      BY <2>2, <1>10, <1>1, <1>4
    <3>2. CASE a \in Failing
      BY <3>1, <3>2, <2>2, <1>10, <1>1, <1>2, <1>6
    <3>3. CASE a \notin Failing
      <4>1. a < current
        BY <3>3, <3>1, <2>2, <1>10, <1>1, <1>6
      <4>2. blocks'[a].failed = FailLimit + 2
        BY <4>1, <3>1, <3>3, <1>2, <1>4
      <4>3. blocks'[b].failed <= FailLimit + 2
        BY <3>1, <2>2, <1>1, <1>2, <1>4, <1>6
      <4>4. QED BY <4>2, <4>3
    <3>4. QED BY <3>2, <3>3
  <2>3. QED BY <2>1, <2>2, <1>1
<1>11. QED
  <2>1. current' \in 1 .. n + 1
    BY <1>1, <1>8
  <2>2. QED BY <1>2, <1>3, <1>8, <1>9, <1>10, <2>1 DEF CurrentFirstUsable, n

\* What a call for a small piece does to the blocks and to current: the piece
\* lies behind all that is in use of its block, and blocks only fill up.
LEMMA TakeFacts ==
  ASSUME PoolSound, state = "live",
         NEW size \in Nat \ {0}, NEW align \in BOOLEAN, SizeofData + size <= PoolSize,
         TakeSmall(size, align)
  PROVE  LET at == Place(size, align)
         IN  /\ blocks' \in Seq(Block) /\ blocks' # <<>>
             /\ Len(blocks) <= Len(blocks') /\ Len(blocks') <= MaxBlocks
             /\ current' \in 1 .. Len(blocks')
             /\ at.block \in 1 .. Len(blocks') /\ at.offset \in 0 .. PoolSize
             /\ Header(at.block) <= at.offset
             /\ at.offset + size <= blocks'[at.block].last
             /\ \A b \in DOMAIN blocks : blocks[b].last <= blocks'[b].last
             /\ at.block \in DOMAIN blocks => blocks[at.block].last <= at.offset
             /\ \A b \in DOMAIN blocks' : blocks'[b].last \in Header(b) .. PoolSize
             /\ CurrentFirstUsable'
<1> DEFINE at == Place(size, align)
           n == Len(blocks)
<1>0. blocks # <<>>
  BY DEF PoolSound, FreedInOrder
<1>1. /\ n \in 1 .. MaxBlocks /\ DOMAIN blocks = 1 .. n /\ current \in 1 .. n
      /\ blocks \in [1 .. n -> Block] /\ blocks \in Seq(Block)
      /\ n \in Nat \ {0} /\ current \in Nat
      /\ \A b \in 1 .. n : /\ blocks[b].last \in 0 .. PoolSize
                           /\ blocks[b].last \in Nat
                           /\ blocks[b].failed \in 0 .. FailLimit + 2
  BY SMTT(20), <1>0, BlockFacts, SizeFacts DEF PoolSound, TypeOK, Block
<1>2. \A b \in 1 .. n : blocks[b].last \in Header(b) .. PoolSize
  BY <1>1 DEF PoolSound, PiecesApart
<1>3. \A b \in Nat : Header(b) \in Nat /\ (b # 1 => Header(b) = SizeofData)
  BY SizeFacts DEF Header
<1>4. CASE TakeFromBlock(size, align)
  <2>1. /\ at.block \in 1 .. n
        /\ at.offset \in blocks[at.block].last .. PoolSize
        /\ at.offset + size <= PoolSize
        /\ blocks' = [blocks EXCEPT ![at.block].last = at.offset + size]
        /\ current' = current
    BY <1>0, <1>1, <1>4, FromBlock
  <2> HIDE DEF at, n
  <2> DEFINE m == at.block
             top == at.offset + size
  <2>2. m \in 1 .. n /\ top \in 0 .. PoolSize /\ at.offset \in 0 .. PoolSize
        /\ blocks[m].last <= at.offset /\ at.offset < top /\ blocks[m].last \in Nat
    <3>1. blocks[at.block].last \in Nat
      BY <1>1, <2>1
    <3>2. QED BY <2>1, <3>1, SizeFacts
  <2> DEFINE piece == [blocks[m] EXCEPT !.last = top]
  <2>3. piece \in Block /\ piece.last = top /\ piece.failed = blocks[m].failed
    BY <1>1, <2>2 DEF Block
  <2>4. blocks' = [blocks EXCEPT ![m] = piece]
    BY <2>1
  <2> HIDE DEF piece, m, top
  <2>5. /\ blocks' \in Seq(Block) /\ Len(blocks') = n
        /\ \A b \in 1 .. n : blocks'[b] = IF b = m THEN piece ELSE blocks[b]
    BY <1>1, <2>2, <2>3, <2>4, ExceptSeq DEF n
  <2>6. DOMAIN blocks' = 1 .. n /\ blocks' # <<>>
    BY <1>1, <2>5, LenProperties, EmptySeq
  <2>7. \A b \in 1 .. n : /\ blocks'[b].failed = blocks[b].failed
                          /\ blocks'[b].last = IF b = m THEN top ELSE blocks[b].last
    BY <2>3, <2>5
  <2>8. CurrentFirstUsable'
    <3>1. Last(blocks) = blocks[n] /\ Last(blocks') = blocks'[n]
      BY <2>5 DEF Last, n
    <3>2. CurrentFirstUsable
      BY DEF PoolSound
    <3>3. n \in 1 .. n
      BY <1>1
    <3>4. Last(blocks').failed = 0
      BY <3>1, <3>2, <3>3, <2>7, <1>0 DEF CurrentFirstUsable
    <3>5. QED BY <3>2, <3>4, <1>1, <2>1, <2>6, <2>7 DEF CurrentFirstUsable
  <2>9. Header(m) <= at.offset
    <3>1. blocks[m].last \in Header(m) .. PoolSize /\ Header(m) \in Nat
      BY <1>1, <1>2, <2>2, SizeFacts DEF Header
    <3>2. QED BY <3>1, <2>2
  <2>10. \A b \in 1 .. n : /\ blocks[b].last <= blocks'[b].last
                           /\ blocks'[b].last \in Header(b) .. PoolSize
    <3> SUFFICES ASSUME NEW b \in 1 .. n
                 PROVE  /\ blocks[b].last <= blocks'[b].last
                        /\ blocks'[b].last \in Header(b) .. PoolSize
      OBVIOUS
    <3>1. blocks[b].last \in Header(b) .. PoolSize /\ blocks[b].last \in Nat
          /\ Header(b) \in Nat
      BY <1>1, <1>2, SizeFacts DEF Header
    <3>2. CASE b = m
      BY <3>1, <3>2, <2>2, <2>7, <2>9
    <3>3. CASE b # m
      BY <3>1, <3>3, <2>7
    <3>4. QED BY <3>2, <3>3
  <2>11. at.offset + size <= blocks'[m].last
    <3>1. blocks'[m].last = top
      BY <2>2, <2>7
    <3>2. QED BY <3>1, <2>2 DEF top
  <2>12. n <= MaxBlocks /\ n <= n
    BY <1>1, SizeFacts
  <2>13. QED
    BY <1>1, <2>1, <2>2, <2>5, <2>6, <2>8, <2>9, <2>10, <2>11, <2>12 DEF at, n, m
<1>5. CASE ngx_palloc_block(size, align)
  <2>1. /\ at.block = n + 1 /\ at.offset = SizeofData /\ n < MaxBlocks
        /\ blocks' \in Seq(Block) /\ Len(blocks') = n + 1
        /\ blocks'[n + 1] = [last |-> SizeofData + size, failed |-> 0]
        /\ \A b \in 1 .. n : blocks'[b].last = blocks[b].last
    BY <1>0, <1>1, <1>5, FromNewBlock
  <2>2. CurrentFirstUsable' /\ current' \in 1 .. n
    BY <1>0, <1>5, NewBlockCurrent
  <2> HIDE DEF at, n
  <2>3. DOMAIN blocks' = 1 .. n + 1 /\ blocks' # <<>>
    BY <1>1, <2>1, LenProperties, EmptySeq
  <2>4. blocks'[n + 1].last = SizeofData + size
    BY <2>1
  <2>5. n + 1 # 1 /\ n + 1 \in Nat /\ n \in Nat
    BY <1>1
  <2>6. Header(n + 1) = SizeofData
    BY <1>3, <2>5
  <2>7. \A b \in 1 .. n + 1 : blocks'[b].last \in Header(b) .. PoolSize
    <3> SUFFICES ASSUME NEW b \in 1 .. n + 1
                 PROVE  blocks'[b].last \in Header(b) .. PoolSize
      OBVIOUS
    <3>1. CASE b = n + 1
      BY <3>1, <2>4, <2>6, SizeFacts
    <3>2. CASE b # n + 1
      BY <3>2, <1>2, <2>1, <2>5
    <3>3. QED BY <3>1, <3>2
  <2>8. \A b \in 1 .. n : blocks[b].last <= blocks'[b].last
    BY <1>1, <2>1
  <2>9. /\ n <= n + 1 /\ n + 1 <= MaxBlocks /\ current' \in 1 .. n + 1
        /\ at.block \in 1 .. n + 1 /\ at.offset \in 0 .. PoolSize
        /\ at.block \notin 1 .. n
    BY <1>1, <2>1, <2>2, <2>5, SizeFacts
  <2>10. Header(at.block) <= at.offset /\ at.offset + size <= blocks'[at.block].last
    BY <2>1, <2>4, <2>6, SizeFacts
  <2>11. QED
    BY <1>1, <2>1, <2>2, <2>3, <2>7, <2>8, <2>9, <2>10 DEF at, n
<1>6. QED BY <1>4, <1>5 DEF TakeSmall

Apart(p, q) == p.range # q.range \/ p.hi <= q.lo \/ q.hi <= p.lo

\* A piece of the pool is a range of bytes of one of its blocks.
InBlock(p) == /\ p.range \in DOMAIN blocks
              /\ Header(p.range) <= p.lo /\ p.hi <= blocks[p.range].last

\* The piece that such a call takes shares nothing with those in use, and all
\* of them lie in their blocks afterwards.
LEMMA NewPiece ==
  ASSUME PoolSound, state = "live",
         NEW size \in Nat \ {0}, NEW align \in BOOLEAN, SizeofData + size <= PoolSize,
         TakeSmall(size, align), NEW piece,
         piece = [range |-> Place(size, align).block, lo |-> Place(size, align).offset,
                  hi |-> Place(size, align).offset + size]
  PROVE  /\ piece \notin InUse /\ piece \in Piece
         /\ \A p \in InUse : Apart(p, piece) /\ Apart(piece, p)
         /\ \A p \in InUse \cup {piece} : InBlock(p)'
<1> DEFINE at == Place(size, align)
<1>1. /\ blocks' \in Seq(Block)
      /\ Len(blocks) <= Len(blocks') /\ Len(blocks') <= MaxBlocks
      /\ at.block \in 1 .. Len(blocks') /\ at.offset \in 0 .. PoolSize
      /\ Header(at.block) <= at.offset
      /\ at.offset + size <= blocks'[at.block].last
      /\ \A b \in DOMAIN blocks : blocks[b].last <= blocks'[b].last
      /\ at.block \in DOMAIN blocks => blocks[at.block].last <= at.offset
      /\ \A b \in DOMAIN blocks' : blocks'[b].last \in Header(b) .. PoolSize
  BY TakeFacts
<1> HIDE DEF at
<1>2. piece.range = at.block /\ piece.lo = at.offset /\ piece.hi = at.offset + size
      /\ piece = [range |-> at.block, lo |-> at.offset, hi |-> at.offset + size]
  BY DEF at
<1>3. DOMAIN blocks' = 1 .. Len(blocks') /\ Len(blocks') \in Nat
      /\ Len(blocks) \in 1 .. MaxBlocks /\ DOMAIN blocks = 1 .. Len(blocks)
      /\ \A b \in DOMAIN blocks : blocks[b].last \in Nat
  BY <1>1, LenProperties, BlockFacts DEF PoolSound, FreedInOrder
<1>4. /\ at.block \in DOMAIN blocks' /\ at.block \in 1 .. MaxBlocks
      /\ blocks'[at.block].last \in 0 .. PoolSize
      /\ Header(at.block) \in Nat
  BY <1>1, <1>3, SizeFacts DEF Header
<1>5. piece \in Piece
  BY <1>1, <1>2, <1>4, SizeFacts DEF Piece
<1>6. ASSUME NEW p \in InUse
      PROVE  /\ p.range \in DOMAIN blocks /\ Header(p.range) <= p.lo
             /\ p.hi <= blocks[p.range].last
             /\ p.lo \in Nat /\ p.hi \in Nat
  <2>1. /\ p.range \in DOMAIN blocks /\ Header(p.range) <= p.lo
        /\ p.hi <= blocks[p.range].last
    BY <1>6 DEF PoolSound, PiecesApart
  <2>2. CASE p \in given
    BY <2>1, <2>2 DEF PoolSound, TypeOK
  <2>3. CASE \E i \in DOMAIN large : p = EntryPiece(i)
    <3>1. PICK i \in DOMAIN large : p = EntryPiece(i)
      BY <2>3
    <3>2. large[i] \in Entry
      <4>1. large \in Seq(Entry)
        BY DEF PoolSound, TypeOK, Entry
      <4>2. QED BY <4>1, LenProperties, ElementOfSeq
    <3>3. p.lo \in 0 .. PoolSize /\ p.hi = p.lo + SizeofLarge
      BY <3>1, <3>2 DEF EntryPiece, Entry
    <3>4. QED BY <2>1, <3>3, SizeFacts
  <2>4. QED BY <2>2, <2>3, <1>6 DEF InUse
<1>7. ASSUME NEW p \in InUse
      PROVE  Apart(p, piece) /\ Apart(piece, p)
  <2>1. CASE p.range = at.block
    <3>1. p.hi <= blocks[at.block].last /\ blocks[at.block].last <= at.offset
          /\ blocks[at.block].last \in Nat
      BY <2>1, <1>1, <1>3, <1>6
    <3>2. p.hi <= piece.lo
      BY <3>1, <1>1, <1>2, <1>6
    <3>3. QED BY <3>2 DEF Apart
  <2>2. CASE p.range # at.block
    BY <2>2, <1>2 DEF Apart
  <2>3. QED BY <2>1, <2>2
<1>8. piece \notin InUse
  <2> SUFFICES ASSUME piece \in InUse PROVE FALSE
    OBVIOUS
  <2>1. at.block \in DOMAIN blocks /\ at.offset + size <= blocks[at.block].last
        /\ blocks[at.block].last <= at.offset /\ blocks[at.block].last \in Nat
    BY <1>1, <1>2, <1>3, <1>6
  <2>2. QED BY <2>1, <1>1
<1>9. ASSUME NEW p \in InUse
      PROVE  InBlock(p)'
  <2>1. p.range \in DOMAIN blocks'
    BY <1>1, <1>3, <1>6, SizeFacts
  <2>2. blocks'[p.range].last \in Nat
    <3>1. blocks'[p.range] \in Block
      BY <1>1, <1>3, <2>1, ElementOfSeq
    <3>2. QED BY <3>1 DEF Block
  <2>3. p.hi <= blocks'[p.range].last
    BY SMTT(20), <2>2, <1>1, <1>3, <1>6
  <2>4. QED BY <2>1, <2>3, <1>6 DEF InBlock
<1>10. InBlock(piece)'
  BY <1>1, <1>2, <1>4 DEF InBlock
<1>11. QED BY <1>5, <1>7, <1>8, <1>9, <1>10

-------------------------------------------------------------------------------
(* One lemma per action.                                                   *)

\* The entries, one by one.
LEMMA EntryFacts ==
  ASSUME PoolSound
  PROVE  /\ large \in Seq(Entry) /\ Len(large) \in Nat /\ DOMAIN large = 1 .. Len(large)
         /\ \A i \in DOMAIN large : /\ large[i] \in Entry
                                    /\ large[i].block \in 1 .. MaxBlocks
                                    /\ large[i].offset \in 0 .. PoolSize
                                    /\ large[i].alloc \in Chunks \cup {NULL}
                                    /\ EntryPiece(i) \in InUse
<1>1. large \in Seq(Entry)
  BY DEF PoolSound, TypeOK, Entry
<1>2. Len(large) \in Nat /\ DOMAIN large = 1 .. Len(large)
      /\ \A i \in DOMAIN large : large[i] \in Entry
  BY <1>1, LenProperties, ElementOfSeq
<1>3. QED BY <1>1, <1>2 DEF Entry, InUse

LEMMA StutterKeeps == ASSUME PoolSound, UNCHANGED vars PROVE PoolSound'
<1> USE DEF PoolSound, vars
<1>1. TypeOK' /\ CurrentFirstUsable' /\ EntriesInLiveBlocks' /\ FreedInOrder'
  BY DEF TypeOK, CurrentFirstUsable, EntriesInLiveBlocks, FreedInOrder
<1>2. PiecesApart'
  BY DEF PiecesApart, InUse, EntryPiece
<1>3. LargeFreedOnce'
  BY DEF LargeFreedOnce, LargeAllocs
<1>4. QED BY <1>1, <1>2, <1>3

LEMMA CreateKeeps == ASSUME PoolSound, ngx_create_pool PROVE PoolSound'
<1> USE DEF ngx_create_pool
<1>1. /\ large = <<>> /\ given = {} /\ freed = 0 /\ chunks = {}
      /\ large' = <<>> /\ given' = {} /\ freed' = 0 /\ chunks' = {}
  BY DEF PoolSound, FreedInOrder, LargeFreedOnce
<1>2. FirstBlock \in Block /\ FirstBlock.last = SizeofPool /\ FirstBlock.failed = 0
  BY SizeFacts DEF FirstBlock, Block
<1>3. /\ blocks' \in Seq(Block) /\ Len(blocks') = 1 /\ DOMAIN blocks' = {1}
      /\ blocks'[1] = FirstBlock /\ blocks' # <<>> /\ Last(blocks') = FirstBlock
  BY <1>2 DEF Last
<1>4. TypeOK'
  BY <1>1, <1>3, SizeFacts DEF TypeOK, Block, PoolSound
<1>5. PiecesApart'
  BY <1>1, <1>2, <1>3, SizeFacts DEF PiecesApart, InUse, Header
<1>6. CurrentFirstUsable'
  BY <1>2, <1>3, SizeFacts DEF CurrentFirstUsable
<1>7. LargeFreedOnce' /\ EntriesInLiveBlocks' /\ FreedInOrder'
  BY <1>1, <1>3 DEF LargeFreedOnce, LargeAllocs, EntriesInLiveBlocks, FreedInOrder
<1>8. QED BY <1>4, <1>5, <1>6, <1>7 DEF PoolSound

LEMMA SmallKeeps ==
  ASSUME PoolSound, NEW size \in Sizes, NEW align \in BOOLEAN, palloc_small(size, align)
  PROVE  PoolSound'
<1> DEFINE at == Place(size, align)
           piece == [range |-> at.block, lo |-> at.offset, hi |-> at.offset + size]
<1>1. state = "live" /\ UNCHANGED <<state, large, chunks, freed>>
  BY DEF palloc_small
<1>2. size \in Nat \ {0} /\ SizeofData + size <= PoolSize
  <2>1. size \in Nat \ {0} /\ PageSize \in Nat
    BY PoolAssumption
  <2>2. size <= MaxSmall
    BY DEF palloc_small
  <2>3. QED BY <2>1, <2>2, SizeFacts DEF MaxSmall
<1>3. CASE TakeSmall(size, align) /\ given' = given \cup {piece}
  <2> HIDE DEF piece
  <2>1. /\ blocks' \in Seq(Block) /\ blocks' # <<>>
        /\ Len(blocks) <= Len(blocks') /\ Len(blocks') <= MaxBlocks
        /\ current' \in 1 .. Len(blocks')
        /\ \A b \in DOMAIN blocks' : blocks'[b].last \in Header(b) .. PoolSize
        /\ CurrentFirstUsable'
    BY <1>1, <1>2, <1>3, TakeFacts
  <2>2. /\ piece \notin InUse /\ piece \in Piece
        /\ \A p \in InUse : Apart(p, piece) /\ Apart(piece, p)
        /\ \A p \in InUse \cup {piece} : InBlock(p)'
    BY <1>1, <1>2, <1>3, NewPiece DEF piece
  <2>3. \A i \in DOMAIN large : EntryPiece(i)' = EntryPiece(i)
    BY <1>1 DEF EntryPiece
  <2>4. InUse' = InUse \cup {piece} /\ DOMAIN large' = DOMAIN large
    BY <1>1, <1>3, <2>3 DEF InUse
  <2>5. TypeOK'
    <3>1. Len(blocks') \in Nat
      BY <2>1, LenProperties
    <3>2. QED BY SMTT(20), <1>1, <1>3, <2>1, <2>2, <3>1 DEF TypeOK, Block, Piece, PoolSound, FreedInOrder
  <2>6. PiecesApart'
    <3>1. \A p, q \in InUse' : p # q => p.range # q.range \/ p.hi <= q.lo \/ q.hi <= p.lo
      BY <1>1, <2>2, <2>4 DEF Apart, PoolSound, PiecesApart
    <3>2. \A p \in InUse' : /\ p.range \in DOMAIN blocks'
                            /\ Header(p.range) <= p.lo /\ p.hi <= blocks'[p.range].last
      BY <2>2, <2>4 DEF InBlock
    <3>3. \A i, j \in DOMAIN large : EntryPiece(i)' = EntryPiece(j)' => i = j
      BY <1>1, <2>3 DEF PoolSound, PiecesApart
    <3>4. \A i \in DOMAIN large : EntryPiece(i)' \notin given'
      BY <1>1, <1>3, <2>2, <2>3, EntryFacts DEF PoolSound, PiecesApart
    <3>5. QED BY <2>1, <2>4, <3>1, <3>2, <3>3, <3>4 DEF PiecesApart
  <2>7. LargeFreedOnce'
    BY <1>1 DEF PoolSound, LargeFreedOnce, LargeAllocs
  <2>8. EntriesInLiveBlocks'
    <3>1. Len(blocks) \in Nat /\ Len(blocks') \in Nat /\ freed = 0
      BY <1>1, <2>1, LenProperties DEF PoolSound, TypeOK, FreedInOrder
    <3>2. \A i \in DOMAIN large : large[i].block \in freed + 1 .. Len(blocks)
      BY DEF PoolSound, EntriesInLiveBlocks
    <3>3. \A i \in DOMAIN large : large[i].block \in freed + 1 .. Len(blocks')
      BY <2>1, <3>1, <3>2
    <3>4. QED BY <3>3, <1>1 DEF EntriesInLiveBlocks
  <2>9. FreedInOrder'
    <3>1. Len(blocks') \in Nat \ {0} /\ freed' = 0
      BY <1>1, <2>1, EmptySeq DEF PoolSound, FreedInOrder
    <3>2. QED BY <3>1, <1>1, <2>1 DEF FreedInOrder
  <2>10. QED BY <2>1, <2>5, <2>6, <2>7, <2>8, <2>9 DEF PoolSound
<1>4. CASE NoBlock(size, align) /\ UNCHANGED given
  BY <1>1, <1>4, StutterKeeps DEF NoBlock, vars
<1>5. QED BY <1>3, <1>4 DEF palloc_small

\* Adding an entry at the head of the list.
LEMMA ConsFacts ==
  ASSUME NEW S, NEW q \in Seq(S), NEW e \in S
  PROVE  LET r == <<e>> \o q
         IN  /\ r \in Seq(S) /\ Len(q) \in Nat /\ Len(r) = Len(q) + 1
             /\ DOMAIN r = 1 .. Len(q) + 1 /\ DOMAIN q = 1 .. Len(q)
             /\ r[1] = e
             /\ \A i \in DOMAIN r : i # 1 => i - 1 \in DOMAIN q /\ r[i] = q[i - 1]
             /\ \A i \in DOMAIN q : i + 1 \in DOMAIN r /\ r[i + 1] = q[i]
<1> DEFINE r == <<e>> \o q
<1>1. <<e>> \in Seq(S) /\ Len(<<e>>) = 1 /\ <<e>>[1] = e
  OBVIOUS
<1>2. Len(q) \in Nat /\ DOMAIN q = 1 .. Len(q)
  BY LenProperties
<1>3. /\ r \in Seq(S) /\ Len(r) = 1 + Len(q)
      /\ \A i \in 1 .. 1 + Len(q) : r[i] = IF i <= 1 THEN <<e>>[i] ELSE q[i - 1]
  BY <1>1, ConcatProperties
<1>4. DOMAIN r = 1 .. Len(q) + 1
  BY <1>2, <1>3, LenProperties
<1> HIDE DEF r
<1>5. r[1] = e
  BY <1>1, <1>2, <1>3
<1>6. ASSUME NEW i \in 1 .. Len(q) + 1, i # 1
      PROVE  i - 1 \in 1 .. Len(q) /\ r[i] = q[i - 1]
  BY <1>2, <1>3, <1>6
<1>7. ASSUME NEW i \in 1 .. Len(q)
      PROVE  i + 1 \in 1 .. Len(q) + 1 /\ r[i + 1] = q[i]
  <2>1. i + 1 \in 1 .. 1 + Len(q) /\ ~ (i + 1 <= 1) /\ (i + 1) - 1 = i
    BY <1>2
  <2>2. QED BY <2>1, <1>3
<1>8. Len(r) = Len(q) + 1
  BY <1>2, <1>3
<1>9. QED BY <1>2, <1>3, <1>4, <1>5, <1>6, <1>7, <1>8 DEF r

\* A large range with a new entry for it.
LEMMA EnterKeeps ==
  ASSUME PoolSound, state = "live", NEW c \in Chunks \ chunks, EnterLarge(c)
  PROVE  PoolSound'
<1> DEFINE at == Place(SizeofLarge, TRUE)
           piece == [range |-> at.block, lo |-> at.offset, hi |-> at.offset + SizeofLarge]
           entry == [block |-> at.block, offset |-> at.offset, alloc |-> c]
<1>1. UNCHANGED <<state, freed, given>>
  BY DEF EnterLarge
<1>2. SizeofLarge \in Nat \ {0} /\ SizeofData + SizeofLarge <= PoolSize /\ TRUE \in BOOLEAN
  BY SizeFacts
<1>3. CASE /\ TakeSmall(SizeofLarge, TRUE) /\ large' = <<entry>> \o large
           /\ chunks' = chunks \cup {c}
  <2> HIDE DEF piece, entry
  <2>1. /\ blocks' \in Seq(Block) /\ blocks' # <<>>
        /\ Len(blocks) <= Len(blocks') /\ Len(blocks') <= MaxBlocks
        /\ current' \in 1 .. Len(blocks')
        /\ at.block \in 1 .. Len(blocks') /\ at.offset \in 0 .. PoolSize
        /\ \A b \in DOMAIN blocks' : blocks'[b].last \in Header(b) .. PoolSize
        /\ CurrentFirstUsable'
    BY <1>2, <1>3, TakeFacts
  <2>2. /\ piece \notin InUse /\ piece \in Piece
        /\ \A p \in InUse : Apart(p, piece) /\ Apart(piece, p)
        /\ \A p \in InUse \cup {piece} : InBlock(p)'
    BY <1>2, <1>3, NewPiece DEF piece
  <2> HIDE DEF at
  <2>3. /\ Len(blocks') \in Nat /\ Len(blocks) \in Nat /\ DOMAIN blocks' = 1 .. Len(blocks')
        /\ freed = 0
    BY <1>1, <2>1, LenProperties DEF PoolSound, FreedInOrder, TypeOK
  <2>4. at.block \in 1 .. MaxBlocks /\ c \notin chunks /\ c # NULL /\ c \in Chunks
    BY <2>1, <2>3, SizeFacts, PoolAssumption DEF NULL
  <2>5. entry \in Entry /\ entry.block = at.block /\ entry.offset = at.offset
        /\ entry.alloc = c
    BY <2>1, <2>4 DEF entry, Entry
  <2>6. /\ large \in Seq(Entry) /\ DOMAIN large = 1 .. Len(large) /\ Len(large) \in Nat
        /\ \A i \in DOMAIN large : large[i].block \in 1 .. MaxBlocks /\ EntryPiece(i) \in InUse
    BY EntryFacts
  <2>7. /\ large' \in Seq(Entry) /\ large'[1] = entry
        /\ DOMAIN large' = 1 .. Len(large) + 1
        /\ \A i \in DOMAIN large' : i # 1 => i - 1 \in DOMAIN large /\ large'[i] = large[i - 1]
        /\ \A i \in DOMAIN large : i + 1 \in DOMAIN large' /\ large'[i + 1] = large[i]
    BY <1>3, <2>5, <2>6, ConsFacts
  <2>8. 1 \in DOMAIN large' /\ EntryPiece(1)' = piece
    BY <2>5, <2>6, <2>7 DEF EntryPiece, piece
  <2>9. /\ \A i \in DOMAIN large' :
              i # 1 => i - 1 \in DOMAIN large /\ EntryPiece(i)' = EntryPiece(i - 1)
        /\ \A i \in DOMAIN large : i + 1 \in DOMAIN large' /\ EntryPiece(i + 1)' = EntryPiece(i)
    BY <2>7 DEF EntryPiece
  <2>10. InUse' = InUse \cup {piece}
    <3>1. InUse' \subseteq InUse \cup {piece}
      BY <1>1, <2>8, <2>9 DEF InUse
    <3>2. InUse \subseteq InUse'
      BY <1>1, <2>9 DEF InUse
    <3>3. piece \in InUse'
      BY <2>8 DEF InUse
    <3>4. QED BY <3>1, <3>2, <3>3
  <2>11. TypeOK'
    BY SMTT(20), <1>1, <1>3, <2>1, <2>3, <2>4, <2>7 DEF TypeOK, Block, Entry, PoolSound
  <2>12. PiecesApart'
    <3>1. \A p, q \in InUse' : p # q => p.range # q.range \/ p.hi <= q.lo \/ q.hi <= p.lo
      BY <2>2, <2>10 DEF Apart, PoolSound, PiecesApart
    <3>2. \A p \in InUse' : /\ p.range \in DOMAIN blocks'
                            /\ Header(p.range) <= p.lo /\ p.hi <= blocks'[p.range].last
      BY <2>2, <2>10 DEF InBlock
    <3>3. ASSUME NEW i \in DOMAIN large', NEW j \in DOMAIN large', i # j
          PROVE  EntryPiece(i)' # EntryPiece(j)'
      <4>1. CASE i = 1
        BY <4>1, <3>3, <2>2, <2>6, <2>8, <2>9
      <4>2. CASE j = 1
        BY <4>2, <3>3, <2>2, <2>6, <2>8, <2>9
      <4>3. CASE i # 1 /\ j # 1
        <5>1. i - 1 # j - 1 /\ i - 1 \in DOMAIN large /\ j - 1 \in DOMAIN large
          BY <4>3, <3>3, <2>6, <2>7
        <5>2. EntryPiece(i - 1) # EntryPiece(j - 1)
          BY <5>1 DEF PoolSound, PiecesApart
        <5>3. QED BY <4>3, <5>2, <2>9
      <4>4. QED BY <4>1, <4>2, <4>3
    <3>4. ASSUME NEW i \in DOMAIN large'
          PROVE  EntryPiece(i)' \notin given'
      <4>1. CASE i = 1
        BY <4>1, <1>1, <2>2, <2>8 DEF InUse
      <4>2. CASE i # 1
        BY <4>2, <1>1, <2>9 DEF PoolSound, PiecesApart
      <4>3. QED BY <4>1, <4>2
    <3>5. QED BY <2>1, <3>1, <3>2, <3>3, <3>4 DEF PiecesApart
  <2>13. LargeFreedOnce'
    <3>1. \A i \in DOMAIN large' : large'[i].alloc = IF i = 1 THEN c ELSE large[i - 1].alloc
      BY <2>5, <2>7
    <3>2. \A i \in DOMAIN large : large[i].alloc # c
      BY <2>4 DEF PoolSound, LargeFreedOnce, LargeAllocs
    <3>3. LargeAllocs' = LargeAllocs \cup {c}
      <4>1. LargeAllocs' \subseteq LargeAllocs \cup {c}
        BY <2>7, <3>1 DEF LargeAllocs
      <4>2. LargeAllocs \subseteq LargeAllocs'
        BY <2>7 DEF LargeAllocs
      <4>3. c \in LargeAllocs'
        BY <2>4, <2>8, <3>1 DEF LargeAllocs
      <4>4. QED BY <4>1, <4>2, <4>3
    <3>4. ASSUME NEW i \in DOMAIN large', NEW j \in DOMAIN large',
                 large'[i].alloc = large'[j].alloc, large'[i].alloc # NULL
          PROVE  i = j
      <4>1. CASE i = 1 \/ j = 1
        BY <4>1, <3>1, <3>2, <3>4, <2>7
      <4>2. CASE i # 1 /\ j # 1
        <5>1. i - 1 \in DOMAIN large /\ j - 1 \in DOMAIN large
          BY <4>2, <2>7
        <5>2. i - 1 = j - 1
          BY <5>1, <4>2, <3>1, <3>4 DEF PoolSound, LargeFreedOnce
        <5>3. QED BY <5>1, <5>2, <2>6, <2>7
      <4>3. QED BY <4>1, <4>2
    <3>5. QED BY <1>1, <1>3, <3>3, <3>4 DEF PoolSound, LargeFreedOnce
  <2>14. EntriesInLiveBlocks'
    <3>1. \A i \in DOMAIN large : large[i].block \in freed + 1 .. Len(blocks)
      BY DEF PoolSound, EntriesInLiveBlocks
    <3>2. \A i \in DOMAIN large' :
            large'[i].block = IF i = 1 THEN at.block ELSE large[i - 1].block
      BY <2>5, <2>7
    <3>3. \A i \in DOMAIN large' : large'[i].block \in freed + 1 .. Len(blocks')
      BY <2>1, <2>3, <2>7, <3>1, <3>2
    <3>4. QED BY <3>3, <1>1 DEF EntriesInLiveBlocks
  <2>15. FreedInOrder'
    <3>1. Len(blocks') \in Nat \ {0} /\ freed' = 0
      BY <1>1, <2>1, <2>3, EmptySeq
    <3>2. QED BY <3>1, <1>1, <2>1 DEF FreedInOrder
  <2>16. QED BY <2>1, <2>11, <2>12, <2>13, <2>14, <2>15 DEF PoolSound
<1>4. CASE NoBlock(SizeofLarge, TRUE) /\ UNCHANGED <<large, chunks>>
  BY <1>1, <1>4, StutterKeeps DEF NoBlock, vars
<1>5. QED BY <1>3, <1>4 DEF EnterLarge

\* Changing what one entry records leaves all the pieces as they are.
LEMMA ChangeEntry ==
  ASSUME PoolSound, state = "live", NEW i \in DOMAIN large, NEW a \in Chunks \cup {NULL},
         large' = [large EXCEPT ![i].alloc = a],
         UNCHANGED <<state, blocks, current, freed, given>>
  PROVE  /\ large' \in Seq(Entry) /\ DOMAIN large' = DOMAIN large
         /\ \A j \in DOMAIN large : /\ large'[j].alloc = IF j = i THEN a ELSE large[j].alloc
                                    /\ large'[j].block = large[j].block
         /\ PiecesApart' /\ CurrentFirstUsable' /\ EntriesInLiveBlocks' /\ FreedInOrder'
<1> DEFINE entry == [large[i] EXCEPT !.alloc = a]
<1>1. /\ large \in Seq(Entry) /\ DOMAIN large = 1 .. Len(large) /\ Len(large) \in Nat
      /\ large[i] \in Entry
  BY EntryFacts
<1>2. /\ entry \in Entry /\ entry.alloc = a /\ entry.block = large[i].block
      /\ entry.offset = large[i].offset
  BY <1>1 DEF Entry
<1>3. large' = [large EXCEPT ![i] = entry]
  OBVIOUS
<1> HIDE DEF entry
<1>4. /\ large' \in Seq(Entry) /\ Len(large') = Len(large)
      /\ \A j \in 1 .. Len(large) : large'[j] = IF j = i THEN entry ELSE large[j]
  BY <1>1, <1>2, <1>3, ExceptSeq
<1>5. DOMAIN large' = DOMAIN large
  BY <1>1, <1>4, LenProperties
<1>6. \A j \in DOMAIN large : /\ large'[j].alloc = IF j = i THEN a ELSE large[j].alloc
                              /\ large'[j].block = large[j].block
                              /\ large'[j].offset = large[j].offset
  BY <1>1, <1>2, <1>4
<1>7. /\ \A j \in DOMAIN large : EntryPiece(j)' = EntryPiece(j)
      /\ InUse' = InUse
  BY <1>5, <1>6 DEF EntryPiece, InUse
<1>8. PiecesApart'
  BY <1>5, <1>7 DEF PoolSound, PiecesApart
<1>9. CurrentFirstUsable'
  BY DEF PoolSound, CurrentFirstUsable
<1>10. EntriesInLiveBlocks'
  BY <1>5, <1>6 DEF PoolSound, EntriesInLiveBlocks
<1>11. FreedInOrder'
  BY DEF PoolSound, FreedInOrder
<1>12. QED BY <1>4, <1>5, <1>6, <1>8, <1>9, <1>10, <1>11

LEMMA LargeKeeps == ASSUME PoolSound, NEW size \in Sizes, ngx_palloc_large(size)
                    PROVE  PoolSound'
<1>1. state = "live"
  BY DEF ngx_palloc_large
<1>2. PICK c \in Chunks \ chunks :
        IF Searched # {}
        THEN /\ large' = [large EXCEPT ![Min(Searched)].alloc = c]
             /\ chunks' = chunks \cup {c}
             /\ UNCHANGED <<state, blocks, current, freed, given>>
        ELSE EnterLarge(c)
  BY DEF ngx_palloc_large
<1>3. CASE Searched = {}
  BY <1>1, <1>2, <1>3, EnterKeeps
<1>4. CASE Searched # {}
  <2> DEFINE i == Min(Searched)
  <2>1. i \in DOMAIN large /\ large[i].alloc = NULL
    <3>1. Searched \in SUBSET Nat
      BY EntryFacts DEF Searched
    <3>2. i \in Searched
      BY <3>1, <1>4, MinFacts
    <3> HIDE DEF i
    <3>3. QED BY <3>2 DEF Searched
  <2>2. /\ large' = [large EXCEPT ![i].alloc = c] /\ chunks' = chunks \cup {c}
        /\ UNCHANGED <<state, blocks, current, freed, given>>
    BY <1>2, <1>4
  <2> HIDE DEF i
  <2>3. c \in Chunks /\ c \notin chunks /\ c # NULL
    BY PoolAssumption DEF NULL
  <2>4. /\ large' \in Seq(Entry) /\ DOMAIN large' = DOMAIN large
        /\ \A j \in DOMAIN large : large'[j].alloc = IF j = i THEN c ELSE large[j].alloc
        /\ PiecesApart' /\ CurrentFirstUsable' /\ EntriesInLiveBlocks' /\ FreedInOrder'
    BY <1>1, <2>1, <2>2, <2>3, ChangeEntry
  <2>5. TypeOK'
    BY <2>2, <2>3, <2>4 DEF PoolSound, TypeOK, Entry
  <2>6. LargeFreedOnce'
    <3>1. \A j \in DOMAIN large : large[j].alloc # c
      BY <2>3 DEF PoolSound, LargeFreedOnce, LargeAllocs
    <3>2. LargeAllocs' = LargeAllocs \cup {c}
      <4>1. LargeAllocs' \subseteq LargeAllocs \cup {c}
        BY <2>4 DEF LargeAllocs
      <4>2. LargeAllocs \subseteq LargeAllocs'
        <5> SUFFICES ASSUME NEW j \in DOMAIN large, large[j].alloc # NULL
                     PROVE  large[j].alloc \in LargeAllocs'
          BY DEF LargeAllocs
        <5>1. j # i /\ large'[j].alloc = large[j].alloc
          BY <2>1, <2>4
        <5>2. QED BY <5>1, <2>4 DEF LargeAllocs
      <4>3. c \in LargeAllocs'
        BY <2>1, <2>3, <2>4 DEF LargeAllocs
      <4>4. QED BY <4>1, <4>2, <4>3
    <3>3. \A j, k \in DOMAIN large' :
            large'[j].alloc = large'[k].alloc /\ large'[j].alloc # NULL => j = k
      BY <2>4, <3>1 DEF PoolSound, LargeFreedOnce
    <3>4. QED BY <1>1, <2>2, <3>2, <3>3 DEF PoolSound, LargeFreedOnce
  <2>7. QED BY <2>4, <2>5, <2>6 DEF PoolSound
<1>5. QED BY <1>3, <1>4

LEMMA MemalignKeeps == ASSUME PoolSound, ngx_pmemalign PROVE PoolSound'
BY EnterKeeps DEF ngx_pmemalign

LEMMA FreeKeeps == ASSUME PoolSound, NEW c \in Chunks, ngx_pfree(c) PROVE PoolSound'
<1> DEFINE i == Min(EntriesOf(c))
<1>1. /\ state = "live" /\ c \in chunks /\ EntriesOf(c) # {}
      /\ large' = [large EXCEPT ![i].alloc = NULL] /\ chunks' = chunks \ {c}
      /\ UNCHANGED <<state, blocks, current, freed, given>>
  BY DEF ngx_pfree
<1>2. i \in DOMAIN large /\ large[i].alloc = c
  <2>1. EntriesOf(c) \in SUBSET Nat
    BY EntryFacts DEF EntriesOf
  <2>2. i \in EntriesOf(c)
    BY <2>1, <1>1, MinFacts
  <2> HIDE DEF i
  <2>3. QED BY <2>2 DEF EntriesOf
<1> HIDE DEF i
<1>3. c # NULL
  BY PoolAssumption DEF NULL
<1>4. /\ large' \in Seq(Entry) /\ DOMAIN large' = DOMAIN large
      /\ \A j \in DOMAIN large : large'[j].alloc = IF j = i THEN NULL ELSE large[j].alloc
      /\ PiecesApart' /\ CurrentFirstUsable' /\ EntriesInLiveBlocks' /\ FreedInOrder'
  BY <1>1, <1>2, ChangeEntry
<1>5. TypeOK'
  BY <1>1, <1>4 DEF PoolSound, TypeOK, Entry
<1>6. LargeFreedOnce'
  <2>1. \A j \in DOMAIN large : large[j].alloc = c => j = i
    BY <1>2, <1>3 DEF PoolSound, LargeFreedOnce
  <2>2. LargeAllocs' = LargeAllocs \ {c}
    <3>1. LargeAllocs' \subseteq LargeAllocs \ {c}
      BY <1>4, <2>1 DEF LargeAllocs
    <3>2. LargeAllocs \ {c} \subseteq LargeAllocs'
      <4> SUFFICES ASSUME NEW j \in DOMAIN large, large[j].alloc # NULL, large[j].alloc # c
                   PROVE  large[j].alloc \in LargeAllocs'
        BY DEF LargeAllocs
      <4>1. large'[j].alloc = large[j].alloc
        BY <1>2, <1>4
      <4>2. QED BY <4>1, <1>4 DEF LargeAllocs
    <3>3. QED BY <3>1, <3>2
  <2>3. \A j, k \in DOMAIN large' :
          large'[j].alloc = large'[k].alloc /\ large'[j].alloc # NULL => j = k
    BY <1>4 DEF PoolSound, LargeFreedOnce
  <2>4. QED BY <1>1, <2>2, <2>3 DEF PoolSound, LargeFreedOnce
<1>7. QED BY <1>4, <1>5, <1>6 DEF PoolSound

LEMMA ResetKeeps == ASSUME PoolSound, ngx_reset_pool PROVE PoolSound'
<1>1. /\ state = "live" /\ chunks' = chunks \ LargeAllocs
      /\ blocks' = [b \in DOMAIN blocks |-> ResetBlock(blocks[b])]
      /\ current' = 1 /\ large' = <<>> /\ given' = {} /\ UNCHANGED <<state, freed>>
  BY DEF ngx_reset_pool
<1>2. /\ blocks # <<>> /\ Len(blocks) \in Nat \ {0} /\ DOMAIN blocks = 1 .. Len(blocks)
      /\ Len(blocks) <= MaxBlocks /\ freed = 0
  <2>1. blocks # <<>> /\ freed = 0
    BY <1>1 DEF PoolSound, FreedInOrder
  <2>2. QED BY <2>1, BlockFacts, SizeFacts
<1>3. /\ blocks' \in Seq(Block) /\ DOMAIN blocks' = 1 .. Len(blocks)
      /\ Len(blocks') = Len(blocks) /\ blocks' # <<>>
      /\ \A b \in 1 .. Len(blocks) : blocks'[b].last = SizeofPool /\ blocks'[b].failed = 0
  <2>1. \A b \in 1 .. Len(blocks) : blocks'[b] = [last |-> SizeofPool, failed |-> 0]
    BY <1>1, <1>2 DEF ResetBlock
  <2>2. [last |-> SizeofPool, failed |-> 0] \in Block
    BY SizeFacts DEF Block
  <2>3. blocks' \in [1 .. Len(blocks) -> Block]
    BY <1>1, <1>2, <2>1, <2>2
  <2>4. blocks' \in Seq(Block)
    BY <1>2, <2>3, SeqDef
  <2>5. DOMAIN blocks' = 1 .. Len(blocks') /\ Len(blocks') \in Nat
    BY <2>4, LenProperties
  <2>6. Len(blocks') = Len(blocks)
    BY <1>2, <2>3, <2>5
  <2>7. QED BY <1>2, <2>1, <2>4, <2>5, <2>6
<1>4. chunks' = {} /\ LargeAllocs' = {}
  BY <1>1 DEF PoolSound, LargeFreedOnce, LargeAllocs
<1>5. TypeOK'
  BY <1>1, <1>2, <1>3, <1>4 DEF PoolSound, TypeOK, Block
<1>6. PiecesApart'
  <2>1. InUse' = {}
    BY <1>1 DEF InUse
  <2>2. \A b \in DOMAIN blocks' : blocks'[b].last \in Header(b) .. PoolSize
    BY <1>3, SizeFacts DEF Header
  <2>3. DOMAIN large' = {}
    BY <1>1
  <2>4. QED BY <2>1, <2>2, <2>3 DEF PiecesApart
<1>7. CurrentFirstUsable'
  <2>1. Last(blocks') = blocks'[Len(blocks)]
    BY <1>3 DEF Last
  <2>2. QED BY <1>1, <1>2, <1>3, <2>1, SizeFacts DEF CurrentFirstUsable
<1>8. LargeFreedOnce' /\ EntriesInLiveBlocks' /\ FreedInOrder'
  BY <1>1, <1>2, <1>3, <1>4 DEF LargeFreedOnce, EntriesInLiveBlocks, FreedInOrder
<1>9. QED BY <1>5, <1>6, <1>7, <1>8 DEF PoolSound

LEMMA DestroyCallKeeps == ASSUME PoolSound, DestroyCall PROVE PoolSound'
<1> USE DEF PoolSound, DestroyCall
<1>1. TypeOK' /\ PiecesApart' /\ CurrentFirstUsable' /\ EntriesInLiveBlocks' /\ FreedInOrder'
  BY DEF TypeOK, PiecesApart, CurrentFirstUsable, EntriesInLiveBlocks, FreedInOrder
<1>2. LargeFreedOnce'
  BY DEF LargeFreedOnce, LargeAllocs
<1>3. QED BY <1>1, <1>2

LEMMA FreeLargeKeeps == ASSUME PoolSound, FreeLarge PROVE PoolSound'
<1>0. /\ state = "free large" /\ large # <<>>
      /\ chunks' = chunks \ {Head(large).alloc} /\ large' = Tail(large)
      /\ UNCHANGED <<state, blocks, current, freed, given>>
  BY DEF FreeLarge
<1>1. /\ large \in Seq(Entry) /\ DOMAIN large = 1 .. Len(large) /\ Len(large) \in Nat \ {0}
      /\ \A i \in DOMAIN large : large[i].alloc \in Chunks \cup {NULL}
  BY <1>0, EntryFacts, EmptySeq
<1>2. /\ large' \in Seq(Entry) /\ DOMAIN large' = 1 .. Len(large) - 1
      /\ Head(large) = large[1] /\ 1 \in DOMAIN large
      /\ \A i \in DOMAIN large' : i + 1 \in DOMAIN large /\ large'[i] = large[i + 1]
  <2>1. /\ Tail(large) \in Seq(Entry) /\ Len(Tail(large)) = Len(large) - 1
        /\ \A i \in 1 .. Len(Tail(large)) : Tail(large)[i] = large[i + 1]
    BY <1>0, <1>1, HeadTailProperties
  <2>2. DOMAIN Tail(large) = 1 .. Len(large) - 1
    BY <2>1, LenProperties
  <2>3. \A i \in 1 .. Len(large) - 1 : i + 1 \in 1 .. Len(large)
    BY <1>1
  <2>4. Head(large) = large[1] /\ 1 \in DOMAIN large
    BY <1>1
  <2>5. QED BY <1>0, <1>1, <2>1, <2>2, <2>3, <2>4
<1>3. \A i \in DOMAIN large : i # 1 => i - 1 \in DOMAIN large' /\ large'[i - 1] = large[i]
  <2> SUFFICES ASSUME NEW i \in DOMAIN large, i # 1
               PROVE  i - 1 \in DOMAIN large' /\ large'[i - 1] = large[i]
    OBVIOUS
  <2>1. i - 1 \in DOMAIN large' /\ (i - 1) + 1 = i
    BY <1>1, <1>2
  <2>2. QED BY <2>1, <1>2
<1>4. TypeOK'
  BY <1>0, <1>2 DEF PoolSound, TypeOK, Entry
<1>5. LargeFreedOnce'
  <2>1. \A i, j \in DOMAIN large' :
          large'[i].alloc = large'[j].alloc /\ large'[i].alloc # NULL => i = j
    <3> SUFFICES ASSUME NEW i \in DOMAIN large', NEW j \in DOMAIN large',
                        large'[i].alloc = large'[j].alloc, large'[i].alloc # NULL
                 PROVE  i = j
      OBVIOUS
    <3>1. i + 1 = j + 1
      <4>1. /\ i + 1 \in DOMAIN large /\ large'[i] = large[i + 1]
            /\ j + 1 \in DOMAIN large /\ large'[j] = large[j + 1]
        BY <1>2
      <4>2. \A k, l \in DOMAIN large :
              large[k].alloc = large[l].alloc /\ large[k].alloc # NULL => k = l
        BY DEF PoolSound, LargeFreedOnce
      <4>3. large[i + 1].alloc = large[j + 1].alloc /\ large[i + 1].alloc # NULL
        BY <4>1
      <4>4. QED BY <4>1, <4>2, <4>3
    <3>2. i \in Nat /\ j \in Nat
      BY <1>1, <1>2
    <3>3. QED BY <3>1, <3>2
  <2>2. LargeAllocs' = LargeAllocs \ {large[1].alloc}
    <3>1. ASSUME NEW x \in LargeAllocs'
          PROVE  x \in LargeAllocs \ {large[1].alloc}
      <4>1. PICK i \in DOMAIN large' : x = large'[i].alloc /\ x # NULL
        BY <3>1 DEF LargeAllocs
      <4>2. i + 1 \in DOMAIN large /\ x = large[i + 1].alloc /\ i + 1 # 1
        <5>1. i \in Nat \ {0}
          BY <1>1, <1>2
        <5>2. QED BY <4>1, <5>1, <1>2
      <4>3. x # large[1].alloc
        BY <4>1, <4>2, <1>2 DEF PoolSound, LargeFreedOnce
      <4>4. QED BY <4>1, <4>2, <4>3 DEF LargeAllocs
    <3>2. ASSUME NEW x \in LargeAllocs, x # large[1].alloc
          PROVE  x \in LargeAllocs'
      <4>1. PICK i \in DOMAIN large : x = large[i].alloc /\ x # NULL
        BY <3>2 DEF LargeAllocs
      <4>2. i # 1
        BY <4>1, <3>2
      <4>3. i - 1 \in DOMAIN large' /\ x = large'[i - 1].alloc
        BY <4>1, <4>2, <1>3
      <4>4. QED BY <4>1, <4>3 DEF LargeAllocs
    <3>3. QED BY <3>1, <3>2
  <2>3. chunks' = LargeAllocs'
    BY <2>2, <1>0, <1>2 DEF PoolSound, LargeFreedOnce
  <2>4. QED BY <1>0, <2>1, <2>3 DEF LargeFreedOnce
<1>6. EntriesInLiveBlocks'
  BY <1>0, <1>2 DEF PoolSound, EntriesInLiveBlocks
<1>7. PiecesApart' /\ CurrentFirstUsable' /\ FreedInOrder'
  BY <1>0 DEF PoolSound, PiecesApart, CurrentFirstUsable, FreedInOrder
<1>8. QED BY <1>4, <1>5, <1>6, <1>7 DEF PoolSound

LEMMA LargeFreedKeeps == ASSUME PoolSound, LargeFreed PROVE PoolSound'
<1>1. /\ state = "free large" /\ large = <<>> /\ state' = "free blocks"
      /\ UNCHANGED <<blocks, current, large, chunks, freed, given>>
  BY DEF LargeFreed
<1>2. LargeAllocs = {} /\ LargeAllocs' = {}
  <2>1. large = <<>> /\ large' = <<>>
    BY <1>1
  <2>2. DOMAIN large = {} /\ DOMAIN large' = {}
    BY <2>1
  <2>3. QED BY <2>2 DEF LargeAllocs
<1>3. LargeFreedOnce'
  BY <1>1, <1>2 DEF PoolSound, LargeFreedOnce
<1>4. TypeOK' /\ PiecesApart' /\ CurrentFirstUsable' /\ EntriesInLiveBlocks' /\ FreedInOrder'
  BY <1>1
  DEF PoolSound, TypeOK, PiecesApart, CurrentFirstUsable, EntriesInLiveBlocks, FreedInOrder
<1>5. QED BY <1>3, <1>4 DEF PoolSound

LEMMA FreeBlockKeeps == ASSUME PoolSound, FreeBlock PROVE PoolSound'
<1>1. /\ state = "free blocks" /\ blocks # <<>> /\ large = <<>> /\ given = {} /\ chunks = {}
      /\ UNCHANGED <<large, chunks, given>>
  BY DEF PoolSound, FreedInOrder, LargeFreedOnce, FreeBlock
<1>2. Len(blocks) \in Nat /\ freed \in Nat /\ freed < Len(blocks)
  <2>1. Len(blocks) \in Nat
    BY LenProperties DEF PoolSound, TypeOK
  <2>2. freed \in 0 .. Len(blocks) /\ freed < Len(blocks)
    BY <1>1 DEF PoolSound, TypeOK, FreedInOrder
  <2>3. QED BY <2>1, <2>2
<1>3. LargeAllocs' = {} /\ DOMAIN large' = {}
  <2>1. large' = <<>>
    BY <1>1
  <2>2. DOMAIN large' = {}
    BY <2>1
  <2>3. QED BY <2>2 DEF LargeAllocs
<1>4. LargeFreedOnce' /\ EntriesInLiveBlocks'
  BY <1>1, <1>3 DEF LargeFreedOnce, EntriesInLiveBlocks
<1>5. CASE freed + 1 = Len(blocks)
  <2>1. state' = "none" /\ blocks' = <<>> /\ current' = 0 /\ freed' = 0
    BY <1>5 DEF FreeBlock
  <2>2. blocks' \in Seq(Block) /\ Len(blocks') = 0 /\ DOMAIN blocks' = {}
    BY <2>1
  <2>3. TypeOK'
    <3>1. Len(blocks') <= MaxBlocks /\ current' \in 0 .. Len(blocks')
          /\ freed' \in 0 .. Len(blocks')
      BY <2>1, <2>2, SizeFacts
    <3>2. QED BY <1>1, <2>1, <2>2, <3>1 DEF PoolSound, TypeOK, Block
  <2>4. PiecesApart' /\ CurrentFirstUsable' /\ FreedInOrder'
    BY <1>1, <2>1, <2>2 DEF PiecesApart, CurrentFirstUsable, FreedInOrder
  <2>5. QED BY <1>4, <2>3, <2>4 DEF PoolSound
<1>6. CASE freed + 1 # Len(blocks)
  <2>1. freed' = freed + 1 /\ UNCHANGED <<state, blocks, current>>
    BY <1>6 DEF FreeBlock
  <2>2. freed' \in 0 .. Len(blocks) /\ freed' < Len(blocks)
    BY <2>1, <1>2, <1>6
  <2>3. TypeOK'
    BY <1>1, <2>1, <2>2 DEF PoolSound, TypeOK
  <2>4. PiecesApart' /\ CurrentFirstUsable' /\ FreedInOrder'
    BY <1>1, <2>1, <2>2 DEF PoolSound, PiecesApart, CurrentFirstUsable, FreedInOrder
  <2>5. QED BY <1>4, <2>3, <2>4 DEF PoolSound
<1>7. QED BY <1>5, <1>6

\* The pieces, entries, blocks and large ranges of a pool agree at all times.
THEOREM PoolStaysSound == Spec => []PoolSound
<1>1. Init => PoolSound
  <2> SUFFICES ASSUME Init PROVE PoolSound
    OBVIOUS
  <2>1. <<>> \in Seq(Block) /\ <<>> \in Seq(Entry) /\ Len(<<>>) = 0
    OBVIOUS
  <2>2. TypeOK
    BY <2>1, SizeFacts DEF Init, TypeOK, Block, Entry
  <2>3. QED
    BY <2>2 DEF Init, PoolSound, PiecesApart, CurrentFirstUsable, LargeFreedOnce, LargeAllocs,
                EntriesInLiveBlocks, FreedInOrder
<1>2. PoolSound /\ [Next]_vars => PoolSound'
  BY CreateKeeps, MemalignKeeps, ResetKeeps, LargeKeeps, SmallKeeps, FreeKeeps,
     DestroyCallKeeps, FreeLargeKeeps, LargeFreedKeeps, FreeBlockKeeps, StutterKeeps
  DEF Next
<1>3. QED BY <1>1, <1>2, PTL DEF Spec

-------------------------------------------------------------------------------
(* What a step may do.                                                     *)

\* ngx_palloc_block asks malloc for a block only when the blocks it looks at
\* are full.
LEMMA AddedOnlyWhenFull == ASSUME PoolSound, [Next]_vars PROVE AddedWhenFull
<1> SUFFICES ASSUME blocks # <<>>, Len(blocks') > Len(blocks)
             PROVE  LET size == Last(blocks').last - BlockStart
                    IN  \A b \in current .. Len(blocks) :
                          PoolSize - blocks[b].last < size + Alignment - 1
  BY DEF AddedWhenFull
<1>1. /\ Len(blocks) \in Nat \ {0} /\ current \in 1 .. Len(blocks)
      /\ DOMAIN blocks = 1 .. Len(blocks) /\ Len(blocks') # Len(blocks)
  BY BlockFacts, SizeFacts
<1>2. ASSUME NEW size \in Nat \ {0}, NEW align \in BOOLEAN, SizeofData + size <= PoolSize,
             TakeSmall(size, align)
      PROVE  \A b \in current .. Len(blocks) :
               PoolSize - blocks[b].last < (Last(blocks').last - BlockStart) + Alignment - 1
  <2>1. CASE TakeFromBlock(size, align)
    <3>1. Len(blocks') = Len(blocks)
      <4> DEFINE m == Place(size, align).block
                 top == Place(size, align).offset + size
                 piece == [blocks[m] EXCEPT !.last = top]
      <4>1. m \in DOMAIN blocks /\ top \in 0 .. PoolSize
            /\ blocks' = [blocks EXCEPT ![m] = piece]
        <5>1. /\ m \in DOMAIN blocks /\ blocks' = [blocks EXCEPT ![m].last = top]
              /\ Place(size, align).offset \in blocks[m].last .. PoolSize
              /\ top <= PoolSize
          BY <1>2, <2>1, FromBlock
        <5>2. blocks[m].last \in 0 .. PoolSize
          BY <5>1, BlockFacts
        <5>3. QED BY <5>1, <5>2, <1>2, SizeFacts
      <4>2. blocks \in Seq(Block) /\ blocks[m] \in Block
        BY <4>1, <1>1, ElementOfSeq DEF PoolSound, TypeOK, Block
      <4>3. piece \in Block
        BY <4>1, <4>2 DEF Block
      <4> HIDE DEF piece, m
      <4>4. QED BY <4>1, <4>2, <4>3, <1>1, ExceptSeq
    <3>2. QED BY <3>1, <1>1
  <2>2. CASE ngx_palloc_block(size, align)
    <3>1. /\ Len(blocks') = Len(blocks) + 1
          /\ blocks'[Len(blocks) + 1] = [last |-> SizeofData + size, failed |-> 0]
      BY <1>2, <2>2, FromNewBlock
    <3>2. Last(blocks').last - BlockStart = size
      <4>1. Last(blocks').last = SizeofData + size
        BY <3>1 DEF Last
      <4>2. QED BY <4>1, <1>2, SizeFacts
    <3>3. ASSUME NEW b \in current .. Len(blocks)
          PROVE  PoolSize - blocks[b].last < size + Alignment - 1
      <4>1. b \in DOMAIN blocks
        BY <1>1
      <4>2. ~ Fits(b, size, align)
        BY <2>2 DEF ngx_palloc_block, Fitting
      <4>3. /\ Start(b, align) \in blocks[b].last .. PoolSize
            /\ Start(b, align) - blocks[b].last <= Alignment - 1
            /\ (PoolSize - Start(b, align)) % AddressSpace = PoolSize - Start(b, align)
            /\ blocks[b].last \in 0 .. PoolSize
        BY <4>1, StartFacts, BlockFacts
      <4>4. PoolSize - Start(b, align) < size
        <5>1. ~ ((PoolSize - Start(b, align)) >= size)
          BY <4>2, <4>3 DEF Fits
        <5>2. QED BY <5>1, <4>3, <1>2, SizeFacts
      <4>5. QED BY <4>3, <4>4, <1>2, SizeFacts
    <3>4. QED BY <3>2, <3>3
  <2>3. QED BY <1>2, <2>1, <2>2 DEF TakeSmall
<1>3. ASSUME NEW c \in Chunks, EnterLarge(c)
      PROVE  TakeSmall(SizeofLarge, TRUE)
  BY <1>1, <1>3 DEF EnterLarge, NoBlock
<1>4. SizeofLarge \in Nat \ {0} /\ SizeofData + SizeofLarge <= PoolSize /\ TRUE \in BOOLEAN
  BY SizeFacts
<1>5. CASE ngx_pmemalign \/ \E size \in Sizes : ngx_palloc_large(size)
  <2>1. TakeSmall(SizeofLarge, TRUE)
    BY <1>1, <1>3, <1>5 DEF ngx_pmemalign, ngx_palloc_large
  <2>2. QED BY <2>1, <1>2, <1>4
<1>6. ASSUME NEW size \in Sizes, NEW align \in BOOLEAN, palloc_small(size, align)
      PROVE  \A b \in current .. Len(blocks) :
               PoolSize - blocks[b].last < (Last(blocks').last - BlockStart) + Alignment - 1
  <2>1. size \in Nat \ {0} /\ SizeofData + size <= PoolSize
    <3>1. size \in Nat \ {0} /\ PageSize \in Nat
      BY PoolAssumption
    <3>2. size <= MaxSmall
      BY <1>6 DEF palloc_small
    <3>3. QED BY <3>1, <3>2, SizeFacts DEF MaxSmall
  <2>2. TakeSmall(size, align)
    BY <1>1, <1>6 DEF palloc_small, NoBlock
  <2>3. QED BY <2>1, <2>2, <1>2
<1>7. CASE ngx_create_pool
  BY <1>7 DEF ngx_create_pool, PoolSound, FreedInOrder
<1>8. CASE ngx_reset_pool
  <2>1. blocks' = [b \in DOMAIN blocks |-> ResetBlock(blocks[b])]
    BY <1>8 DEF ngx_reset_pool
  <2>2. Len(blocks') = Len(blocks)
    BY <2>1, <1>1
  <2>3. QED BY <2>2, <1>1
<1>9. CASE FreeBlock
  <2>1. blocks' = <<>> \/ blocks' = blocks
    BY <1>9 DEF FreeBlock
  <2>2. QED BY <2>1, <1>1
<1>10. CASE \/ \E c \in Chunks : ngx_pfree(c)
            \/ DestroyCall \/ FreeLarge \/ LargeFreed \/ UNCHANGED vars
  <2>1. blocks' = blocks
    BY <1>10 DEF ngx_pfree, DestroyCall, FreeLarge, LargeFreed, vars
  <2>2. QED BY <2>1, <1>1
<1>11. QED BY <1>5, <1>6, <1>7, <1>8, <1>9, <1>10 DEF Next

\* A block is added only when no block from current on has the bytes left.
THEOREM BlocksOnlyWhenFull == Spec => BlockAddedWhenFull
<1>1. PoolSound /\ [Next]_vars => AddedWhenFull
  BY AddedOnlyWhenFull
<1>2. QED BY <1>1, PoolStaysSound, PTL DEF Spec, BlockAddedWhenFull

-------------------------------------------------------------------------------
(* The pool as an arena.                                                   *)

Chunk(c) == [range |-> c, lo |-> 0, hi |-> 1]

\* A piece that a step adds to what the caller holds is given by the arena.
LEMMA GiveOne ==
  ASSUME NEW p, p \notin Held, Held' = Held \cup {p}, p.lo < p.hi,
         \A q \in Held : Apart(p, q)
  PROVE  Pool!Next
BY DEF Pool!Next, Pool!Give, Pool!Apart, Apart

\* Small pieces and large ones are of different ranges.
LEMMA HeldFacts ==
  ASSUME PoolSound, state = "live"
  PROVE  /\ Held = given \cup {Chunk(c) : c \in chunks}
         /\ \A p \in given : p.range \in 1 .. MaxBlocks
         /\ \A c \in Chunks : c \notin 1 .. MaxBlocks /\ Chunk(c) \notin given
<1>1. \A p \in given : p.range \in 1 .. MaxBlocks
  BY DEF PoolSound, TypeOK
<1>2. \A c \in Chunks : c \notin 1 .. MaxBlocks /\ Chunk(c).range = c
  BY PoolAssumption DEF Chunk
<1>3. QED BY <1>1, <1>2 DEF Held, Chunk

LEMMA LargeGiven ==
  ASSUME PoolSound, state = "live", state' = "live", NEW c \in Chunks \ chunks,
         chunks' = chunks \cup {c}, given' = given
  PROVE  Pool!Next
<1>1. Held' = given \cup {Chunk(d) : d \in chunks \cup {c}}
  BY DEF Held, Chunk
<1>2. Held' = Held \cup {Chunk(c)}
  BY <1>1, HeldFacts
<1>3. \A d \in Chunks : Chunk(d).range = d /\ Chunk(d).lo = 0 /\ Chunk(d).hi = 1
  BY DEF Chunk
<1>4. chunks \subseteq Chunks
  BY DEF PoolSound, TypeOK
<1>5. Chunk(c) \notin Held
  BY <1>3, <1>4, HeldFacts
<1>6. \A q \in Held : Apart(Chunk(c), q)
  BY <1>3, <1>4, HeldFacts DEF Apart
<1>7. QED BY <1>2, <1>3, <1>5, <1>6, GiveOne

LEMMA EnterGiven ==
  ASSUME PoolSound, state = "live", NEW c \in Chunks \ chunks, EnterLarge(c)
  PROVE  Pool!Next \/ UNCHANGED Held
<1>1. UNCHANGED <<state, given>>
  BY DEF EnterLarge
<1>2. CASE chunks' = chunks \cup {c}
  BY <1>1, <1>2, LargeGiven
<1>3. CASE chunks' = chunks
  BY <1>1, <1>3 DEF Held
<1>4. QED BY <1>2, <1>3 DEF EnterLarge

LEMMA SmallGiven ==
  ASSUME PoolSound, NEW size \in Sizes, NEW align \in BOOLEAN, palloc_small(size, align)
  PROVE  Pool!Next \/ UNCHANGED Held
<1> DEFINE at == Place(size, align)
           piece == [range |-> at.block, lo |-> at.offset, hi |-> at.offset + size]
<1>1. state = "live" /\ UNCHANGED <<state, chunks>>
  BY DEF palloc_small
<1>2. size \in Nat \ {0} /\ SizeofData + size <= PoolSize
  <2>1. size \in Nat \ {0} /\ PageSize \in Nat
    BY PoolAssumption
  <2>2. size <= MaxSmall
    BY DEF palloc_small
  <2>3. QED BY <2>1, <2>2, SizeFacts DEF MaxSmall
<1>3. CASE TakeSmall(size, align) /\ given' = given \cup {piece}
  <2>1. /\ piece \notin InUse /\ piece \in Piece
        /\ \A p \in InUse : Apart(piece, p)
    BY <1>1, <1>2, <1>3, NewPiece
  <2>2. piece.lo < piece.hi
    <3>1. piece.lo \in Nat /\ piece.hi = piece.lo + size
      BY <2>1 DEF Piece
    <3>2. QED BY <3>1, <1>2
  <2> HIDE DEF piece
  <2>3. piece.range \in 1 .. MaxBlocks
    BY <2>1 DEF Piece
  <2>4. \A c \in chunks : Chunk(c).range # piece.range
    BY <2>3, <1>1, HeldFacts DEF Chunk, PoolSound, TypeOK
  <2>5. Held' = Held \cup {piece}
    BY <1>1, <1>3 DEF Held
  <2>6. piece \notin Held
    BY <1>1, <2>1, <2>4, HeldFacts DEF InUse
  <2>7. \A q \in Held : Apart(piece, q)
    BY <1>1, <2>1, <2>4, HeldFacts DEF InUse, Apart
  <2>8. QED BY <2>2, <2>5, <2>6, <2>7, GiveOne
<1>4. CASE UNCHANGED given
  BY <1>1, <1>4 DEF Held
<1>5. QED BY <1>3, <1>4 DEF palloc_small

LEMMA FreeTakesBack ==
  ASSUME PoolSound, NEW c \in Chunks, ngx_pfree(c)
  PROVE  Pool!Next
<1>1. state = "live" /\ c \in chunks /\ chunks' = chunks \ {c} /\ UNCHANGED <<state, given>>
  BY DEF ngx_pfree
<1>2. \A d \in Chunks : Chunk(d).range = d
  BY DEF Chunk
<1>3. Held' = given \cup {Chunk(d) : d \in chunks \ {c}}
  BY <1>1 DEF Held, Chunk
<1>4. Chunk(c) \in Held /\ Held' = Held \ {Chunk(c)}
  <2>1. chunks \subseteq Chunks
    BY DEF PoolSound, TypeOK
  <2>2. Chunk(c) \in Held /\ Chunk(c) \notin Held'
    BY <1>1, <1>2, <1>3, <2>1, HeldFacts
  <2>3. \A p \in Held : p # Chunk(c) => p \in Held'
    BY <1>1, <1>3, HeldFacts
  <2>4. Held' \subseteq Held
    BY <1>1, <1>3, HeldFacts
  <2>5. QED BY <2>2, <2>3, <2>4
<1>5. QED BY <1>4 DEF Pool!Next, Pool!TakeBack

\* Each step gives a piece, takes one or all back, or leaves them as they are.
LEMMA StepIsArenaStep ==
  ASSUME PoolSound, [Next]_vars
  PROVE  Pool!Next \/ UNCHANGED Held
<1>1. ASSUME NEW size \in Sizes, ngx_palloc_large(size)
      PROVE  Pool!Next \/ UNCHANGED Held
  <2>1. state = "live"
    BY <1>1 DEF ngx_palloc_large
  <2>2. PICK c \in Chunks \ chunks :
          \/ chunks' = chunks \cup {c} /\ UNCHANGED <<state, given>>
          \/ EnterLarge(c)
    BY <1>1 DEF ngx_palloc_large
  <2>3. QED BY <2>1, <2>2, LargeGiven, EnterGiven
<1>2. CASE ngx_pmemalign
  BY <1>2, EnterGiven DEF ngx_pmemalign
<1>3. CASE ngx_reset_pool
  <2>1. given' = {} /\ chunks' = {}
    BY <1>3 DEF ngx_reset_pool, PoolSound, LargeFreedOnce
  <2>2. Held' = {}
    BY <2>1 DEF Held
  <2>3. QED BY <2>2 DEF Pool!Next, Pool!TakeBackAll
<1>4. CASE DestroyCall
  <2>1. Held' = {}
    BY <1>4 DEF DestroyCall, Held
  <2>2. QED BY <2>1 DEF Pool!Next, Pool!TakeBackAll
<1>5. CASE ngx_create_pool
  <2>1. given = {} /\ chunks = {} /\ given' = {} /\ chunks' = {}
    BY <1>5 DEF ngx_create_pool, PoolSound, FreedInOrder, LargeFreedOnce
  <2>2. Held = {} /\ Held' = {}
    BY <2>1 DEF Held
  <2>3. QED BY <2>2
<1>6. CASE FreeLarge \/ LargeFreed \/ FreeBlock
  <2>1. state # "live" /\ state' # "live" /\ given' = given
    BY <1>6 DEF FreeLarge, LargeFreed, FreeBlock
  <2>2. QED BY <2>1 DEF Held
<1>7. CASE UNCHANGED vars
  BY <1>7 DEF vars, Held
<1>8. QED
  BY <1>1, <1>2, <1>3, <1>4, <1>5, <1>6, <1>7, SmallGiven, FreeTakesBack DEF Next

\* The pool implements the arena: what the caller holds changes by one piece
\* that shares no byte with the others, or all of it goes back at once.
THEOREM PoolImplementsArena == Spec => ImplementsArena
<1>1. Init => Pool!Init
  BY DEF Init, Pool!Init, Held
<1>2. PoolSound /\ [Next]_vars => [Pool!Next]_Held
  BY StepIsArenaStep
<1>3. QED BY <1>1, <1>2, PoolStaysSound, PTL DEF Spec, ImplementsArena, Pool!Spec
===============================================================================
