------------------------------- MODULE MemPool -------------------------------
(***************************************************************************)
(* The memory pool of src/mem_pool: mem_pool_palloc.c over the malloc      *)
(* wrappers of mem_alloc.c.                                                *)
(*                                                                         *)
(* A block is a range of PoolSize bytes from malloc, counted from its      *)
(* start, which malloc aligns; its header is a part of it.  The blocks of  *)
(* a pool form a list in the order they were made and are numbered so: the *)
(* first is the pool itself.  A large allocation is a range of its own; the *)
(* entry that records it lies in a block.  malloc may fail at any call.    *)
(***************************************************************************)
EXTENDS Integers, SequencesExt

CONSTANTS PoolSize,       \* the argument of ngx_create_pool
          PageSize,       \* ngx_pagesize
          SizeofPool,     \* 56, of ngx_pool_t
          SizeofData,     \* 32, of ngx_pool_data_t
          SizeofLarge,    \* 16, of ngx_pool_large_t
          Alignment,      \* 8, NGX_ALIGNMENT
          AddressSpace,   \* 2^64, the modulus of a size_t
          FailLimit,      \* 4, in ngx_palloc_block
          EntryLimit,     \* 3, in ngx_palloc_large
          Sizes,          \* the sizes callers ask for
          Chunks,         \* bounds the large ranges: malloc fails beyond them
          MaxBlocks       \* bounds the blocks in the same way

\* The least size is NGX_MIN_POOL_SIZE's (mem_pool_palloc.h), the alignment of
\* the size is what its uses have.  Chunks are no blocks.
ASSUME PoolAssumption ==
  /\ {PoolSize, PageSize, SizeofPool, SizeofData, SizeofLarge, Alignment,
      AddressSpace, MaxBlocks} \subseteq Nat \ {0}
  /\ {FailLimit, EntryLimit} \subseteq Nat
  /\ \A n \in {PoolSize, SizeofPool, SizeofData, SizeofLarge} : n % Alignment = 0
  /\ SizeofData < SizeofPool /\ SizeofPool + 2 * SizeofLarge <= PoolSize
  /\ 2 * PoolSize < AddressSpace
  /\ Sizes \subseteq 1 .. PoolSize * 2
  /\ "NULL" \notin Chunks /\ Chunks \cap (1 .. MaxBlocks) = {}

VARIABLES
  state,    \* "none", "live", or the loop ngx_destroy_pool is in
  blocks,   \* last and failed of each block, last as an offset
  current,  \* number of the block pool->current points to
  large,    \* the list of entries, [block, offset, alloc] each
  chunks,   \* large ranges that are allocated
  freed,    \* number of blocks ngx_destroy_pool has freed
  given     \* history: small pieces the caller holds, [range, lo, hi] each

vars == <<state, blocks, current, large, chunks, freed, given>>

NULL == "NULL"

\* A block as ngx_create_pool makes the first one.
FirstBlock == [last |-> SizeofPool, failed |-> 0]

\* pool->max
MaxSmall == LET room == PoolSize - SizeofPool
            IN  IF room < PageSize - 1 THEN room ELSE PageSize - 1

TypeOK ==
  /\ state \in {"none", "live", "free large", "free blocks"}
  /\ blocks \in Seq([last : 0 .. PoolSize, failed : 0 .. FailLimit + 2])
  /\ Len(blocks) <= MaxBlocks
  /\ current \in 0 .. Len(blocks)
  /\ large \in Seq([block : 1 .. MaxBlocks, offset : 0 .. PoolSize,
                    alloc : Chunks \cup {NULL}])
  /\ chunks \subseteq Chunks
  /\ freed \in 0 .. Len(blocks)
  /\ given \subseteq [range : 1 .. MaxBlocks, lo : 0 .. PoolSize, hi : 0 .. PoolSize]

-------------------------------------------------------------------------------
(***************************************************************************)
(* ngx_palloc_small and ngx_palloc_block on the blocks of a pool.          *)
(***************************************************************************)
AlignUp_Down(n) == (n \div Alignment) * Alignment
AlignUp(n) == ((n + Alignment - 1) \div Alignment) * Alignment

Start(b, align) == IF align THEN AlignUp(blocks[b].last) ELSE blocks[b].last

\* The room is computed as a size_t.
Fits(b, size, align) == (PoolSize - Start(b, align)) % AddressSpace >= size

Fitting_CurrentOnly(size, align) ==
  {b \in {current} \cap DOMAIN blocks : Fits(b, size, align)}
Fitting(size, align) == {b \in current .. Len(blocks) : Fits(b, size, align)}

\* ngx_palloc_block counts a failure of every block from current to the last
\* but one before it: current moves past those that had more than FailLimit.
Failing == current .. Len(blocks) - 1
Retired == {b \in Failing : blocks[b].failed > FailLimit}

BlockStart_NoHeader == 0
BlockStart == AlignUp(SizeofData)

\* Where the next small piece of the size comes to lie.
Place(size, align) ==
  IF Fitting(size, align) # {}
  THEN LET b == Min(Fitting(size, align))
       IN  [block |-> b, offset |-> Start(b, align)]
  ELSE [block |-> Len(blocks) + 1, offset |-> BlockStart]

\* The piece is taken from a block that has room, or else from a new one.
TakeFromBlock(size, align) ==
  LET at == Place(size, align)
  IN  /\ Fitting(size, align) # {}
      /\ blocks' = [blocks EXCEPT ![at.block].last = at.offset + size]
      /\ UNCHANGED current

ngx_palloc_block(size, align) ==
  /\ Fitting(size, align) = {} /\ Len(blocks) < MaxBlocks
  /\ blocks' = Append([b \in DOMAIN blocks |->
                         IF b \in Failing THEN [blocks[b] EXCEPT !.failed = @ + 1]
                         ELSE blocks[b]],
                      [last |-> BlockStart + size, failed |-> 0])
  /\ current' = IF Retired = {} THEN current ELSE Max(Retired) + 1

TakeSmall(size, align) == TakeFromBlock(size, align) \/ ngx_palloc_block(size, align)

\* malloc may refuse the new block; the pool is then as it was.
NoBlock(size, align) == Fitting(size, align) = {} /\ UNCHANGED <<blocks, current>>

-------------------------------------------------------------------------------
(***************************************************************************)
(* The calls of the interface.                                             *)
(***************************************************************************)
Init ==
  /\ state = "none" /\ blocks = <<>> /\ current = 0 /\ large = <<>>
  /\ chunks = {} /\ freed = 0 /\ given = {}

ngx_create_pool ==
  /\ state = "none"
  /\ state' = "live" /\ blocks' = <<FirstBlock>> /\ current' = 1
  /\ UNCHANGED <<large, chunks, freed, given>>

\* ngx_palloc and ngx_pcalloc align, ngx_pnalloc does not.
palloc_small(size, align) ==
  /\ state = "live" /\ size <= MaxSmall
  /\ LET at == Place(size, align)
     IN  \/ /\ TakeSmall(size, align)
            /\ given' = given \cup {[range |-> at.block, lo |-> at.offset,
                                     hi |-> at.offset + size]}
         \/ NoBlock(size, align) /\ UNCHANGED given
  /\ UNCHANGED <<state, large, chunks, freed>>

\* The entries ngx_palloc_large looks at, and the first free one of them.
Searched == {i \in DOMAIN large : i <= EntryLimit + 2 /\ large[i].alloc = NULL}

\* A new entry for chunk c at the head of the list, or c freed again.
EnterLarge(c) ==
  /\ LET at == Place(SizeofLarge, TRUE)
     IN  \/ /\ TakeSmall(SizeofLarge, TRUE)
            /\ large' = <<[block |-> at.block, offset |-> at.offset, alloc |-> c]>> \o large
            /\ chunks' = chunks \cup {c}
         \/ NoBlock(SizeofLarge, TRUE) /\ UNCHANGED <<large, chunks>>
  /\ UNCHANGED <<state, freed, given>>

ngx_palloc_large(size) ==
  /\ state = "live" /\ size > MaxSmall
  /\ \E c \in Chunks \ chunks :
       IF Searched # {}
       THEN /\ large' = [large EXCEPT ![Min(Searched)].alloc = c]
            /\ chunks' = chunks \cup {c}
            /\ UNCHANGED <<state, blocks, current, freed, given>>
       ELSE EnterLarge(c)

\* The alignment asked for is dropped by the macro ngx_memalign.
ngx_pmemalign == state = "live" /\ \E c \in Chunks \ chunks : EnterLarge(c)

EntriesOf(c) == {i \in DOMAIN large : large[i].alloc = c}

\* A piece that is no large one is declined.
ngx_pfree(c) ==
  /\ state = "live" /\ c \in chunks /\ EntriesOf(c) # {}
  /\ large' = [large EXCEPT ![Min(EntriesOf(c))].alloc = NULL]
  /\ chunks' = chunks \ {c}
  /\ UNCHANGED <<state, blocks, current, freed, given>>

ResetBlock(block) == [last |-> SizeofPool, failed |-> 0]

LargeAllocs == {large[i].alloc : i \in DOMAIN large} \ {NULL}

ngx_reset_pool ==
  /\ state = "live"
  /\ chunks' = chunks \ LargeAllocs
  /\ blocks' = [b \in DOMAIN blocks |-> ResetBlock(blocks[b])]
  /\ current' = 1 /\ large' = <<>> /\ given' = {}
  /\ UNCHANGED <<state, freed>>

\* ngx_destroy_pool, from the call on of which the caller holds nothing.
DestroyCall ==
  /\ state = "live" /\ state' = "free large" /\ given' = {}
  /\ UNCHANGED <<blocks, current, large, chunks, freed>>

FreeLarge ==
  /\ state = "free large" /\ large # <<>>
  /\ chunks' = chunks \ {Head(large).alloc}
  /\ large' = Tail(large)
  /\ UNCHANGED <<state, blocks, current, freed, given>>

LargeFreed ==
  /\ state = "free large" /\ large = <<>>
  /\ state' = "free blocks"
  /\ UNCHANGED <<blocks, current, large, chunks, freed, given>>

\* d.next of the block after it was read before a block is freed.
FreeBlock ==
  /\ state = "free blocks"
  /\ IF freed + 1 = Len(blocks)
     THEN state' = "none" /\ blocks' = <<>> /\ current' = 0 /\ freed' = 0
     ELSE freed' = freed + 1 /\ UNCHANGED <<state, blocks, current>>
  /\ UNCHANGED <<large, chunks, given>>

Next ==
  \/ ngx_create_pool \/ ngx_pmemalign \/ ngx_reset_pool
  \/ \E size \in Sizes : ngx_palloc_large(size)
  \/ \E size \in Sizes, align \in BOOLEAN : palloc_small(size, align)
  \/ \E c \in Chunks : ngx_pfree(c)
  \/ DestroyCall \/ FreeLarge \/ LargeFreed \/ FreeBlock

Spec == Init /\ [][Next]_vars

-------------------------------------------------------------------------------
(***************************************************************************)
(* Properties.                                                             *)
(***************************************************************************)
\* The bytes in use of the blocks: what callers hold and the entries.
EntryPiece(i) == [range |-> large[i].block, lo |-> large[i].offset,
                  hi |-> large[i].offset + SizeofLarge]
Header(b) == IF b = 1 THEN SizeofPool ELSE SizeofData
InUse == given \cup {EntryPiece(i) : i \in DOMAIN large}

\* No two pieces in use share a byte, whether handed to the caller or holding an
\* entry, and each lies behind its block's header and before last: aligned and
\* unaligned requests, new blocks with the short header and blocks that a reset
\* starts again may not run into each other or over the end.
PiecesApart ==
  state = "live" =>
    /\ \A p, q \in InUse : p # q => p.range # q.range \/ p.hi <= q.lo \/ q.hi <= p.lo
    /\ \A i, j \in DOMAIN large : EntryPiece(i) = EntryPiece(j) => i = j
    /\ \A i \in DOMAIN large : EntryPiece(i) \notin given
    /\ \A p \in InUse : /\ p.range \in DOMAIN blocks
                        /\ Header(p.range) <= p.lo /\ p.hi <= blocks[p.range].last
    /\ \A b \in DOMAIN blocks : blocks[b].last \in Header(b) .. PoolSize

\* The search for room starts at the first block that has not failed too often:
\* those before current have failed FailLimit + 2 times each, those after have
\* failed less and no more often than the ones before them, the last never.
CurrentFirstUsable ==
  /\ \A b \in DOMAIN blocks : b < current <=> blocks[b].failed = FailLimit + 2
  /\ \A a, b \in DOMAIN blocks : a <= b => blocks[b].failed <= blocks[a].failed
  /\ blocks # <<>> => current \in DOMAIN blocks /\ Last(blocks).failed = 0

\* Every large range that is allocated is in just one entry, also after its
\* entry was used again or an allocation failed half way; so it is freed once,
\* by ngx_pfree, a reset or ngx_destroy_pool, and none is left without a pool.
LargeFreedOnce ==
  /\ chunks = LargeAllocs
  /\ \A i, j \in DOMAIN large :
       large[i].alloc = large[j].alloc /\ large[i].alloc # NULL => i = j
  /\ state \in {"none", "free blocks"} => chunks = {}

\* ngx_destroy_pool reads the entries only while the blocks they lie in are
\* allocated.
EntriesInLiveBlocks ==
  \A i \in DOMAIN large : large[i].block \in freed + 1 .. Len(blocks)

\* What ngx_destroy_pool has done is undone in this order, and nothing of it
\* is left: no block is freed before all the large ranges are.
FreedInOrder ==
  /\ state = "none" <=> blocks = <<>>
  /\ state # "live" => given = {}
  /\ state \in {"none", "free blocks"} => large = <<>>
  /\ state # "free blocks" => freed = 0
  /\ blocks # <<>> => freed < Len(blocks)

\* Pieces, entries, blocks and large ranges agree.  This is inductive.
PoolSound ==
  /\ TypeOK /\ PiecesApart /\ CurrentFirstUsable /\ LargeFreedOnce
  /\ EntriesInLiveBlocks /\ FreedInOrder

\* A block is added only when no block from current on has the bytes asked for
\* left, but for what aligning them takes.
AddedWhenFull ==
  blocks # <<>> /\ Len(blocks') > Len(blocks) =>
    LET size == Last(blocks').last - BlockStart
    IN  \A b \in current .. Len(blocks) :
          PoolSize - blocks[b].last < size + Alignment - 1
BlockAddedWhenFull == [][AddedWhenFull]_vars

\* What the caller holds: small pieces, and large ranges as a whole.
Held == given \cup (IF state = "live" THEN {[range |-> c, lo |-> 0, hi |-> 1] : c \in chunks}
                    ELSE {})

Pool == INSTANCE Arena WITH pieces <- Held

\* The pool's pieces come and go as an arena's: no call moves, drops or overlaps
\* a piece that another call gave.
ImplementsArena == Pool!Spec
===============================================================================
