------------------------------- MODULE EvBuffer -------------------------------
(***************************************************************************)
(* The chains behind an evbuffer: buffer.c of libevent 2.1.12.             *)
(*                                                                         *)
(* A buffer is a list of chains with the length of all their data.  It     *)
(* keeps last, the number of its last chain (0 is NULL), and               *)
(* last_with_datap, the place of the pointer to the last chain with data:  *)
(* 0 is &first and i is &chain[i]->next.  A number below 0 or above last   *)
(* would be a pointer into a chain that was freed.  Chains without data    *)
(* may follow that chain, chains with data may not.                        *)
(*                                                                         *)
(* malloc may fail at any call (mem).  Chains are pinned on Windows only,  *)
(* and chains shared between buffers, sendfile, locks, frozen ends and the  *)
(* callbacks of a buffer are left out.                                     *)
(***************************************************************************)
EXTENDS Integers, SequencesExt

CONSTANTS Buffers,
          CR, LF,              \* the two bytes that end a line
          Inputs,              \* sequences of them a caller adds at once
          MIN_BUFFER_SIZE,     \* 512 in evbuffer-internal.h
          EVBUFFER_CHAIN_SIZE, \* sizeof(struct evbuffer_chain)
          MAX_AUTO_SIZE,       \* 4096 in evbuffer_add
          MAX_TO_COPY,         \* 4096 in evbuffer_expand_singlechain
          MAX_TO_REALIGN,      \* 2048 in evbuffer_chain_should_realign
          NUM_READ_IOVEC,      \* 4
          PRINTF_ROOM,         \* 64 in evbuffer_add_vprintf
          MaxBytes, MaxChains  \* bound each buffer

VARIABLES buf,     \* the buffers
          outcome  \* of the last call: "done", "refused" or "short" of memory

vars == <<buf, outcome>>

EmptyBuffer == [chains |-> <<>>, last |-> 0, lwd |-> 0, total |-> 0]

Init == buf = [x \in Buffers |-> EmptyBuffer] /\ outcome = "done"

First(s, n) == SubSeq(s, 1, n)
Rest(s, n) == SubSeq(s, n + 1, Len(s))

-------------------------------------------------------------------------------
(***************************************************************************)
(* Chains.  The data of a chain starts at misalign.                        *)
(***************************************************************************)
RoundUp(size) == Min({MIN_BUFFER_SIZE * 2 ^ k : k \in 0 .. size} \ (0 .. size - 1))

evbuffer_chain_new(size) ==
  [cap |-> RoundUp(size + EVBUFFER_CHAIN_SIZE) - EVBUFFER_CHAIN_SIZE,
   misalign |-> 0, data |-> <<>>, immutable |-> FALSE]

Off(c) == Len(c.data)
TailRoom(c) == c.cap - (c.misalign + Off(c))
\* CHAIN_SPACE_LEN
Space(c) == IF c.immutable THEN 0 ELSE TailRoom(c)

Extended(c, s) == [c EXCEPT !.data = @ \o s]

should_realign(c, n) ==
  c.cap - Off(c) >= n /\ Off(c) < c.cap \div 2 /\ Off(c) <= MAX_TO_REALIGN

\* *last_with_datap is the chain of this number, or NULL behind the last.
At(b) == b.lwd + 1
HasData(b) == At(b) \in DOMAIN b.chains
Contents(b) == FlattenSeq([i \in DOMAIN b.chains |-> b.chains[i].data])

(* Mutant: the chain *last_with_datap is freed with those behind it. *)
KeptChains_Before(b) == First(b.chains, b.lwd)
\* evbuffer_free_trailing_empty_chains: what is left.
KeptChains(b) ==
  LET empty == {i \in At(b) .. Len(b.chains) : Off(b.chains[i]) = 0}
  IN  IF empty = {} THEN b.chains ELSE First(b.chains, Min(empty) - 1)

evbuffer_chain_insert(b, c) ==
  LET kept == IF HasData(b) THEN KeptChains(b) ELSE <<>>
  IN  [chains |-> Append(kept, c), last |-> Len(kept) + 1, total |-> b.total + Off(c),
       lwd |-> IF HasData(b) /\ Off(c) > 0 THEN Len(kept) ELSE b.lwd]

advance_last_with_data(b) ==
  LET more == {i \in At(b) + 1 .. Len(b.chains) : Off(b.chains[i]) > 0}
  IN  IF HasData(b) /\ more # {} THEN [b EXCEPT !.lwd = Max(more) - 1] ELSE b

\* A call's result: the buffer and what is reported.
Done(b) == [buf |-> b, says |-> "done"]
Refused(b) == [buf |-> b, says |-> "refused"]

\* s is written behind the data of chain i.
Written(b, i, s) ==
  [b EXCEPT !.chains[i] = Extended(@, s), !.total = @ + Len(s)]

-------------------------------------------------------------------------------
(***************************************************************************)
(* Adding at the end and at the front.                                     *)
(***************************************************************************)
GrownCap(c, n) == Max({IF c.cap <= MAX_AUTO_SIZE \div 2 THEN 2 * c.cap ELSE c.cap, n})

\* What fits is written into chain i, the rest into a new one.
AddedChain(b, i, s, mem) ==
  LET room == Min({Space(b.chains[i]), Len(s)})
      new == Extended(evbuffer_chain_new(GrownCap(b.chains[i], Len(s))), Rest(s, room))
  IN  IF mem THEN Done(evbuffer_chain_insert(Written(b, i, First(s, room)), new))
      ELSE Refused(b)

evbuffer_add(b, s, mem) ==
  LET i == IF HasData(b) THEN At(b) ELSE b.last
      c == b.chains[i]
  IN  CASE i = 0 /\ ~mem -> Refused(b)
        [] i = 0 /\ mem ->
             Done(Written(evbuffer_chain_insert(b, evbuffer_chain_new(Len(s))), 1, s))
        [] OTHER ->
             IF ~c.immutable /\ Space(c) >= Len(s) THEN Done(Written(b, i, s))
             ELSE IF ~c.immutable /\ should_realign(c, Len(s))
             THEN Done(Written([b EXCEPT !.chains[i].misalign = 0], i, s))
             ELSE AddedChain(b, i, s, mem)

\* s is written before the data of the first chain.
PrependedWithin(b, s) ==
  [b EXCEPT !.chains[1].data = s \o @, !.chains[1].misalign = @ - Len(s),
            !.total = @ + Len(s)]

PrependedChain(b, s) ==
  LET new == evbuffer_chain_new(Len(s))
  IN  [chains |-> <<[new EXCEPT !.data = s, !.misalign = new.cap - Len(s)]>> \o b.chains,
       last |-> b.last + 1, total |-> b.total + Len(s),
       lwd |-> IF b.lwd = 0 /\ Off(b.chains[1]) = 0 THEN 0 ELSE b.lwd + 1]

\* An empty first chain is empty at its beginning.  What does not fit into the
\* first chain's misalign goes into a new one; without memory for it the end of
\* s stays in the buffer.
evbuffer_prepend(b, s, mem) ==
  LET had == IF b.chains = <<>> THEN evbuffer_chain_insert(b, evbuffer_chain_new(Len(s)))
             ELSE b
      c == had.chains[1]
      open == IF Off(c) = 0 /\ ~c.immutable
              THEN [had EXCEPT !.chains[1].misalign = c.cap] ELSE had
      room == IF c.immutable THEN 0 ELSE Min({open.chains[1].misalign, Len(s)})
      rest == First(s, Len(s) - room)
      within == PrependedWithin(open, Rest(s, Len(s) - room))
  IN  CASE s = <<>> -> Done(b)
        [] s # <<>> /\ b.chains = <<>> /\ ~mem -> Refused(b)
        [] OTHER ->
             IF rest = <<>> THEN Done(within)
             ELSE IF mem THEN Done(PrependedChain(within, rest))
             ELSE [buf |-> within, says |-> IF room = 0 THEN "refused" ELSE "short"]

\* evbuffer_add_reference and, for a mapped file, evbuffer_add_file_segment.
evbuffer_add_reference(b, s, mem) ==
  IF mem
  THEN Done(evbuffer_chain_insert(b, [cap |-> Len(s), misalign |-> 0, data |-> s,
                                      immutable |-> TRUE]))
  ELSE Refused(b)

-------------------------------------------------------------------------------
(***************************************************************************)
(* Making room.                                                            *)
(***************************************************************************)
\* The chain expand_singlechain looks at first.
FirstSpace(b) ==
  IF HasData(b) /\ Space(b.chains[At(b)]) = 0 THEN At(b) + 1 ELSE At(b)

NewChain(b, n, mem) ==
  IF mem
  THEN LET c == evbuffer_chain_insert(b, evbuffer_chain_new(n))
       IN  [ok |-> TRUE, buf |-> c, at |-> c.last]
  ELSE [ok |-> FALSE, buf |-> b, at |-> 0]

\* Chain i moves to a larger piece of memory.
Resized(b, i, n) ==
  [b EXCEPT !.chains[i] = Extended(evbuffer_chain_new(Off(@) + n), @.data)]

NotWorthResizing(c) == Space(c) < c.cap \div 8 \/ Off(c) > MAX_TO_COPY

\* The room is in one chain, at.
evbuffer_expand_singlechain(b, n, mem) ==
  LET i == FirstSpace(b)
      c == b.chains[i]
      Use(d, k) == [ok |-> TRUE, buf |-> d, at |-> k]
  IN  IF i \notin DOMAIN b.chains \/ (i \in DOMAIN b.chains /\ c.immutable)
      THEN NewChain(b, n, mem)
      ELSE CASE Space(c) >= n -> Use(b, i)
             [] Space(c) < n /\ Off(c) = 0 -> NewChain(b, n, mem)
             [] Space(c) < n /\ Off(c) > 0 ->
                  IF should_realign(c, n) THEN Use([b EXCEPT !.chains[i].misalign = 0], i)
                  ELSE IF ~NotWorthResizing(c)
                  THEN IF mem THEN Use(Resized(b, i, n), i)
                       ELSE [ok |-> FALSE, buf |-> b, at |-> 0]
                  ELSE IF i < Len(b.chains) /\ Space(b.chains[i + 1]) >= n
                  THEN Use(b, i + 1)
                  ELSE NewChain(b, n, mem)

Expanded(r) == IF r.ok THEN Done(r.buf) ELSE Refused(r.buf)
evbuffer_expand(b, n, mem) == Expanded(evbuffer_expand_singlechain(b, n, mem))

\* Room counted by evbuffer_expand_fast_: a chain without data is realigned.
FastRoom(c) == IF Off(c) > 0 THEN Space(c) ELSE c.cap
FastUsed(b, k) == {i \in At(b) .. k : Off(b.chains[i]) = 0 \/ Space(b.chains[i]) > 0}
FastAvail(b, k) == FoldSet(LAMBDA i, sum : sum + FastRoom(b.chains[i]), 0, At(b) .. k)

\* Chains are removed behind the first n, and a new one comes for what is missing.
(* Mutant: last stays where it was. *)
Replaced_LastKept(b, n, missing, mem) ==
  IF mem THEN [b EXCEPT !.chains = Append(First(@, n), evbuffer_chain_new(missing))]
  ELSE [b EXCEPT !.chains = First(@, n), !.last = n]
Replaced(b, n, missing, mem) ==
  IF mem THEN [b EXCEPT !.chains = Append(First(@, n), evbuffer_chain_new(missing)),
                        !.last = n + 1]
  ELSE [b EXCEPT !.chains = First(@, n), !.last = n]

\* The room is in the last n chains.
evbuffer_expand_fast_(b, size, n, mem) ==
  LET stop == {k \in At(b) .. Len(b.chains) :
                 FastAvail(b, k) >= size \/ Cardinality(FastUsed(b, k)) = n}
      seen == IF stop = {} THEN Len(b.chains) ELSE Min(stop)
      aligned == [b EXCEPT !.chains = [i \in DOMAIN b.chains |->
                    IF i \in At(b) .. seen /\ Off(b.chains[i]) = 0
                    THEN [b.chains[i] EXCEPT !.misalign = 0] ELSE b.chains[i]]]
      avail == FastAvail(b, seen)
      own == IF Off(b.chains[At(b)]) = 0 THEN 0 ELSE Space(b.chains[At(b)])
      result(c) == [ok |-> mem, buf |-> c]
  IN  IF b.last = 0 \/ (b.last # 0 /\ b.chains[b.last].immutable)
      THEN [ok |-> mem, buf |-> NewChain(b, size, mem).buf]
      ELSE CASE avail >= size -> [ok |-> TRUE, buf |-> aligned]
             [] avail < size /\ Cardinality(FastUsed(b, seen)) < n ->
                  result(Replaced(aligned, Len(b.chains), size - avail, mem))
             [] avail < size /\ Cardinality(FastUsed(b, seen)) = n ->
                  result(Replaced(aligned, IF Off(b.chains[At(b)]) = 0 THEN 0 ELSE At(b),
                                  size - own, mem))

-------------------------------------------------------------------------------
(***************************************************************************)
(* Writing into the room: chains from the given one on are filled.         *)
(***************************************************************************)
FilledFrom(b, from, s) ==
  FoldLeft(LAMBDA acc, i :
             LET n == Min({Space(acc.buf.chains[i]), Len(acc.rest)})
             IN  IF acc.rest = <<>> THEN acc
                 ELSE [buf |-> [Written(acc.buf, i, First(acc.rest, n)) EXCEPT !.lwd = i - 1],
                       rest |-> Rest(acc.rest, n)],
           [buf |-> b, rest |-> s],
           [k \in 1 .. Len(b.chains) - from + 1 |-> from + k - 1])

\* The room r, if there is any, takes s.
Filled(r, s) ==
  IF r.ok THEN Done(FilledFrom(r.buf, FirstSpace(r.buf), s).buf) ELSE Refused(r.buf)

\* readv returned s, or nothing.
evbuffer_read(b, howmuch, s, mem) ==
  LET filled == Filled(evbuffer_expand_fast_(b, howmuch, NUM_READ_IOVEC, mem), s)
  IN  IF s = <<>> THEN Refused(filled.buf) ELSE filled

\* evbuffer_commit_space with the one vector of chain i, s in it.
CommitOne(b, i, s) ==
  IF i = b.last
  THEN IF s = <<>> THEN Done(b) ELSE Done(advance_last_with_data(Written(b, i, s)))
  ELSE IF i # FirstSpace(b) THEN Refused(b)
  ELSE Done([Written(b, i, s) EXCEPT !.lwd = IF s = <<>> THEN @ ELSE i - 1])

\* evbuffer_reserve_space for size bytes in one vector, then the commit.
Committed(r, s) == IF r.ok THEN CommitOne(r.buf, r.at, s) ELSE Refused(r.buf)
ReserveOne(b, size, s, mem) == Committed(evbuffer_expand_singlechain(b, size, mem), s)

\* The same in two: all of the room is filled in order.
ReserveTwo(b, size, s, mem) ==
  Filled(evbuffer_expand_fast_(b, size, 2, mem), s)

\* vsnprintf needs room for the final zero too, and is called again if it had not.
Tried(r, s, mem) ==
  IF r.ok /\ Len(s) >= Space(r.buf.chains[r.at])
  THEN evbuffer_expand_singlechain(r.buf, Len(s) + 1, mem) ELSE r
Printed(r, s) ==
  IF r.ok THEN Done(advance_last_with_data(Written(r.buf, r.at, s))) ELSE Refused(r.buf)
evbuffer_add_vprintf(b, s, mem) ==
  Printed(Tried(evbuffer_expand_singlechain(b, PRINTF_ROOM, mem), s, mem), s)

-------------------------------------------------------------------------------
(***************************************************************************)
(* Taking from the front.                                                  *)
(***************************************************************************)
\* Where last_with_datap points after the first k chains are gone.
ShiftedDatap(b, k) == IF At(b) <= k \/ b.lwd <= k THEN 0 ELSE b.lwd - k

\* The chains that n bytes cover, those without data behind them too.
Covered(b, n) ==
  Max({0} \cup {k \in DOMAIN b.chains :
                  n >= Len(Contents([chains |-> First(b.chains, k)]))})

\* n more bytes of chain 1 are gone.
DrainedFirst(b, n) ==
  [b EXCEPT !.chains[1].data = Rest(@, n), !.chains[1].misalign = @ + n]

evbuffer_drain(b, n) ==
  LET k == Covered(b, n)
      rest == n - Len(Contents([chains |-> First(b.chains, k)]))
      cut == [chains |-> Rest(b.chains, k), last |-> b.last - k,
              lwd |-> ShiftedDatap(b, k), total |-> b.total - n]
  IN  CASE b.total = 0 -> b
        [] b.total > 0 /\ n >= b.total -> EmptyBuffer
        [] b.total > 0 /\ n < b.total -> DrainedFirst(cut, rest)

\* evbuffer_copyout and evbuffer_drain.
evbuffer_remove(b, n) == Done(evbuffer_drain(b, Min({n, b.total})))

\* evbuffer_readln up to a LF, with the CR before it (EVBUFFER_EOL_CRLF).
evbuffer_readln(b) ==
  LET ends == {i \in 1 .. b.total : Contents(b)[i] = LF}
      line == IF Min(ends) > 1 /\ Contents(b)[Min(ends) - 1] = CR
              THEN Min(ends) - 2 ELSE Min(ends) - 1
  IN  IF ends = {} THEN Refused(b)
      ELSE Done(evbuffer_drain(evbuffer_remove(b, line).buf, Min(ends) - line))

\* The first n bytes come to lie in one chain: the first, if it has the room.
evbuffer_pullup(b, n, mem) ==
  LET first == b.chains[1]
      own == first.cap - first.misalign >= n
      k == Covered(b, n)
      part == n - Len(Contents([chains |-> First(b.chains, k)]))
      head == [(IF own THEN first ELSE evbuffer_chain_new(n))
                 EXCEPT !.data = First(Contents(b), n)]
      tail == DrainedFirst([b EXCEPT !.chains = Rest(@, k)], part).chains
      freed == IF own THEN 2 .. k ELSE 1 .. k
      datap == CASE At(b) \in freed -> 0
                 [] At(b) \notin freed /\ b.lwd \in freed ->
                      IF tail # <<>> /\ Off(tail[1]) > 0 THEN 1 ELSE 0
                 [] OTHER -> b.lwd - k + 1
  IN  CASE n = 0 \/ n > b.total \/ (n <= b.total /\ Off(first) >= n) -> Done(b)
        [] OTHER ->
             IF ~own /\ ~mem THEN Refused(b)
             ELSE Done([chains |-> <<head>> \o (IF k = Len(b.chains) THEN <<>> ELSE tail),
                        last |-> IF k = Len(b.chains) THEN 1 ELSE b.last - k + 1,
                        lwd |-> datap, total |-> b.total])

-------------------------------------------------------------------------------
(***************************************************************************)
(* Moving between buffers: the pair of buffers after the call.             *)
(***************************************************************************)
evbuffer_add_buffer(out, in) ==
  LET kept == KeptChains(out)
  IN  IF out.total = 0 THEN [out |-> in, in |-> EmptyBuffer]
      ELSE [in |-> EmptyBuffer,
            out |-> [chains |-> kept \o in.chains, last |-> Len(kept) + in.last,
                     lwd |-> Len(kept) + in.lwd, total |-> out.total + in.total]]

\* PREPEND_CHAIN's places: the chains of out have moved behind those of in.
PrependedDatap(out, in) == in.last + out.lwd

evbuffer_prepend_buffer(out, in) ==
  IF out.total = 0 THEN [out |-> in, in |-> EmptyBuffer]
  ELSE [in |-> EmptyBuffer,
        out |-> [chains |-> in.chains \o out.chains, last |-> in.last + out.last,
                 lwd |-> PrependedDatap(out, in), total |-> out.total + in.total]]

\* Whole chains change hands, the rest is copied; without memory it is lost.
\* n is less than the length of src.
RemovedPart(src, dst, n, mem) ==
  LET k == Covered(src, n)
      moved == First(src.chains, k)
      whole == Len(Contents([chains |-> moved]))
      kept == KeptChains(dst)
      took == advance_last_with_data(
                [chains |-> kept \o moved, last |-> Len(kept) + k, lwd |-> dst.lwd,
                 total |-> dst.total + whole])
      copied == evbuffer_add(IF k > 0 THEN took ELSE dst,
                             First(src.chains[k + 1].data, n - whole), mem)
  IN  [out |-> copied.buf,
       in |-> DrainedFirst([chains |-> Rest(src.chains, k), last |-> src.last - k,
                            lwd |-> ShiftedDatap(src, k), total |-> src.total - n],
                           n - whole),
       says |-> IF copied.says = "refused" THEN "short" ELSE "done"]

evbuffer_remove_buffer(src, dst, n, mem) ==
  IF n >= src.total
  THEN LET r == evbuffer_add_buffer(dst, src)
       IN  [out |-> r.out, in |-> r.in, says |-> "done"]
  ELSE RemovedPart(src, dst, n, mem)

-------------------------------------------------------------------------------
(***************************************************************************)
(* The calls.                                                              *)
(***************************************************************************)
Bounded(b) == Len(b.chains) <= MaxChains /\ b.total <= MaxBytes

Call(x, r) ==
  /\ Bounded(r.buf)
  /\ buf' = [buf EXCEPT ![x] = r.buf] /\ outcome' = r.says

Counts == 1 .. MaxBytes

Adding ==
  \E x \in Buffers, s \in Inputs, mem \in BOOLEAN :
    \/ Call(x, evbuffer_add(buf[x], s, mem))
    \/ Call(x, evbuffer_add_reference(buf[x], s, mem))
    \/ Call(x, evbuffer_add_vprintf(buf[x], s, mem))
    \/ Call(x, evbuffer_prepend(buf[x], s, mem))

Reading ==
  \E x \in Buffers, n \in Counts, s \in Inputs \cup {<<>>}, mem \in BOOLEAN :
    /\ Len(s) <= n
    /\ \/ Call(x, evbuffer_read(buf[x], n, s, mem))
       \/ Call(x, ReserveOne(buf[x], n, s, mem))
       \/ Call(x, ReserveTwo(buf[x], n, s, mem))

Expanding ==
  \E x \in Buffers, n \in Counts, mem \in BOOLEAN : Call(x, evbuffer_expand(buf[x], n, mem))

\* evbuffer_write_atmost drains what writev has taken.
Taking ==
  \E x \in Buffers :
    \/ \E n \in Counts : Call(x, evbuffer_remove(buf[x], n))
    \/ Call(x, evbuffer_readln(buf[x]))
    \/ \E n \in Counts, mem \in BOOLEAN : Call(x, evbuffer_pullup(buf[x], n, mem))

Moved(x, y, r, says) ==
  /\ Bounded(r.out)
  /\ buf' = [buf EXCEPT ![x] = r.in, ![y] = r.out] /\ outcome' = says

Moving ==
  \E x, y \in Buffers :
    /\ x # y /\ buf[x].total > 0
    /\ \/ Moved(x, y, evbuffer_add_buffer(buf[y], buf[x]), "done")
       \/ Moved(x, y, evbuffer_prepend_buffer(buf[y], buf[x]), "done")
       \/ \E n \in Counts, mem \in BOOLEAN :
            LET r == evbuffer_remove_buffer(buf[x], buf[y], n, mem)
            IN  Moved(x, y, r, r.says)

Next == Adding \/ Reading \/ Expanding \/ Taking \/ Moving

Spec == Init /\ [][Next]_vars

-------------------------------------------------------------------------------
\* The lists and their pointers agree, as the tests' evbuffer_validate_ has it.
Valid(b) ==
  /\ b.last = Len(b.chains)
  /\ b.total = Len(Contents(b))
  /\ \A i \in DOMAIN b.chains :
       b.chains[i].misalign >= 0 /\ TailRoom(b.chains[i]) >= 0
  /\ IF b.chains = <<>> THEN b.lwd = 0
     ELSE /\ HasData(b)
          /\ \A i \in At(b) + 1 .. b.last : Off(b.chains[i]) = 0
          /\ Off(b.chains[At(b)]) = 0 => b.lwd = 0

\* A commit of one vector finds the chain the reserve gave out, unless that is
\* a chain without data with another one behind it.
CommittedAt(r) ==
  CommitOne(r.buf, r.at, <<>>).says = "refused"
    => Off(r.buf.chains[r.at]) = 0 /\ r.at < r.buf.last
CommitFinds(b) == \A n \in Counts : CommittedAt(evbuffer_expand_singlechain(b, n, TRUE))

\* No order of calls, with memory short at any of them, leaves a pointer behind
\* to a chain that is gone, or data where the pointers do not reach.
BuffersSound == \A x \in Buffers : Valid(buf[x]) /\ CommitFinds(buf[x])

Q == INSTANCE ByteQueues WITH Queues <- Buffers, Strings <- Inputs \cup {<<>>},
                              queue <- [x \in Buffers |-> Contents(buf[x])]
\* However the chains are split, shared out and joined again, every buffer is a
\* queue of bytes.
ImplementsByteQueues == Q!Spec
===============================================================================
