-------------------------------- MODULE Arena --------------------------------
(***************************************************************************)
(* What a memory pool promises its caller: pieces of memory that share     *)
(* no byte and stay as they were given until they are given back, one at a *)
(* time or all at once.  A piece is the bytes [lo, hi) of a range of       *)
(* memory obtained from malloc.                                            *)
(***************************************************************************)
EXTENDS Integers

VARIABLE pieces

Apart(p, q) == p.range # q.range \/ p.hi <= q.lo \/ q.hi <= p.lo

Init == pieces = {}

Give ==
  \E p \in pieces' \ pieces :
    /\ pieces' = pieces \cup {p}
    /\ p.lo < p.hi /\ \A q \in pieces : Apart(p, q)

TakeBack == \E p \in pieces : pieces' = pieces \ {p}

TakeBackAll == pieces' = {}

Next == Give \/ TakeBack \/ TakeBackAll

Spec == Init /\ [][Next]_pieces
===============================================================================
