--------------------------- MODULE EventBaseProofs ---------------------------
(***************************************************************************)
(* Proofs about EventBase, for any events, priorities, threads and         *)
(* timeouts.  The invariant Inv is BaseSound, NoLostWakeup, what a         *)
(* persistent event keeps while it is queued (Recalls) and which events    *)
(* may be active above the running priority (Ranked).  The functions of    *)
(* the source go from one value of the record base to the next, and each   *)
(* has a lemma that says what it keeps (Sound, Same), whom it wakes and    *)
(* what it does to the events; then there is one lemma per action.         *)
(***************************************************************************)
EXTENDS EventBase, FiniteSetTheorems, SequenceTheorems, WellFoundedInduction, TLAPS

-------------------------------------------------------------------------------
(* Numbers and finite sets.                                                *)

\* The order of the natural numbers as a set of pairs.
LEMMA LessIsPairs == OpToRel(<, Nat) = {ss \in Nat \X Nat : ss[1] < ss[2]}
BY DEF OpToRel

\* A set of natural numbers has a least one.
LEMMA LeastNat ==
  ASSUME NEW S \in SUBSET Nat, S # {}
  PROVE  \E x \in S : \A y \in S : x <= y
<1> DEFINE Less == {ss \in Nat \X Nat : ss[1] < ss[2]}
<1>1. IsWellFoundedOn(Less, Nat)
  BY NatLessThanWellFounded, LessIsPairs
<1>2. PICK x \in S : \A y \in S : ~ (<<y, x>> \in Less)
  <2> HIDE DEF Less
  <2> QED BY <1>1, WFMin
<1>3. ASSUME NEW y \in S
      PROVE  x <= y
  <2>1. x \in Nat /\ y \in Nat
    OBVIOUS
  <2>2. y < x => <<y, x>> \in Less
    BY <2>1
  <2>3. QED BY <2>1, <2>2, <1>3, <1>2
<1>4. QED BY <1>3

\* So has a finite set of integers.
LEMMA FiniteHasMin ==
  ASSUME NEW S \in SUBSET Int, IsFiniteSet(S), S # {}
  PROVE  \E x \in S : \A y \in S : x <= y
<1> DEFINE HasMin(Q) == \E x \in Q : \A y \in Q : x <= y
           Sizes == {n \in Nat : \E Q \in SUBSET S : Q # {} /\ Cardinality(Q) = n /\ ~HasMin(Q)}
<1>1. Sizes = {}
  <2> SUFFICES ASSUME Sizes # {} PROVE FALSE
    OBVIOUS
  <2>1. PICK n \in Sizes : \A m \in Sizes : n <= m
    <3> HIDE DEF Sizes
    <3>1. Sizes \in SUBSET Nat
      BY DEF Sizes
    <3>2. QED BY <3>1, LeastNat
  <2>2. PICK Q \in SUBSET S : Q # {} /\ Cardinality(Q) = n /\ ~HasMin(Q)
    BY <2>1
  <2>3. PICK q \in Q : TRUE
    BY <2>2
  <2>4. IsFiniteSet(Q) /\ IsFiniteSet(Q \ {q}) /\ Cardinality(Q \ {q}) = n - 1
    BY <2>2, <2>3, FS_Subset, FS_RemoveElement
  <2>5. n \in Nat /\ n - 1 \in Nat
    BY <2>4, FS_CardinalityType
  <2>6. HasMin(Q \ {q})
    <3>1. Q \ {q} # {}
      <4> SUFFICES ASSUME Q \ {q} = {} PROVE FALSE
        OBVIOUS
      <4>1. \A y \in Q : y = q
        OBVIOUS
      <4>2. q <= q
        BY <2>3
      <4>3. QED BY <4>1, <4>2, <2>2, <2>3
    <3>2. n - 1 \notin Sizes
      BY <2>1, <2>5
    <3>3. QED BY <3>1, <3>2, <2>4, <2>5
  <2>7. PICK m \in Q \ {q} : \A y \in Q \ {q} : m <= y
    BY <2>6
  <2>8. CASE q <= m
    <3>1. \A y \in Q : q <= y
      <4> SUFFICES ASSUME NEW y \in Q PROVE q <= y
        OBVIOUS
      <4>1. y \in Int /\ q \in Int /\ m \in Int
        OBVIOUS
      <4>2. QED BY <4>1, <2>7, <2>8
    <3>2. QED BY <3>1, <2>2
  <2>9. CASE ~ (q <= m)
    <3>1. \A y \in Q : m <= y
      <4> SUFFICES ASSUME NEW y \in Q PROVE m <= y
        OBVIOUS
      <4>1. y \in Int /\ q \in Int /\ m \in Int
        OBVIOUS
      <4>2. QED BY <4>1, <2>7, <2>9
    <3>2. QED BY <3>1, <2>2
  <2>10. QED BY <2>8, <2>9
<1>2. Cardinality(S) \in Nat
  BY FS_CardinalityType
<1>3. QED BY <1>1, <1>2

LEMMA MinOfFinite ==
  ASSUME NEW S \in SUBSET Int, IsFiniteSet(S), S # {}
  PROVE  Min(S) \in S /\ \A y \in S : Min(S) <= y
BY FiniteHasMin DEF Min

LEMMA MaxOfFinite ==
  ASSUME NEW S \in SUBSET Int, IsFiniteSet(S), S # {}
  PROVE  Max(S) \in S /\ \A y \in S : Max(S) >= y
<1> DEFINE T == {-x : x \in S}
<1>1. T \in SUBSET Int /\ T # {}
  <2>1. \A x \in S : -x \in Int
    OBVIOUS
  <2>2. PICK x \in S : TRUE
    OBVIOUS
  <2>3. -x \in T
    OBVIOUS
  <2>4. QED BY <2>1, <2>3
<1>2. IsFiniteSet(T)
  <2> DEFINE f == [x \in S |-> -x]
  <2>1. f \in Surjection(S, T)
    BY DEF Surjection
  <2>2. QED BY <2>1, FS_Surjection
<1>3. PICK t \in T : \A y \in T : t <= y
  <2> HIDE DEF T
  <2>1. QED BY <1>1, <1>2, FiniteHasMin
<1>4. PICK x \in S : t = -x
  BY <1>3
<1>5. \A y \in S : x >= y
  <2> SUFFICES ASSUME NEW y \in S PROVE x >= y
    OBVIOUS
  <2>1. -x <= -y
    BY <1>3, <1>4
  <2>2. x \in Int /\ y \in Int
    OBVIOUS
  <2>3. QED BY <2>1, <2>2
<1>6. QED BY <1>5 DEF Max

LEMMA MaxOfTwo ==
  ASSUME NEW a \in Int, NEW b \in Int
  PROVE  Max({a, b}) = IF a >= b THEN a ELSE b
<1>1. Max({a, b}) \in {a, b} /\ \A y \in {a, b} : Max({a, b}) >= y
  <2>1. \E x \in {a, b} : \A y \in {a, b} : x >= y
    OBVIOUS
  <2>2. QED BY <2>1 DEF Max
<1>2. QED BY <1>1

\* What is done in turns: a function defined by what it is at 0 and after each
\* step exists.
TurnsFrom(g, n, act, b) ==
  /\ g = [i \in 0 .. n |-> g[i]]
  /\ g[0] = b /\ \A i \in 1 .. n : g[i] = act[i][g[i - 1]]
TurnsOf(n, act, b) == CHOOSE g : TurnsFrom(g, n, act, b)
LEMMA TurnsExist ==
  ASSUME NEW n \in Nat, NEW act, NEW b
  PROVE  TurnsFrom(TurnsOf(n, act, b), n, act, b)
<1> DEFINE Good(m, g) == g = [i \in 0 .. m |-> IF i = 0 THEN b ELSE act[i][g[i - 1]]]
           Bad == {m \in Nat : ~ \E g : Good(m, g)}
<1>1. Bad = {}
  <2> SUFFICES ASSUME Bad # {} PROVE FALSE
    OBVIOUS
  <2>1. PICK m \in Bad : \A k \in Bad : m <= k
    <3>1. Bad \in SUBSET Nat
      OBVIOUS
    <3> HIDE DEF Bad
    <3>2. QED BY <3>1, LeastNat
  <2>2. m # 0
    <3> SUFFICES ASSUME m = 0 PROVE FALSE
      OBVIOUS
    <3> DEFINE g == [i \in 0 .. 0 |-> b]
    <3>1. \A i \in 0 .. 0 : i = 0
      OBVIOUS
    <3>2. g = [i \in 0 .. 0 |-> IF i = 0 THEN b ELSE act[i][g[i - 1]]]
      BY <3>1
    <3>3. QED BY <3>2, <2>1
  <2>3. m - 1 \in Nat /\ m - 1 \notin Bad
    BY <2>1, <2>2
  <2>4. PICK g : Good(m - 1, g)
    BY <2>3
  <2> DEFINE h == [i \in 0 .. m |-> IF i = m THEN act[m][g[m - 1]] ELSE g[i]]
  <2>5. ASSUME NEW i \in 0 .. m
        PROVE  h[i] = IF i = 0 THEN b ELSE act[i][h[i - 1]]
    <3>1. CASE i = 0
      BY <3>1, <2>2, <2>3, <2>4
    <3>2. CASE i = m
      <4>1. m - 1 \in 0 .. m /\ m - 1 # m
        BY <2>3
      <4>2. h[m - 1] = g[m - 1]
        BY <4>1
      <4>3. QED BY <3>2, <4>2, <2>2
    <3>3. CASE i # 0 /\ i # m
      <4>1. i \in 0 .. m - 1 /\ i - 1 \in 0 .. m - 1 /\ i - 1 # m /\ i - 1 \in 0 .. m
        BY <3>3, <2>3
      <4>2. h[i - 1] = g[i - 1] /\ h[i] = g[i]
        BY <4>1, <3>3
      <4>3. g[i] = act[i][g[i - 1]]
        BY <4>1, <3>3, <2>4
      <4>4. QED BY <4>2, <4>3, <3>3
    <3>4. QED BY <3>1, <3>2, <3>3
  <2>6. h = [i \in 0 .. m |-> IF i = 0 THEN b ELSE act[i][h[i - 1]]]
    <3>1. \A i \in 0 .. m : h[i] = IF i = 0 THEN b ELSE act[i][h[i - 1]]
      BY <2>5
    <3>2. h = [i \in 0 .. m |-> h[i]]
      OBVIOUS
    <3> HIDE DEF h
    <3>3. [i \in 0 .. m |-> h[i]] = [i \in 0 .. m |-> IF i = 0 THEN b ELSE act[i][h[i - 1]]]
      BY <3>1
    <3>4. QED BY <3>2, <3>3
  <2>7. QED
    <3> HIDE DEF h
    <3>1. Good(m, h)
      BY <2>6
    <3>2. QED BY <3>1, <2>1
<1>2. PICK g : Good(n, g)
  BY <1>1
<1>3. g[0] = b /\ \A i \in 1 .. n : g[i] = act[i][g[i - 1]]
  BY <1>2
<1>4. g = [i \in 0 .. n |-> g[i]]
  BY <1>2
<1> HIDE DEF Good
<1>5. TurnsFrom(g, n, act, b)
  BY <1>3, <1>4 DEF TurnsFrom
<1>6. QED BY <1>5 DEF TurnsOf

\* What holds at first and is kept by each step holds at last.
LEMMA TurnsStay ==
  ASSUME NEW n \in Nat, NEW S, NEW g, g[0] \in S[0],
         \A i \in 1 .. n : g[i - 1] \in S[i - 1] => g[i] \in S[i]
  PROVE  g[n] \in S[n]
<1> DEFINE Bad == {i \in Nat : i \in 0 .. n /\ g[i] \notin S[i]}
<1>1. Bad = {}
  <2> SUFFICES ASSUME Bad # {} PROVE FALSE
    OBVIOUS
  <2>1. PICK m \in Bad : \A k \in Bad : m <= k
    <3>1. Bad \in SUBSET Nat
      OBVIOUS
    <3> HIDE DEF Bad
    <3>2. QED BY <3>1, LeastNat
  <2>2. m # 0
    BY <2>1
  <2>3. m \in 1 .. n /\ m - 1 \in Nat /\ m - 1 \in 0 .. n /\ ~ (m <= m - 1)
    BY <2>1, <2>2
  <2>4. g[m - 1] \in S[m - 1]
    BY <2>1, <2>3
  <2>5. QED BY <2>1, <2>3, <2>4
<1>2. QED BY <1>1

(***************************************************************************)
(* Sequences without repetition.                                           *)
(***************************************************************************)
LEMMA InLists ==
  ASSUME NEW A, NEW q \in Seq(A), NEW S
  PROVE  /\ Lists(q, S) <=> /\ \A i, j \in 1 .. Len(q) : q[i] = q[j] => i = j
                            /\ \A i \in 1 .. Len(q) : q[i] \in S
                            /\ \A e \in S : \E i \in 1 .. Len(q) : q[i] = e
         /\ Len(q) \in Nat /\ \A i \in 1 .. Len(q) : q[i] \in A
<1>1. DOMAIN q = 1 .. Len(q) /\ Len(q) \in Nat /\ \A i \in 1 .. Len(q) : q[i] \in A
  BY LenProperties
<1>2. QED BY <1>1 DEF Lists, IsInjective, Range

LEMMA AppendLists ==
  ASSUME NEW A, NEW q \in Seq(A), NEW S, Lists(q, S), NEW e \in A, e \notin S
  PROVE  Append(q, e) \in Seq(A) /\ Lists(Append(q, e), S \cup {e})
<1> DEFINE r == Append(q, e)
           n == Len(q)
<1>1. /\ r \in Seq(A) /\ Len(r) = n + 1
      /\ \A i \in 1 .. n : r[i] = q[i]
      /\ r[n + 1] = e
  BY AppendProperties
<1>2. /\ n \in Nat
      /\ \A i, j \in 1 .. n : q[i] = q[j] => i = j
      /\ \A i \in 1 .. n : q[i] \in S
      /\ \A x \in S : \E i \in 1 .. n : q[i] = x
  BY InLists
<1> HIDE DEF r, n
<1>3. \A i \in 1 .. n + 1 : i \in 1 .. n \/ i = n + 1
  BY <1>2
<1>4. \A i, j \in 1 .. n + 1 : r[i] = r[j] => i = j
  <2> SUFFICES ASSUME NEW i \in 1 .. n + 1, NEW j \in 1 .. n + 1, r[i] = r[j]
               PROVE  i = j
    OBVIOUS
  <2>1. CASE i \in 1 .. n /\ j \in 1 .. n
    BY <2>1, <1>1, <1>2
  <2>2. CASE i \in 1 .. n /\ j = n + 1
    BY <2>2, <1>1, <1>2
  <2>3. CASE i = n + 1 /\ j \in 1 .. n
    BY <2>3, <1>1, <1>2
  <2>4. QED BY <2>1, <2>2, <2>3, <1>3
<1>5. \A i \in 1 .. n + 1 : r[i] \in S \cup {e}
  BY <1>1, <1>2, <1>3
<1>6. \A x \in S \cup {e} : \E i \in 1 .. n + 1 : r[i] = x
  <2> SUFFICES ASSUME NEW x \in S \cup {e} PROVE \E i \in 1 .. n + 1 : r[i] = x
    OBVIOUS
  <2>1. CASE x = e
    <3>1. n + 1 \in 1 .. n + 1
      BY <1>2
    <3>2. QED BY <3>1, <2>1, <1>1
  <2>2. CASE x \in S
    <3>1. PICK i \in 1 .. n : q[i] = x
      BY <2>2, <1>2
    <3>2. i \in 1 .. n + 1
      BY <1>2
    <3>3. QED BY <3>1, <3>2, <1>1
  <2>3. QED BY <2>1, <2>2
<1>7. r \in Seq(A) /\ Lists(r, S \cup {e})
  BY <1>1, <1>4, <1>5, <1>6, InLists
<1>8. QED BY <1>7 DEF r

LEMMA RemoveLists ==
  ASSUME NEW A, NEW q \in Seq(A), NEW S, Lists(q, S), NEW e \in S
  PROVE  RemoveFirst(q, e) \in Seq(A) /\ Lists(RemoveFirst(q, e), S \ {e})
<1> DEFINE n == Len(q)
<1>1. /\ n \in Nat /\ \A i \in 1 .. n : q[i] \in A
      /\ \A i, j \in 1 .. n : q[i] = q[j] => i = j
      /\ \A i \in 1 .. n : q[i] \in S
      /\ \A x \in S : \E i \in 1 .. n : q[i] = x
  BY InLists
<1>2. PICK k \in 1 .. n : q[k] = e
  BY <1>1
<1>3. {i \in 1 .. n : q[i] = e} = {k}
  BY <1>1, <1>2
<1>4. Min({k}) = k
  BY DEF Min
<1>5. SelectInSeq(q, LAMBDA v : v = e) = k
  BY <1>3, <1>4 DEF SelectInSeq
<1> DEFINE a == SubSeq(q, 1, k - 1)
           z == SubSeq(q, k + 1, n)
           r == a \o z
<1>6. RemoveFirst(q, e) = r
  BY <1>2, <1>5 DEF RemoveFirst, RemoveAt
<1>7. a \in Seq(A) /\ Len(a) = k - 1 /\ \A i \in 1 .. k - 1 : a[i] = q[i]
  <2>1. 1 \in Int /\ k - 1 \in Int /\ \A i \in 1 .. k - 1 : q[i] \in A
    BY <1>1
  <2>2. /\ a \in Seq(A) /\ Len(a) = IF 1 <= k - 1 THEN (k - 1) - 1 + 1 ELSE 0
        /\ \A i \in 1 .. (k - 1) - 1 + 1 : a[i] = q[1 + i - 1]
    BY <2>1, SubSeqProperties
  <2>3. QED BY <2>2
<1>8. z \in Seq(A) /\ Len(z) = n - k /\ \A i \in 1 .. n - k : z[i] = q[k + i]
  <2>1. k + 1 \in Int /\ n \in Int /\ \A i \in k + 1 .. n : q[i] \in A
    BY <1>1
  <2>2. /\ z \in Seq(A) /\ Len(z) = IF k + 1 <= n THEN n - (k + 1) + 1 ELSE 0
        /\ \A i \in 1 .. n - (k + 1) + 1 : z[i] = q[(k + 1) + i - 1]
    BY <2>1, SubSeqProperties
  <2>3. QED BY <2>2, <1>1
<1> HIDE DEF a, z, n
<1>9. /\ r \in Seq(A) /\ Len(r) = n - 1
       /\ \A i \in 1 .. n - 1 : r[i] = IF i <= k - 1 THEN q[i] ELSE q[i + 1]
  <2>1. /\ r \in Seq(A) /\ Len(r) = Len(a) + Len(z)
        /\ \A i \in 1 .. Len(a) + Len(z) : r[i] = IF i <= Len(a) THEN a[i] ELSE z[i - Len(a)]
    BY <1>7, <1>8, ConcatProperties
  <2>2. Len(a) + Len(z) = n - 1
    BY <1>1, <1>7, <1>8
  <2> SUFFICES ASSUME NEW i \in 1 .. n - 1
               PROVE  r[i] = IF i <= k - 1 THEN q[i] ELSE q[i + 1]
    BY <2>1, <2>2
  <2>3. CASE i <= k - 1
    <3>1. i \in 1 .. k - 1
      BY <2>3, <1>1
    <3>2. QED BY <3>1, <2>1, <2>2, <2>3, <1>7
  <2>4. CASE ~ (i <= k - 1)
    <3>1. i - (k - 1) \in 1 .. n - k /\ k + (i - (k - 1)) = i + 1
      BY <2>4, <1>1
    <3>2. r[i] = z[i - (k - 1)]
      BY <2>1, <2>2, <2>4, <1>7
    <3>3. z[i - (k - 1)] = q[k + (i - (k - 1))]
      BY <3>1, <1>8
    <3>4. QED BY <3>1, <3>2, <3>3, <2>4
  <2>5. QED BY <2>3, <2>4
<1> HIDE DEF r
<1> DEFINE at(i) == IF i <= k - 1 THEN i ELSE i + 1
<1>10. /\ \A i \in 1 .. n - 1 : at(i) \in 1 .. n /\ at(i) # k /\ r[i] = q[at(i)]
       /\ \A i, j \in 1 .. n - 1 : at(i) = at(j) => i = j
       /\ \A j \in 1 .. n : j # k => \E i \in 1 .. n - 1 : at(i) = j
  <2>1. \A i \in 1 .. n - 1 : at(i) \in 1 .. n /\ at(i) # k
    BY <1>1
  <2>2. \A i \in 1 .. n - 1 : r[i] = q[at(i)]
    BY <1>9
  <2>3. \A i, j \in 1 .. n - 1 : at(i) = at(j) => i = j
    BY <1>1
  <2>4. ASSUME NEW j \in 1 .. n, j # k
        PROVE  \E i \in 1 .. n - 1 : at(i) = j
    <3>1. CASE j < k
      <4>1. j \in 1 .. n - 1 /\ at(j) = j
        BY <3>1, <1>1
      <4>2. QED BY <4>1
    <3>2. CASE ~ (j < k)
      <4>1. j - 1 \in 1 .. n - 1 /\ at(j - 1) = j
        BY <3>2, <2>4, <1>1
      <4>2. QED BY <4>1
    <3>3. QED BY <3>1, <3>2
  <2>5. QED BY <2>1, <2>2, <2>3, <2>4
<1> HIDE DEF at
<1>11. \A i, j \in 1 .. n - 1 : r[i] = r[j] => i = j
  <2> SUFFICES ASSUME NEW i \in 1 .. n - 1, NEW j \in 1 .. n - 1, r[i] = r[j]
               PROVE  i = j
    OBVIOUS
  <2>1. at(i) \in 1 .. n /\ at(j) \in 1 .. n /\ q[at(i)] = q[at(j)]
    BY <1>10
  <2>2. at(i) = at(j)
    BY <2>1, <1>1
  <2>3. QED BY <2>2, <1>10
<1>12. \A i \in 1 .. n - 1 : r[i] \in S \ {e}
  BY <1>10, <1>1, <1>2
<1>13. \A x \in S \ {e} : \E i \in 1 .. n - 1 : r[i] = x
  <2> SUFFICES ASSUME NEW x \in S \ {e} PROVE \E i \in 1 .. n - 1 : r[i] = x
    OBVIOUS
  <2>1. PICK j \in 1 .. n : q[j] = x
    BY <1>1
  <2>2. j # k
    BY <2>1, <1>2
  <2>3. QED BY <2>1, <2>2, <1>10
<1>14. Lists(r, S \ {e})
  <2>1. r \in Seq(A) /\ Len(r) = n - 1
    BY <1>9
  <2>2. \A T : Lists(r, T) <=> /\ \A i, j \in 1 .. Len(r) : r[i] = r[j] => i = j
                               /\ \A i \in 1 .. Len(r) : r[i] \in T
                               /\ \A x \in T : \E i \in 1 .. Len(r) : r[i] = x
    BY <2>1, InLists
  <2> DEFINE T == S \ {e}
  <2>3. /\ \A i, j \in 1 .. Len(r) : r[i] = r[j] => i = j
        /\ \A i \in 1 .. Len(r) : r[i] \in T
        /\ \A x \in T : \E i \in 1 .. Len(r) : r[i] = x
    BY <2>1, <1>11, <1>12, <1>13
  <2> HIDE DEF T
  <2>4. Lists(r, T)
    BY <2>2, <2>3
  <2>5. QED BY <2>4 DEF T
<1>15. QED BY <1>6, <1>9, <1>14

LEMMA HeadLists ==
  ASSUME NEW A, NEW q \in Seq(A), NEW S, Lists(q, S), q # <<>>
  PROVE  Head(q) \in S
<1>1. Len(q) \in Nat \ {0} /\ \A i \in 1 .. Len(q) : q[i] \in S
  BY InLists, EmptySeq
<1>2. Head(q) = q[1] /\ 1 \in 1 .. Len(q)
  BY <1>1
<1>3. QED BY <1>1, <1>2

\* An order of a set lists it.
LEMMA OrderLists ==
  ASSUME NEW S, NEW order \in SetToSeqs(S), IsFiniteSet(S)
  PROVE  /\ order \in Seq(S) /\ Len(order) \in Nat
         /\ \A i \in 1 .. Len(order) : order[i] \in S
         /\ \A i, j \in 1 .. Len(order) : i # j => order[i] # order[j]
<1>1. Cardinality(S) \in Nat
  BY FS_CardinalityType
<1>2. /\ order \in [1 .. Cardinality(S) -> S]
      /\ \A i, j \in 1 .. Cardinality(S) : i # j => order[i] # order[j]
  BY DEF SetToSeqs
<1>3. order \in Seq(S) /\ Len(order) = Cardinality(S)
  BY <1>1, <1>2
<1>4. QED BY <1>1, <1>2, <1>3

(***************************************************************************)
(* The events, their priorities and the counters.                          *)
(***************************************************************************)
LEMMA AllIsFinite ==
  /\ IsFiniteSet(All) /\ IsFiniteSet(Events) /\ Events \subseteq All
  /\ All = Events \cup Internal /\ Events \cap Internal = {}
  /\ Notify \in Internal /\ Evsig \in Internal /\ Notify # Evsig /\ None \notin All
<1>1. IsFiniteSet(Events) /\ Events \cap Internal = {} /\ Notify # Evsig /\ None \notin All
  BY EventsAssumption
<1>2. IsFiniteSet({Notify}) /\ IsFiniteSet({Evsig})
  BY FS_Singleton
<1>3. {Notify, Evsig} = {Notify} \cup {Evsig}
  OBVIOUS
<1>4. IsFiniteSet({Notify, Evsig})
  BY <1>2, <1>3, FS_Union
<1>5. IsFiniteSet(Events \cup {Notify, Evsig})
  BY <1>1, <1>4, FS_Union
<1>6. QED BY <1>1, <1>5 DEF All, Internal

LEMMA PriorityOf ==
  /\ Priorities \subseteq Nat /\ IsFiniteSet(Priorities)
  /\ \A e \in All : Pri[e] \in Priorities
<1> DEFINE P == {Pri[e] : e \in All}
<1>1. Pri \in [All -> Nat] /\ IsFiniteSet(All) /\ Notify \in All
  BY EventsAssumption, AllIsFinite
<1>2. P \in SUBSET Int /\ P # {} /\ P \in SUBSET Nat
  BY <1>1
<1>3. IsFiniteSet(P)
  <2> DEFINE f == [e \in All |-> Pri[e]]
  <2>1. f \in Surjection(All, P)
    BY DEF Surjection
  <2>2. QED BY <2>1, <1>1, FS_Surjection
<1>4. \A e \in All : Pri[e] \in P
  OBVIOUS
<1> HIDE DEF P
<1>5. Max(P) \in P /\ \A p \in P : Max(P) >= p
  BY <1>2, <1>3, MaxOfFinite
<1>6. \A p \in P : p \in 0 .. Max(P)
  BY <1>2, <1>5
<1>7. 0 .. Max(P) \subseteq Nat /\ IsFiniteSet(0 .. Max(P))
  <2>1. Max(P) \in Nat
    BY <1>2, <1>5
  <2>2. 0 \in Int /\ Max(P) \in Int
    BY <2>1
  <2>3. IsFiniteSet(0 .. Max(P))
    BY <2>2, FS_Interval
  <2>4. QED BY <2>1, <2>3
<1>8. QED BY <1>4, <1>6, <1>7 DEF Priorities, P

\* The counter of the flags of the program's events.
CountOf(flags) == Cardinality({x \in Events \X Flags : x[2] \in flags[x[1]]})
\* The counter of the events that are active, now or later.
QueuedOf(flags) == {e \in All : flags[e] \cap {"ACTIVE", "LATER"} # {}}

LEMMA PairsFinite ==
  ASSUME NEW flags
  PROVE  IsFiniteSet({x \in Events \X Flags : x[2] \in flags[x[1]]})
<1>1. IsFiniteSet(Flags)
  <2>1. /\ IsFiniteSet({"INSERTED"}) /\ IsFiniteSet({"TIMEOUT"})
        /\ IsFiniteSet({"ACTIVE"}) /\ IsFiniteSet({"LATER"})
    BY FS_Singleton
  <2>2. IsFiniteSet({"INSERTED"} \cup {"TIMEOUT"}) /\ IsFiniteSet({"ACTIVE"} \cup {"LATER"})
    BY <2>1, FS_Union
  <2>3. IsFiniteSet(({"INSERTED"} \cup {"TIMEOUT"}) \cup ({"ACTIVE"} \cup {"LATER"}))
    BY <2>2, FS_Union
  <2>4. Flags = ({"INSERTED"} \cup {"TIMEOUT"}) \cup ({"ACTIVE"} \cup {"LATER"})
    BY DEF Flags
  <2>5. QED BY <2>3, <2>4
<1>2. IsFiniteSet(Events \X Flags)
  BY <1>1, AllIsFinite, FS_Product
<1>3. QED BY <1>2, FS_Subset

LEMMA CountEnter ==
  ASSUME NEW flags \in [All -> SUBSET Flags], NEW e \in All, NEW f \in Flags \ flags[e]
  PROVE  CountOf([flags EXCEPT ![e] = @ \cup {f}]) = CountOf(flags) + Counted(e)
<1> DEFINE S == {x \in Events \X Flags : x[2] \in flags[x[1]]}
           more == [flags EXCEPT ![e] = @ \cup {f}]
           T == {x \in Events \X Flags : x[2] \in more[x[1]]}
<1>1. IsFiniteSet(S) /\ Cardinality(S) \in Nat
  BY PairsFinite, FS_CardinalityType
<1>2. CASE e \in Internal
  <2>1. e \notin Events
    BY <1>2, AllIsFinite
  <2>2. T = S
    BY <2>1, AllIsFinite
  <2>3. CountOf(more) = Cardinality(T) /\ CountOf(flags) = Cardinality(S)
    BY DEF CountOf
  <2>4. Cardinality(T) = Cardinality(S)
    BY <2>2
  <2>5. Counted(e) = 0
    BY <1>2 DEF Counted
  <2> HIDE DEF S, T
  <2>6. QED BY <2>3, <2>4, <2>5, <1>1
<1>3. CASE e \notin Internal
  <2>1. e \in Events
    BY <1>3, AllIsFinite
  <2>2. T = S \cup {<<e, f>>} /\ <<e, f>> \notin S
    BY <2>1, AllIsFinite
  <2>3. Cardinality(T) = Cardinality(S) + 1
    <3> HIDE DEF S, T
    <3>1. QED BY <2>2, <1>1, FS_AddElement
  <2>4. QED BY <2>3, <1>3 DEF CountOf, Counted
<1>4. QED BY <1>2, <1>3

LEMMA CountLeave ==
  ASSUME NEW flags \in [All -> SUBSET Flags], NEW e \in All, NEW f \in flags[e]
  PROVE  CountOf([flags EXCEPT ![e] = @ \ {f}]) = CountOf(flags) - Counted(e)
<1> DEFINE S == {x \in Events \X Flags : x[2] \in flags[x[1]]}
           less == [flags EXCEPT ![e] = @ \ {f}]
           T == {x \in Events \X Flags : x[2] \in less[x[1]]}
<1>1. IsFiniteSet(S) /\ Cardinality(S) \in Nat
  BY PairsFinite, FS_CardinalityType
<1>2. CASE e \in Internal
  <2>1. e \notin Events
    BY <1>2, AllIsFinite
  <2>2. T = S
    BY <2>1, AllIsFinite
  <2>3. CountOf(less) = Cardinality(T) /\ CountOf(flags) = Cardinality(S)
    BY DEF CountOf
  <2>4. Cardinality(T) = Cardinality(S)
    BY <2>2
  <2>5. Counted(e) = 0
    BY <1>2 DEF Counted
  <2> HIDE DEF S, T
  <2>6. QED BY <2>3, <2>4, <2>5, <1>1
<1>3. CASE e \notin Internal
  <2>1. e \in Events /\ f \in Flags
    BY <1>3, AllIsFinite
  <2>2. T = S \ {<<e, f>>} /\ <<e, f>> \in S
    BY <2>1, AllIsFinite
  <2>3. Cardinality(T) = Cardinality(S) - 1
    <3> HIDE DEF S, T
    <3>1. QED BY <2>2, <1>1, FS_RemoveElement
  <2>4. QED BY <2>3, <1>3 DEF CountOf, Counted
<1>4. QED BY <1>2, <1>3

LEMMA QueuedChange ==
  ASSUME NEW flags \in [All -> SUBSET Flags], NEW e \in All, NEW f \in {"ACTIVE", "LATER"}
  PROVE  /\ Cardinality(QueuedOf(flags)) \in Nat
         /\ flags[e] \cap {"ACTIVE", "LATER"} = {} =>
              Cardinality(QueuedOf([flags EXCEPT ![e] = @ \cup {f}]))
                = Cardinality(QueuedOf(flags)) + 1
         /\ flags[e] \cap {"ACTIVE", "LATER"} = {f} =>
              Cardinality(QueuedOf([flags EXCEPT ![e] = @ \ {f}]))
                = Cardinality(QueuedOf(flags)) - 1
<1>1. IsFiniteSet(QueuedOf(flags))
  BY AllIsFinite, FS_Subset DEF QueuedOf
<1>2. ASSUME flags[e] \cap {"ACTIVE", "LATER"} = {}
      PROVE  Cardinality(QueuedOf([flags EXCEPT ![e] = @ \cup {f}]))
                = Cardinality(QueuedOf(flags)) + 1
  <2>1. QueuedOf([flags EXCEPT ![e] = @ \cup {f}]) = QueuedOf(flags) \cup {e}
    BY DEF QueuedOf
  <2>2. e \notin QueuedOf(flags)
    BY <1>2 DEF QueuedOf
  <2>3. QED BY <2>1, <2>2, <1>1, FS_AddElement
<1>3. ASSUME flags[e] \cap {"ACTIVE", "LATER"} = {f}
      PROVE  Cardinality(QueuedOf([flags EXCEPT ![e] = @ \ {f}]))
                = Cardinality(QueuedOf(flags)) - 1
  <2>1. QueuedOf([flags EXCEPT ![e] = @ \ {f}]) = QueuedOf(flags) \ {e}
    BY <1>3 DEF QueuedOf
  <2>2. e \in QueuedOf(flags)
    BY <1>3 DEF QueuedOf
  <2>3. QED BY <2>1, <2>2, <1>1, FS_RemoveElement
<1>4. QED BY <1>1, <1>2, <1>3, FS_CardinalityType

(***************************************************************************)
(* What every function on the base keeps.                                  *)
(***************************************************************************)
ActiveAt(flags, p) == {e \in All : "ACTIVE" \in flags[e] /\ Pri[e] = p}
Later(flags) == {e \in All : "LATER" \in flags[e]}

Sound(b) ==
  /\ b \in Base
  /\ event_base_assert_ok_nolock_(b)
  /\ \A e \in Internal : b.flags[e] \subseteq {"INSERTED", "ACTIVE"}
  /\ ~b.is_notify_pending => b.eventfd = 0

\* What only the loop itself changes.
Same(b, c) ==
  /\ c.running_loop = b.running_loop /\ c.event_break = b.event_break
  /\ c.event_gotterm = b.event_gotterm
  /\ c.event_running_priority = b.event_running_priority
  /\ c.current_event = b.current_event
  /\ c.current_event_waiters = b.current_event_waiters
  /\ c.raised = b.raised /\ c.tv_cache = b.tv_cache

\* The loop is woken at most, and only by another thread.
Woken(b, c, t) ==
  \/ c.is_notify_pending = b.is_notify_pending /\ c.eventfd = b.eventfd
  \/ /\ t # LoopThread /\ b.running_loop /\ ~b.is_notify_pending
     /\ c.is_notify_pending /\ c.eventfd = 1

\* What a call of thread t may do to the base.
Serves(b, c, t) ==
  Sound(c) /\ Same(b, c) /\ c.flags[Notify] = b.flags[Notify] /\ Woken(b, c, t)

LEMMA ServesTwice ==
  ASSUME NEW b, NEW c, NEW d, NEW t, Serves(b, c, t), Serves(c, d, t)
  PROVE  Serves(b, d, t)
BY DEF Serves, Same, Woken

LEMMA ServesNothing ==
  ASSUME NEW b, NEW t, Sound(b)
  PROVE  Serves(b, b, t)
BY DEF Serves, Same, Woken

LEMMA AssertOk ==
  ASSUME NEW b
  PROVE  event_base_assert_ok_nolock_(b) <=>
           /\ \A e \in All : ~({"ACTIVE", "LATER"} \subseteq b.flags[e])
           /\ \A p \in Priorities : Lists(b.activequeues[p], ActiveAt(b.flags, p))
           /\ Lists(b.active_later_queue, Later(b.flags))
           /\ b.event_count = CountOf(b.flags)
           /\ b.event_count_active = Cardinality(QueuedOf(b.flags))
BY DEF event_base_assert_ok_nolock_, ActiveAt, Later, CountOf, QueuedOf, Has

\* Other fields than the queues do not matter.
LEMMA SoundIf ==
  ASSUME NEW b, Sound(b), NEW c \in Base, c.flags = b.flags,
         c.activequeues = b.activequeues, c.active_later_queue = b.active_later_queue,
         c.event_count = b.event_count, c.event_count_active = b.event_count_active,
         ~c.is_notify_pending => c.eventfd = 0
  PROVE  Sound(c)
BY AssertOk DEF Sound

\* A flag that belongs to no queue.
LEMMA EnterSound ==
  ASSUME NEW b, Sound(b), NEW e \in All, NEW f \in {"INSERTED", "TIMEOUT"}, ~Has(b, e, f),
         e \in Internal => f = "INSERTED"
  PROVE  Sound(Enter(b, e, f))
<1> DEFINE c == Enter(b, e, f)
<1>1. b \in Base /\ f \in Flags /\ Counted(e) \in Int
  BY DEF Sound, Flags, Counted
<1>2. b.flags \in [All -> SUBSET Flags] /\ b.event_count \in Int /\ f \notin b.flags[e]
  BY <1>1 DEF Base, Has
<1>3. c \in Base
  <2> DEFINE more == [b.flags EXCEPT ![e] = @ \cup {f}]
             n == b.event_count + Counted(e)
  <2>1. more \in [All -> SUBSET Flags] /\ n \in Int
    BY <1>1, <1>2
  <2>2. c = [b EXCEPT !.flags = more, !.event_count = n]
    BY DEF Enter
  <2> HIDE DEF c, more, n
  <2>3. QED BY <1>1, <2>1, <2>2 DEF Base
<1>4. /\ c.flags = [b.flags EXCEPT ![e] = @ \cup {f}]
      /\ c.activequeues = b.activequeues /\ c.active_later_queue = b.active_later_queue
      /\ c.event_count = b.event_count + Counted(e)
      /\ c.event_count_active = b.event_count_active
      /\ c.is_notify_pending = b.is_notify_pending /\ c.eventfd = b.eventfd
  BY <1>1 DEF Base, Enter
<1>5. \A x \in All : /\ "ACTIVE" \in c.flags[x] <=> "ACTIVE" \in b.flags[x]
                     /\ "LATER" \in c.flags[x] <=> "LATER" \in b.flags[x]
  BY <1>4, <1>2
<1>6. /\ \A p : ActiveAt(c.flags, p) = ActiveAt(b.flags, p)
      /\ Later(c.flags) = Later(b.flags)
      /\ QueuedOf(c.flags) = QueuedOf(b.flags)
  BY <1>5 DEF ActiveAt, Later, QueuedOf
<1>7. CountOf(c.flags) = CountOf(b.flags) + Counted(e)
  BY <1>2, <1>4, <1>1, CountEnter
<1>8. event_base_assert_ok_nolock_(b)
  BY DEF Sound
<1>9. event_base_assert_ok_nolock_(c)
  <2> HIDE DEF c
  <2>1. QED BY <1>4, <1>5, <1>6, <1>7, <1>8, AssertOk
<1>10. \A x \in Internal : c.flags[x] \subseteq {"INSERTED", "ACTIVE"}
  BY <1>4, <1>2, AllIsFinite DEF Sound
<1>11. Sound(c)
  BY <1>3, <1>4, <1>9, <1>10 DEF Sound
<1>12. QED BY <1>11

\* Nothing but flags, queues and counters differs.
Rest(b, c) ==
  /\ Same(b, c)
  /\ c.res = b.res /\ c.timeout = b.timeout /\ c.io_timeout = b.io_timeout
  /\ c.ncalls = b.ncalls /\ c.pncalls = b.pncalls /\ c.calls = b.calls
  /\ c.n_deferreds_queued = b.n_deferreds_queued /\ c.event_continue = b.event_continue
  /\ c.is_notify_pending = b.is_notify_pending /\ c.eventfd = b.eventfd

LEMMA EnterRest ==
  ASSUME NEW b \in Base, NEW e \in All, NEW f
  PROVE  /\ Rest(b, Enter(b, e, f))
         /\ Enter(b, e, f).flags = [b.flags EXCEPT ![e] = @ \cup {f}]
         /\ Enter(b, e, f).event_count_active = b.event_count_active
         /\ Enter(b, e, f).activequeues = b.activequeues
         /\ Enter(b, e, f).active_later_queue = b.active_later_queue
BY DEF Rest, Same, Enter, Base

LEMMA LeaveRest ==
  ASSUME NEW b \in Base, NEW e \in All, NEW f
  PROVE  /\ Rest(b, Leave(b, e, f))
         /\ Leave(b, e, f).flags = [b.flags EXCEPT ![e] = @ \ {f}]
         /\ Leave(b, e, f).event_count_active = b.event_count_active
         /\ Leave(b, e, f).activequeues = b.activequeues
         /\ Leave(b, e, f).active_later_queue = b.active_later_queue
BY DEF Rest, Same, Leave, Base

LEMMA LeaveSound ==
  ASSUME NEW b, Sound(b), NEW e \in All, NEW f \in {"INSERTED", "TIMEOUT"}, Has(b, e, f)
  PROVE  Sound(Leave(b, e, f))
<1> DEFINE c == Leave(b, e, f)
<1>1. b \in Base /\ Counted(e) \in Int
  BY DEF Sound, Counted
<1>2. b.flags \in [All -> SUBSET Flags] /\ b.event_count \in Int /\ f \in b.flags[e]
  BY <1>1 DEF Base, Has
<1>3. c \in Base
  <2> DEFINE less == [b.flags EXCEPT ![e] = @ \ {f}]
             n == b.event_count - Counted(e)
  <2>1. less \in [All -> SUBSET Flags] /\ n \in Int
    BY <1>1, <1>2
  <2>2. c = [b EXCEPT !.flags = less, !.event_count = n]
    BY DEF Leave
  <2> HIDE DEF c, less, n
  <2>3. QED BY <1>1, <2>1, <2>2 DEF Base
<1>4. /\ c.flags = [b.flags EXCEPT ![e] = @ \ {f}]
      /\ c.activequeues = b.activequeues /\ c.active_later_queue = b.active_later_queue
      /\ c.event_count = b.event_count - Counted(e)
      /\ c.event_count_active = b.event_count_active
      /\ c.is_notify_pending = b.is_notify_pending /\ c.eventfd = b.eventfd
  BY <1>1 DEF Base, Leave
<1>5. \A x \in All : /\ "ACTIVE" \in c.flags[x] <=> "ACTIVE" \in b.flags[x]
                     /\ "LATER" \in c.flags[x] <=> "LATER" \in b.flags[x]
  BY <1>4, <1>2
<1>6. /\ \A p : ActiveAt(c.flags, p) = ActiveAt(b.flags, p)
      /\ Later(c.flags) = Later(b.flags)
      /\ QueuedOf(c.flags) = QueuedOf(b.flags)
  BY <1>5 DEF ActiveAt, Later, QueuedOf
<1>7. CountOf(c.flags) = CountOf(b.flags) - Counted(e)
  BY <1>2, <1>4, <1>1, CountLeave
<1>8. event_base_assert_ok_nolock_(b)
  BY DEF Sound
<1>9. event_base_assert_ok_nolock_(c)
  <2> HIDE DEF c
  <2>1. QED BY <1>4, <1>5, <1>6, <1>7, <1>8, AssertOk
<1>10. \A x \in Internal : c.flags[x] \subseteq {"INSERTED", "ACTIVE"}
  BY <1>4, <1>2, AllIsFinite DEF Sound
<1>11. Sound(c)
  BY <1>3, <1>4, <1>9, <1>10 DEF Sound
<1>12. QED BY <1>11

\* The four ways into and out of the queues.
LEMMA InsertActive ==
  ASSUME NEW b, Sound(b), NEW e \in All, ~Has(b, e, "ACTIVE"), ~Has(b, e, "LATER")
  PROVE  LET c == event_queue_insert_active(b, e)
         IN  /\ Sound(c) /\ Rest(b, c)
             /\ c.flags = [b.flags EXCEPT ![e] = @ \cup {"ACTIVE"}]
             /\ c.event_count_active = b.event_count_active + 1
             /\ c.activequeues = [b.activequeues EXCEPT ![Pri[e]] = Append(@, e)]
             /\ c.active_later_queue = b.active_later_queue
<1> DEFINE c == event_queue_insert_active(b, e)
           flags == [b.flags EXCEPT ![e] = @ \cup {"ACTIVE"}]
           n == b.event_count + Counted(e)
           m == b.event_count_active + 1
           queue == [b.activequeues EXCEPT ![Pri[e]] = Append(@, e)]
<1>1. b \in Base /\ event_base_assert_ok_nolock_(b) /\ Counted(e) \in Int /\ e \in All
  BY AllIsFinite DEF Sound, Counted
<1>2. /\ b.flags \in [All -> SUBSET Flags] /\ b.event_count \in Int
      /\ b.event_count_active \in Int
      /\ b.activequeues \in [Priorities -> Seq(All)] /\ b.active_later_queue \in Seq(All)
  BY <1>1 DEF Base
<1>3. /\ \A x \in All : ~({"ACTIVE", "LATER"} \subseteq b.flags[x])
      /\ \A p \in Priorities : Lists(b.activequeues[p], ActiveAt(b.flags, p))
      /\ Lists(b.active_later_queue, Later(b.flags))
      /\ b.event_count = CountOf(b.flags)
      /\ b.event_count_active = Cardinality(QueuedOf(b.flags))
  BY <1>1, AssertOk
<1>4. b.flags[e] \cap {"ACTIVE", "LATER"} = {}
  BY <1>1, <1>3 DEF Has
<1>5. Pri[e] \in Priorities
  BY <1>1, PriorityOf
<1>6. LET q == b.activequeues[Pri[e]]
      IN  /\ Append(q, e) \in Seq(All)
          /\ Lists(Append(q, e), ActiveAt(b.flags, Pri[e]) \cup {e})
  BY <1>1, <1>2, <1>3, <1>4, <1>5, AppendLists DEF ActiveAt
<1>7. queue \in [Priorities -> Seq(All)] /\ flags \in [All -> SUBSET Flags] /\ n \in Int /\ m \in Int
  BY <1>1, <1>2, <1>5, <1>6 DEF Flags
<1>8. c = [b EXCEPT !.flags = flags, !.event_count = n, !.event_count_active = m,
                    !.activequeues = queue]
  BY <1>1 DEF event_queue_insert_active, Enter, Base
<1>9. /\ \A p \in Priorities : ActiveAt(flags, p) =
           IF p = Pri[e] THEN ActiveAt(b.flags, p) \cup {e} ELSE ActiveAt(b.flags, p)
      /\ Later(flags) = Later(b.flags)
  <2>1. \A x \in All : /\ "ACTIVE" \in flags[x] <=> "ACTIVE" \in b.flags[x] \/ x = e
                       /\ "LATER" \in flags[x] <=> "LATER" \in b.flags[x]
    BY <1>2
  <2> HIDE DEF flags
  <2>2. QED BY <2>1, <1>1 DEF ActiveAt, Later
<1>10. CountOf(flags) = n
  BY <1>1, <1>2, <1>3, <1>4, CountEnter DEF Flags
<1>11. Cardinality(QueuedOf(flags)) = m
  BY <1>1, <1>2, <1>3, <1>4, QueuedChange
<1>12. \A x \in All : ~({"ACTIVE", "LATER"} \subseteq flags[x])
  BY <1>2, <1>3, <1>4
<1>13. \A p \in Priorities : Lists(queue[p], ActiveAt(flags, p))
  <2> SUFFICES ASSUME NEW p \in Priorities PROVE Lists(queue[p], ActiveAt(flags, p))
    OBVIOUS
  <2>1. CASE p = Pri[e]
    <3>1. queue[p] = Append(b.activequeues[Pri[e]], e)
      BY <2>1, <1>2, <1>5
    <3>2. ActiveAt(flags, p) = ActiveAt(b.flags, Pri[e]) \cup {e}
      BY <2>1, <1>9
    <3>3. QED BY <3>1, <3>2, <1>6
  <2>2. CASE p # Pri[e]
    <3>1. queue[p] = b.activequeues[p] /\ ActiveAt(flags, p) = ActiveAt(b.flags, p)
      BY <2>2, <1>2, <1>9
    <3>2. QED BY <3>1, <1>3
  <2>3. QED BY <2>1, <2>2
<1>14. Lists(b.active_later_queue, Later(flags))
  BY <1>3, <1>9
<1>15. \A x \in Internal : flags[x] \subseteq {"INSERTED", "ACTIVE"}
  BY <1>2, AllIsFinite DEF Sound
<1> HIDE DEF c, flags, n, m, queue
<1>16. /\ c \in Base /\ Rest(b, c)
       /\ c.flags = flags /\ c.event_count = n /\ c.event_count_active = m
       /\ c.activequeues = queue /\ c.active_later_queue = b.active_later_queue
       /\ c.is_notify_pending = b.is_notify_pending /\ c.eventfd = b.eventfd
  BY <1>1, <1>7, <1>8 DEF Base, Rest, Same
<1>17. event_base_assert_ok_nolock_(c)
  BY <1>16, <1>10, <1>11, <1>12, <1>13, <1>14, AssertOk
<1>18. Sound(c)
  BY <1>15, <1>16, <1>17 DEF Sound
<1>19. QED BY <1>16, <1>18 DEF c, flags, m, queue

LEMMA RemoveActive ==
  ASSUME NEW b, Sound(b), NEW e \in All, Has(b, e, "ACTIVE")
  PROVE  LET c == event_queue_remove_active(b, e)
         IN  /\ Sound(c) /\ Rest(b, c)
             /\ c.flags = [b.flags EXCEPT ![e] = @ \ {"ACTIVE"}]
             /\ c.event_count_active = b.event_count_active - 1
             /\ c.activequeues = [b.activequeues EXCEPT ![Pri[e]] = RemoveFirst(@, e)]
             /\ c.active_later_queue = b.active_later_queue
<1> DEFINE c == event_queue_remove_active(b, e)
           flags == [b.flags EXCEPT ![e] = @ \ {"ACTIVE"}]
           n == b.event_count - Counted(e)
           m == b.event_count_active - 1
           queue == [b.activequeues EXCEPT ![Pri[e]] = RemoveFirst(@, e)]
<1>1. b \in Base /\ event_base_assert_ok_nolock_(b) /\ Counted(e) \in Int /\ e \in All
  BY AllIsFinite DEF Sound, Counted
<1>2. /\ b.flags \in [All -> SUBSET Flags] /\ b.event_count \in Int
      /\ b.event_count_active \in Int
      /\ b.activequeues \in [Priorities -> Seq(All)] /\ b.active_later_queue \in Seq(All)
  BY <1>1 DEF Base
<1>3. /\ \A x \in All : ~({"ACTIVE", "LATER"} \subseteq b.flags[x])
      /\ \A p \in Priorities : Lists(b.activequeues[p], ActiveAt(b.flags, p))
      /\ Lists(b.active_later_queue, Later(b.flags))
      /\ b.event_count = CountOf(b.flags)
      /\ b.event_count_active = Cardinality(QueuedOf(b.flags))
  BY <1>1, AssertOk
<1>4. b.flags[e] \cap {"ACTIVE", "LATER"} = {"ACTIVE"}
  BY <1>1, <1>3 DEF Has
<1>5. Pri[e] \in Priorities
  BY <1>1, PriorityOf
<1>6. LET q == b.activequeues[Pri[e]]
      IN  /\ RemoveFirst(q, e) \in Seq(All)
          /\ Lists(RemoveFirst(q, e), ActiveAt(b.flags, Pri[e]) \ {e})
  <2>1. e \in ActiveAt(b.flags, Pri[e])
    BY <1>1, <1>4 DEF ActiveAt
  <2>2. QED BY <2>1, <1>2, <1>3, <1>5, RemoveLists
<1>7. queue \in [Priorities -> Seq(All)] /\ flags \in [All -> SUBSET Flags] /\ n \in Int /\ m \in Int
  BY <1>1, <1>2, <1>5, <1>6 DEF Flags
<1>8. c = [b EXCEPT !.flags = flags, !.event_count = n, !.event_count_active = m,
                    !.activequeues = queue]
  BY <1>1 DEF event_queue_remove_active, Leave, Base
<1>9. /\ \A p \in Priorities : ActiveAt(flags, p) =
           IF p = Pri[e] THEN ActiveAt(b.flags, p) \ {e} ELSE ActiveAt(b.flags, p)
      /\ Later(flags) = Later(b.flags)
  <2>1. \A x \in All : /\ "ACTIVE" \in flags[x] <=> "ACTIVE" \in b.flags[x] /\ x # e
                       /\ "LATER" \in flags[x] <=> "LATER" \in b.flags[x]
    BY <1>2
  <2> HIDE DEF flags
  <2>2. QED BY <2>1, <1>1 DEF ActiveAt, Later
<1>10. CountOf(flags) = n
  BY <1>1, <1>2, <1>3, <1>4, CountLeave DEF Flags
<1>11. Cardinality(QueuedOf(flags)) = m
  BY <1>1, <1>2, <1>3, <1>4, QueuedChange
<1>12. \A x \in All : ~({"ACTIVE", "LATER"} \subseteq flags[x])
  BY <1>2, <1>3, <1>4
<1>13. \A p \in Priorities : Lists(queue[p], ActiveAt(flags, p))
  <2> SUFFICES ASSUME NEW p \in Priorities PROVE Lists(queue[p], ActiveAt(flags, p))
    OBVIOUS
  <2>1. CASE p = Pri[e]
    <3>1. queue[p] = RemoveFirst(b.activequeues[Pri[e]], e)
      BY <2>1, <1>2, <1>5
    <3>2. ActiveAt(flags, p) = ActiveAt(b.flags, Pri[e]) \ {e}
      BY <2>1, <1>9
    <3>3. QED BY <3>1, <3>2, <1>6
  <2>2. CASE p # Pri[e]
    <3>1. queue[p] = b.activequeues[p] /\ ActiveAt(flags, p) = ActiveAt(b.flags, p)
      BY <2>2, <1>2, <1>9
    <3>2. QED BY <3>1, <1>3
  <2>3. QED BY <2>1, <2>2
<1>14. Lists(b.active_later_queue, Later(flags))
  BY <1>3, <1>9
<1>15. \A x \in Internal : flags[x] \subseteq {"INSERTED", "ACTIVE"}
  BY <1>2, AllIsFinite DEF Sound
<1> HIDE DEF c, flags, n, m, queue
<1>16. /\ c \in Base /\ Rest(b, c)
       /\ c.flags = flags /\ c.event_count = n /\ c.event_count_active = m
       /\ c.activequeues = queue /\ c.active_later_queue = b.active_later_queue
       /\ c.is_notify_pending = b.is_notify_pending /\ c.eventfd = b.eventfd
  BY <1>1, <1>7, <1>8 DEF Base, Rest, Same
<1>17. event_base_assert_ok_nolock_(c)
  BY <1>16, <1>10, <1>11, <1>12, <1>13, <1>14, AssertOk
<1>18. Sound(c)
  BY <1>15, <1>16, <1>17 DEF Sound
<1>19. QED BY <1>16, <1>18 DEF c, flags, m, queue

LEMMA InsertLater ==
  ASSUME NEW b, Sound(b), NEW e \in Events, ~Has(b, e, "ACTIVE"), ~Has(b, e, "LATER")
  PROVE  LET c == event_queue_insert_active_later(b, e)
         IN  /\ Sound(c) /\ Rest(b, c)
             /\ c.flags = [b.flags EXCEPT ![e] = @ \cup {"LATER"}]
             /\ c.event_count_active = b.event_count_active + 1
             /\ c.active_later_queue = Append(b.active_later_queue, e)
             /\ c.activequeues = b.activequeues
<1> DEFINE c == event_queue_insert_active_later(b, e)
           flags == [b.flags EXCEPT ![e] = @ \cup {"LATER"}]
           n == b.event_count + Counted(e)
           m == b.event_count_active + 1
           queue == Append(b.active_later_queue, e)
<1>1. b \in Base /\ event_base_assert_ok_nolock_(b) /\ Counted(e) \in Int /\ e \in All
  BY AllIsFinite DEF Sound, Counted
<1>2. /\ b.flags \in [All -> SUBSET Flags] /\ b.event_count \in Int
      /\ b.event_count_active \in Int
      /\ b.activequeues \in [Priorities -> Seq(All)] /\ b.active_later_queue \in Seq(All)
  BY <1>1 DEF Base
<1>3. /\ \A x \in All : ~({"ACTIVE", "LATER"} \subseteq b.flags[x])
      /\ \A p \in Priorities : Lists(b.activequeues[p], ActiveAt(b.flags, p))
      /\ Lists(b.active_later_queue, Later(b.flags))
      /\ b.event_count = CountOf(b.flags)
      /\ b.event_count_active = Cardinality(QueuedOf(b.flags))
  BY <1>1, AssertOk
<1>4. b.flags[e] \cap {"ACTIVE", "LATER"} = {}
  BY <1>1, <1>3 DEF Has
<1>5. Pri[e] \in Priorities
  BY <1>1, PriorityOf
<1>6. queue \in Seq(All) /\ Lists(queue, Later(b.flags) \cup {e})
  BY <1>1, <1>2, <1>3, <1>4, AppendLists DEF Later
<1>7. queue \in Seq(All) /\ flags \in [All -> SUBSET Flags] /\ n \in Int /\ m \in Int
  BY <1>1, <1>2, <1>5, <1>6 DEF Flags
<1>8. c = [b EXCEPT !.flags = flags, !.event_count = n, !.event_count_active = m,
                    !.active_later_queue = queue]
  BY <1>1 DEF event_queue_insert_active_later, Enter, Base
<1>9. /\ \A p \in Priorities : ActiveAt(flags, p) = ActiveAt(b.flags, p)
      /\ Later(flags) = Later(b.flags) \cup {e}
  <2>1. \A x \in All : /\ "LATER" \in flags[x] <=> "LATER" \in b.flags[x] \/ x = e
                       /\ "ACTIVE" \in flags[x] <=> "ACTIVE" \in b.flags[x]
    BY <1>2
  <2> HIDE DEF flags
  <2>2. QED BY <2>1, <1>1 DEF ActiveAt, Later
<1>10. CountOf(flags) = n
  BY <1>1, <1>2, <1>3, <1>4, CountEnter DEF Flags
<1>11. Cardinality(QueuedOf(flags)) = m
  BY <1>1, <1>2, <1>3, <1>4, QueuedChange
<1>12. \A x \in All : ~({"ACTIVE", "LATER"} \subseteq flags[x])
  BY <1>2, <1>3, <1>4
<1>13. \A p \in Priorities : Lists(b.activequeues[p], ActiveAt(flags, p))
  BY <1>3, <1>9
<1>14. Lists(queue, Later(flags))
  BY <1>6, <1>9
<1>15. \A x \in Internal : flags[x] \subseteq {"INSERTED", "ACTIVE"}
  BY <1>2, AllIsFinite DEF Sound
<1> HIDE DEF c, flags, n, m, queue
<1>16. /\ c \in Base /\ Rest(b, c)
       /\ c.flags = flags /\ c.event_count = n /\ c.event_count_active = m
       /\ c.active_later_queue = queue /\ c.activequeues = b.activequeues
       /\ c.is_notify_pending = b.is_notify_pending /\ c.eventfd = b.eventfd
  BY <1>1, <1>7, <1>8 DEF Base, Rest, Same
<1>17. event_base_assert_ok_nolock_(c)
  BY <1>16, <1>10, <1>11, <1>12, <1>13, <1>14, AssertOk
<1>18. Sound(c)
  BY <1>15, <1>16, <1>17 DEF Sound
<1>19. QED BY <1>16, <1>18 DEF c, flags, m, queue

LEMMA RemoveLater ==
  ASSUME NEW b, Sound(b), NEW e \in All, Has(b, e, "LATER")
  PROVE  LET c == event_queue_remove_active_later(b, e)
         IN  /\ Sound(c) /\ Rest(b, c)
             /\ c.flags = [b.flags EXCEPT ![e] = @ \ {"LATER"}]
             /\ c.event_count_active = b.event_count_active - 1
             /\ c.active_later_queue = RemoveFirst(b.active_later_queue, e)
             /\ c.activequeues = b.activequeues
<1> DEFINE c == event_queue_remove_active_later(b, e)
           flags == [b.flags EXCEPT ![e] = @ \ {"LATER"}]
           n == b.event_count - Counted(e)
           m == b.event_count_active - 1
           queue == RemoveFirst(b.active_later_queue, e)
<1>1. b \in Base /\ event_base_assert_ok_nolock_(b) /\ Counted(e) \in Int /\ e \in All
  BY AllIsFinite DEF Sound, Counted
<1>2. /\ b.flags \in [All -> SUBSET Flags] /\ b.event_count \in Int
      /\ b.event_count_active \in Int
      /\ b.activequeues \in [Priorities -> Seq(All)] /\ b.active_later_queue \in Seq(All)
  BY <1>1 DEF Base
<1>3. /\ \A x \in All : ~({"ACTIVE", "LATER"} \subseteq b.flags[x])
      /\ \A p \in Priorities : Lists(b.activequeues[p], ActiveAt(b.flags, p))
      /\ Lists(b.active_later_queue, Later(b.flags))
      /\ b.event_count = CountOf(b.flags)
      /\ b.event_count_active = Cardinality(QueuedOf(b.flags))
  BY <1>1, AssertOk
<1>4. b.flags[e] \cap {"ACTIVE", "LATER"} = {"LATER"}
  BY <1>1, <1>3 DEF Has
<1>5. Pri[e] \in Priorities
  BY <1>1, PriorityOf
<1>6. queue \in Seq(All) /\ Lists(queue, Later(b.flags) \ {e})
  <2>1. e \in Later(b.flags)
    BY <1>1, <1>4 DEF Later
  <2>2. QED BY <2>1, <1>2, <1>3, RemoveLists
<1>7. queue \in Seq(All) /\ flags \in [All -> SUBSET Flags] /\ n \in Int /\ m \in Int
  BY <1>1, <1>2, <1>5, <1>6 DEF Flags
<1>8. c = [b EXCEPT !.flags = flags, !.event_count = n, !.event_count_active = m,
                    !.active_later_queue = queue]
  BY <1>1 DEF event_queue_remove_active_later, Leave, Base
<1>9. /\ \A p \in Priorities : ActiveAt(flags, p) = ActiveAt(b.flags, p)
      /\ Later(flags) = Later(b.flags) \ {e}
  <2>1. \A x \in All : /\ "LATER" \in flags[x] <=> "LATER" \in b.flags[x] /\ x # e
                       /\ "ACTIVE" \in flags[x] <=> "ACTIVE" \in b.flags[x]
    BY <1>2
  <2> HIDE DEF flags
  <2>2. QED BY <2>1, <1>1 DEF ActiveAt, Later
<1>10. CountOf(flags) = n
  BY <1>1, <1>2, <1>3, <1>4, CountLeave DEF Flags
<1>11. Cardinality(QueuedOf(flags)) = m
  BY <1>1, <1>2, <1>3, <1>4, QueuedChange
<1>12. \A x \in All : ~({"ACTIVE", "LATER"} \subseteq flags[x])
  BY <1>2, <1>3, <1>4
<1>13. \A p \in Priorities : Lists(b.activequeues[p], ActiveAt(flags, p))
  BY <1>3, <1>9
<1>14. Lists(queue, Later(flags))
  BY <1>6, <1>9
<1>15. \A x \in Internal : flags[x] \subseteq {"INSERTED", "ACTIVE"}
  BY <1>2, AllIsFinite DEF Sound
<1> HIDE DEF c, flags, n, m, queue
<1>16. /\ c \in Base /\ Rest(b, c)
       /\ c.flags = flags /\ c.event_count = n /\ c.event_count_active = m
       /\ c.active_later_queue = queue /\ c.activequeues = b.activequeues
       /\ c.is_notify_pending = b.is_notify_pending /\ c.eventfd = b.eventfd
  BY <1>1, <1>7, <1>8 DEF Base, Rest, Same
<1>17. event_base_assert_ok_nolock_(c)
  BY <1>16, <1>10, <1>11, <1>12, <1>13, <1>14, AssertOk
<1>18. Sound(c)
  BY <1>15, <1>16, <1>17 DEF Sound
<1>19. QED BY <1>16, <1>18 DEF c, flags, m, queue

(***************************************************************************)
(* The functions that the program's calls and the loop are made of.        *)
(***************************************************************************)
LEMMA RestServes ==
  ASSUME NEW b, NEW c, NEW t, Sound(c), Rest(b, c), c.flags[Notify] = b.flags[Notify]
  PROVE  Serves(b, c, t)
BY DEF Rest, Serves, Woken

\* Other fields of the events are free.
LEMMA FieldsServe ==
  ASSUME NEW b, Sound(b), NEW c \in Base, NEW t, Same(b, c), c.flags = b.flags,
         c.activequeues = b.activequeues, c.active_later_queue = b.active_later_queue,
         c.event_count = b.event_count, c.event_count_active = b.event_count_active,
         c.is_notify_pending = b.is_notify_pending, c.eventfd = b.eventfd
  PROVE  Serves(b, c, t)
<1>1. Sound(c)
  BY SoundIf DEF Sound
<1>2. QED BY <1>1 DEF Serves, Woken

\* The intervals of the persistent events stay, and so does the wish to look at
\* the higher priorities again.
Steady(b, c) ==
  c.io_timeout = b.io_timeout /\ (b.event_continue => c.event_continue)

\* Nothing to do was added.
Quiet(b, c) ==
  /\ c.flags = b.flags /\ c.timeout = b.timeout
  /\ c.event_count_active = b.event_count_active /\ Steady(b, c)

\* It wakes a loop that nobody has woken yet.
LEMMA NotifyServes ==
  ASSUME NEW b, Sound(b), NEW t
  PROVE  LET c == evthread_notify_base(b, t)
         IN  /\ Serves(b, c, t) /\ Steady(b, c)
             /\ c.flags = b.flags /\ c.timeout = b.timeout
             /\ c.event_count_active = b.event_count_active
             /\ t # LoopThread /\ b.running_loop /\ ~b.is_notify_pending => c.eventfd = 1
<1> DEFINE c == evthread_notify_base(b, t)
<1>1. CASE b.running_loop /\ t # LoopThread /\ ~b.is_notify_pending
  <2>1. b \in Base /\ b.eventfd = 0
    BY <1>1 DEF Sound
  <2>2. c = [b EXCEPT !.is_notify_pending = TRUE, !.eventfd = 1]
    BY <1>1, <2>1 DEF evthread_notify_base, Base
  <2> HIDE DEF c
  <2>3. /\ c \in Base /\ Same(b, c)
        /\ c.flags = b.flags /\ c.timeout = b.timeout
        /\ c.io_timeout = b.io_timeout /\ c.event_continue = b.event_continue
        /\ c.activequeues = b.activequeues /\ c.active_later_queue = b.active_later_queue
        /\ c.event_count = b.event_count /\ c.event_count_active = b.event_count_active
        /\ c.is_notify_pending /\ c.eventfd = 1
    BY <2>1, <2>2, ZenonT(40) DEF Base, Same
  <2>4. Sound(c)
    BY <2>3, SoundIf
  <2>5. Woken(b, c, t)
    BY <1>1, <2>3 DEF Woken
  <2>6. QED BY <2>3, <2>4, <2>5 DEF Serves, Steady, c
<1>2. CASE ~(b.running_loop /\ t # LoopThread /\ ~b.is_notify_pending)
  <2>1. c = b
    BY <1>2 DEF evthread_notify_base
  <2>2. QED BY <1>2, <2>1, ServesNothing DEF Steady
<1>3. QED BY <1>1, <1>2

LEMMA AbortServes ==
  ASSUME NEW b, Sound(b), NEW e, NEW t
  PROVE  LET c == AbortCalls(b, e)
         IN  /\ Serves(b, c, t) /\ c.flags = b.flags /\ c.timeout = b.timeout
             /\ c.event_count_active = b.event_count_active /\ c.res = b.res
             /\ c.is_notify_pending = b.is_notify_pending /\ c.eventfd = b.eventfd
             /\ c.io_timeout = b.io_timeout /\ c.event_continue = b.event_continue
<1> DEFINE c == AbortCalls(b, e)
<1>1. CASE c = b
  BY <1>1, ServesNothing
<1>2. CASE c = [b EXCEPT !.calls = 0]
  <2>1. b \in Base
    BY DEF Sound
  <2> HIDE DEF c
  <2>2. /\ c \in Base /\ Same(b, c)
        /\ c.flags = b.flags /\ c.timeout = b.timeout /\ c.res = b.res
        /\ c.io_timeout = b.io_timeout /\ c.event_continue = b.event_continue
        /\ c.activequeues = b.activequeues /\ c.active_later_queue = b.active_later_queue
        /\ c.event_count = b.event_count /\ c.event_count_active = b.event_count_active
        /\ c.is_notify_pending = b.is_notify_pending /\ c.eventfd = b.eventfd
    BY <2>1, <1>2 DEF Base, Same
  <2>3. QED BY <2>2, FieldsServe DEF c
<1>3. QED BY <1>1, <1>2 DEF AbortCalls

\* event_del takes the event out of everything.
LEMMA DelServes ==
  ASSUME NEW b, Sound(b), NEW e \in Events, NEW t
  PROVE  LET c == event_del_nolock_(b, t, e)
         IN  /\ Serves(b, c, t) /\ Steady(b, c)
             /\ c.flags = [b.flags EXCEPT ![e] = {}] /\ c.timeout = b.timeout
             /\ c.event_count_active <= b.event_count_active
<1> DEFINE b0 == AbortCalls(b, e)
           b1 == IF Has(b0, e, "TIMEOUT") THEN Leave(b0, e, "TIMEOUT") ELSE b0
           b2 == IF Has(b1, e, "ACTIVE") THEN event_queue_remove_active(b1, e)
                 ELSE IF Has(b1, e, "LATER") THEN event_queue_remove_active_later(b1, e)
                 ELSE b1
           b3 == IF Has(b2, e, "INSERTED") THEN Leave(b2, e, "INSERTED") ELSE b2
           c == event_del_nolock_(b, t, e)
<1>1. e \in All /\ e # Notify /\ Notify \in All
  BY AllIsFinite
<1>2. /\ Serves(b, b0, t) /\ b0.flags = b.flags /\ b0.timeout = b.timeout
      /\ b0.event_count_active = b.event_count_active /\ Steady(b, b0)
  BY AbortServes DEF Steady
<1>3. Sound(b0) /\ b0 \in Base /\ b0.flags \in [All -> SUBSET Flags]
      /\ b0.event_count_active \in Int
  BY <1>2 DEF Serves, Sound, Base
<1> HIDE DEF b0
<1>4. /\ Serves(b0, b1, t) /\ Sound(b1) /\ b1 \in Base
      /\ b1.flags = [b0.flags EXCEPT ![e] = @ \ {"TIMEOUT"}]
      /\ b1.timeout = b0.timeout /\ b1.event_count_active = b0.event_count_active
      /\ Steady(b0, b1)
  <2>1. CASE Has(b0, e, "TIMEOUT")
    <3>1. Sound(b1) /\ Rest(b0, b1)
          /\ b1.flags = [b0.flags EXCEPT ![e] = @ \ {"TIMEOUT"}]
          /\ b1.event_count_active = b0.event_count_active
      BY <2>1, <1>1, <1>3, LeaveSound, LeaveRest
    <3>2. b1.flags[Notify] = b0.flags[Notify]
      BY <3>1, <1>1, <1>3
    <3>3. QED BY <3>1, <3>2, RestServes DEF Sound, Rest, Steady
  <2>2. CASE ~Has(b0, e, "TIMEOUT")
    <3>1. b1 = b0
      BY <2>2
    <3>2. [b0.flags EXCEPT ![e] = @ \ {"TIMEOUT"}] = b0.flags
      BY <2>2, <1>1, <1>3 DEF Has
    <3>3. QED BY <3>1, <3>2, <1>3, ServesNothing DEF Steady
  <2>3. QED BY <2>1, <2>2
<1> HIDE DEF b1
<1>5. b1.flags \in [All -> SUBSET Flags] /\ b1.event_count_active \in Int
  BY <1>4 DEF Base
<1>6. /\ Serves(b1, b2, t) /\ Sound(b2) /\ b2 \in Base
      /\ b2.flags = [b1.flags EXCEPT ![e] = @ \ {"ACTIVE", "LATER"}]
      /\ b2.timeout = b1.timeout /\ b2.event_count_active <= b1.event_count_active
      /\ Steady(b1, b2)
  <2>1. ~({"ACTIVE", "LATER"} \subseteq b1.flags[e])
    BY <1>1, <1>4, AssertOk DEF Sound
  <2>2. CASE Has(b1, e, "ACTIVE")
    <3>1. Sound(b2) /\ Rest(b1, b2)
          /\ b2.flags = [b1.flags EXCEPT ![e] = @ \ {"ACTIVE"}]
          /\ b2.event_count_active = b1.event_count_active - 1
      BY <2>2, <1>1, <1>4, RemoveActive, ZenonT(40)
    <3>2. b2.flags = [b1.flags EXCEPT ![e] = @ \ {"ACTIVE", "LATER"}]
      BY <3>1, <2>1, <2>2, <1>1, <1>5 DEF Has
    <3>3. b2.flags[Notify] = b1.flags[Notify]
      BY <3>1, <1>1, <1>5
    <3>4. QED BY <3>1, <3>2, <3>3, <1>5, RestServes DEF Sound, Rest, Steady
  <2>3. CASE ~Has(b1, e, "ACTIVE") /\ Has(b1, e, "LATER")
    <3>1. Sound(b2) /\ Rest(b1, b2)
          /\ b2.flags = [b1.flags EXCEPT ![e] = @ \ {"LATER"}]
          /\ b2.event_count_active = b1.event_count_active - 1
      BY <2>3, <1>1, <1>4, RemoveLater
    <3>2. b2.flags = [b1.flags EXCEPT ![e] = @ \ {"ACTIVE", "LATER"}]
      BY <3>1, <2>1, <2>3, <1>1, <1>5 DEF Has
    <3>3. b2.flags[Notify] = b1.flags[Notify]
      BY <3>1, <1>1, <1>5
    <3>4. QED BY <3>1, <3>2, <3>3, <1>5, RestServes DEF Sound, Rest, Steady
  <2>4. CASE ~Has(b1, e, "ACTIVE") /\ ~Has(b1, e, "LATER")
    <3>1. b2 = b1
      BY <2>4
    <3>2. [b1.flags EXCEPT ![e] = @ \ {"ACTIVE", "LATER"}] = b1.flags
      BY <2>4, <1>1, <1>5 DEF Has
    <3>3. QED BY <3>1, <3>2, <1>4, <1>5, ServesNothing DEF Steady
  <2>5. QED BY <2>2, <2>3, <2>4
<1> HIDE DEF b2
<1>7. b2.flags \in [All -> SUBSET Flags] /\ b2.event_count_active \in Int
  BY <1>6 DEF Base
<1>8. /\ Serves(b2, b3, t) /\ Sound(b3)
      /\ b3.flags = [b2.flags EXCEPT ![e] = @ \ {"INSERTED"}]
      /\ b3.timeout = b2.timeout /\ b3.event_count_active = b2.event_count_active
      /\ Steady(b2, b3)
  <2>1. CASE Has(b2, e, "INSERTED")
    <3>1. Sound(b3) /\ Rest(b2, b3)
          /\ b3.flags = [b2.flags EXCEPT ![e] = @ \ {"INSERTED"}]
          /\ b3.event_count_active = b2.event_count_active
      BY <2>1, <1>1, <1>6, LeaveSound, LeaveRest
    <3>2. b3.flags[Notify] = b2.flags[Notify]
      BY <3>1, <1>1, <1>7
    <3>3. QED BY <3>1, <3>2, RestServes DEF Rest, Steady
  <2>2. CASE ~Has(b2, e, "INSERTED")
    <3>1. b3 = b2
      BY <2>2
    <3>2. [b2.flags EXCEPT ![e] = @ \ {"INSERTED"}] = b2.flags
      BY <2>2, <1>1, <1>7 DEF Has
    <3>3. QED BY <3>1, <3>2, <1>6, ServesNothing DEF Steady
  <2>3. QED BY <2>1, <2>2
<1> HIDE DEF b3
<1>9. /\ Serves(b, b3, t) /\ Sound(b3) /\ b3.timeout = b.timeout
      /\ b3.event_count_active <= b.event_count_active
  BY <1>2, <1>3, <1>4, <1>5, <1>6, <1>7, <1>8, ServesTwice
<1>10. Steady(b, b3)
  BY <1>2, <1>4, <1>6, <1>8 DEF Steady
<1>11. b3.flags = [b.flags EXCEPT ![e] = {}]
  BY <1>1, <1>2, <1>3, <1>4, <1>6, <1>8 DEF Flags
<1>12. c = b3 \/ c = evthread_notify_base(b3, t)
  BY DEF event_del_nolock_, b0, b1, b2, b3
<1>13. CASE c = b3
  BY <1>9, <1>10, <1>11, <1>13
<1>14. CASE c = evthread_notify_base(b3, t)
  <2>1. /\ Serves(b3, c, t) /\ c.flags = b3.flags /\ c.timeout = b3.timeout
        /\ c.event_count_active = b3.event_count_active /\ Steady(b3, c)
    BY <1>9, <1>14, NotifyServes
  <2>2. Steady(b, c)
    BY <2>1, <1>10 DEF Steady
  <2>3. QED BY <2>1, <2>2, <1>9, <1>11, ServesTwice
<1>15. QED BY <1>12, <1>13, <1>14

\* A call of another thread that adds something wakes the loop.
Noticed(b, c, t) ==
  t # LoopThread /\ b.running_loop /\ ~b.is_notify_pending => c.eventfd = 1 \/ Quiet(b, c)

\* Only flags of e change, and only these.
Except(b, c, e) == \A x \in All \ {e} : c.flags[x] = b.flags[x]

\* What activating e does; also e may be the event of the eventfd.
Activates(b, c, t, e) ==
  /\ Sound(c) /\ Same(b, c) /\ Woken(b, c, t) /\ Noticed(b, c, t)
  /\ Except(b, c, e) /\ c.timeout = b.timeout /\ Steady(b, c)
  /\ \A f \in {"INSERTED", "TIMEOUT"} : Has(c, e, f) <=> Has(b, e, f)
  /\ Has(c, e, "ACTIVE") \/ Has(c, e, "LATER")

LEMMA ActivatesServes ==
  ASSUME NEW b, NEW c, NEW t, NEW e \in Events, Activates(b, c, t, e)
  PROVE  Serves(b, c, t) /\ Noticed(b, c, t)
<1>1. Notify \in All \ {e}
  BY AllIsFinite
<1>2. QED BY <1>1 DEF Activates, Serves, Except

LEMMA CallbackActivates ==
  ASSUME NEW b, Sound(b), NEW e \in All, NEW t
  PROVE  Activates(b, event_callback_activate_nolock_(b, t, e), t, e)
<1> DEFINE b1 == IF Has(b, e, "LATER") THEN event_queue_remove_active_later(b, e) ELSE b
           b2 == event_queue_insert_active(b1, e)
           c == event_callback_activate_nolock_(b, t, e)
<1>1. CASE Has(b, e, "ACTIVE")
  <2>1. c = b
    BY <1>1 DEF event_callback_activate_nolock_
  <2>2. QED BY <1>1, <2>1, ServesNothing DEF Activates, Serves, Noticed, Quiet, Steady, Except
<1>2. CASE ~Has(b, e, "ACTIVE")
  <2>1. c = evthread_notify_base(b2, t)
    BY <1>2 DEF event_callback_activate_nolock_
  <2>2. b \in Base /\ b.flags \in [All -> SUBSET Flags]
    BY DEF Sound, Base
  <2>3. /\ Sound(b1) /\ Rest(b, b1)
        /\ b1.flags = [b.flags EXCEPT ![e] = @ \ {"LATER"}]
    <3>1. CASE Has(b, e, "LATER")
      BY <3>1, RemoveLater
    <3>2. CASE ~Has(b, e, "LATER")
      <4>1. [b.flags EXCEPT ![e] = @ \ {"LATER"}] = b.flags
        BY <3>2, <2>2 DEF Has
      <4>2. QED BY <3>2, <4>1 DEF Rest, Same
    <3>3. QED BY <3>1, <3>2
  <2> HIDE DEF b1
  <2>4. ~Has(b1, e, "ACTIVE") /\ ~Has(b1, e, "LATER")
    BY <2>2, <2>3, <1>2 DEF Has
  <2>5. /\ Sound(b2) /\ Rest(b1, b2)
        /\ b2.flags = [b1.flags EXCEPT ![e] = @ \cup {"ACTIVE"}]
    BY <2>3, <2>4, InsertActive, ZenonT(40)
  <2> HIDE DEF b2
  <2>6. /\ Serves(b2, c, t) /\ c.flags = b2.flags /\ c.timeout = b2.timeout
        /\ Steady(b2, c)
        /\ t # LoopThread /\ b2.running_loop /\ ~b2.is_notify_pending => c.eventfd = 1
    BY <2>1, <2>5, NotifyServes
  <2> HIDE DEF c
  <2>7. Sound(c) /\ Same(b, c) /\ Woken(b, c, t) /\ c.timeout = b.timeout
    BY <2>3, <2>5, <2>6 DEF Serves, Rest, Same, Woken
  <2>8. t # LoopThread /\ b.running_loop /\ ~b.is_notify_pending => c.eventfd = 1
    BY <2>3, <2>5, <2>6 DEF Rest, Same
  <2>9. \A x \in All \ {e} : c.flags[x] = b.flags[x]
    BY <2>2, <2>3, <2>5, <2>6
  <2>10. /\ \A f \in {"INSERTED", "TIMEOUT"} : f \in c.flags[e] <=> f \in b.flags[e]
         /\ "ACTIVE" \in c.flags[e]
    BY <2>2, <2>3, <2>5, <2>6
  <2>11. Steady(b, c)
    BY <2>3, <2>5, <2>6 DEF Rest, Steady
  <2>12. QED BY <2>7, <2>8, <2>9, <2>10, <2>11 DEF Activates, Noticed, Except, Has, c
<1>3. QED BY <1>1, <1>2

LEMMA LaterActivates ==
  ASSUME NEW b, Sound(b), NEW e \in Events, NEW t
  PROVE  Activates(b, event_callback_activate_later_nolock_(b, t, e), t, e)
<1> DEFINE b1 == event_queue_insert_active_later(b, e)
           c == event_callback_activate_later_nolock_(b, t, e)
<1>1. e \in All
  BY AllIsFinite
<1>2. CASE Has(b, e, "ACTIVE") \/ Has(b, e, "LATER")
  <2>1. c = b
    BY <1>2 DEF event_callback_activate_later_nolock_
  <2>2. QED BY <1>2, <2>1, ServesNothing DEF Activates, Serves, Noticed, Quiet, Steady, Except
<1>3. CASE ~Has(b, e, "ACTIVE") /\ ~Has(b, e, "LATER")
  <2>1. c = evthread_notify_base(b1, t)
    BY <1>3 DEF event_callback_activate_later_nolock_
  <2>2. b \in Base /\ b.flags \in [All -> SUBSET Flags]
    BY DEF Sound, Base
  <2>3. /\ Sound(b1) /\ Rest(b, b1)
        /\ b1.flags = [b.flags EXCEPT ![e] = @ \cup {"LATER"}]
    BY <1>3, InsertLater
  <2> HIDE DEF b1
  <2>4. /\ Serves(b1, c, t) /\ c.flags = b1.flags /\ c.timeout = b1.timeout
        /\ Steady(b1, c)
        /\ t # LoopThread /\ b1.running_loop /\ ~b1.is_notify_pending => c.eventfd = 1
    BY <2>1, <2>3, NotifyServes
  <2> HIDE DEF c
  <2>5. Sound(c) /\ Same(b, c) /\ Woken(b, c, t) /\ c.timeout = b.timeout
    BY <2>3, <2>4 DEF Serves, Rest, Same, Woken
  <2>6. t # LoopThread /\ b.running_loop /\ ~b.is_notify_pending => c.eventfd = 1
    BY <2>3, <2>4 DEF Rest, Same
  <2>7. \A x \in All \ {e} : c.flags[x] = b.flags[x]
    BY <1>1, <2>2, <2>3, <2>4
  <2>8. /\ \A f \in {"INSERTED", "TIMEOUT"} : f \in c.flags[e] <=> f \in b.flags[e]
        /\ "LATER" \in c.flags[e]
    BY <1>1, <2>2, <2>3, <2>4
  <2>9. Steady(b, c)
    BY <2>3, <2>4 DEF Rest, Steady
  <2>10. QED BY <2>5, <2>6, <2>7, <2>8, <2>9 DEF Activates, Noticed, Except, Has, c
<1>4. QED BY <1>2, <1>3

\* Activating after other fields were written.
LEMMA ActivatesAfter ==
  ASSUME NEW b, NEW d, NEW c, NEW t, NEW e, Activates(d, c, t, e),
         Same(b, d), Quiet(b, d),
         d.is_notify_pending = b.is_notify_pending, d.eventfd = b.eventfd
  PROVE  Activates(b, c, t, e)
BY DEF Activates, Same, Quiet, Steady, Woken, Noticed, Except, Has

LEMMA ActivateActivates ==
  ASSUME NEW b, Sound(b), NEW e \in All, NEW t, NEW n \in Nat
  PROVE  Activates(b, Activate(b, t, e, n), t, e)
<1> DEFINE d == IF IsSignal(e) THEN [b EXCEPT !.ncalls[e] = n, !.pncalls[e] = FALSE] ELSE b
<1>1. b \in Base
  BY DEF Sound
<1>2. Sound(d) /\ Same(b, d) /\ Quiet(b, d)
      /\ d.is_notify_pending = b.is_notify_pending /\ d.eventfd = b.eventfd
  <2>1. CASE IsSignal(e)
    <3>1. d = [b EXCEPT !.ncalls[e] = n, !.pncalls[e] = FALSE]
      BY <2>1
    <3> HIDE DEF d
    <3>2. /\ d \in Base /\ Same(b, d) /\ Quiet(b, d)
          /\ d.flags = b.flags
          /\ d.activequeues = b.activequeues /\ d.active_later_queue = b.active_later_queue
          /\ d.event_count = b.event_count /\ d.event_count_active = b.event_count_active
          /\ d.is_notify_pending = b.is_notify_pending /\ d.eventfd = b.eventfd
      BY <3>1, <1>1 DEF Base, Same, Quiet, Steady
    <3>3. QED BY <3>2, FieldsServe DEF Serves
  <2>2. CASE ~IsSignal(e)
    BY <2>2 DEF Same, Quiet, Steady
  <2>3. QED BY <2>1, <2>2
<1> HIDE DEF d
<1>3. Activates(d, event_callback_activate_nolock_(d, t, e), t, e)
  BY <1>2, CallbackActivates
<1>4. Activates(b, event_callback_activate_nolock_(d, t, e), t, e)
  BY <1>2, <1>3, ActivatesAfter
<1>5. QED BY <1>4 DEF Activate, d

LEMMA NoteResultServes ==
  ASSUME NEW b, Sound(b), NEW e \in All, NEW res \in SUBSET Results, NEW t
  PROVE  LET c == NoteResult(b, e, res)
         IN  /\ Serves(b, c, t) /\ Quiet(b, c)
             /\ c.is_notify_pending = b.is_notify_pending /\ c.eventfd = b.eventfd
             /\ Pri[e] < b.event_running_priority => c.event_continue
<1> DEFINE r == IF Has(b, e, "LATER") THEN b.res[e] \cup res ELSE res
           g == b.event_continue \/ Pri[e] < b.event_running_priority
           c == NoteResult(b, e, res)
<1>1. b \in Base /\ b.res \in [All -> SUBSET Results]
  BY DEF Sound, Base
<1>2. r \in SUBSET Results /\ g \in BOOLEAN
  BY <1>1
<1>3. c = [b EXCEPT !.res[e] = r, !.event_continue = g] /\ c.event_continue = g
  BY <1>1 DEF NoteResult, Base
<1>4. g <=> b.event_continue \/ Pri[e] < b.event_running_priority
  OBVIOUS
<1> HIDE DEF c, r, g
<1>5. /\ c \in Base /\ Same(b, c) /\ Quiet(b, c)
      /\ c.flags = b.flags
      /\ c.activequeues = b.activequeues /\ c.active_later_queue = b.active_later_queue
      /\ c.event_count = b.event_count /\ c.event_count_active = b.event_count_active
      /\ c.is_notify_pending = b.is_notify_pending /\ c.eventfd = b.eventfd
  BY <1>1, <1>2, <1>3, <1>4 DEF Base, Same, Quiet, Steady
<1>6. QED BY <1>3, <1>4, <1>5, FieldsServe DEF c

LEMMA ActiveActivates ==
  ASSUME NEW b, Sound(b), NEW e \in All, NEW t, NEW n \in Nat, NEW res \in SUBSET Results
  PROVE  LET c == event_active_nolock_(b, t, e, res, n)
         IN  /\ Activates(b, c, t, e)
             /\ ~Has(b, e, "ACTIVE") /\ Pri[e] < b.event_running_priority => c.event_continue
<1> DEFINE c == event_active_nolock_(b, t, e, res, n)
<1>1. CASE Has(b, e, "ACTIVE")
  <2>1. c = [b EXCEPT !.res[e] = @ \cup res]
    BY <1>1 DEF event_active_nolock_
  <2>2. b \in Base /\ b.res[e] \cup res \in SUBSET Results
    BY DEF Sound, Base
  <2> HIDE DEF c
  <2>3. /\ c \in Base /\ Same(b, c) /\ Quiet(b, c)
        /\ c.flags = b.flags
        /\ c.activequeues = b.activequeues /\ c.active_later_queue = b.active_later_queue
        /\ c.event_count = b.event_count /\ c.event_count_active = b.event_count_active
        /\ c.is_notify_pending = b.is_notify_pending /\ c.eventfd = b.eventfd
    BY <2>1, <2>2 DEF Base, Same, Quiet, Steady
  <2>4. Serves(b, c, t)
    BY <2>3, FieldsServe
  <2>5. QED BY <1>1, <2>3, <2>4 DEF c, Activates, Serves, Noticed, Except, Quiet, Has
<1>2. CASE ~Has(b, e, "ACTIVE")
  <2> DEFINE d == NoteResult(b, e, res)
  <2>1. c = Activate(d, t, e, n)
    BY <1>2 DEF event_active_nolock_
  <2>2. /\ Sound(d) /\ Same(b, d) /\ Quiet(b, d)
        /\ d.is_notify_pending = b.is_notify_pending /\ d.eventfd = b.eventfd
        /\ Pri[e] < b.event_running_priority => d.event_continue
    BY NoteResultServes DEF Serves
  <2> HIDE DEF d
  <2>3. Activates(d, Activate(d, t, e, n), t, e)
    BY <2>2, ActivateActivates
  <2>4. QED BY <2>1, <2>2, <2>3, ActivatesAfter DEF Activates, Steady
<1>3. QED BY <1>1, <1>2

LEMMA ScheduleActivates ==
  ASSUME NEW b, Sound(b), NEW e \in Events, NEW t
  PROVE  Activates(b, event_deferred_cb_schedule_(b, t, e), t, e)
<1> DEFINE b1 == event_callback_activate_nolock_(b, t, e)
           c == event_deferred_cb_schedule_(b, t, e)
<1>1. Activates(b, b1, t, e)
  BY CallbackActivates, AllIsFinite
<1>2. \/ c = event_callback_activate_later_nolock_(b, t, e)
      \/ c = b1
      \/ /\ c = [b1 EXCEPT !.n_deferreds_queued = @ + 1]
         /\ ~Has(b, e, "ACTIVE") /\ ~Has(b, e, "LATER")
  BY DEF event_deferred_cb_schedule_
<1>3. CASE c = event_callback_activate_later_nolock_(b, t, e)
  BY <1>3, LaterActivates
<1>4. CASE c = b1
  BY <1>1, <1>4
<1>5. CASE c = [b1 EXCEPT !.n_deferreds_queued = @ + 1]
  <2> HIDE DEF b1, c
  <2>1. b1 \in Base
    BY <1>1 DEF Activates, Sound
  <2>2. /\ c \in Base /\ Same(b1, c) /\ Quiet(b1, c)
        /\ c.flags = b1.flags
        /\ c.activequeues = b1.activequeues /\ c.active_later_queue = b1.active_later_queue
        /\ c.event_count = b1.event_count /\ c.event_count_active = b1.event_count_active
        /\ c.is_notify_pending = b1.is_notify_pending /\ c.eventfd = b1.eventfd
    <3> DEFINE n == b1.n_deferreds_queued + 1
    <3>1. n \in Nat
      BY <2>1 DEF Base
    <3>2. c = [b1 EXCEPT !.n_deferreds_queued = n]
      BY <1>5
    <3> HIDE DEF n
    <3>3. QED BY <2>1, <3>1, <3>2 DEF Base, Same, Quiet, Steady
  <2>3. Sound(c)
    BY <1>1, <2>2, SoundIf DEF Activates, Sound
  <2>4. Same(b, c) /\ Woken(b, c, t) /\ c.timeout = b.timeout
    <3>1. Same(b, b1) /\ Woken(b, b1, t) /\ b1.timeout = b.timeout
      BY <1>1 DEF Activates
    <3>2. Same(b, c)
      BY <2>2, <3>1 DEF Same
    <3>3. Woken(b, c, t)
      BY <2>2, <3>1 DEF Woken
    <3>4. QED BY <2>2, <3>1, <3>2, <3>3 DEF Quiet
  <2>5. Noticed(b, c, t)
    BY <1>1, <2>2 DEF Activates, Noticed, Quiet, Steady
  <2>6. /\ Except(b, c, e) /\ Steady(b, c)
        /\ \A f \in {"INSERTED", "TIMEOUT"} : Has(c, e, f) <=> Has(b, e, f)
        /\ Has(c, e, "ACTIVE") \/ Has(c, e, "LATER")
    BY <1>1, <2>2 DEF Activates, Except, Has, Quiet, Steady
  <2>7. QED BY <2>3, <2>4, <2>5, <2>6 DEF c, Activates
<1>6. QED BY <1>2, <1>3, <1>4, <1>5

\* Adding: e gets a timeout, and is not active any more if it had timed out.
LEMMA AddTimeoutServes ==
  ASSUME NEW b, Sound(b), NEW e \in Events, NEW tv \in Int, NEW absolute \in BOOLEAN,
         ~absolute => tv \in Nat, NEW t
  PROVE  LET c == AddTimeout(b, e, tv, absolute)
         IN  /\ Serves(b, c, t)
             /\ c.is_notify_pending = b.is_notify_pending /\ c.eventfd = b.eventfd
             /\ Except(b, c, e)
             /\ \A x \in All \ {e} : c.timeout[x] = b.timeout[x]
             /\ c.event_count_active <= b.event_count_active
             /\ Has(c, e, "INSERTED") <=> Has(b, e, "INSERTED")
             /\ Has(c, e, "TIMEOUT")
             /\ \A f \in {"ACTIVE", "LATER"} : Has(c, e, f) => Has(b, e, f)
             /\ c.event_continue = b.event_continue
             /\ c.io_timeout = IF e \in Persist /\ ~IsSignal(e) /\ ~absolute
                               THEN [b.io_timeout EXCEPT ![e] = tv] ELSE b.io_timeout
<1> DEFINE b1 == IF e \in Persist /\ ~IsSignal(e) /\ ~absolute
                 THEN [b EXCEPT !.io_timeout[e] = tv] ELSE b
           b2 == IF Has(b1, e, "TIMEOUT") THEN Leave(b1, e, "TIMEOUT") ELSE b1
           b3 == IF Has(b2, e, "ACTIVE") /\ "TIMEOUT" \in b2.res[e]
                 THEN event_queue_remove_active(AbortCalls(b2, e), e) ELSE b2
           b4 == Enter(b3, e, "TIMEOUT")
           io == IF e \in Persist /\ ~IsSignal(e) /\ ~absolute
                 THEN [b.io_timeout EXCEPT ![e] = tv] ELSE b.io_timeout
           new == IF absolute THEN tv ELSE gettime(b) + tv
           c == AddTimeout(b, e, tv, absolute)
<1>1. e \in All /\ e # Notify /\ Notify \in All /\ e \notin Internal
  BY AllIsFinite
<1>2. /\ Serves(b, b1, t) /\ Sound(b1) /\ b1 \in Base
      /\ b1.flags = b.flags /\ b1.timeout = b.timeout
      /\ b1.event_count_active = b.event_count_active
      /\ b1.event_continue = b.event_continue /\ b1.io_timeout = io
      /\ b1.is_notify_pending = b.is_notify_pending /\ b1.eventfd = b.eventfd
  <2>1. CASE e \in Persist /\ ~IsSignal(e) /\ ~absolute
    <3>1. b \in Base /\ tv \in Nat /\ b1 = [b EXCEPT !.io_timeout[e] = tv]
      BY <2>1 DEF Sound
    <3> HIDE DEF b1
    <3>2. /\ b1 \in Base /\ Same(b, b1)
          /\ b1.flags = b.flags /\ b1.timeout = b.timeout
          /\ b1.event_continue = b.event_continue
          /\ b1.io_timeout = [b.io_timeout EXCEPT ![e] = tv]
          /\ b1.activequeues = b.activequeues /\ b1.active_later_queue = b.active_later_queue
          /\ b1.event_count = b.event_count /\ b1.event_count_active = b.event_count_active
          /\ b1.is_notify_pending = b.is_notify_pending /\ b1.eventfd = b.eventfd
      BY <3>1 DEF Base, Same
    <3>3. QED BY <2>1, <3>2, FieldsServe DEF Serves, Sound
  <2>2. CASE ~(e \in Persist /\ ~IsSignal(e) /\ ~absolute)
    <3>1. b1 = b
      BY <2>2
    <3>2. QED BY <2>2, <3>1, ServesNothing DEF Sound
  <2>3. QED BY <2>1, <2>2
<1> HIDE DEF b1, io
<1>3. b1.flags \in [All -> SUBSET Flags] /\ b1.event_count_active \in Int
  BY <1>2 DEF Base
<1>4. /\ Sound(b2) /\ b2 \in Base /\ Rest(b1, b2)
      /\ b2.flags = [b1.flags EXCEPT ![e] = @ \ {"TIMEOUT"}]
      /\ b2.event_count_active = b1.event_count_active
  <2>1. CASE Has(b1, e, "TIMEOUT")
    BY <2>1, <1>1, <1>2, LeaveSound, LeaveRest DEF Sound
  <2>2. CASE ~Has(b1, e, "TIMEOUT")
    <3>1. b2 = b1
      BY <2>2
    <3>2. [b1.flags EXCEPT ![e] = @ \ {"TIMEOUT"}] = b1.flags
      BY <2>2, <1>1, <1>3 DEF Has
    <3>3. QED BY <3>1, <3>2, <1>2 DEF Rest, Same
  <2>3. QED BY <2>1, <2>2
<1>5. Serves(b1, b2, t)
  BY <1>1, <1>3, <1>4, RestServes
<1> HIDE DEF b2
<1>6. b2.flags \in [All -> SUBSET Flags] /\ b2.event_count_active \in Int
  BY <1>4 DEF Base
<1>7. /\ Serves(b2, b3, t) /\ Sound(b3) /\ b3 \in Base
      /\ \A x \in All \ {e} : b3.flags[x] = b2.flags[x]
      /\ \A f \in {"INSERTED", "TIMEOUT"} : f \in b3.flags[e] <=> f \in b2.flags[e]
      /\ \A f \in {"ACTIVE", "LATER"} : f \in b3.flags[e] => f \in b2.flags[e]
      /\ b3.event_continue = b2.event_continue /\ b3.io_timeout = b2.io_timeout
      /\ b3.timeout = b2.timeout
      /\ b3.event_count_active <= b2.event_count_active
      /\ b3.is_notify_pending = b2.is_notify_pending /\ b3.eventfd = b2.eventfd
  <2>1. CASE Has(b2, e, "ACTIVE") /\ "TIMEOUT" \in b2.res[e]
    <3> DEFINE d == AbortCalls(b2, e)
    <3>1. /\ Serves(b2, d, t) /\ d.flags = b2.flags /\ d.timeout = b2.timeout
          /\ d.event_count_active = b2.event_count_active
          /\ d.is_notify_pending = b2.is_notify_pending /\ d.eventfd = b2.eventfd
          /\ d.event_continue = b2.event_continue /\ d.io_timeout = b2.io_timeout
      BY <1>4, AbortServes
    <3>2. Sound(d) /\ Has(d, e, "ACTIVE")
      BY <3>1, <2>1 DEF Serves, Has
    <3>3. b3 = event_queue_remove_active(d, e)
      BY <2>1
    <3> HIDE DEF d, b3
    <3>4. /\ Sound(b3) /\ Rest(d, b3)
          /\ b3.flags = [d.flags EXCEPT ![e] = @ \ {"ACTIVE"}]
          /\ b3.event_count_active = d.event_count_active - 1
      BY <3>2, <3>3, <1>1, RemoveActive
    <3>5. b3.flags[Notify] = d.flags[Notify]
      BY <3>1, <3>4, <1>1, <1>6
    <3>6. Serves(d, b3, t)
      BY <3>4, <3>5, RestServes
    <3>7. Serves(b2, b3, t)
      BY <3>1, <3>6, ServesTwice
    <3>8. /\ \A x \in All \ {e} : b3.flags[x] = b2.flags[x]
          /\ \A f \in {"INSERTED", "TIMEOUT"} : f \in b3.flags[e] <=> f \in b2.flags[e]
          /\ \A f \in {"ACTIVE", "LATER"} : f \in b3.flags[e] => f \in b2.flags[e]
      BY <3>1, <3>4, <1>1, <1>6
    <3>9. /\ b3.event_count_active <= b2.event_count_active /\ b3.timeout = b2.timeout
          /\ b3.is_notify_pending = b2.is_notify_pending /\ b3.eventfd = b2.eventfd
          /\ b3.event_continue = b2.event_continue /\ b3.io_timeout = b2.io_timeout
      BY <3>1, <3>4, <1>6 DEF Rest
    <3>10. QED BY <3>4, <3>7, <3>8, <3>9 DEF Sound
  <2>2. CASE ~(Has(b2, e, "ACTIVE") /\ "TIMEOUT" \in b2.res[e])
    <3>1. b3 = b2
      BY <2>2
    <3>2. QED BY <3>1, <1>4, <1>6, ServesNothing
  <2>3. QED BY <2>1, <2>2
<1> HIDE DEF b3
<1>8. ~Has(b3, e, "TIMEOUT") /\ b3.flags \in [All -> SUBSET Flags]
      /\ b3.event_count_active \in Int
  <2>1. "TIMEOUT" \notin b2.flags[e]
    BY <1>1, <1>3, <1>4
  <2>2. b3.flags \in [All -> SUBSET Flags] /\ b3.event_count_active \in Int
    BY <1>7 DEF Base
  <2>3. QED BY <2>1, <2>2, <1>7 DEF Has
<1>9. /\ Sound(b4) /\ b4 \in Base /\ Rest(b3, b4)
      /\ b4.flags = [b3.flags EXCEPT ![e] = @ \cup {"TIMEOUT"}]
      /\ b4.event_count_active = b3.event_count_active
  BY <1>1, <1>7, <1>8, EnterSound, EnterRest DEF Sound
<1>10. Serves(b3, b4, t)
  BY <1>1, <1>8, <1>9, RestServes
<1> HIDE DEF b4
<1>11. c = [b4 EXCEPT !.timeout[e] = new]
  BY DEF AddTimeout, b1, b2, b3, b4
<1>12. new \in Int
  <2>1. b.tv_cache \in NoCache .. MaxAge /\ MaxAge \in Nat
    BY EventsAssumption DEF Sound, Base
  <2>2. gettime(b) \in Int
    BY <2>1 DEF gettime, NoCache
  <2>3. QED BY <2>2
<1> HIDE DEF c, new
<1>13. /\ c \in Base /\ Same(b4, c)
       /\ c.flags = b4.flags
       /\ c.event_continue = b4.event_continue /\ c.io_timeout = b4.io_timeout
       /\ \A x \in All \ {e} : c.timeout[x] = b4.timeout[x]
       /\ c.activequeues = b4.activequeues /\ c.active_later_queue = b4.active_later_queue
       /\ c.event_count = b4.event_count /\ c.event_count_active = b4.event_count_active
       /\ c.is_notify_pending = b4.is_notify_pending /\ c.eventfd = b4.eventfd
  BY <1>9, <1>11, <1>12 DEF Base, Same
<1>14. Serves(b4, c, t)
  BY <1>9, <1>13, FieldsServe
<1>15. Serves(b, c, t)
  BY <1>2, <1>5, <1>7, <1>10, <1>14, ServesTwice
<1>16. c.is_notify_pending = b.is_notify_pending /\ c.eventfd = b.eventfd
  BY <1>2, <1>4, <1>7, <1>9, <1>13 DEF Rest
<1>17. \A x \in All \ {e} : c.flags[x] = b.flags[x] /\ c.timeout[x] = b.timeout[x]
  <2> SUFFICES ASSUME NEW x \in All \ {e}
               PROVE  c.flags[x] = b.flags[x] /\ c.timeout[x] = b.timeout[x]
    OBVIOUS
  <2>1. b1.flags[x] = b.flags[x] /\ b1.timeout[x] = b.timeout[x]
    BY <1>2
  <2>2. b2.flags[x] = b1.flags[x] /\ b2.timeout[x] = b1.timeout[x]
    BY <1>3, <1>4 DEF Rest
  <2>3. b3.flags[x] = b2.flags[x] /\ b3.timeout[x] = b2.timeout[x]
    BY <1>7
  <2>4. b4.flags[x] = b3.flags[x] /\ b4.timeout[x] = b3.timeout[x]
    BY <1>8, <1>9 DEF Rest
  <2>5. QED BY <2>1, <2>2, <2>3, <2>4, <1>13
<1>18. c.event_count_active <= b.event_count_active
  BY <1>2, <1>4, <1>7, <1>9, <1>13, <1>6, <1>8
<1>19. "INSERTED" \in c.flags[e] <=> "INSERTED" \in b.flags[e]
  BY <1>1, <1>2, <1>3, <1>4, <1>7, <1>8, <1>9, <1>13
<1>20. /\ "TIMEOUT" \in c.flags[e]
       /\ \A f \in {"ACTIVE", "LATER"} : f \in c.flags[e] => f \in b.flags[e]
  BY <1>1, <1>2, <1>3, <1>4, <1>7, <1>8, <1>9, <1>13
<1>21. c.event_continue = b.event_continue /\ c.io_timeout = io
  BY <1>2, <1>4, <1>7, <1>9, <1>13 DEF Rest
<1>22. QED BY <1>15, <1>16, <1>17, <1>18, <1>19, <1>20, <1>21 DEF c, io, Except, Has

\* No timer is earlier than all of before, and no event more is active.
Calmer(b, c) ==
  /\ c.event_count_active <= b.event_count_active
  /\ \A e \in Timers(c) : \E f \in Timers(b) : b.timeout[f] <= c.timeout[e]

LEMMA InsertServes ==
  ASSUME NEW b, Sound(b), NEW e \in Events, ~Has(b, e, "INSERTED"), NEW t
  PROVE  LET c == evmap_add(b, e)
         IN  /\ Serves(b, c, t) /\ Rest(b, c)
             /\ c.event_count_active = b.event_count_active
             /\ \A x \in All : \A f \in {"TIMEOUT", "ACTIVE", "LATER"} :
                   f \in c.flags[x] <=> f \in b.flags[x]
             /\ Has(c, e, "INSERTED")
             /\ \A x \in Events \ {e} : c.flags[x] = b.flags[x]
<1> DEFINE b1 == Enter(b, e, "INSERTED")
           c == evmap_add(b, e)
<1>1. e \in All /\ e # Notify /\ Notify \in All /\ e \notin Internal
      /\ Evsig \in All /\ Evsig # Notify /\ e # Evsig
  BY AllIsFinite
<1>2. b \in Base /\ b.flags \in [All -> SUBSET Flags]
  BY DEF Sound, Base
<1>3. /\ Sound(b1) /\ b1 \in Base /\ Rest(b, b1)
      /\ b1.flags = [b.flags EXCEPT ![e] = @ \cup {"INSERTED"}]
      /\ b1.event_count_active = b.event_count_active
  BY <1>1, <1>2, EnterSound, EnterRest DEF Sound
<1>4. /\ b1.flags[Notify] = b.flags[Notify] /\ "INSERTED" \in b1.flags[e]
      /\ b1.flags \in [All -> SUBSET Flags]
      /\ \A x \in All : \A f \in {"TIMEOUT", "ACTIVE", "LATER"} :
            f \in b1.flags[x] <=> f \in b.flags[x]
      /\ \A x \in All \ {e} : b1.flags[x] = b.flags[x]
  BY <1>1, <1>2, <1>3 DEF Flags
<1>5. CASE ~(IsSignal(e) /\ ~Has(b, Evsig, "INSERTED"))
  <2>1. c = b1
    BY <1>5 DEF evmap_add
  <2> HIDE DEF b1, c
  <2>2. QED BY <2>1, <1>3, <1>4, RestServes DEF Has, All, c
<1>6. CASE IsSignal(e) /\ ~Has(b, Evsig, "INSERTED")
  <2>1. c = Enter(b1, Evsig, "INSERTED")
    BY <1>6 DEF evmap_add
  <2> HIDE DEF b1
  <2>2. ~Has(b1, Evsig, "INSERTED")
    BY <1>1, <1>2, <1>3, <1>6 DEF Has
  <2> HIDE DEF c
  <2>3. /\ Sound(c) /\ Rest(b1, c)
        /\ c.flags = [b1.flags EXCEPT ![Evsig] = @ \cup {"INSERTED"}]
        /\ c.event_count_active = b1.event_count_active
    <3>1. Sound(Enter(b1, Evsig, "INSERTED"))
      BY <1>1, <1>3, <2>2, EnterSound
    <3>2. b1 \in Base /\ Evsig \in All
      BY <1>1, <1>3
    <3>3. QED BY <3>1, <3>2, <2>1, EnterRest
  <2>4. /\ c.flags[Notify] = b1.flags[Notify] /\ "INSERTED" \in c.flags[e]
        /\ \A x \in All : \A f \in {"TIMEOUT", "ACTIVE", "LATER"} :
              f \in c.flags[x] <=> f \in b1.flags[x]
        /\ \A x \in All \ {Evsig} : c.flags[x] = b1.flags[x]
    BY <1>1, <1>4, <2>3
  <2>5. Rest(b, c) /\ c.event_count_active = b.event_count_active
    BY <1>3, <2>3 DEF Rest, Same
  <2>6. \A x \in All : \A f \in {"TIMEOUT", "ACTIVE", "LATER"} :
              f \in c.flags[x] <=> f \in b.flags[x]
    BY <1>4, <2>4
  <2>7. \A x \in Events \ {e} : c.flags[x] = b.flags[x]
    BY <1>4, <2>4, AllIsFinite DEF All, Internal
  <2>8. QED BY <1>4, <2>3, <2>4, <2>5, <2>6, <2>7, RestServes DEF Has, c
<1>7. QED BY <1>5, <1>6

\* What adding e does to the events: others stay as they are; e is added, and
\* active at most if it was so before.
Adds(b, c, e, tv, absolute) ==
  /\ \A x \in Events \ {e} : c.flags[x] = b.flags[x]
  /\ \A x \in All : \A f \in {"ACTIVE", "LATER"} : Has(c, x, f) => Has(b, x, f)
  /\ Has(b, e, "INSERTED") => Has(c, e, "INSERTED")
  /\ tv # None => Has(c, e, "TIMEOUT")
  /\ tv = None => (Has(c, e, "TIMEOUT") <=> Has(b, e, "TIMEOUT"))
  /\ Interest[e] # {} \/ tv # None => c.flags[e] # {}
  /\ b.event_continue => c.event_continue
  /\ c.io_timeout = IF tv # None /\ e \in Persist /\ ~IsSignal(e) /\ ~absolute
                    THEN [b.io_timeout EXCEPT ![e] = tv] ELSE b.io_timeout

\* event_add: it wakes the loop when it gets more to do, or earlier.
LEMMA AddServes ==
  ASSUME NEW b, Sound(b), NEW e \in Events, NEW tv \in Int \cup {None},
         NEW absolute \in BOOLEAN, ~absolute => tv \in Nat \cup {None}, NEW t
  PROVE  LET c == event_add_nolock_(b, t, e, tv, absolute)
         IN  /\ Serves(b, c, t) /\ Adds(b, c, e, tv, absolute)
             /\ t # LoopThread /\ b.running_loop /\ ~b.is_notify_pending
                  => c.eventfd = 1 \/ Calmer(b, c)
<1> DEFINE b1 == IF AddsIo(b, e) THEN evmap_add(b, e) ELSE b
           b2 == IF tv = None THEN b1 ELSE AddTimeout(b1, e, tv, absolute)
           c == event_add_nolock_(b, t, e, tv, absolute)
           wakes == \/ AddsIo(b, e) /\ evmap_changes(b, e)
                    \/ tv # None /\ TimeoutNotifies(b2, e)
<1>1. e \in All
  BY AllIsFinite
<1>2. /\ Serves(b, b1, t) /\ Rest(b, b1)
      /\ b1.event_count_active = b.event_count_active
      /\ \A x \in All : "TIMEOUT" \in b1.flags[x] <=> "TIMEOUT" \in b.flags[x]
  <2>1. CASE AddsIo(b, e)
    <3>1. ~Has(b, e, "INSERTED")
      BY <2>1 DEF AddsIo, Has
    <3>2. QED BY <2>1, <3>1, InsertServes
  <2>2. CASE ~AddsIo(b, e)
    BY <2>2, ServesNothing DEF Rest, Same
  <2>3. QED BY <2>1, <2>2
<1>3. /\ \A x \in All : \A f \in {"TIMEOUT", "ACTIVE", "LATER"} :
            f \in b1.flags[x] <=> f \in b.flags[x]
      /\ \A x \in Events \ {e} : b1.flags[x] = b.flags[x]
      /\ "INSERTED" \in b.flags[e] => "INSERTED" \in b1.flags[e]
      /\ Interest[e] # {} => b1.flags[e] # {}
  <2>1. CASE AddsIo(b, e)
    <3>1. ~Has(b, e, "INSERTED")
      BY <2>1 DEF AddsIo, Has
    <3>2. b1 = evmap_add(b, e)
      BY <2>1
    <3> HIDE DEF b1
    <3>3. /\ \A x \in All : \A f \in {"TIMEOUT", "ACTIVE", "LATER"} :
                f \in b1.flags[x] <=> f \in b.flags[x]
          /\ \A x \in Events \ {e} : b1.flags[x] = b.flags[x]
          /\ Has(b1, e, "INSERTED")
      BY <3>1, <3>2, InsertServes
    <3>4. QED BY <3>3 DEF Has
  <2>2. CASE ~AddsIo(b, e)
    <3>1. b1 = b
      BY <2>2
    <3>2. Interest[e] # {} => b.flags[e] # {}
      BY <2>2 DEF AddsIo
    <3> HIDE DEF b1
    <3>3. QED BY <3>1, <3>2
  <2>3. QED BY <2>1, <2>2
<1>4. Sound(b1) /\ b1 \in Base /\ b1.event_count_active \in Int /\ b1.timeout \in [All -> Int]
  BY <1>2 DEF Serves, Sound, Base
<1> HIDE DEF b1
<1>5. Timers(b1) = Timers(b) /\ b1.timeout = b.timeout
  BY <1>2 DEF Timers, Has, Rest
<1>6. /\ Serves(b1, b2, t) /\ b2.is_notify_pending = b1.is_notify_pending
      /\ b2.event_count_active <= b1.event_count_active
      /\ tv # None => /\ \A x \in All \ {e} : /\ b2.timeout[x] = b1.timeout[x]
                                              /\ b2.flags[x] = b1.flags[x]
      /\ tv = None => b2 = b1
  <2>1. CASE tv = None
    BY <2>1, <1>4, ServesNothing
  <2>2. CASE tv # None
    <3>1. tv \in Int /\ (~absolute => tv \in Nat)
      BY <2>2
    <3>2. b2 = AddTimeout(b1, e, tv, absolute)
      BY <2>2
    <3> HIDE DEF b2
    <3>3. /\ Serves(b1, b2, t) /\ b2.is_notify_pending = b1.is_notify_pending
          /\ b2.event_count_active <= b1.event_count_active
          /\ Except(b1, b2, e) /\ \A x \in All \ {e} : b2.timeout[x] = b1.timeout[x]
      BY <3>1, <3>2, <1>4, AddTimeoutServes
    <3>4. QED BY <2>2, <3>3 DEF Except
  <2>3. QED BY <2>1, <2>2
<1>7. Serves(b, b2, t) /\ Sound(b2) /\ b2.event_count_active \in Int
      /\ b2.timeout \in [All -> Int] /\ b2.is_notify_pending = b.is_notify_pending
      /\ b2.running_loop = b.running_loop
  <2>1. Serves(b, b2, t)
    BY <1>2, <1>6, ServesTwice
  <2>2. b2.is_notify_pending = b.is_notify_pending
    BY <1>2, <1>6 DEF Rest
  <2>3. QED BY <2>1, <2>2 DEF Serves, Sound, Base, Same
<1>8. Adds(b, b2, e, tv, absolute)
  <2>1. CASE tv = None
    <3>1. b2 = b1
      BY <2>1, <1>6
    <3> HIDE DEF b2
    <3>2. QED BY <2>1, <3>1, <1>1, <1>2, <1>3 DEF Adds, Rest, Has
  <2>2. CASE tv # None
    <3>1. tv \in Int /\ (~absolute => tv \in Nat)
      BY <2>2
    <3>2. b2 = AddTimeout(b1, e, tv, absolute)
      BY <2>2
    <3> HIDE DEF b2
    <3>3. /\ \A x \in All \ {e} : b2.flags[x] = b1.flags[x]
          /\ "INSERTED" \in b2.flags[e] <=> "INSERTED" \in b1.flags[e]
          /\ "TIMEOUT" \in b2.flags[e]
          /\ \A f \in {"ACTIVE", "LATER"} : f \in b2.flags[e] => f \in b1.flags[e]
          /\ b2.event_continue = b1.event_continue
          /\ b2.io_timeout = IF e \in Persist /\ ~IsSignal(e) /\ ~absolute
                             THEN [b1.io_timeout EXCEPT ![e] = tv] ELSE b1.io_timeout
      BY <3>1, <3>2, <1>4, AddTimeoutServes DEF Except, Has
    <3>4. \A x \in Events \ {e} : b2.flags[x] = b.flags[x]
      BY <3>3, <1>3, AllIsFinite
    <3>5. \A x \in All : \A f \in {"ACTIVE", "LATER"} : f \in b2.flags[x] => f \in b.flags[x]
      <4> SUFFICES ASSUME NEW x \in All, NEW f \in {"ACTIVE", "LATER"}, f \in b2.flags[x]
                   PROVE  f \in b.flags[x]
        OBVIOUS
      <4>1. f \in b1.flags[x]
        BY <3>3
      <4>2. QED BY <4>1, <1>3
    <3>6. QED BY <2>2, <3>3, <3>4, <3>5, <1>2, <1>3 DEF Adds, Rest, Has
  <2>3. QED BY <2>1, <2>2
<1>9. c = IF wakes THEN evthread_notify_base(b2, t) ELSE b2
  BY DEF event_add_nolock_, b1
<1>10. ASSUME ~wakes
      PROVE  Calmer(b, b2)
  <2>1. CASE tv = None
    <3>1. b2 = b1
      BY <2>1, <1>6
    <3>2. \A x \in Timers(b1) : b1.timeout[x] <= b1.timeout[x]
      BY <1>4 DEF Timers
    <3>3. b1.event_count_active <= b.event_count_active
      BY <1>2, <1>4
    <3>4. QED BY <3>1, <3>2, <3>3, <1>5 DEF Calmer
  <2>2. CASE tv # None
    <3>1. PICK f \in Timers(b2) \ {e} : ~(b2.timeout[e] < b2.timeout[f])
      BY <1>10, <2>2 DEF TimeoutNotifies
    <3> HIDE DEF b2, wakes
    <3>2. \A x \in Timers(b2) \ {e} : /\ x \in Timers(b)
                                      /\ b2.timeout[x] = b.timeout[x]
                                      /\ b.timeout[x] <= b2.timeout[x]
      <4> SUFFICES ASSUME NEW x \in Timers(b2) \ {e}
                   PROVE  /\ x \in Timers(b) /\ b2.timeout[x] = b.timeout[x]
                          /\ b.timeout[x] <= b2.timeout[x]
        OBVIOUS
      <4>1. x \in All \ {e} /\ "TIMEOUT" \in b2.flags[x]
        BY DEF Timers, Has
      <4>2. b2.flags[x] = b1.flags[x] /\ b2.timeout[x] = b1.timeout[x]
        BY <4>1, <1>6, <2>2
      <4>3. x \in Timers(b1)
        BY <4>1, <4>2 DEF Timers, Has
      <4>4. b2.timeout[x] \in Int
        BY <4>1, <1>7
      <4>5. QED BY <4>2, <4>3, <4>4, <1>5
    <3>3. b.timeout[f] <= b2.timeout[e]
      <4>1. b2.timeout[f] \in Int /\ b2.timeout[e] \in Int
        BY <1>1, <1>7 DEF Timers
      <4>2. QED BY <3>1, <3>2, <4>1
    <3>4. \A x \in Timers(b2) : \E y \in Timers(b) : b.timeout[y] <= b2.timeout[x]
      <4> SUFFICES ASSUME NEW x \in Timers(b2)
                   PROVE  \E y \in Timers(b) : b.timeout[y] <= b2.timeout[x]
        OBVIOUS
      <4>1. CASE x = e
        BY <4>1, <3>1, <3>2, <3>3
      <4>2. CASE x # e
        BY <4>2, <3>2
      <4>3. QED BY <4>1, <4>2
    <3>5. b2.event_count_active <= b.event_count_active
      BY <1>2, <1>6, <1>4, <1>7
    <3>6. QED BY <3>4, <3>5 DEF Calmer
  <2>3. QED BY <2>1, <2>2
<1> HIDE DEF b2, wakes
<1>11. CASE wakes
  <2>1. c = evthread_notify_base(b2, t)
    BY <1>9, <1>11
  <2> HIDE DEF c
  <2>2. /\ Serves(b2, c, t) /\ c.flags = b2.flags /\ Steady(b2, c)
        /\ t # LoopThread /\ b2.running_loop /\ ~b2.is_notify_pending => c.eventfd = 1
    BY <1>7, <2>1, NotifyServes
  <2>3. Serves(b, c, t)
    BY <1>7, <2>2, ServesTwice
  <2>4. Adds(b, c, e, tv, absolute)
    BY <1>8, <2>2 DEF Adds, Steady, Has
  <2>5. QED BY <1>7, <2>2, <2>3, <2>4 DEF c
<1>12. CASE ~wakes
  <2>1. c = b2
    BY <1>9, <1>12
  <2>2. QED BY <2>1, <1>7, <1>8, <1>10, <1>12
<1>13. QED BY <1>11, <1>12

\* The event is scheduled again, if it has an interval.
LEMMA PersistServes ==
  ASSUME NEW b, Sound(b), NEW e \in Events
  PROVE  LET c == event_persist_closure(b, e)
         IN  /\ Serves(b, c, LoopThread) /\ Steady(b, c)
             /\ \A x \in Events \ {e} : c.flags[x] = b.flags[x]
             /\ \A x \in All : \A f \in {"ACTIVE", "LATER"} : Has(c, x, f) => Has(b, x, f)
             /\ Has(b, e, "INSERTED") => Has(c, e, "INSERTED")
             /\ b.io_timeout[e] # 0 => Has(c, e, "TIMEOUT")
<1> DEFINE now == gettime(b)
           from == IF "TIMEOUT" \in b.res[e] THEN b.timeout[e] ELSE now
           at == from + b.io_timeout[e]
           when == IF at < now THEN now + b.io_timeout[e] ELSE at
<1>1. CASE b.io_timeout[e] = 0
  BY <1>1, ServesNothing DEF event_persist_closure, Steady
<1>2. CASE b.io_timeout[e] # 0
  <2>1. e \in All /\ b.io_timeout[e] \in Int /\ b.timeout[e] \in Int
    BY AllIsFinite, SMTT(20) DEF Sound, Base
  <2>2. now \in Int
    <3>1. b.tv_cache \in NoCache .. MaxAge /\ MaxAge \in Nat
      BY EventsAssumption DEF Sound, Base
    <3>2. QED BY <3>1 DEF gettime, NoCache
  <2>3. when \in Int
    <3> HIDE DEF now
    <3>1. QED BY <2>1, <2>2
  <2>4. event_persist_closure(b, e) = event_add_nolock_(b, LoopThread, e, when, TRUE)
    BY <1>2 DEF event_persist_closure
  <2> DEFINE c == event_persist_closure(b, e)
  <2> HIDE DEF when, c
  <2>5. when \in Int \cup {None} /\ when # None /\ TRUE \in BOOLEAN
    BY <2>3, EventsAssumption
  <2>6. Serves(b, c, LoopThread) /\ Adds(b, c, e, when, TRUE)
    BY <2>4, <2>5, AddServes DEF c
  <2>7. QED BY <2>5, <2>6 DEF c, Adds, Steady
<1>3. QED BY <1>1, <1>2

LEMMA SignalServes ==
  ASSUME NEW b, Sound(b), NEW e \in Events
  PROVE  LET c == event_signal_closure(b, e)
         IN  Serves(b, c, LoopThread) /\ Steady(b, c) /\ c.flags = b.flags
<1> DEFINE n == b.ncalls[e]
           p == b.pncalls[e] \/ b.ncalls[e] # 0
           c == event_signal_closure(b, e)
<1>1. b \in Base /\ n \in Nat /\ p \in BOOLEAN
  BY AllIsFinite DEF Sound, Base
<1>2. c = [b EXCEPT !.calls = n, !.pncalls[e] = p]
  BY DEF event_signal_closure
<1> HIDE DEF c, n, p
<1>3. /\ c \in Base /\ Same(b, c) /\ Steady(b, c) /\ c.flags = b.flags
      /\ c.activequeues = b.activequeues /\ c.active_later_queue = b.active_later_queue
      /\ c.event_count = b.event_count /\ c.event_count_active = b.event_count_active
      /\ c.is_notify_pending = b.is_notify_pending /\ c.eventfd = b.eventfd
  BY <1>1, <1>2 DEF Base, Same, Steady
<1>4. QED BY <1>3, FieldsServe DEF c

LEMMA ForgetServes ==
  ASSUME NEW b, Sound(b), NEW e \in All, NEW t
  PROVE  LET c == Forget(b, e)
         IN  /\ Serves(b, c, t) /\ Steady(b, c)
             /\ c.is_notify_pending = b.is_notify_pending /\ c.eventfd = b.eventfd
             /\ c.flags = b.flags /\ c.event_count_active = b.event_count_active
             /\ \A x \in Timers(b) : c.timeout[x] = b.timeout[x]
<1> DEFINE tv == IF Has(b, e, "TIMEOUT") THEN b.timeout[e] ELSE 0
           c == Forget(b, e)
<1>1. b \in Base /\ tv \in Int
  BY DEF Sound, Base
<1>2. c = [b EXCEPT !.res[e] = {}, !.timeout[e] = tv]
  BY DEF Forget
<1>3. e \in Timers(b) => tv = b.timeout[e]
  BY DEF Timers
<1> HIDE DEF c, tv
<1>4. /\ c \in Base /\ Same(b, c) /\ Steady(b, c) /\ c.flags = b.flags
      /\ c.activequeues = b.activequeues /\ c.active_later_queue = b.active_later_queue
      /\ c.event_count = b.event_count /\ c.event_count_active = b.event_count_active
      /\ c.is_notify_pending = b.is_notify_pending /\ c.eventfd = b.eventfd
      /\ c.timeout = [b.timeout EXCEPT ![e] = tv]
  BY <1>1, <1>2 DEF Base, Same, Steady
<1>5. \A x \in Timers(b) : c.timeout[x] = b.timeout[x]
  <2>1. b.timeout \in [All -> Int]
    BY <1>1 DEF Base
  <2>2. QED BY <2>1, <1>3, <1>4 DEF Timers
<1>6. QED BY <1>4, <1>5, FieldsServe DEF c

(***************************************************************************)
(* What is done for each event of a list in turn.                          *)
(***************************************************************************)
LEMMA Turns ==
  ASSUME NEW n \in Nat, NEW S, NEW act, NEW b \in S[0],
         \A i \in 1 .. n : \A c \in S[i - 1] : act[i][c] \in S[i]
  PROVE  /\ TurnsFrom(TurnsOf(n, act, b), n, act, b)
         /\ \A i \in 0 .. n : TurnsOf(n, act, b)[i] \in S[i]
<1> DEFINE g == TurnsOf(n, act, b)
<1>1. TurnsFrom(g, n, act, b)
  BY TurnsExist
<1> HIDE DEF g
<1>2. g[0] = b /\ \A i \in 1 .. n : g[i] = act[i][g[i - 1]]
  BY <1>1 DEF TurnsFrom
<1>3. ASSUME NEW m \in 0 .. n
      PROVE  g[m] \in S[m]
  <2>1. m \in Nat /\ \A i \in 1 .. m : i \in 1 .. n
    OBVIOUS
  <2>2. g[0] \in S[0]
    BY <1>2
  <2>3. \A i \in 1 .. m : g[i - 1] \in S[i - 1] => g[i] \in S[i]
    BY <1>2, <2>1
  <2>4. QED BY <2>1, <2>2, <2>3, TurnsStay
<1>4. QED BY <1>1, <1>3 DEF g

\* What the base must remember of an event, for it to be called and kept: an
\* event_callback is not added, and a persistent event of the program's that
\* only libevent activates is watched, or has an interval, when it is active.
Queued(b, e) == Has(b, e, "ACTIVE") \/ Has(b, e, "LATER")
Remembered(b, e) ==
  /\ e \in Deferred => b.flags[e] \subseteq {"ACTIVE", "LATER"}
  /\ e \in Lasting => /\ (Has(b, e, "TIMEOUT") => b.io_timeout[e] # 0)
                      /\ (Queued(b, e) => Has(b, e, "INSERTED") \/ b.io_timeout[e] # 0)

\* Events become active, and nothing is lost.
Stirs(b, c) ==
  /\ c.io_timeout = b.io_timeout
  /\ \A x \in Events : /\ (c.flags[x] = {} <=> b.flags[x] = {})
                        /\ (Queued(b, x) => Queued(c, x))
                        /\ (Remembered(b, x) => Remembered(c, x))

LEMMA StirsTwice ==
  ASSUME NEW b, NEW c, NEW d, Stirs(b, c), Stirs(c, d)
  PROVE  Stirs(b, d)
<1>1. d.io_timeout = b.io_timeout
  BY DEF Stirs
<1>2. ASSUME NEW x \in Events
      PROVE  /\ d.flags[x] = {} <=> b.flags[x] = {}
             /\ Queued(b, x) => Queued(d, x)
             /\ Remembered(b, x) => Remembered(d, x)
  <2>1. /\ c.flags[x] = {} <=> b.flags[x] = {}
        /\ Queued(b, x) => Queued(c, x)
        /\ Remembered(b, x) => Remembered(c, x)
    BY DEF Stirs
  <2>2. /\ d.flags[x] = {} <=> c.flags[x] = {}
        /\ Queued(c, x) => Queued(d, x)
        /\ Remembered(c, x) => Remembered(d, x)
    BY DEF Stirs
  <2>3. QED BY <2>1, <2>2
<1>3. QED BY <1>1, <1>2 DEF Stirs

LEMMA StirsNothing ==
  ASSUME NEW b, NEW c, c.flags = b.flags, c.io_timeout = b.io_timeout
  PROVE  Stirs(b, c)
BY DEF Stirs, Queued, Remembered, Has

\* Only what is added or active is activated, by the loop.
LEMMA ActivatesStirs ==
  ASSUME NEW b, NEW c, NEW t, NEW e, Activates(b, c, t, e),
         e \in Events => b.flags[e] # {},
         e \in Lasting => Has(b, e, "INSERTED") \/ b.io_timeout[e] # 0
  PROVE  Stirs(b, c)
<1>1. /\ Sound(c) /\ Steady(b, c) /\ \A x \in All \ {e} : c.flags[x] = b.flags[x]
      /\ \A f \in {"INSERTED", "TIMEOUT"} : Has(c, e, f) <=> Has(b, e, f)
      /\ Queued(c, e)
  BY DEF Activates, Except, Queued
<1>2. c.flags \in [All -> SUBSET Flags]
  BY <1>1 DEF Sound, Base
<1>3. ASSUME NEW x \in Events
      PROVE  /\ c.flags[x] = {} <=> b.flags[x] = {}
             /\ Queued(b, x) => Queued(c, x)
             /\ Remembered(b, x) => Remembered(c, x)
  <2>1. x \in All
    BY AllIsFinite
  <2>2. CASE x # e
    <3>1. c.flags[x] = b.flags[x] /\ c.io_timeout = b.io_timeout
      BY <1>1, <2>1, <2>2 DEF Steady
    <3>2. QED BY <3>1 DEF Queued, Remembered, Has
  <2>3. CASE x = e
    <3>1. c.flags[x] # {} /\ b.flags[x] # {}
      BY <1>1, <2>3 DEF Queued, Has
    <3>2. ASSUME Remembered(b, x), x \in Deferred
          PROVE  c.flags[x] \subseteq {"ACTIVE", "LATER"}
      <4>1. "INSERTED" \notin c.flags[x] /\ "TIMEOUT" \notin c.flags[x]
        BY <3>2, <1>1, <2>3 DEF Remembered, Has
      <4>2. QED BY <4>1, <1>2, <2>1 DEF Flags
    <3>3. ASSUME Remembered(b, x), x \in Lasting
          PROVE  /\ Has(c, x, "TIMEOUT") => c.io_timeout[x] # 0
                 /\ Has(c, x, "INSERTED") \/ c.io_timeout[x] # 0
      BY <3>3, <1>1, <2>3 DEF Remembered, Steady
    <3>4. QED BY <3>1, <3>2, <3>3, <1>1, <2>3 DEF Remembered
  <2>4. QED BY <2>2, <2>3
<1>4. QED BY <1>1, <1>3 DEF Stirs, Steady

\* A timeout takes the event out of everything before it activates it.
LEMMA TimesOutStirs ==
  ASSUME NEW b, Sound(b), NEW e \in Events, b.flags[e] # {},
         e \in Lasting => b.io_timeout[e] # 0
  PROVE  Serves(b, TimesOut(b, e), LoopThread) /\ Stirs(b, TimesOut(b, e))
<1> DEFINE d == event_del_nolock_(b, LoopThread, e)
           c == event_active_nolock_(d, LoopThread, e, {"TIMEOUT"}, 1)
<1>1. e \in All /\ {"TIMEOUT"} \in SUBSET Results /\ 1 \in Nat
  BY AllIsFinite DEF Results
<1>2. /\ Serves(b, d, LoopThread) /\ Steady(b, d)
      /\ d.flags = [b.flags EXCEPT ![e] = {}]
  BY DelServes
<1> HIDE DEF d
<1>3. Sound(d)
  BY <1>2 DEF Serves
<1>4. \A res \in SUBSET Results : \A n \in Nat :
        Activates(d, event_active_nolock_(d, LoopThread, e, res, n), LoopThread, e)
  BY <1>1, <1>3, ActiveActivates
<1>5. Activates(d, c, LoopThread, e)
  BY <1>1, <1>4
<1>6. TimesOut(b, e) = c
  BY DEF TimesOut, d
<1> HIDE DEF c
<1>7. Serves(b, c, LoopThread)
  BY <1>2, <1>5, ActivatesServes, ServesTwice
<1>8. /\ \A x \in All \ {e} : c.flags[x] = d.flags[x]
      /\ \A f \in {"INSERTED", "TIMEOUT"} : Has(c, e, f) <=> Has(d, e, f)
      /\ Queued(c, e) /\ Steady(b, c) /\ Sound(c)
  BY <1>2, <1>5 DEF Activates, Except, Queued, Steady
<1>9. b.flags \in [All -> SUBSET Flags] /\ c.flags \in [All -> SUBSET Flags]
  BY <1>8 DEF Sound, Base
<1>10. "INSERTED" \notin c.flags[e] /\ "TIMEOUT" \notin c.flags[e] /\ c.flags[e] # {}
  BY <1>1, <1>2, <1>8, <1>9 DEF Has, Queued
<1>11. ASSUME NEW x \in Events
       PROVE  /\ (c.flags[x] = {} <=> b.flags[x] = {})
              /\ (Queued(b, x) => Queued(c, x))
              /\ (Remembered(b, x) => Remembered(c, x))
  <2>1. CASE x # e
    <3>1. c.flags[x] = b.flags[x] /\ c.io_timeout = b.io_timeout
      BY <2>1, <1>2, <1>8, <1>9, AllIsFinite DEF Steady
    <3>2. QED BY <3>1 DEF Queued, Remembered, Has
  <2>2. CASE x = e
    <3>1. c.flags[x] \subseteq {"ACTIVE", "LATER"}
      BY <2>2, <1>1, <1>9, <1>10 DEF Flags
    <3>2. x \in Lasting => c.io_timeout[x] # 0
      BY <2>2, <1>8 DEF Steady
    <3>3. QED BY <2>2, <3>1, <3>2, <1>8, <1>10 DEF Remembered, Has
  <2>3. QED BY <2>1, <2>2
<1>12. QED BY <1>6, <1>7, <1>8, <1>11 DEF Stirs, Steady

\* No event that the loop should have called first is active, unless the loop
\* will look again.
Foremost(b) ==
  \A x \in All : Has(b, x, "ACTIVE") /\ Pri[x] < b.event_running_priority
                   => x \in Unnoticed
Ranked(b) == ~b.event_continue => Foremost(b)

LEMMA ActivatesRanked ==
  ASSUME NEW b, NEW c, NEW t, NEW e, Activates(b, c, t, e), Ranked(b),
         \/ e \in Unnoticed
         \/ ~Has(b, e, "ACTIVE") /\ Pri[e] < b.event_running_priority => c.event_continue
  PROVE  Ranked(c)
<1>1. /\ c.event_running_priority = b.event_running_priority
      /\ b.event_continue => c.event_continue
  BY DEF Activates, Same, Steady
<1>2. ASSUME NEW x \in All, ~c.event_continue, Has(c, x, "ACTIVE"),
             Pri[x] < c.event_running_priority
      PROVE  x \in Unnoticed
  <2>1. CASE x = e
    BY <2>1, <1>1, <1>2 DEF Ranked, Foremost
  <2>2. CASE x # e
    <3>1. Has(b, x, "ACTIVE")
      BY <2>2, <1>2 DEF Activates, Except, Has
    <3>2. QED BY <3>1, <1>1, <1>2 DEF Ranked, Foremost
  <2>3. QED BY <2>1, <2>2
<1>3. QED BY <1>2 DEF Ranked, Foremost

LEMMA MakeActiveServes ==
  ASSUME NEW b, Sound(b), NEW e \in All, Has(b, e, "LATER")
  PROVE  LET c == MakeActive(b, e)
         IN  /\ Serves(b, c, LoopThread) /\ Stirs(b, c)
             /\ c.timeout = b.timeout /\ c.event_count_active = b.event_count_active
             /\ \A x \in All \ {e} : c.flags[x] = b.flags[x]
             /\ Has(c, e, "TIMEOUT") <=> Has(b, e, "TIMEOUT")
<1> DEFINE b1 == event_queue_remove_active_later(b, e)
           b2 == event_queue_insert_active(b1, e)
           n == IF e \in Deferred THEN b2.n_deferreds_queued + 1 ELSE b2.n_deferreds_queued
           c == MakeActive(b, e)
<1>1. b \in Base /\ b.flags \in [All -> SUBSET Flags] /\ b.event_count_active \in Int
      /\ Notify \in All
  BY AllIsFinite DEF Sound, Base
<1>2. ~Has(b, e, "ACTIVE") /\ e # Notify
  <2>1. ~({"ACTIVE", "LATER"} \subseteq b.flags[e])
    BY AssertOk DEF Sound
  <2>2. e \notin Internal
    BY DEF Sound, Has
  <2>3. QED BY <2>1, <2>2, AllIsFinite DEF Has
<1>3. /\ Sound(b1) /\ Rest(b, b1)
      /\ b1.flags = [b.flags EXCEPT ![e] = @ \ {"LATER"}]
      /\ b1.event_count_active = b.event_count_active - 1
  BY RemoveLater
<1> HIDE DEF b1
<1>4. ~Has(b1, e, "ACTIVE") /\ ~Has(b1, e, "LATER")
  BY <1>1, <1>2, <1>3 DEF Has
<1>5. /\ Sound(b2) /\ Rest(b1, b2)
      /\ b2.flags = [b1.flags EXCEPT ![e] = @ \cup {"ACTIVE"}]
      /\ b2.event_count_active = b1.event_count_active + 1
  BY <1>3, <1>4, InsertActive, ZenonT(40)
<1> HIDE DEF b2
<1>6. b2 \in Base /\ n \in Nat
  <2>1. b2 \in Base /\ b2.n_deferreds_queued \in Nat
    BY <1>5 DEF Sound, Base
  <2>2. QED BY <2>1
<1>7. c = [b2 EXCEPT !.n_deferreds_queued = n]
  BY DEF MakeActive, b1, b2
<1> HIDE DEF c, n
<1>8. /\ c \in Base /\ Same(b2, c) /\ c.flags = b2.flags /\ c.timeout = b2.timeout
      /\ Steady(b2, c)
      /\ c.activequeues = b2.activequeues /\ c.active_later_queue = b2.active_later_queue
      /\ c.event_count = b2.event_count /\ c.event_count_active = b2.event_count_active
      /\ c.is_notify_pending = b2.is_notify_pending /\ c.eventfd = b2.eventfd
  BY <1>6, <1>7 DEF Base, Same, Steady
<1>9. /\ \A x \in All \ {e} : c.flags[x] = b.flags[x]
      /\ "TIMEOUT" \in c.flags[e] <=> "TIMEOUT" \in b.flags[e]
  BY <1>1, <1>3, <1>5, <1>8
<1>10. Serves(b, c, LoopThread)
  <2>1. Serves(b, b1, LoopThread)
    BY <1>1, <1>2, <1>3, RestServes
  <2>2. Serves(b1, b2, LoopThread)
    BY <1>1, <1>2, <1>3, <1>5, RestServes
  <2>3. Serves(b2, c, LoopThread)
    BY <1>5, <1>8, FieldsServe
  <2>4. QED BY <2>1, <2>2, <2>3, ServesTwice
<1>11. c.timeout = b.timeout /\ c.event_count_active = b.event_count_active
  BY <1>1, <1>3, <1>5, <1>8 DEF Rest
<1>12. Stirs(b, c)
  <2>1. /\ c.io_timeout = b.io_timeout /\ Steady(b, c)
        /\ "ACTIVE" \in c.flags[e]
        /\ \A f \in {"INSERTED", "TIMEOUT"} : f \in c.flags[e] <=> f \in b.flags[e]
        /\ c.flags[e] \subseteq b.flags[e] \cup {"ACTIVE"}
    BY <1>1, <1>3, <1>5, <1>8 DEF Rest, Steady
  <2>2. ASSUME NEW x \in Events
        PROVE  /\ c.flags[x] = {} <=> b.flags[x] = {}
               /\ Queued(b, x) => Queued(c, x)
               /\ Remembered(b, x) => Remembered(c, x)
    <3>1. CASE x # e
      <4>1. c.flags[x] = b.flags[x]
        BY <3>1, <1>9, AllIsFinite
      <4>2. QED BY <4>1, <2>1 DEF Queued, Remembered, Has
    <3>2. CASE x = e
      BY <3>2, <2>1 DEF Queued, Remembered, Has
    <3>3. QED BY <3>1, <3>2
  <2>3. QED BY <2>1, <2>2 DEF Stirs
<1>13. QED BY <1>9, <1>10, <1>11, <1>12 DEF c, Has

LEMMA LaterServes ==
  ASSUME NEW b, Sound(b)
  PROVE  LET c == event_queue_make_later_events_active(b)
         IN  /\ Serves(b, c, LoopThread) /\ Stirs(b, c)
             /\ c.timeout = b.timeout /\ c.event_count_active = b.event_count_active
             /\ Timers(c) = Timers(b)
<1> DEFINE order == b.active_later_queue
           n == Len(order)
           Kept(c) == /\ Serves(b, c, LoopThread) /\ Stirs(b, c)
                      /\ c.timeout = b.timeout
                      /\ c.event_count_active = b.event_count_active
                      /\ \A x \in All : "TIMEOUT" \in c.flags[x] <=> "TIMEOUT" \in b.flags[x]
           S == [i \in 0 .. n |-> {c \in Base : /\ Kept(c)
                                               /\ \A j \in i + 1 .. n : Has(c, order[j], "LATER")}]
           act == [i \in 1 .. n |-> [c \in S[i - 1] |-> MakeActive(c, order[i])]]
           after[i \in 0 .. n] ==
             IF i = 0 THEN b ELSE MakeActive(after[i - 1], order[i])
<1>1. /\ order \in Seq(All) /\ Lists(order, Later(b.flags)) /\ b \in Base
  BY AssertOk DEF Sound, Base
<1>2. /\ n \in Nat
      /\ \A i, j \in 1 .. n : order[i] = order[j] => i = j
      /\ \A i \in 1 .. n : order[i] \in All /\ "LATER" \in b.flags[order[i]]
  BY <1>1, InLists DEF Later
<1> HIDE DEF n
<1>3. b \in S[0]
  <2>1. Kept(b)
    <3>1. Stirs(b, b)
      BY StirsNothing
    <3>2. QED BY <3>1, ServesNothing
  <2> HIDE DEF Kept
  <2>2. \A j \in 0 + 1 .. n : Has(b, order[j], "LATER")
    BY <1>2 DEF Has
  <2>3. 0 \in 0 .. n
    BY <1>2
  <2>4. QED BY <1>1, <2>1, <2>2, <2>3
<1>4. ASSUME NEW i \in 1 .. n, NEW c \in S[i - 1]
      PROVE  act[i][c] = MakeActive(c, order[i]) /\ act[i][c] \in S[i]
  <2>1. i - 1 \in 0 .. n /\ i \in 0 .. n /\ i \in (i - 1) + 1 .. n
    BY <1>2
  <2>2. /\ c \in Base /\ Kept(c) /\ \A j \in (i - 1) + 1 .. n : Has(c, order[j], "LATER")
    BY <2>1
  <2>3. Sound(c) /\ Has(c, order[i], "LATER") /\ order[i] \in All
    BY <1>2, <2>1, <2>2 DEF Serves
  <2>4. act[i][c] = MakeActive(c, order[i])
    BY <2>1
  <2> DEFINE d == MakeActive(c, order[i])
             e == order[i]
  <2>5. /\ Serves(c, d, LoopThread) /\ Stirs(c, d)
        /\ d.timeout = c.timeout /\ d.event_count_active = c.event_count_active
        /\ \A x \in All \ {e} : d.flags[x] = c.flags[x]
        /\ Has(d, e, "TIMEOUT") <=> Has(c, e, "TIMEOUT")
    BY <2>3, MakeActiveServes
  <2> HIDE DEF d
  <2>6. Kept(d)
    BY <2>2, <2>5, ServesTwice, StirsTwice DEF Has
  <2>7. d \in Base
    BY <2>5 DEF Serves, Sound
  <2>8. \A j \in i + 1 .. n : Has(d, order[j], "LATER")
    <3> SUFFICES ASSUME NEW j \in i + 1 .. n PROVE Has(d, order[j], "LATER")
      OBVIOUS
    <3>1. j \in (i - 1) + 1 .. n /\ j \in 1 .. n /\ j # i
      BY <1>2
    <3>2. order[j] \in All \ {e} /\ Has(c, order[j], "LATER")
      BY <3>1, <1>2, <2>2
    <3>3. QED BY <3>2, <2>5 DEF Has
  <2> HIDE DEF Kept
  <2>9. d \in S[i]
    BY <2>1, <2>6, <2>7, <2>8
  <2>10. QED BY <2>4, <2>9 DEF d
<1> DEFINE g == TurnsOf(n, act, b)
<1>5. TurnsFrom(g, n, act, b) /\ \A i \in 0 .. n : g[i] \in S[i]
  <2> HIDE DEF S, act
  <2>1. \A i \in 1 .. n : \A c \in S[i - 1] : act[i][c] \in S[i]
    BY <1>4
  <2>2. QED BY <1>2, <1>3, <2>1, Turns
<1> HIDE DEF g
<1>6. /\ g = [i \in 0 .. n |-> g[i]] /\ g[0] = b
      /\ \A i \in 1 .. n : g[i] = act[i][g[i - 1]]
  <2> HIDE DEF S, act
  <2>1. QED BY <1>5 DEF TurnsFrom
<1>7. \A i \in 0 .. n : g[i] = IF i = 0 THEN b ELSE MakeActive(g[i - 1], order[i])
  <2> HIDE DEF S, act
  <2>1. \A i \in 0 .. n : i # 0 => i \in 1 .. n /\ g[i - 1] \in S[i - 1]
    BY <1>2, <1>5
  <2>2. QED BY <1>4, <1>6, <2>1
<1>8. g = [i \in 0 .. n |-> IF i = 0 THEN b ELSE MakeActive(g[i - 1], order[i])]
  <2> HIDE DEF S, act
  <2>1. QED BY <1>6, <1>7
<1>9. after = [i \in 0 .. n |-> IF i = 0 THEN b ELSE MakeActive(after[i - 1], order[i])]
  BY <1>8
<1>10. after[n] \in S[n]
  <2> HIDE DEF S, act, after
  <2>1. \A i \in 1 .. n : after[i - 1] \in S[i - 1] => after[i] \in S[i]
    <3> SUFFICES ASSUME NEW i \in 1 .. n, after[i - 1] \in S[i - 1]
                 PROVE  after[i] \in S[i]
      OBVIOUS
    <3>1. i \in 0 .. n /\ i # 0
      BY <1>2
    <3>2. after[i] = MakeActive(after[i - 1], order[i])
      BY <3>1, <1>9
    <3>3. QED BY <3>2, <1>4
  <2>2. 0 \in 0 .. n
    BY <1>2
  <2>3. after[0] \in S[0]
    BY <1>3, <1>9, <2>2
  <2>4. QED BY <1>2, <2>1, <2>3, TurnsStay
<1>11. event_queue_make_later_events_active(b) = after[n]
  BY DEF event_queue_make_later_events_active, InTurn, n
<1>12. Kept(after[n])
  <2> HIDE DEF after, Kept
  <2>1. n \in 0 .. n
    BY <1>2
  <2>2. QED BY <1>10, <2>1
<1> HIDE DEF after
<1>13. QED BY <1>11, <1>12 DEF Timers, Has

\* The descriptors that are ready; the eventfd may be one.
LEMMA IoServes ==
  ASSUME NEW b, Sound(b), NEW order \in Seq(All)
  PROVE  LET c == ActivateIo(b, order)
         IN  /\ Sound(c) /\ Same(b, c)
             /\ c.is_notify_pending = b.is_notify_pending /\ c.eventfd = b.eventfd
             /\ Has(c, Notify, "ACTIVE") =>
                  Has(b, Notify, "ACTIVE") \/ \E j \in 1 .. Len(order) : order[j] = Notify
             /\ (\A j \in 1 .. Len(order) : Has(b, order[j], "INSERTED")) => Stirs(b, c)
<1> DEFINE n == Len(order)
           added == \A j \in 1 .. n : Has(b, order[j], "INSERTED")
           Kept(c) == /\ Sound(c) /\ Same(b, c)
                      /\ c.is_notify_pending = b.is_notify_pending /\ c.eventfd = b.eventfd
                      /\ Has(c, Notify, "ACTIVE") =>
                           Has(b, Notify, "ACTIVE") \/ \E j \in 1 .. n : order[j] = Notify
                      /\ \A x \in All : "INSERTED" \in c.flags[x] <=> "INSERTED" \in b.flags[x]
                      /\ added => Stirs(b, c)
           S == [i \in 0 .. n |-> {c \in Base : Kept(c)}]
           act == [i \in 1 .. n |-> [c \in S[i - 1] |-> event_active_nolock_(c, LoopThread, order[i], Interest[order[i]], 1)]]
           after[i \in 0 .. n] == IF i = 0 THEN b ELSE event_active_nolock_(after[i - 1], LoopThread, order[i], Interest[order[i]], 1)
<1>1. n \in Nat /\ \A i \in 1 .. n : order[i] \in All
  BY LenProperties
<1>2. b \in Base /\ Kept(b)
  <2>1. Stirs(b, b)
    BY StirsNothing
  <2> HIDE DEF added
  <2>2. QED BY <2>1 DEF Sound, Same
<1>3. ASSUME NEW i \in 1 .. n, NEW c \in Base, Kept(c)
      PROVE  event_active_nolock_(c, LoopThread, order[i], Interest[order[i]], 1) \in Base /\ Kept(event_active_nolock_(c, LoopThread, order[i], Interest[order[i]], 1))
  <2> DEFINE e == order[i]
             d == event_active_nolock_(c, LoopThread, e, Interest[e], 1)
  <2>1. Sound(c) /\ e \in All
    BY <1>1, <1>3
  <2>2. Interest[e] \in SUBSET Results
    BY <2>1, EventsAssumption DEF Results
  <2> HIDE DEF e
  <2>3. Activates(c, d, LoopThread, e)
    BY <2>1, <2>2, ActiveActivates
  <2> HIDE DEF d
  <2>4. /\ Sound(d) /\ Same(c, d)
        /\ d.is_notify_pending = c.is_notify_pending /\ d.eventfd = c.eventfd
        /\ \A x \in All \ {e} : d.flags[x] = c.flags[x]
        /\ "INSERTED" \in d.flags[e] <=> "INSERTED" \in c.flags[e]
    BY <2>3 DEF Activates, Woken, Except, Has
  <2>5. d \in Base /\ Same(b, d)
    BY <1>3, <2>4 DEF Sound, Same
  <2>6. Has(d, Notify, "ACTIVE") => Has(c, Notify, "ACTIVE") \/ e = Notify
    BY <2>4, AllIsFinite DEF Has
  <2>7. \A x \in All : "INSERTED" \in d.flags[x] <=> "INSERTED" \in b.flags[x]
    BY <1>3, <2>4
  <2>8. ASSUME added
        PROVE  Stirs(b, d)
    <3>1. "INSERTED" \in c.flags[e]
      BY <1>3, <2>1, <2>8 DEF Has, e
    <3>2. Stirs(c, d)
      BY <2>3, <3>1, ActivatesStirs DEF Has
    <3>3. Stirs(b, c)
      BY <1>3, <2>8
    <3>4. QED BY <3>2, <3>3, StirsTwice
  <2> HIDE DEF added
  <2>9. QED BY <1>3, <2>4, <2>5, <2>6, <2>7, <2>8 DEF d, e
<1> HIDE DEF n, added, Kept
<1>4. b \in S[0]
  BY <1>1, <1>2
<1>5. ASSUME NEW i \in 1 .. n, NEW c \in S[i - 1]
      PROVE  act[i][c] = event_active_nolock_(c, LoopThread, order[i], Interest[order[i]], 1) /\ act[i][c] \in S[i]
  <2>1. i - 1 \in 0 .. n /\ i \in 0 .. n
    BY <1>1
  <2>2. c \in Base /\ Kept(c) /\ act[i][c] = event_active_nolock_(c, LoopThread, order[i], Interest[order[i]], 1)
    BY <2>1
  <2>3. act[i][c] \in Base /\ Kept(act[i][c])
    BY <2>2, <1>3
  <2>4. S[i] = {x \in Base : Kept(x)}
    BY <2>1
  <2> HIDE DEF S, act
  <2>5. QED BY <2>2, <2>3, <2>4
<1> DEFINE g == TurnsOf(n, act, b)
<1> HIDE DEF S, act
<1>6. TurnsFrom(g, n, act, b) /\ \A i \in 0 .. n : g[i] \in S[i]
  <2>1. \A i \in 1 .. n : \A c \in S[i - 1] : act[i][c] \in S[i]
    BY <1>5
  <2>2. QED BY <1>1, <1>4, <2>1, Turns
<1> HIDE DEF g
<1>7. /\ g = [i \in 0 .. n |-> g[i]] /\ g[0] = b
      /\ \A i \in 1 .. n : g[i] = act[i][g[i - 1]]
  BY <1>6 DEF TurnsFrom
<1>8. \A i \in 0 .. n : g[i] = IF i = 0 THEN b ELSE event_active_nolock_(g[i - 1], LoopThread, order[i], Interest[order[i]], 1)
  <2>1. \A i \in 0 .. n : i # 0 => i \in 1 .. n /\ g[i - 1] \in S[i - 1]
    BY <1>1, <1>6
  <2>2. QED BY <1>5, <1>7, <2>1
<1>9. g = [i \in 0 .. n |-> IF i = 0 THEN b ELSE event_active_nolock_(g[i - 1], LoopThread, order[i], Interest[order[i]], 1)]
  BY <1>7, <1>8
<1>10. after = [i \in 0 .. n |-> IF i = 0 THEN b ELSE event_active_nolock_(after[i - 1], LoopThread, order[i], Interest[order[i]], 1)]
  BY <1>9
<1>11. ActivateIo(b, order) = after[n]
  BY DEF ActivateIo, InTurn, n
<1> HIDE DEF after
<1>12. \A i \in 1 .. n : after[i - 1] \in S[i - 1] => after[i] \in S[i]
  <2>1. \A i \in 1 .. n : i \in 0 .. n /\ i # 0
    BY <1>1
  <2>2. \A i \in 1 .. n : after[i] = event_active_nolock_(after[i - 1], LoopThread, order[i], Interest[order[i]], 1)
    BY <2>1, <1>10
  <2>3. QED BY <2>2, <1>5
<1>13. after[n] \in S[n]
  <2>1. 0 \in 0 .. n
    BY <1>1
  <2>2. after[0] \in S[0]
    BY <1>4, <1>10, <2>1
  <2>3. QED BY <1>1, <1>12, <2>2, TurnsStay
<1>14. Kept(after[n])
  <2>1. n \in 0 .. n
    BY <1>1
  <2>2. QED BY <1>13, <2>1 DEF S
<1>15. QED BY <1>11, <1>14 DEF Kept, added, n

\* The timers that are due.
LEMMA TimeoutsServe ==
  ASSUME NEW b, Sound(b), NEW order \in Seq(Events)
  PROVE  LET c == ActivateTimeouts(b, order)
         IN  /\ Serves(b, c, LoopThread)
             /\ (\A j \in 1 .. Len(order) : /\ Has(b, order[j], "TIMEOUT")
                                            /\ Remembered(b, order[j])) => Stirs(b, c)
<1> DEFINE n == Len(order)
           added == \A j \in 1 .. n : Has(b, order[j], "TIMEOUT") /\ Remembered(b, order[j])
           Kept(c) == Serves(b, c, LoopThread) /\ (added => Stirs(b, c))
           S == [i \in 0 .. n |-> {c \in Base : Kept(c)}]
           act == [i \in 1 .. n |-> [c \in S[i - 1] |-> TimesOut(c, order[i])]]
           after[i \in 0 .. n] == IF i = 0 THEN b ELSE TimesOut(after[i - 1], order[i])
<1>1. n \in Nat /\ \A i \in 1 .. n : order[i] \in Events
  BY LenProperties
<1>2. b \in Base /\ Kept(b)
  <2>1. Stirs(b, b)
    BY StirsNothing
  <2> HIDE DEF added
  <2>2. QED BY <2>1, ServesNothing DEF Sound
<1>3. ASSUME NEW i \in 1 .. n, NEW c \in Base, Kept(c)
      PROVE  TimesOut(c, order[i]) \in Base /\ Kept(TimesOut(c, order[i]))
  <2> DEFINE e == order[i]
             b1 == event_del_nolock_(c, LoopThread, e)
             d == event_active_nolock_(b1, LoopThread, e, {"TIMEOUT"}, 1)
  <2>1. Sound(c) /\ e \in Events /\ e \in All /\ {"TIMEOUT"} \in SUBSET Results /\ 1 \in Nat
    BY <1>1, <1>3, AllIsFinite DEF Serves, Results
  <2>2. TimesOut(c, order[i]) = d
    BY DEF TimesOut
  <2> HIDE DEF e
  <2>3. Serves(c, b1, LoopThread)
    BY <2>1, DelServes
  <2> HIDE DEF b1
  <2>4. Sound(b1)
    BY <2>3 DEF Serves
  <2>5. \A res \in SUBSET Results :
          Activates(b1, event_active_nolock_(b1, LoopThread, e, res, 1), LoopThread, e)
    BY <2>1, <2>4, ActiveActivates
  <2>6. Activates(b1, d, LoopThread, e)
    BY <2>1, <2>5
  <2> HIDE DEF d
  <2>7. Serves(b1, d, LoopThread)
    BY <2>1, <2>6, ActivatesServes
  <2>8. Serves(b, d, LoopThread)
    BY <1>3, <2>3, <2>7, ServesTwice
  <2>9. ASSUME added
        PROVE  Stirs(b, d)
    <3>1. /\ Has(b, e, "TIMEOUT") /\ (e \in Lasting => b.io_timeout[e] # 0)
      BY <1>1, <2>9 DEF Remembered, e
    <3>2. Stirs(b, c)
      BY <1>3, <2>9
    <3>3. c.flags[e] # {} /\ (e \in Lasting => c.io_timeout[e] # 0)
      BY <2>1, <3>1, <3>2 DEF Stirs, Has
    <3>4. Stirs(c, TimesOut(c, e))
      BY <2>1, <3>3, TimesOutStirs
    <3>5. QED BY <2>2, <3>2, <3>4, StirsTwice DEF e
  <2> HIDE DEF added
  <2>10. QED BY <2>2, <2>8, <2>9 DEF Serves, Sound
<1> HIDE DEF n, added, Kept
<1>4. b \in S[0]
  BY <1>1, <1>2
<1>5. ASSUME NEW i \in 1 .. n, NEW c \in S[i - 1]
      PROVE  act[i][c] = TimesOut(c, order[i]) /\ act[i][c] \in S[i]
  <2>1. i - 1 \in 0 .. n /\ i \in 0 .. n
    BY <1>1
  <2>2. c \in Base /\ Kept(c) /\ act[i][c] = TimesOut(c, order[i])
    BY <2>1
  <2>3. act[i][c] \in Base /\ Kept(act[i][c])
    BY <2>2, <1>3
  <2>4. S[i] = {x \in Base : Kept(x)}
    BY <2>1
  <2> HIDE DEF S, act
  <2>5. QED BY <2>2, <2>3, <2>4
<1> DEFINE g == TurnsOf(n, act, b)
<1> HIDE DEF S, act
<1>6. TurnsFrom(g, n, act, b) /\ \A i \in 0 .. n : g[i] \in S[i]
  <2>1. \A i \in 1 .. n : \A c \in S[i - 1] : act[i][c] \in S[i]
    BY <1>5
  <2>2. QED BY <1>1, <1>4, <2>1, Turns
<1> HIDE DEF g
<1>7. /\ g = [i \in 0 .. n |-> g[i]] /\ g[0] = b
      /\ \A i \in 1 .. n : g[i] = act[i][g[i - 1]]
  BY <1>6 DEF TurnsFrom
<1>8. \A i \in 0 .. n : g[i] = IF i = 0 THEN b ELSE TimesOut(g[i - 1], order[i])
  <2>1. \A i \in 0 .. n : i # 0 => i \in 1 .. n /\ g[i - 1] \in S[i - 1]
    BY <1>1, <1>6
  <2>2. QED BY <1>5, <1>7, <2>1
<1>9. g = [i \in 0 .. n |-> IF i = 0 THEN b ELSE TimesOut(g[i - 1], order[i])]
  BY <1>7, <1>8
<1>10. after = [i \in 0 .. n |-> IF i = 0 THEN b ELSE TimesOut(after[i - 1], order[i])]
  BY <1>9
<1>11. ActivateTimeouts(b, order) = after[n]
  BY DEF ActivateTimeouts, InTurn, n
<1> HIDE DEF after
<1>12. \A i \in 1 .. n : after[i - 1] \in S[i - 1] => after[i] \in S[i]
  <2>1. \A i \in 1 .. n : i \in 0 .. n /\ i # 0
    BY <1>1
  <2>2. \A i \in 1 .. n : after[i] = TimesOut(after[i - 1], order[i])
    BY <2>1, <1>10
  <2>3. QED BY <2>2, <1>5
<1>13. after[n] \in S[n]
  <2>1. 0 \in 0 .. n
    BY <1>1
  <2>2. after[0] \in S[0]
    BY <1>4, <1>10, <2>1
  <2>3. QED BY <1>1, <1>12, <2>2, TurnsStay
<1>14. Kept(after[n])
  <2>1. n \in 0 .. n
    BY <1>1
  <2>2. QED BY <1>13, <2>1 DEF S
<1>15. QED BY <1>11, <1>14 DEF Kept, added, n

\* The events of a signal.
LEMMA CaughtServe ==
  ASSUME NEW b, Sound(b), NEW k \in Nat, NEW order \in Seq(Events)
  PROVE  LET c == evmap_signal_active_(b, k, order)
         IN  /\ Serves(b, c, LoopThread) /\ (Ranked(b) => Ranked(c))
             /\ (\A j \in 1 .. Len(order) : /\ IsSignal(order[j])
                                            /\ Has(b, order[j], "INSERTED")) => Stirs(b, c)
<1> DEFINE n == Len(order)
           added == \A j \in 1 .. n : IsSignal(order[j]) /\ Has(b, order[j], "INSERTED")
           Kept(c) == /\ Serves(b, c, LoopThread)
                      /\ (Ranked(b) => Ranked(c)) /\ (added => Stirs(b, c))
           S == [i \in 0 .. n |-> {c \in Base : Kept(c)}]
           act == [i \in 1 .. n |-> [c \in S[i - 1] |-> event_active_nolock_(c, LoopThread, order[i], Interest[order[i]], k)]]
           after[i \in 0 .. n] == IF i = 0 THEN b ELSE event_active_nolock_(after[i - 1], LoopThread, order[i], Interest[order[i]], k)
<1>1. n \in Nat /\ \A i \in 1 .. n : order[i] \in Events
  BY LenProperties
<1>2. b \in Base /\ Kept(b)
  <2>1. Stirs(b, b)
    BY StirsNothing
  <2> HIDE DEF added
  <2>2. QED BY <2>1, ServesNothing DEF Sound
<1>3. ASSUME NEW i \in 1 .. n, NEW c \in Base, Kept(c)
      PROVE  event_active_nolock_(c, LoopThread, order[i], Interest[order[i]], k) \in Base /\ Kept(event_active_nolock_(c, LoopThread, order[i], Interest[order[i]], k))
  <2> DEFINE e == order[i]
             d == event_active_nolock_(c, LoopThread, e, Interest[e], k)
  <2>1. Sound(c) /\ e \in Events /\ e \in All
    BY <1>1, <1>3, AllIsFinite DEF Serves
  <2>2. Interest[e] \in SUBSET Results
    BY <2>1, EventsAssumption DEF Results
  <2> HIDE DEF e
  <2>3. /\ Activates(c, d, LoopThread, e)
        /\ ~Has(c, e, "ACTIVE") /\ Pri[e] < c.event_running_priority => d.event_continue
    BY <2>1, <2>2, ActiveActivates
  <2> HIDE DEF d
  <2>4. Serves(c, d, LoopThread)
    BY <2>1, <2>3, ActivatesServes
  <2>5. Serves(b, d, LoopThread)
    BY <1>3, <2>4, ServesTwice
  <2>6. Ranked(b) => Ranked(d)
    BY <1>3, <2>3, ActivatesRanked
  <2>7. ASSUME added
        PROVE  Stirs(b, d)
    <3>1. Has(b, e, "INSERTED") /\ IsSignal(e)
      BY <1>1, <2>7 DEF e
    <3>2. Stirs(b, c)
      BY <1>3, <2>7
    <3>3. c.flags[e] # {} /\ e \notin Lasting
      BY <2>1, <3>1, <3>2 DEF Stirs, Has, Lasting
    <3>4. Stirs(c, d)
      BY <2>3, <3>3, ActivatesStirs
    <3>5. QED BY <3>2, <3>4, StirsTwice
  <2> HIDE DEF added
  <2>8. QED BY <2>5, <2>6, <2>7 DEF Serves, Sound, d, e
<1> HIDE DEF n, added, Kept
<1>4. b \in S[0]
  BY <1>1, <1>2
<1>5. ASSUME NEW i \in 1 .. n, NEW c \in S[i - 1]
      PROVE  act[i][c] = event_active_nolock_(c, LoopThread, order[i], Interest[order[i]], k) /\ act[i][c] \in S[i]
  <2>1. i - 1 \in 0 .. n /\ i \in 0 .. n
    BY <1>1
  <2>2. c \in Base /\ Kept(c) /\ act[i][c] = event_active_nolock_(c, LoopThread, order[i], Interest[order[i]], k)
    BY <2>1
  <2>3. act[i][c] \in Base /\ Kept(act[i][c])
    BY <2>2, <1>3
  <2>4. S[i] = {x \in Base : Kept(x)}
    BY <2>1
  <2> HIDE DEF S, act
  <2>5. QED BY <2>2, <2>3, <2>4
<1> DEFINE g == TurnsOf(n, act, b)
<1> HIDE DEF S, act
<1>6. TurnsFrom(g, n, act, b) /\ \A i \in 0 .. n : g[i] \in S[i]
  <2>1. \A i \in 1 .. n : \A c \in S[i - 1] : act[i][c] \in S[i]
    BY <1>5
  <2>2. QED BY <1>1, <1>4, <2>1, Turns
<1> HIDE DEF g
<1>7. /\ g = [i \in 0 .. n |-> g[i]] /\ g[0] = b
      /\ \A i \in 1 .. n : g[i] = act[i][g[i - 1]]
  BY <1>6 DEF TurnsFrom
<1>8. \A i \in 0 .. n : g[i] = IF i = 0 THEN b ELSE event_active_nolock_(g[i - 1], LoopThread, order[i], Interest[order[i]], k)
  <2>1. \A i \in 0 .. n : i # 0 => i \in 1 .. n /\ g[i - 1] \in S[i - 1]
    BY <1>1, <1>6
  <2>2. QED BY <1>5, <1>7, <2>1
<1>9. g = [i \in 0 .. n |-> IF i = 0 THEN b ELSE event_active_nolock_(g[i - 1], LoopThread, order[i], Interest[order[i]], k)]
  BY <1>7, <1>8
<1>10. after = [i \in 0 .. n |-> IF i = 0 THEN b ELSE event_active_nolock_(after[i - 1], LoopThread, order[i], Interest[order[i]], k)]
  BY <1>9
<1>11. evmap_signal_active_(b, k, order) = after[n]
  BY DEF evmap_signal_active_, InTurn, n
<1> HIDE DEF after
<1>12. \A i \in 1 .. n : after[i - 1] \in S[i - 1] => after[i] \in S[i]
  <2>1. \A i \in 1 .. n : i \in 0 .. n /\ i # 0
    BY <1>1
  <2>2. \A i \in 1 .. n : after[i] = event_active_nolock_(after[i - 1], LoopThread, order[i], Interest[order[i]], k)
    BY <2>1, <1>10
  <2>3. QED BY <2>2, <1>5
<1>13. after[n] \in S[n]
  <2>1. 0 \in 0 .. n
    BY <1>1
  <2>2. after[0] \in S[0]
    BY <1>4, <1>10, <2>1
  <2>3. QED BY <1>1, <1>12, <2>2, TurnsStay
<1>14. Kept(after[n])
  <2>1. n \in 0 .. n
    BY <1>1
  <2>2. QED BY <1>13, <2>1 DEF S
<1>15. QED BY <1>11, <1>14 DEF Kept, added, n

(***************************************************************************)
(* The loop's way from one place to the next.                              *)
(***************************************************************************)
LoopType == [pc : {"out", "wait", "reported"} \cup Calling,
             left : Nat \cup {Forever}, count : {0, 1}, got : SUBSET Fds]

\* NoLostWakeup of a base, for a loop that waits as long as left.
Sleeps(b, left) ==
  b.eventfd = 0 =>
    /\ N_ACTIVE_CALLBACKS(b) > 0 => left = 0
    /\ ~b.event_break
    /\ \A e \in Timers(b) : left # Forever /\ left <= Max({0, b.timeout[e]}) + MaxAge

\* What BaseSound says of the base and the loop, and with it NoLostWakeup.
Fits(b, l) ==
  /\ Sound(b) /\ l \in LoopType
  /\ b.current_event # None <=> l.pc \in Calling
  /\ b.event_running_priority # -1 <=> l.pc \in Calling
  /\ b.running_loop <=> l.pc # "out"
  /\ l.pc \in {"calls", "counted"} => IsSignal(b.current_event)
  /\ l.pc = "counted" => l.left > 0
  /\ l.pc = "caught" => l.left # Forever /\ b.current_event = Evsig
  /\ b.is_notify_pending <=> (b.eventfd = 1 \/ l.pc = "drained")
  /\ \/ l.pc = "reported" /\ Fd[Notify] \in l.got
     \/ Has(b, Notify, "ACTIVE")
     \/ l.pc = "callback" /\ b.current_event = Notify
     => b.eventfd = 1
  /\ l.pc = "drained" => b.eventfd = 0 /\ b.current_event = Notify
  /\ b.current_event = Notify => ~Has(b, Notify, "ACTIVE")
Agrees(b, l) == Fits(b, l) /\ (l.pc = "wait" => Sleeps(b, l.left))

\* A base whose loop is between two callbacks.
Between(b) ==
  /\ Sound(b) /\ b.running_loop /\ b.current_event = None
  /\ b.is_notify_pending <=> b.eventfd = 1
  /\ Has(b, Notify, "ACTIVE") => b.eventfd = 1

LEMMA TimeoutNext ==
  ASSUME NEW b, Sound(b)
  PROVE  /\ timeout_next(b) \in Nat \cup {Forever}
         /\ \A e \in Timers(b) :
              /\ timeout_next(b) \in Nat
              /\ timeout_next(b) <= Max({0, b.timeout[e]}) + MaxAge
<1> DEFINE T == {b.timeout[e] : e \in Timers(b)}
           g == gettime(b)
<1>1. b.timeout \in [All -> Int] /\ b.tv_cache \in NoCache .. MaxAge /\ MaxAge \in Nat
  BY EventsAssumption DEF Sound, Base
<1>2. g \in Int /\ -g <= MaxAge
  BY <1>1 DEF gettime, NoCache
<1>3. CASE Timers(b) = {}
  BY <1>3 DEF timeout_next
<1>4. CASE Timers(b) # {}
  <2>1. T \in SUBSET Int /\ T # {} /\ \A e \in Timers(b) : b.timeout[e] \in T /\ b.timeout[e] \in Int
    BY <1>1, <1>4 DEF Timers
  <2>2. IsFiniteSet(T)
    <3> DEFINE f == [e \in Timers(b) |-> b.timeout[e]]
    <3>1. f \in Surjection(Timers(b), T)
      BY DEF Surjection
    <3>2. IsFiniteSet(Timers(b))
      BY AllIsFinite, FS_Subset DEF Timers
    <3>3. QED BY <3>1, <3>2, FS_Surjection
  <2>3. timeout_next(b) = Max({0, Min(T) - g})
    BY <1>4 DEF timeout_next
  <2> HIDE DEF T, g
  <2>4. Min(T) \in T /\ \A y \in T : Min(T) <= y
    BY <2>1, <2>2, MinOfFinite
  <2>5. Min(T) \in Int /\ Min(T) - g \in Int
    <3>1. Min(T) \in Int
      BY <2>1, <2>4
    <3>2. g \in Int
      BY <1>2
    <3> DEFINE m == Min(T)
    <3> HIDE DEF m
    <3>3. m \in Int => m - g \in Int
      BY <3>2
    <3>4. QED BY <3>1, <3>3 DEF m
  <2>6. timeout_next(b) = IF 0 >= Min(T) - g THEN 0 ELSE Min(T) - g
    BY <2>3, <2>5, MaxOfTwo
  <2>7. timeout_next(b) \in Nat
    BY <2>5, <2>6
  <2>8. ASSUME NEW e \in Timers(b)
        PROVE  timeout_next(b) <= Max({0, b.timeout[e]}) + MaxAge
    <3>1. b.timeout[e] \in Int /\ Min(T) <= b.timeout[e]
      BY <2>1, <2>4
    <3>2. Max({0, b.timeout[e]}) = IF 0 >= b.timeout[e] THEN 0 ELSE b.timeout[e]
      BY <3>1, MaxOfTwo
    <3>3. QED BY <1>1, <1>2, <2>5, <2>6, <3>1, <3>2
  <2>9. QED BY <2>7, <2>8
<1>5. QED BY <1>3, <1>4

LEMMA NextRoundAgrees ==
  ASSUME NEW b0, Between(b0), b0.event_running_priority = -1, loop \in LoopType
  PROVE  Agrees(NextRound(b0).b, NextRound(b0).l)
<1> DEFINE b == [b0 EXCEPT !.event_continue = FALSE, !.n_deferreds_queued = 0]
           ends == \/ b.event_gotterm \/ b.event_break
                   \/ ~event_haveevents(b) /\ N_ACTIVE_CALLBACKS(b) = 0
           r == NextRound(b0)
<1>1. b0 \in Base
  BY DEF Between, Sound
<1>2. /\ b \in Base /\ Same(b0, b) /\ b.flags = b0.flags
      /\ b.activequeues = b0.activequeues /\ b.active_later_queue = b0.active_later_queue
      /\ b.event_count = b0.event_count /\ b.event_count_active = b0.event_count_active
      /\ b.is_notify_pending = b0.is_notify_pending /\ b.eventfd = b0.eventfd
  BY <1>1 DEF Base, Same
<1>3. Sound(b)
  BY <1>2, FieldsServe DEF Between, Serves
<1>4. r = IF ends THEN EndLoop(b)
          ELSE LoopAt([event_queue_make_later_events_active(b) EXCEPT !.tv_cache = NoCache],
                      "wait", IF N_ACTIVE_CALLBACKS(b) > 0 THEN 0 ELSE timeout_next(b), 0)
  BY DEF NextRound
<1> HIDE DEF b, r
<1>5. /\ b.running_loop /\ b.current_event = None /\ b.event_running_priority = -1
      /\ b.is_notify_pending <=> b.eventfd = 1
      /\ Has(b, Notify, "ACTIVE") => b.eventfd = 1
  BY <1>2 DEF Between, Same, Has
<1>6. CASE ends
  <2> DEFINE c == [b EXCEPT !.running_loop = FALSE, !.tv_cache = NoCache]
             l == [loop EXCEPT !.pc = "out", !.left = 0, !.count = 0, !.got = {}]
  <2>1. r.b = c /\ r.l = l
    BY <1>4, <1>6 DEF EndLoop, LoopAt
  <2>2. NoCache \in NoCache .. MaxAge
    BY EventsAssumption DEF NoCache
  <2>3. /\ c \in Base /\ c.flags = b.flags
        /\ c.activequeues = b.activequeues /\ c.active_later_queue = b.active_later_queue
        /\ c.event_count = b.event_count /\ c.event_count_active = b.event_count_active
        /\ c.is_notify_pending = b.is_notify_pending /\ c.eventfd = b.eventfd
        /\ c.current_event = None /\ c.event_running_priority = -1 /\ ~c.running_loop
    BY <1>2, <1>5, <2>2 DEF Base
  <2>4. Sound(c)
    BY <1>3, <2>3, SoundIf DEF Sound
  <2>5. l \in LoopType /\ l.pc = "out"
    BY DEF LoopType
  <2> HIDE DEF c, l
  <2>6. Agrees(c, l)
    BY <1>5, <2>3, <2>4, <2>5, AllIsFinite DEF Agrees, Fits, Calling, Has
  <2>7. QED BY <2>1, <2>6 DEF r
<1>7. CASE ~ends
  <2> DEFINE d == event_queue_make_later_events_active(b)
             c == [d EXCEPT !.tv_cache = NoCache]
             left == IF N_ACTIVE_CALLBACKS(b) > 0 THEN 0 ELSE timeout_next(b)
             l == [loop EXCEPT !.pc = "wait", !.left = left, !.count = 0, !.got = {}]
  <2>1. r.b = c /\ r.l = l
    BY <1>4, <1>7 DEF LoopAt
  <2>2. NoCache \in NoCache .. MaxAge /\ MaxAge \in Nat
    BY EventsAssumption DEF NoCache
  <2>3. /\ Serves(b, d, LoopThread)
        /\ d.timeout = b.timeout /\ d.event_count_active = b.event_count_active
        /\ Timers(d) = Timers(b)
    BY <1>3, LaterServes
  <2>4. /\ Sound(d) /\ d \in Base /\ Same(b, d) /\ d.flags[Notify] = b.flags[Notify]
        /\ d.is_notify_pending = b.is_notify_pending /\ d.eventfd = b.eventfd
    BY <2>3 DEF Serves, Woken, Sound
  <2> HIDE DEF d
  <2>5. /\ c \in Base /\ c.flags = d.flags /\ c.timeout = d.timeout
        /\ c.activequeues = d.activequeues /\ c.active_later_queue = d.active_later_queue
        /\ c.event_count = d.event_count /\ c.event_count_active = d.event_count_active
        /\ c.is_notify_pending = d.is_notify_pending /\ c.eventfd = d.eventfd
        /\ c.current_event = d.current_event
        /\ c.event_running_priority = d.event_running_priority
        /\ c.running_loop = d.running_loop /\ c.event_break = d.event_break
    BY <2>2, <2>4 DEF Base
  <2> HIDE DEF c
  <2>6. Sound(c)
    BY <2>4, <2>5, SoundIf DEF Sound
  <2>7. /\ timeout_next(b) \in Nat \cup {Forever}
        /\ \A e \in Timers(b) : /\ timeout_next(b) \in Nat
                                /\ timeout_next(b) <= Max({0, b.timeout[e]}) + MaxAge
    BY <1>3, TimeoutNext
  <2>8. left \in Nat \cup {Forever}
    BY <2>7
  <2> HIDE DEF left
  <2>9. l \in LoopType /\ l.pc = "wait" /\ l.left = left
    BY <2>8 DEF LoopType
  <2> HIDE DEF l
  <2>10. Sleeps(c, left)
    <3>1. ~c.event_break
      BY <1>7, <2>4, <2>5 DEF Same
    <3>2. N_ACTIVE_CALLBACKS(c) > 0 => left = 0
      BY <2>3, <2>5 DEF left, N_ACTIVE_CALLBACKS
    <3>3. Timers(c) = Timers(b)
      BY <2>3, <2>5 DEF Timers, Has
    <3>4. ASSUME NEW e \in Timers(b)
          PROVE  left # Forever /\ left <= Max({0, b.timeout[e]}) + MaxAge
      <4>1. b.timeout[e] \in Int
        BY <1>3 DEF Sound, Base, Timers
      <4>2. Max({0, b.timeout[e]}) = IF 0 >= b.timeout[e] THEN 0 ELSE b.timeout[e]
        BY <4>1, MaxOfTwo
      <4>3. CASE left = 0
        BY <4>1, <4>2, <4>3, <2>2 DEF Forever
      <4>4. CASE left = timeout_next(b)
        BY <4>4, <2>7 DEF Forever
      <4>5. QED BY <4>3, <4>4 DEF left
    <3>5. QED BY <3>1, <3>2, <3>3, <3>4, <2>3, <2>5 DEF Sleeps
  <2>11. Agrees(c, l)
    <3>1. c.current_event = None /\ c.event_running_priority = -1 /\ c.running_loop
      BY <1>5, <2>4, <2>5 DEF Same
    <3>2. /\ c.is_notify_pending <=> c.eventfd = 1
          /\ Has(c, Notify, "ACTIVE") => c.eventfd = 1
      BY <1>5, <2>4, <2>5 DEF Has
    <3>3. QED BY <2>6, <2>9, <2>10, <3>1, <3>2, AllIsFinite DEF Agrees, Fits, Calling
  <2>12. QED BY <2>1, <2>11 DEF r
<1>8. QED BY <1>6, <1>7

LEMMA CallFirstAgrees ==
  ASSUME NEW b, Between(b), NEW p \in Priorities, b.activequeues[p] # <<>>,
         NEW count \in {0, 1}, loop \in LoopType
  PROVE  Agrees(CallFirst(b, p, count).b, CallFirst(b, p, count).l)
<1> DEFINE e == Head(b.activequeues[p])
           b1 == IF e \in Persist \cup Deferred \cup Internal
                 THEN event_queue_remove_active(b, e)
                 ELSE event_del_nolock_(b, LoopThread, e)
           b2 == [b1 EXCEPT !.current_event = e, !.current_event_waiters = 0,
                            !.event_running_priority = p]
           b3 == IF IsSignal(e) THEN event_signal_closure(b2, e)
                 ELSE IF e \in Persist THEN event_persist_closure(b2, e)
                 ELSE b2
           c == Forget(b3, e)
           pc == IF IsSignal(e) THEN "calls" ELSE "callback"
           m == Max({count, Counted(e)})
           l == [loop EXCEPT !.pc = pc, !.left = 0, !.count = m, !.got = {}]
<1>1. Sound(b) /\ b \in Base /\ b.flags \in [All -> SUBSET Flags] /\ b.activequeues[p] \in Seq(All)
  BY DEF Between, Sound, Base
<1>2. e \in ActiveAt(b.flags, p)
  <2>1. Lists(b.activequeues[p], ActiveAt(b.flags, p))
    BY <1>1, AssertOk DEF Sound
  <2>2. QED BY <1>1, <2>1, HeadLists
<1>3. /\ e \in All /\ Has(b, e, "ACTIVE")
      /\ Notify \in All /\ None \notin All
  BY <1>2, AllIsFinite DEF ActiveAt, Has
<1>4. CallFirst(b, p, count).b = c /\ CallFirst(b, p, count).l = l
  BY DEF CallFirst, LoopAt
<1> HIDE DEF e
<1>5. /\ Sound(b1) /\ Same(b, b1)
      /\ b1.is_notify_pending = b.is_notify_pending /\ b1.eventfd = b.eventfd
      /\ Has(b1, Notify, "ACTIVE") => Has(b, Notify, "ACTIVE")
      /\ ~Has(b1, e, "ACTIVE")
  <2>1. CASE e \in Persist \cup Deferred \cup Internal
    <3>1. b1 = event_queue_remove_active(b, e)
      BY <2>1
    <3> HIDE DEF b1
    <3>2. /\ Sound(b1) /\ Rest(b, b1)
          /\ b1.flags = [b.flags EXCEPT ![e] = @ \ {"ACTIVE"}]
      BY <3>1, <1>1, <1>3, RemoveActive
    <3>3. /\ "ACTIVE" \in b1.flags[Notify] => "ACTIVE" \in b.flags[Notify]
          /\ "ACTIVE" \notin b1.flags[e]
      BY <3>2, <1>1, <1>3
    <3>4. QED BY <3>2, <3>3 DEF Rest, Has
  <2>2. CASE e \notin Persist \cup Deferred \cup Internal
    <3>1. b1 = event_del_nolock_(b, LoopThread, e) /\ e \in Events
      BY <2>2, <1>3, AllIsFinite
    <3> HIDE DEF b1
    <3>2. Serves(b, b1, LoopThread) /\ b1.flags = [b.flags EXCEPT ![e] = {}]
      BY <3>1, <1>1, DelServes
    <3>3. /\ "ACTIVE" \in b1.flags[Notify] => "ACTIVE" \in b.flags[Notify]
          /\ "ACTIVE" \notin b1.flags[e]
      BY <3>2, <1>1, <1>3
    <3>4. QED BY <3>2, <3>3 DEF Serves, Woken, Has
  <2>3. QED BY <2>1, <2>2
<1> HIDE DEF b1
<1>6. /\ b2 \in Base /\ b2.flags = b1.flags
      /\ b2.activequeues = b1.activequeues /\ b2.active_later_queue = b1.active_later_queue
      /\ b2.event_count = b1.event_count /\ b2.event_count_active = b1.event_count_active
      /\ b2.is_notify_pending = b1.is_notify_pending /\ b2.eventfd = b1.eventfd
      /\ b2.current_event = e /\ b2.event_running_priority = p
      /\ b2.running_loop = b1.running_loop
  BY <1>3, <1>5 DEF Sound, Base
<1>7. Sound(b2)
  BY <1>5, <1>6, SoundIf DEF Sound
<1> HIDE DEF b2
<1>8. Serves(b2, b3, LoopThread)
  <2>1. CASE IsSignal(e)
    <3>1. e \in Events
      BY <1>3, <2>1, AllIsFinite, EventsAssumption DEF IsSignal
    <3>2. QED BY <2>1, <3>1, <1>7, SignalServes
  <2>2. CASE ~IsSignal(e) /\ e \in Persist
    <3>1. e \in Events
      BY <2>2, EventsAssumption
    <3>2. QED BY <2>2, <3>1, <1>7, PersistServes
  <2>3. CASE ~IsSignal(e) /\ e \notin Persist
    BY <2>3, <1>7, ServesNothing
  <2>4. QED BY <2>1, <2>2, <2>3
<1> HIDE DEF b3
<1>9. Serves(b3, c, LoopThread)
  BY <1>3, <1>8, ForgetServes DEF Serves
<1> HIDE DEF c
<1>10. Serves(b2, c, LoopThread)
  BY <1>8, <1>9, ServesTwice
<1>11. /\ Sound(c) /\ c.current_event = e /\ c.event_running_priority = p
       /\ c.running_loop
       /\ c.is_notify_pending = b.is_notify_pending /\ c.eventfd = b.eventfd
       /\ Has(c, Notify, "ACTIVE") => Has(b, Notify, "ACTIVE")
       /\ e = Notify => ~Has(c, Notify, "ACTIVE")
  BY <1>5, <1>6, <1>10 DEF Serves, Same, Woken, Has, Between
<1>12. m \in {0, 1}
  <2>1. Counted(e) \in {0, 1}
    BY DEF Counted
  <2>2. m = IF count >= Counted(e) THEN count ELSE Counted(e)
    BY <2>1, MaxOfTwo
  <2>3. QED BY <2>1, <2>2
<1> HIDE DEF m
<1>13. pc \in {"calls", "callback"} /\ (pc = "calls" => IsSignal(e))
  OBVIOUS
<1> HIDE DEF pc
<1>14. l \in LoopType /\ l.pc = pc
  BY <1>12, <1>13 DEF LoopType, Calling
<1> HIDE DEF l
<1>15. p # -1
  BY PriorityOf
<1>16. Agrees(c, l)
  <2>1. /\ l.pc \in Calling
        /\ l.pc \notin {"out", "wait", "reported", "counted", "caught", "drained"}
        /\ l.pc = "calls" => IsSignal(c.current_event)
    BY <1>11, <1>13, <1>14 DEF Calling
  <2>2. c.is_notify_pending <=> c.eventfd = 1
    BY <1>11 DEF Between
  <2>3. Has(b, Notify, "ACTIVE") => c.eventfd = 1
    BY <1>11 DEF Between
  <2>4. c.current_event = Notify => Has(b, Notify, "ACTIVE")
    BY <1>3, <1>11
  <2>5. QED BY <1>3, <1>11, <1>14, <1>15, <2>1, <2>2, <2>3, <2>4 DEF Agrees, Fits
<1>17. QED BY <1>4, <1>16 DEF c, l

LEMMA EndProcessAgrees ==
  ASSUME NEW b, Between(b), loop \in LoopType
  PROVE  Agrees(EndProcess(b).b, EndProcess(b).l)
<1> DEFINE c == [b EXCEPT !.event_running_priority = -1]
<1>1. Sound(b) /\ b \in Base
  BY DEF Between, Sound
<1>2. /\ c \in Base /\ c.flags = b.flags
      /\ c.activequeues = b.activequeues /\ c.active_later_queue = b.active_later_queue
      /\ c.event_count = b.event_count /\ c.event_count_active = b.event_count_active
      /\ c.is_notify_pending = b.is_notify_pending /\ c.eventfd = b.eventfd
      /\ c.current_event = b.current_event /\ c.running_loop = b.running_loop
      /\ c.event_running_priority = -1
  BY <1>1 DEF Base
<1>3. EndProcess(b) = NextRound(c)
  BY DEF EndProcess
<1> HIDE DEF c
<1>4. Sound(c)
  BY <1>1, <1>2, SoundIf DEF Sound
<1>5. Between(c)
  BY <1>2, <1>4 DEF Between, Has
<1>6. QED BY <1>2, <1>3, <1>5, NextRoundAgrees

LEMMA CallFromAgrees ==
  ASSUME NEW b, Between(b), NEW p \in Nat, loop \in LoopType
  PROVE  Agrees(CallFrom(b, p).b, CallFrom(b, p).l)
<1> DEFINE queues == {q \in Priorities : q >= p /\ b.activequeues[q] # <<>>}
<1>1. CASE queues = {}
  <2>1. CallFrom(b, p) = EndProcess(b)
    BY <1>1 DEF CallFrom
  <2>2. QED BY <2>1, EndProcessAgrees
<1>2. CASE queues # {}
  <2>1. CallFrom(b, p) = CallFirst(b, Min(queues), 0)
    BY <1>2 DEF CallFrom
  <2>2. queues \in SUBSET Priorities
    OBVIOUS
  <2>3. queues \in SUBSET Int
    <3> HIDE DEF queues
    <3>1. QED BY <2>2, PriorityOf
  <2>4. IsFiniteSet(queues)
    <3> HIDE DEF queues
    <3>1. QED BY <2>2, PriorityOf, FS_Subset
  <2>5. Min(queues) \in queues
    <3> HIDE DEF queues
    <3>1. QED BY <1>2, <2>3, <2>4, MinOfFinite
  <2>6. Min(queues) \in Priorities /\ b.activequeues[Min(queues)] # <<>>
    BY <2>5
  <2> HIDE DEF queues
  <2>7. QED BY <2>1, <2>6, CallFirstAgrees
<1>3. QED BY <1>1, <1>2

\* The base whose callback has just returned.
Returned(b) ==
  /\ Sound(b) /\ b.running_loop /\ b.event_running_priority \in Priorities
  /\ b.is_notify_pending <=> b.eventfd = 1
  /\ Has(b, Notify, "ACTIVE") => b.eventfd = 1

LEMMA CallbackDoneAgrees ==
  ASSUME NEW b0, Returned(b0), loop \in LoopType
  PROVE  Agrees(CallbackDone(b0).b, CallbackDone(b0).l)
<1> DEFINE b == [b0 EXCEPT !.current_event = None, !.current_event_waiters = 0]
           p == b.event_running_priority
<1>1. Sound(b0) /\ b0 \in Base
  BY DEF Returned, Sound
<1>2. /\ b \in Base /\ b.flags = b0.flags
      /\ b.activequeues = b0.activequeues /\ b.active_later_queue = b0.active_later_queue
      /\ b.event_count = b0.event_count /\ b.event_count_active = b0.event_count_active
      /\ b.is_notify_pending = b0.is_notify_pending /\ b.eventfd = b0.eventfd
      /\ b.current_event = None /\ b.running_loop = b0.running_loop
      /\ b.event_running_priority = b0.event_running_priority
  BY <1>1 DEF Base
<1>3. CallbackDone(b0) =
        IF b.event_break THEN EndProcess(b)
        ELSE IF b.activequeues[p] # <<>> /\ ~b.event_continue
             THEN CallFirst(b, p, loop.count)
        ELSE IF loop.count > 0 THEN EndProcess(b)
        ELSE CallFrom(b, p + 1)
  BY DEF CallbackDone
<1> HIDE DEF b
<1>4. Sound(b)
  BY <1>1, <1>2, SoundIf DEF Sound
<1>5. Between(b)
  BY <1>2, <1>4 DEF Between, Returned, Has
<1>6. p \in Priorities /\ p + 1 \in Nat /\ loop.count \in {0, 1}
  <2>1. p \in Priorities /\ p \in Nat
    BY <1>2, PriorityOf DEF Returned
  <2>2. QED BY <2>1 DEF LoopType
<1> HIDE DEF p
<1>7. b.activequeues[p] # <<>> => Agrees(CallFirst(b, p, loop.count).b, CallFirst(b, p, loop.count).l)
  BY <1>5, <1>6, CallFirstAgrees
<1>8. Agrees(EndProcess(b).b, EndProcess(b).l)
  BY <1>5, EndProcessAgrees
<1>9. Agrees(CallFrom(b, p + 1).b, CallFrom(b, p + 1).l)
  BY <1>5, <1>6, CallFromAgrees
<1>10. \/ CallbackDone(b0) = EndProcess(b)
       \/ CallbackDone(b0) = CallFirst(b, p, loop.count) /\ b.activequeues[p] # <<>>
       \/ CallbackDone(b0) = CallFrom(b, p + 1)
  BY <1>3
<1>11. QED BY <1>7, <1>8, <1>9, <1>10

(***************************************************************************)
(* What becomes of the program's events: the steps of EventLife.           *)
(***************************************************************************)
Pending(b) == {e \in Events : b.flags[e] # {}}
Activated(b) == {e \in Events : b.flags[e] \cap {"ACTIVE", "LATER"} # {}}
Called(b) == IF b.current_event \in Events THEN b.current_event ELSE None

Recalls(b) == \A e \in Events : Remembered(b, e)

\* The loop has gone on, to call an event or none.
Goes(b, c) ==
  /\ Pending(c) \in {Pending(b), Pending(b) \ {Called(c)}}
  /\ Activated(b) \ {Called(c)} \subseteq Activated(c)
  /\ Called(c) # None => Called(c) \in Pending(b) /\ Called(c) \notin Activated(c)
  /\ Called(c) \in Lasting => Called(c) \in Pending(c)
  /\ Called(c) \in Events \ Persist => Called(c) \notin Pending(c)

\* It is back in epoll_wait or out, or calls an event with its priority: one
\* that no other active event goes before, unless after loopcontinue.
Rests(c) == c.current_event = None /\ c.event_running_priority = -1
Picks(c) == c.current_event \in All /\ c.event_running_priority = Pri[c.current_event]
Takes(b, c, n) ==
  /\ Goes(b, c) /\ Recalls(c)
  /\ \/ Rests(c)
     \/ Picks(c) /\ Foremost(c)
     \/ Picks(c) /\ b.event_continue /\ c.event_continue /\ n = 0

LEMMA ActivatedIs ==
  ASSUME NEW b
  PROVE  Activated(b) = {e \in Events : Queued(b, e)}
BY DEF Activated, Queued, Has

LEMMA StirsRecalls ==
  ASSUME NEW b, NEW c, Stirs(b, c)
  PROVE  /\ Recalls(b) => Recalls(c)
         /\ Pending(c) = Pending(b) /\ Activated(b) \subseteq Activated(c)
<1>1. Pending(c) = Pending(b)
  BY DEF Stirs, Pending
<1>2. Activated(b) \subseteq Activated(c)
  BY ActivatedIs DEF Stirs
<1>3. QED BY <1>1, <1>2 DEF Stirs, Recalls

LEMMA StirsGoes ==
  ASSUME NEW b, NEW c, Stirs(b, c), c.current_event \notin Events
  PROVE  Goes(b, c)
<1>1. Called(c) = None
  BY DEF Called
<1>2. None \notin Events
  BY EventsAssumption DEF All
<1>3. Pending(c) = Pending(b) /\ Activated(b) \subseteq Activated(c)
  BY StirsRecalls
<1>4. QED BY <1>1, <1>2, <1>3, EventsAssumption DEF Goes, Lasting

LEMMA GoesAfter ==
  ASSUME NEW b, NEW c, NEW d, Stirs(b, c), Goes(c, d)
  PROVE  Goes(b, d)
<1>1. Pending(c) = Pending(b) /\ Activated(b) \subseteq Activated(c)
  BY StirsRecalls
<1>2. QED BY <1>1 DEF Goes

LEMMA NextRoundRests ==
  ASSUME NEW b0, Between(b0), b0.event_running_priority = -1
  PROVE  Stirs(b0, NextRound(b0).b) /\ Rests(NextRound(b0).b)
<1> DEFINE b == [b0 EXCEPT !.event_continue = FALSE, !.n_deferreds_queued = 0]
           ends == \/ b.event_gotterm \/ b.event_break
                   \/ ~event_haveevents(b) /\ N_ACTIVE_CALLBACKS(b) = 0
           d == event_queue_make_later_events_active(b)
           r == NextRound(b0)
<1>1. b0 \in Base
  BY DEF Between, Sound
<1>2. /\ b \in Base /\ Same(b0, b) /\ b.flags = b0.flags /\ b.io_timeout = b0.io_timeout
      /\ b.activequeues = b0.activequeues /\ b.active_later_queue = b0.active_later_queue
      /\ b.event_count = b0.event_count /\ b.event_count_active = b0.event_count_active
      /\ b.is_notify_pending = b0.is_notify_pending /\ b.eventfd = b0.eventfd
  BY <1>1 DEF Base, Same
<1>3. Sound(b)
  BY <1>2, FieldsServe DEF Between, Serves
<1>4. r.b = IF ends THEN [b EXCEPT !.running_loop = FALSE, !.tv_cache = NoCache]
            ELSE [d EXCEPT !.tv_cache = NoCache]
  BY DEF NextRound, EndLoop, LoopAt
<1> HIDE DEF b, r
<1>5. Stirs(b0, b) /\ Rests(b)
  BY <1>2, StirsNothing DEF Between, Same, Rests
<1>6. Serves(b, d, LoopThread) /\ Stirs(b, d)
  BY <1>3, LaterServes
<1>7. Stirs(b0, d) /\ Rests(d) /\ d \in Base
  BY <1>5, <1>6, StirsTwice DEF Rests, Serves, Same, Sound
<1> HIDE DEF d
<1>8. CASE ends
  <2>1. /\ r.b.flags = b.flags /\ r.b.io_timeout = b.io_timeout
        /\ r.b.current_event = b.current_event
        /\ r.b.event_running_priority = b.event_running_priority
    BY <1>2, <1>4, <1>8 DEF Base
  <2>2. QED BY <1>5, <2>1, StirsNothing, StirsTwice DEF Rests, r
<1>9. CASE ~ends
  <2>1. /\ r.b.flags = d.flags /\ r.b.io_timeout = d.io_timeout
        /\ r.b.current_event = d.current_event
        /\ r.b.event_running_priority = d.event_running_priority
    BY <1>4, <1>7, <1>9 DEF Base
  <2>2. QED BY <1>7, <2>1, StirsNothing, StirsTwice DEF Rests, r
<1>10. QED BY <1>8, <1>9

\* What calling event e leaves of it.
Took(b, c, e) ==
  /\ c.io_timeout = b.io_timeout
  /\ \A x \in Events \ {e} : c.flags[x] = b.flags[x]
  /\ Has(c, e, "LATER") => Has(b, e, "LATER")
  /\ ~Has(c, e, "ACTIVE")
  /\ e \in Deferred => c.flags[e] = b.flags[e] \ {"ACTIVE"}
  /\ e \in Events \ (Persist \cup Deferred) => c.flags[e] = {}
  /\ e \in Lasting => /\ (Has(b, e, "INSERTED") => Has(c, e, "INSERTED"))
                      /\ (b.io_timeout[e] # 0 => Has(c, e, "TIMEOUT"))
                      /\ (b.io_timeout[e] = 0 => c.flags[e] = b.flags[e] \ {"ACTIVE"})

LEMMA TookGoes ==
  ASSUME NEW b, Sound(b), Recalls(b), NEW e \in All, Has(b, e, "ACTIVE"),
         NEW c, Took(b, c, e), c.current_event = e
  PROVE  Goes(b, c) /\ Recalls(c)
<1>1. CASE e \notin Events
  <2>1. \A x \in Events : c.flags[x] = b.flags[x]
    BY <1>1 DEF Took
  <2>2. Stirs(b, c)
    BY <2>1 DEF Stirs, Took, Queued, Remembered, Has
  <2>3. QED BY <1>1, <2>2, StirsGoes, StirsRecalls
<1>2. CASE e \in Events
  <2>1. Called(c) = e /\ e # None
    BY <1>2, EventsAssumption DEF Called, All
  <2>2. ~Has(b, e, "LATER")
    BY AssertOk DEF Sound, Has
  <2>3. ~Queued(c, e)
    BY <2>2 DEF Took, Queued
  <2>4. e \in Pending(b)
    BY <1>2 DEF Pending, Has
  <2>5. Pending(c) \in {Pending(b), Pending(b) \ {e}}
    <3>1. \A x \in Events \ {e} : x \in Pending(c) <=> x \in Pending(b)
      BY DEF Took, Pending
    <3>2. Pending(c) \subseteq Events /\ Pending(b) \subseteq Events
      BY DEF Pending
    <3>3. QED BY <1>2, <2>4, <3>1, <3>2
  <2>6. Activated(b) \ {e} \subseteq Activated(c) /\ e \notin Activated(c)
    <3>1. \A x \in Events \ {e} : x \in Activated(c) <=> x \in Activated(b)
      BY DEF Took, Activated
    <3>2. e \notin Activated(c)
      BY <2>3, ActivatedIs
    <3>3. QED BY <3>1, <3>2 DEF Activated
  <2>7. e \in Lasting => c.flags[e] # {}
    <3>1. Remembered(b, e) /\ Queued(b, e)
      BY <1>2 DEF Recalls, Queued
    <3>2. QED BY <3>1 DEF Remembered, Took, Has
  <2>8. e \in Events \ Persist => c.flags[e] = {}
    <3>1. CASE e \in Deferred
      <4>1. b.flags[e] \subseteq {"ACTIVE", "LATER"}
        BY <1>2, <3>1 DEF Recalls, Remembered
      <4>2. QED BY <2>2, <3>1, <4>1 DEF Took, Has
    <3>2. CASE e \notin Deferred
      BY <3>2 DEF Took
    <3>3. QED BY <3>1, <3>2
  <2>9. Goes(b, c)
    BY <1>2, <2>1, <2>4, <2>5, <2>6, <2>7, <2>8 DEF Goes, Pending
  <2>10. ASSUME NEW x \in Events
         PROVE  Remembered(c, x)
    <3>1. Remembered(b, x)
      BY DEF Recalls
    <3>2. CASE x # e
      <4>1. c.flags[x] = b.flags[x] /\ c.io_timeout = b.io_timeout
        BY <3>2 DEF Took
      <4>2. QED BY <3>1, <4>1 DEF Remembered, Queued, Has
    <3>3. CASE x = e
      <4>1. e \in Deferred => c.flags[e] \subseteq {"ACTIVE", "LATER"}
        BY <3>1, <3>3 DEF Remembered, Took
      <4>2. e \in Lasting => (Has(c, e, "TIMEOUT") => c.io_timeout[e] # 0)
        BY <3>1, <3>3 DEF Remembered, Took, Has
      <4>3. QED BY <2>3, <3>3, <4>1, <4>2 DEF Remembered
    <3>4. QED BY <3>2, <3>3
  <2>11. QED BY <2>9, <2>10 DEF Recalls
<1>3. QED BY <1>1, <1>2

\* Nothing has become active, and nobody has taken back a wish to look again.
Leaves(b, c) ==
  /\ \A x \in All : Has(c, x, "ACTIVE") => Has(b, x, "ACTIVE")
  /\ b.event_continue => c.event_continue

LEMMA CallFirstGoes ==
  ASSUME NEW b, Between(b), Recalls(b), NEW p \in Priorities, b.activequeues[p] # <<>>,
         NEW count
  PROVE  LET c == CallFirst(b, p, count).b
         IN  /\ Goes(b, c) /\ Recalls(c) /\ Leaves(b, c)
             /\ Picks(c) /\ c.event_running_priority = p
<1> DEFINE e == Head(b.activequeues[p])
           b1 == IF e \in Persist \cup Deferred \cup Internal
                 THEN event_queue_remove_active(b, e)
                 ELSE event_del_nolock_(b, LoopThread, e)
           b2 == [b1 EXCEPT !.current_event = e, !.current_event_waiters = 0,
                            !.event_running_priority = p]
           b3 == IF IsSignal(e) THEN event_signal_closure(b2, e)
                 ELSE IF e \in Persist THEN event_persist_closure(b2, e)
                 ELSE b2
           c == Forget(b3, e)
<1>1. Sound(b) /\ b \in Base /\ b.flags \in [All -> SUBSET Flags] /\ b.activequeues[p] \in Seq(All)
  BY DEF Between, Sound, Base
<1>2. e \in ActiveAt(b.flags, p)
  <2>1. Lists(b.activequeues[p], ActiveAt(b.flags, p))
    BY <1>1, AssertOk DEF Sound
  <2>2. QED BY <1>1, <2>1, HeadLists
<1>3. e \in All /\ Has(b, e, "ACTIVE") /\ Pri[e] = p
  BY <1>2 DEF ActiveAt, Has
<1>4. CallFirst(b, p, count).b = c
  BY DEF CallFirst, LoopAt
<1> HIDE DEF e
<1>5. /\ Sound(b1) /\ Steady(b, b1)
      /\ \A x \in All \ {e} : b1.flags[x] = b.flags[x]
      /\ b1.flags[e] = IF e \in Persist \cup Deferred \cup Internal
                       THEN b.flags[e] \ {"ACTIVE"} ELSE {}
  <2>1. CASE e \in Persist \cup Deferred \cup Internal
    <3>1. b1 = event_queue_remove_active(b, e)
      BY <2>1
    <3> HIDE DEF b1
    <3>2. /\ Sound(b1) /\ Rest(b, b1)
          /\ b1.flags = [b.flags EXCEPT ![e] = @ \ {"ACTIVE"}]
      BY <3>1, <1>1, <1>3, RemoveActive
    <3>3. QED BY <2>1, <3>2, <1>1, <1>3 DEF Rest, Steady
  <2>2. CASE e \notin Persist \cup Deferred \cup Internal
    <3>1. b1 = event_del_nolock_(b, LoopThread, e) /\ e \in Events
      BY <2>2, <1>3, AllIsFinite
    <3> HIDE DEF b1
    <3>2. /\ Serves(b, b1, LoopThread) /\ Steady(b, b1)
          /\ b1.flags = [b.flags EXCEPT ![e] = {}]
      BY <3>1, <1>1, DelServes
    <3>3. QED BY <2>2, <3>2, <1>1, <1>3 DEF Serves
  <2>3. QED BY <2>1, <2>2
<1> HIDE DEF b1
<1>6. /\ b2 \in Base /\ b2.flags = b1.flags
      /\ b2.activequeues = b1.activequeues /\ b2.active_later_queue = b1.active_later_queue
      /\ b2.event_count = b1.event_count /\ b2.event_count_active = b1.event_count_active
      /\ b2.is_notify_pending = b1.is_notify_pending /\ b2.eventfd = b1.eventfd
      /\ b2.current_event = e /\ b2.event_running_priority = p
      /\ b2.io_timeout = b1.io_timeout /\ b2.event_continue = b1.event_continue
  BY <1>3, <1>5 DEF Sound, Base
<1>7. Sound(b2)
  BY <1>5, <1>6, SoundIf DEF Sound
<1>8. Steady(b, b2)
  BY <1>5, <1>6 DEF Steady
<1> HIDE DEF b2
<1>9. /\ Serves(b2, b3, LoopThread) /\ Steady(b2, b3)
      /\ \A x \in Events \ {e} : b3.flags[x] = b2.flags[x]
      /\ \A x \in All : \A f \in {"ACTIVE", "LATER"} : Has(b3, x, f) => Has(b2, x, f)
      /\ Has(b2, e, "INSERTED") => Has(b3, e, "INSERTED")
      /\ e \in Lasting /\ b2.io_timeout[e] # 0 => Has(b3, e, "TIMEOUT")
      /\ e \notin Persist => b3.flags = b2.flags
      /\ e \in Lasting /\ b2.io_timeout[e] = 0 => b3.flags = b2.flags
  <2>1. CASE IsSignal(e)
    <3>1. e \in Events
      BY <1>3, <2>1, AllIsFinite, EventsAssumption DEF IsSignal
    <3>2. /\ Serves(b2, b3, LoopThread) /\ Steady(b2, b3) /\ b3.flags = b2.flags
      BY <2>1, <3>1, <1>7, SignalServes
    <3> HIDE DEF b3
    <3>3. QED BY <2>1, <3>2 DEF Lasting, Has
  <2>2. CASE ~IsSignal(e) /\ e \in Persist
    <3>1. e \in Events
      BY <2>2, EventsAssumption
    <3>2. b3 = event_persist_closure(b2, e)
      BY <2>2
    <3> HIDE DEF b3
    <3>3. /\ Serves(b2, b3, LoopThread) /\ Steady(b2, b3)
          /\ \A x \in Events \ {e} : b3.flags[x] = b2.flags[x]
          /\ \A x \in All : \A f \in {"ACTIVE", "LATER"} : Has(b3, x, f) => Has(b2, x, f)
          /\ Has(b2, e, "INSERTED") => Has(b3, e, "INSERTED")
          /\ b2.io_timeout[e] # 0 => Has(b3, e, "TIMEOUT")
      BY <3>1, <3>2, <1>7, PersistServes
    <3>4. b2.io_timeout[e] = 0 => b3.flags = b2.flags
      BY <3>2 DEF event_persist_closure
    <3>5. QED BY <2>2, <3>3, <3>4
  <2>3. CASE ~IsSignal(e) /\ e \notin Persist
    <3>1. b3 = b2 /\ e \notin Lasting
      BY <2>3 DEF Lasting
    <3> HIDE DEF b3
    <3>2. QED BY <3>1, <1>7, ServesNothing DEF Steady
  <2>4. QED BY <2>1, <2>2, <2>3
<1> HIDE DEF b3
<1>10. Serves(b3, c, LoopThread) /\ Steady(b3, c) /\ c.flags = b3.flags
  BY <1>3, <1>9, ForgetServes DEF Serves
<1> HIDE DEF c
<1>11. /\ c.current_event = e /\ c.event_running_priority = p
  BY <1>6, <1>9, <1>10 DEF Serves, Same
<1>12. Steady(b, c)
  BY <1>8, <1>9, <1>10 DEF Steady
<1>13. Leaves(b, c)
  <2>1. ASSUME NEW x \in All, Has(c, x, "ACTIVE") PROVE Has(b, x, "ACTIVE")
    <3>1. Has(b2, x, "ACTIVE")
      BY <2>1, <1>9, <1>10 DEF Has
    <3>2. "ACTIVE" \in b1.flags[x]
      BY <3>1, <1>6 DEF Has
    <3>3. QED BY <3>2, <1>5 DEF Has
  <2>2. QED BY <2>1, <1>12 DEF Leaves, Steady
<1>14. Took(b, c, e)
  <2>1. c.io_timeout = b.io_timeout /\ b2.io_timeout = b.io_timeout
    BY <1>8, <1>12 DEF Steady
  <2>2. \A x \in Events \ {e} : c.flags[x] = b.flags[x]
    <3>1. \A x \in Events \ {e} : x \in All
      BY AllIsFinite
    <3>2. QED BY <3>1, <1>5, <1>6, <1>9, <1>10
  <2>3. \A f \in {"ACTIVE", "LATER"} : Has(c, e, f) => f \in b1.flags[e]
    BY <1>3, <1>6, <1>9, <1>10 DEF Has
  <2>4. Has(c, e, "LATER") => Has(b, e, "LATER")
    BY <2>3, <1>5 DEF Has
  <2>5. ~Has(c, e, "ACTIVE")
    BY <2>3, <1>5
  <2>6. e \in Deferred => c.flags[e] = b.flags[e] \ {"ACTIVE"}
    <3>1. e \in Deferred => e \notin Persist /\ e \notin Lasting
      BY EventsAssumption DEF Lasting
    <3>2. QED BY <3>1, <1>5, <1>6, <1>9, <1>10
  <2>7. e \in Events \ (Persist \cup Deferred) => c.flags[e] = {}
    <3>1. e \in Events \ (Persist \cup Deferred)
            => e \notin Persist \cup Deferred \cup Internal /\ e \notin Lasting
      BY EventsAssumption DEF Lasting
    <3>2. QED BY <3>1, <1>5, <1>6, <1>9, <1>10
  <2>8. ASSUME e \in Lasting
        PROVE  /\ Has(b, e, "INSERTED") => Has(c, e, "INSERTED")
               /\ b.io_timeout[e] # 0 => Has(c, e, "TIMEOUT")
               /\ b.io_timeout[e] = 0 => c.flags[e] = b.flags[e] \ {"ACTIVE"}
    <3>1. b2.flags[e] = b.flags[e] \ {"ACTIVE"}
      BY <2>8, <1>5, <1>6 DEF Lasting
    <3>2. Has(b, e, "INSERTED") => Has(b2, e, "INSERTED")
      BY <3>1 DEF Has
    <3>3. QED BY <2>1, <2>8, <3>1, <3>2, <1>9, <1>10 DEF Has
  <2>9. QED BY <2>1, <2>2, <2>4, <2>5, <2>6, <2>7, <2>8 DEF Took
<1>15. Goes(b, c) /\ Recalls(c)
  BY <1>1, <1>3, <1>11, <1>14, TookGoes
<1>16. QED BY <1>3, <1>4, <1>11, <1>13, <1>15 DEF Picks, c

LEMMA EndProcessRests ==
  ASSUME NEW b, Between(b)
  PROVE  Stirs(b, EndProcess(b).b) /\ Rests(EndProcess(b).b)
<1> DEFINE c == [b EXCEPT !.event_running_priority = -1]
<1>1. Sound(b) /\ b \in Base
  BY DEF Between, Sound
<1>2. /\ c \in Base /\ c.flags = b.flags
      /\ c.activequeues = b.activequeues /\ c.active_later_queue = b.active_later_queue
      /\ c.event_count = b.event_count /\ c.event_count_active = b.event_count_active
      /\ c.is_notify_pending = b.is_notify_pending /\ c.eventfd = b.eventfd
      /\ c.current_event = b.current_event /\ c.running_loop = b.running_loop
      /\ c.event_running_priority = -1 /\ c.io_timeout = b.io_timeout
  BY <1>1 DEF Base
<1>3. EndProcess(b) = NextRound(c)
  BY DEF EndProcess
<1> HIDE DEF c
<1>4. Sound(c)
  BY <1>1, <1>2, SoundIf DEF Sound
<1>5. Between(c) /\ Stirs(b, c)
  BY <1>2, <1>4, StirsNothing DEF Between, Has
<1>6. QED BY <1>2, <1>3, <1>5, NextRoundRests, StirsTwice

LEMMA RestsTakes ==
  ASSUME NEW b, NEW c, NEW n, Recalls(b), Stirs(b, c), Rests(c)
  PROVE  Takes(b, c, n)
<1>1. c.current_event \notin Events
  BY EventsAssumption DEF Rests, All
<1>2. QED BY <1>1, StirsGoes, StirsRecalls DEF Takes

\* The first event of the first queue from p on: no queue before it but those
\* under p holds an event.
LEMMA CallFromGoes ==
  ASSUME NEW b, Between(b), Recalls(b), NEW p \in Nat
  PROVE  LET c == CallFrom(b, p).b
         IN  \/ Stirs(b, c) /\ Rests(c)
             \/ /\ Goes(b, c) /\ Recalls(c) /\ Leaves(b, c) /\ Picks(c)
                /\ \A x \in All : Has(b, x, "ACTIVE") /\ Pri[x] >= p
                                    => Pri[x] >= c.event_running_priority
<1> DEFINE queues == {q \in Priorities : q >= p /\ b.activequeues[q] # <<>>}
           c == CallFrom(b, p).b
<1>1. CASE queues = {}
  <2>1. CallFrom(b, p) = EndProcess(b)
    BY <1>1 DEF CallFrom
  <2>2. QED BY <2>1, EndProcessRests
<1>2. CASE queues # {}
  <2> DEFINE m == Min(queues)
  <2>1. CallFrom(b, p) = CallFirst(b, m, 0)
    BY <1>2 DEF CallFrom
  <2>2. queues \in SUBSET Priorities
    OBVIOUS
  <2>3. queues \in SUBSET Int
    <3> HIDE DEF queues
    <3>1. QED BY <2>2, PriorityOf
  <2>4. IsFiniteSet(queues)
    <3> HIDE DEF queues
    <3>1. QED BY <2>2, PriorityOf, FS_Subset
  <2>5. m \in queues /\ \A q \in queues : m <= q
    <3> HIDE DEF queues
    <3>1. QED BY <1>2, <2>3, <2>4, MinOfFinite
  <2>6. m \in Priorities /\ b.activequeues[m] # <<>>
    BY <2>5
  <2> HIDE DEF m
  <2>7. /\ Goes(b, c) /\ Recalls(c) /\ Leaves(b, c) /\ Picks(c)
        /\ c.event_running_priority = m
    <3> HIDE DEF queues
    <3>1. QED BY <2>1, <2>6, CallFirstGoes
  <2>8. ASSUME NEW x \in All, Has(b, x, "ACTIVE"), Pri[x] >= p
        PROVE  Pri[x] >= m
    <3>1. Pri[x] \in Priorities /\ Pri[x] \in Nat /\ m \in Nat
      BY <2>6, PriorityOf
    <3>2. Lists(b.activequeues[Pri[x]], ActiveAt(b.flags, Pri[x]))
      BY <3>1, AssertOk DEF Between, Sound
    <3>3. b.activequeues[Pri[x]] # <<>>
      BY <2>8, <3>2 DEF ActiveAt, Has, Lists, Range
    <3>4. m <= Pri[x]
      BY <2>5, <2>8, <3>1, <3>3
    <3>5. QED BY <3>1, <3>4
  <2>9. QED BY <2>7, <2>8
<1>3. QED BY <1>1, <1>2

LEMMA ProcessGoes ==
  ASSUME NEW b, Between(b), Recalls(b)
  PROVE  LET c == CallFrom(b, 0).b
         IN  Goes(b, c) /\ Recalls(c) /\ (Rests(c) \/ (Picks(c) /\ Foremost(c)))
<1> DEFINE c == CallFrom(b, 0).b
<1>1. CASE Stirs(b, c) /\ Rests(c)
  <2> HIDE DEF c
  <2>1. c.current_event \notin Events
    BY <1>1, EventsAssumption DEF Rests, All
  <2>2. Goes(b, c) /\ Recalls(c)
    BY <1>1, <2>1, StirsGoes, StirsRecalls
  <2>3. QED BY <1>1, <2>2 DEF c
<1>2. CASE /\ Goes(b, c) /\ Recalls(c) /\ Leaves(b, c) /\ Picks(c)
           /\ \A x \in All : Has(b, x, "ACTIVE") /\ Pri[x] >= 0
                               => Pri[x] >= c.event_running_priority
  <2> HIDE DEF c
  <2>1. ASSUME NEW x \in All, Has(c, x, "ACTIVE")
        PROVE  ~(Pri[x] < c.event_running_priority)
    <3>1. Pri[x] \in Nat /\ c.event_running_priority \in Nat
      BY <1>2, PriorityOf DEF Picks
    <3>2. Has(b, x, "ACTIVE")
      BY <1>2, <2>1 DEF Leaves
    <3>3. Pri[x] >= 0
      BY <3>1
    <3>4. Pri[x] >= c.event_running_priority
      BY <1>2, <3>2, <3>3
    <3>5. QED BY <3>1, <3>4
  <2>2. Foremost(c)
    BY <2>1 DEF Foremost
  <2>3. QED BY <1>2, <2>2 DEF c
<1>3. QED BY <1>1, <1>2, CallFromGoes

LEMMA DoneTakes ==
  ASSUME NEW b0, Returned(b0), Recalls(b0), Ranked(b0), loop \in LoopType
  PROVE  Takes(b0, CallbackDone(b0).b, loop.count)
<1> DEFINE b == [b0 EXCEPT !.current_event = None, !.current_event_waiters = 0]
           p == b.event_running_priority
           c == CallbackDone(b0).b
<1>1. Sound(b0) /\ b0 \in Base
  BY DEF Returned, Sound
<1>2. /\ b \in Base /\ b.flags = b0.flags
      /\ b.activequeues = b0.activequeues /\ b.active_later_queue = b0.active_later_queue
      /\ b.event_count = b0.event_count /\ b.event_count_active = b0.event_count_active
      /\ b.is_notify_pending = b0.is_notify_pending /\ b.eventfd = b0.eventfd
      /\ b.current_event = None /\ b.running_loop = b0.running_loop
      /\ b.event_running_priority = b0.event_running_priority
      /\ b.io_timeout = b0.io_timeout /\ b.event_continue = b0.event_continue
  BY <1>1 DEF Base
<1>3. CallbackDone(b0) =
        IF b.event_break THEN EndProcess(b)
        ELSE IF b.activequeues[p] # <<>> /\ ~b.event_continue
             THEN CallFirst(b, p, loop.count)
        ELSE IF loop.count > 0 THEN EndProcess(b)
        ELSE CallFrom(b, p + 1)
  BY DEF CallbackDone
<1> HIDE DEF b
<1>4. Sound(b)
  BY <1>1, <1>2, SoundIf DEF Sound
<1>5. Between(b)
  BY <1>2, <1>4 DEF Between, Returned, Has
<1>6. Stirs(b0, b)
  BY <1>2, StirsNothing
<1>7. Recalls(b)
  BY <1>6, StirsRecalls
<1>8. b.event_continue \/ Foremost(b)
  BY <1>2 DEF Ranked, Foremost, Has
<1>9. p \in Priorities /\ p \in Nat /\ loop.count \in {0, 1}
  BY <1>2, PriorityOf DEF Returned, LoopType
<1> HIDE DEF c
<1>10. CASE c = EndProcess(b).b
  <2>1. Stirs(b, c) /\ Rests(c)
    BY <1>5, <1>10, EndProcessRests
  <2>2. QED BY <1>6, <2>1, RestsTakes, StirsTwice DEF c
<1>11. CASE /\ c = CallFirst(b, p, loop.count).b
            /\ b.activequeues[p] # <<>> /\ ~b.event_continue
  <2>1. /\ Goes(b, c) /\ Recalls(c) /\ Leaves(b, c)
        /\ Picks(c) /\ c.event_running_priority = p
    BY <1>5, <1>7, <1>9, <1>11, CallFirstGoes
  <2>2. Foremost(c)
    BY <1>8, <1>11, <2>1 DEF Foremost, Leaves
  <2>3. QED BY <1>6, <2>1, <2>2, GoesAfter DEF Takes, c
<1>12. CASE /\ c = CallFrom(b, p + 1).b /\ loop.count = 0
            /\ b.activequeues[p] = <<>> \/ b.event_continue
  <2>1. p + 1 \in Nat
    BY <1>9
  <2>2. \/ Stirs(b, c) /\ Rests(c)
        \/ /\ Goes(b, c) /\ Recalls(c) /\ Leaves(b, c) /\ Picks(c)
           /\ \A x \in All : Has(b, x, "ACTIVE") /\ Pri[x] >= p + 1
                               => Pri[x] >= c.event_running_priority
    BY <1>5, <1>7, <1>12, <2>1, CallFromGoes
  <2>3. CASE Stirs(b, c) /\ Rests(c)
    BY <1>6, <2>3, RestsTakes, StirsTwice DEF c
  <2>4. CASE /\ Goes(b, c) /\ Recalls(c) /\ Leaves(b, c) /\ Picks(c)
             /\ \A x \in All : Has(b, x, "ACTIVE") /\ Pri[x] >= p + 1
                                 => Pri[x] >= c.event_running_priority
    <3>1. Goes(b0, c)
      BY <1>6, <2>4, GoesAfter
    <3>2. b.event_continue => c.event_continue
      BY <2>4 DEF Leaves
    <3>3. ASSUME ~b.event_continue, NEW x \in All, Has(c, x, "ACTIVE"),
                 Pri[x] < c.event_running_priority
          PROVE  x \in Unnoticed
      <4>1. Has(b, x, "ACTIVE")
        BY <2>4, <3>3 DEF Leaves
      <4>2. Pri[x] \in Nat /\ c.event_running_priority \in Nat
        BY <2>4, PriorityOf DEF Picks
      <4>3. ~(Pri[x] >= p + 1)
        BY <2>4, <3>3, <4>1, <4>2
      <4>4. Pri[x] # p
        <5>1. Lists(b.activequeues[p], ActiveAt(b.flags, p))
          BY <1>4, <1>9, AssertOk DEF Sound
        <5>2. b.activequeues[p] = <<>>
          BY <1>12, <3>3
        <5>3. Pri[x] = p => x \in ActiveAt(b.flags, p)
          BY <4>1 DEF ActiveAt, Has
        <5>4. QED BY <5>1, <5>2, <5>3 DEF Lists, Range
      <4>5. Pri[x] < b.event_running_priority
        BY <1>9, <4>2, <4>3, <4>4 DEF p
      <4>6. QED BY <1>8, <3>3, <4>1, <4>5 DEF Foremost
    <3>4. b.event_continue \/ Foremost(c)
      BY <3>3 DEF Foremost
    <3>5. QED BY <1>2, <1>12, <2>4, <3>1, <3>2, <3>4 DEF Takes, c
  <2>5. QED BY <2>2, <2>3, <2>4
<1>13. QED BY <1>3, <1>9, <1>10, <1>11, <1>12 DEF c

\* What every step does to the program's events, one of the steps of EventLife,
\* and to their order.
Lives(b, c) ==
  \/ Goes(b, c)
  \/ /\ Called(c) = Called(b)
     /\ \/ Pending(c) = Pending(b) /\ Activated(c) = Activated(b)
        \/ \E e \in Events : /\ Interest[e] # {} \/ Delays[e] # {}
                             /\ Pending(c) = Pending(b) \cup {e}
                             /\ Activated(c) \in {Activated(b), Activated(b) \ {e}}
        \/ \E e \in Events : /\ Pending(c) = Pending(b) \ {e}
                             /\ Activated(c) = Activated(b) \ {e}
        \/ \E e \in Manual \cup Deferred : /\ Pending(c) = Pending(b) \cup {e}
                                           /\ Activated(c) = Activated(b) \cup {e}
Moves(b, c, n) ==
  Recalls(b) /\ Ranked(b) =>
    /\ Recalls(c) /\ Ranked(c) /\ Lives(b, c)
    /\ \/ c.current_event = b.current_event \/ c.current_event \notin Events
       \/ b.event_continue /\ n = 0
       \/ Picks(c) /\ Foremost(c)

LEMMA TakesMoves ==
  ASSUME NEW b, NEW c, NEW n, Recalls(b) /\ Ranked(b) => Takes(b, c, n)
  PROVE  Moves(b, c, n)
<1> SUFFICES ASSUME Recalls(b), Ranked(b), Takes(b, c, n)
             PROVE  /\ Recalls(c) /\ Ranked(c) /\ Lives(b, c)
                    /\ \/ c.current_event = b.current_event \/ c.current_event \notin Events
                       \/ b.event_continue /\ n = 0
                       \/ Picks(c) /\ Foremost(c)
  BY DEF Moves
<1>1. CASE Rests(c)
  <2>1. c.current_event \notin Events
    BY <1>1, EventsAssumption DEF Rests, All
  <2>2. ASSUME NEW x \in All PROVE ~(Pri[x] < c.event_running_priority)
    <3>1. Pri[x] \in Nat
      BY PriorityOf
    <3>2. QED BY <1>1, <3>1 DEF Rests
  <2>3. QED BY <2>1, <2>2 DEF Takes, Lives, Ranked, Foremost
<1>2. CASE ~Rests(c)
  BY <1>2 DEF Takes, Lives, Ranked
<1>3. QED BY <1>1, <1>2

\* A step that does nothing to the events.
LEMMA StayMoves ==
  ASSUME NEW b, NEW c, NEW n, c.flags = b.flags, c.io_timeout = b.io_timeout,
         c.current_event = b.current_event,
         c.event_running_priority = b.event_running_priority,
         b.event_continue => c.event_continue
  PROVE  Moves(b, c, n)
<1>1. Stirs(b, c)
  BY StirsNothing
<1>2. Recalls(b) => Recalls(c)
  BY <1>1, StirsRecalls
<1>3. Ranked(b) => Ranked(c)
  BY DEF Ranked, Foremost, Has
<1>4. Lives(b, c)
  BY DEF Lives, Called, Pending, Activated
<1>5. QED BY <1>2, <1>3, <1>4 DEF Moves

(***************************************************************************)
(* One lemma per action.                                                   *)
(***************************************************************************)
\* Who waits with event_add or event_active does it for a signal's callback.
Waits(th) ==
  \A t \in Threads : /\ (th[t].op \in {"add", "active"} => IsSignal(th[t].ev))
                      /\ (th[t].op = "active" => th[t].ev \in Manual)
Others(th, rd, us) ==
  /\ th \in [Threads -> Call \cup {Idle}] /\ Waits(th)
  /\ rd \subseteq Fds \ {Fd[Notify]} /\ us \in SUBSET Events

Inv ==
  /\ BaseSound /\ NoLostWakeup
  /\ Recalls(base) /\ Ranked(base) /\ Waits(thr)
  /\ loop.pc = "caught" => base.current_event = Evsig

LEMMA InvIs ==
  Inv <=> /\ Agrees(base, loop) /\ Others(thr, ready, use)
          /\ Recalls(base) /\ Ranked(base)
<1>1. ASSUME Inv
      PROVE  /\ Agrees(base, loop) /\ Others(thr, ready, use)
             /\ Recalls(base) /\ Ranked(base)
  <2>1. TypeOK /\ event_base_assert_ok_nolock_(base) /\ NotifyAgrees /\ NoLostWakeup
    BY <1>1 DEF Inv, BaseSound
  <2>2. Sound(base)
    BY <2>1 DEF Sound, TypeOK, NotifyAgrees, Base
  <2>3. Fits(base, loop)
    BY <1>1, <2>1, <2>2 DEF Inv, Fits, TypeOK, NotifyAgrees, LoopType
  <2>4. QED BY <1>1, <2>1, <2>3 DEF Inv, Agrees, Sleeps, NoLostWakeup, Others, TypeOK
<1>2. ASSUME Agrees(base, loop), Others(thr, ready, use), Recalls(base), Ranked(base)
      PROVE  Inv
  <2>1. Fits(base, loop) /\ Sound(base) /\ base \in Base
    BY <1>2 DEF Agrees, Fits, Sound
  <2>2. TypeOK
    BY <1>2, <2>1 DEF Fits, TypeOK, LoopType, Others
  <2>3. NotifyAgrees
    BY <2>1 DEF Fits, Sound, NotifyAgrees
  <2>4. NoLostWakeup
    BY <1>2 DEF Agrees, Sleeps, NoLostWakeup
  <2>5. loop.pc = "caught" => base.current_event = Evsig
    BY <2>1 DEF Fits
  <2>6. QED BY <1>2, <2>1, <2>2, <2>3, <2>4, <2>5 DEF Inv, BaseSound, Sound, Others
<1>3. QED BY <1>1, <1>2

LEMMA InvIsNext ==
  (Inv <=> /\ Agrees(base, loop) /\ Others(thr, ready, use)
           /\ Recalls(base) /\ Ranked(base))'
BY InvIs, PTL

\* A base that differs in nothing the loop depends on.
LEMMA FitsIf ==
  ASSUME NEW b, NEW l, Fits(b, l), NEW c \in Base, c.flags = b.flags,
         c.activequeues = b.activequeues, c.active_later_queue = b.active_later_queue,
         c.event_count = b.event_count, c.event_count_active = b.event_count_active,
         c.is_notify_pending = b.is_notify_pending, c.eventfd = b.eventfd,
         c.running_loop = b.running_loop, c.current_event = b.current_event,
         c.event_running_priority = b.event_running_priority
  PROVE  Fits(c, l)
<1>1. Sound(c)
  BY SoundIf DEF Fits, Sound
<1>2. QED BY <1>1 DEF Fits, Has

LEMMA SleepsIf ==
  ASSUME NEW b, NEW left, Sleeps(b, left), NEW c, Sound(b), Sound(c), Calmer(b, c),
         left \in Nat \cup {Forever},
         c.event_break = b.event_break, b.eventfd = 0 \/ c.eventfd = 1
  PROVE  Sleeps(c, left)
<1> SUFFICES ASSUME c.eventfd = 0, b.eventfd = 0
             PROVE  /\ N_ACTIVE_CALLBACKS(c) > 0 => left = 0
                    /\ ~c.event_break
                    /\ \A e \in Timers(c) : /\ left # Forever
                                            /\ left <= Max({0, c.timeout[e]}) + MaxAge
  BY DEF Sleeps
<1>1. N_ACTIVE_CALLBACKS(c) > 0 => left = 0
  BY DEF Sleeps, Calmer, N_ACTIVE_CALLBACKS, Sound, Base
<1>2. ASSUME NEW e \in Timers(c)
      PROVE  left # Forever /\ left <= Max({0, c.timeout[e]}) + MaxAge
  <2>1. PICK f \in Timers(b) : b.timeout[f] <= c.timeout[e]
    BY DEF Calmer
  <2>2. left # Forever /\ left <= Max({0, b.timeout[f]}) + MaxAge
    BY DEF Sleeps
  <2>3. b.timeout[f] \in Int /\ c.timeout[e] \in Int /\ MaxAge \in Nat /\ left \in Nat
    BY <2>2, EventsAssumption DEF Sound, Base, Timers
  <2>4. /\ Max({0, b.timeout[f]}) = IF 0 >= b.timeout[f] THEN 0 ELSE b.timeout[f]
        /\ Max({0, c.timeout[e]}) = IF 0 >= c.timeout[e] THEN 0 ELSE c.timeout[e]
    BY <2>3, MaxOfTwo
  <2>5. QED BY <2>1, <2>2, <2>3, <2>4
<1>3. QED BY <1>1, <1>2 DEF Sleeps

LEMMA QuietCalmer ==
  ASSUME NEW b, NEW c, Sound(b), c.flags = b.flags, c.timeout = b.timeout,
         c.event_count_active = b.event_count_active
  PROVE  Calmer(b, c)
<1>1. b.event_count_active <= b.event_count_active
  BY DEF Sound, Base
<1>2. \A e \in Timers(b) : b.timeout[e] <= b.timeout[e]
  BY DEF Sound, Base, Timers
<1>3. Timers(c) = Timers(b)
  BY DEF Timers, Has
<1>4. QED BY <1>1, <1>2, <1>3 DEF Calmer

LEMMA ServesFits ==
  ASSUME NEW b, NEW l, Fits(b, l), NEW c, NEW t, Serves(b, c, t)
  PROVE  Fits(c, l)
<1>1. Sound(c) /\ Same(b, c) /\ Woken(b, c, t)
  BY DEF Serves
<1>2. Has(c, Notify, "ACTIVE") <=> Has(b, Notify, "ACTIVE")
  BY DEF Serves, Has
<1>3. CASE c.is_notify_pending = b.is_notify_pending /\ c.eventfd = b.eventfd
  BY <1>1, <1>2, <1>3 DEF Fits, Same
<1>4. CASE ~b.is_notify_pending /\ c.is_notify_pending /\ c.eventfd = 1
  BY <1>1, <1>2, <1>4 DEF Fits, Same
<1>5. QED BY <1>1, <1>3, <1>4 DEF Woken

\* A call, also of another thread and at any time, leaves what agrees.
LEMMA CallAgrees ==
  ASSUME NEW b, NEW l, Agrees(b, l), NEW c, NEW t, Serves(b, c, t),
         t = LoopThread => l.pc # "wait",
         t # LoopThread /\ b.running_loop /\ ~b.is_notify_pending
           => c.eventfd = 1 \/ Calmer(b, c)
  PROVE  Agrees(c, l)
<1>1. Fits(b, l) /\ Sound(b) /\ Sound(c) /\ Same(b, c) /\ Woken(b, c, t)
  BY DEF Agrees, Fits, Serves
<1>2. Fits(c, l)
  BY <1>1, ServesFits
<1>3. ASSUME l.pc = "wait"
      PROVE  Sleeps(c, l.left)
  <2>1. CASE c.eventfd = 1
    BY <2>1 DEF Sleeps
  <2>2. CASE c.eventfd # 1
    <3>1. b.eventfd # 1 /\ b.eventfd \in {0, 1}
      BY <2>2, <1>1 DEF Woken, Sound, Base
    <3>2. b.running_loop /\ ~b.is_notify_pending
      BY <1>1, <1>3, <3>1 DEF Fits
    <3>3. Calmer(b, c)
      BY <2>2, <3>2, <1>3
    <3>4. Sleeps(b, l.left) /\ l.left \in Nat \cup {Forever}
      BY <1>1, <1>3 DEF Agrees, Fits, LoopType
    <3>5. QED BY <1>1, <3>1, <3>3, <3>4, SleepsIf DEF Same
  <2>3. QED BY <2>1, <2>2
<1>4. QED BY <1>2, <1>3 DEF Agrees

\* So does a change of other fields of the base.
LEMMA QuietAgrees ==
  ASSUME NEW b, NEW l, Agrees(b, l), NEW c \in Base, c.flags = b.flags,
         c.activequeues = b.activequeues, c.active_later_queue = b.active_later_queue,
         c.event_count = b.event_count, c.event_count_active = b.event_count_active,
         c.is_notify_pending = b.is_notify_pending, c.eventfd = b.eventfd,
         c.running_loop = b.running_loop, c.current_event = b.current_event,
         c.event_running_priority = b.event_running_priority,
         c.timeout = b.timeout, c.event_break = b.event_break
  PROVE  Agrees(c, l)
<1>1. Fits(b, l) /\ Sound(b)
  BY DEF Agrees, Fits
<1>2. Fits(c, l) /\ Sound(c)
  <2>1. Fits(c, l)
    BY <1>1, FitsIf
  <2>2. QED BY <2>1 DEF Fits
<1>3. Calmer(b, c)
  BY <1>1, QuietCalmer
<1>4. ASSUME l.pc = "wait"
      PROVE  Sleeps(c, l.left)
  <2>1. Sleeps(b, l.left) /\ l.left \in Nat \cup {Forever}
    BY <1>1, <1>4 DEF Agrees, Fits, LoopType
  <2>2. b.eventfd = 0 \/ c.eventfd = 1
    BY <1>1 DEF Sound, Base
  <2>3. QED BY <1>1, <1>2, <1>3, <2>1, <2>2, SleepsIf
<1>5. QED BY <1>2, <1>4 DEF Agrees

\* What every action lemma may use of the state before it.
LEMMA Before ==
  ASSUME NEW b, NEW l, Agrees(b, l)
  PROVE  /\ Fits(b, l) /\ Sound(b) /\ b \in Base /\ l \in LoopType
         /\ b.flags \in [All -> SUBSET Flags]
         /\ l.pc \notin Calling => b.current_event = None /\ b.event_running_priority = -1
         /\ l.pc \in Calling => /\ b.current_event \in All
                                /\ b.event_running_priority \in Priorities
         /\ b.eventfd \in {0, 1}
<1>1. Fits(b, l) /\ Sound(b) /\ b \in Base
  BY DEF Agrees, Fits, Sound
<1>2. /\ b.flags \in [All -> SUBSET Flags] /\ b.eventfd \in {0, 1}
      /\ b.current_event \in All \cup {None}
      /\ b.event_running_priority \in Priorities \cup {-1}
  BY <1>1 DEF Base
<1>3. QED BY <1>1, <1>2 DEF Fits

LEMMA StartLoopAgrees ==
  ASSUME Agrees(base, loop), StartLoop
  PROVE  Agrees(base', loop') /\ Moves(base, base', loop.count)
<1> DEFINE b == [base EXCEPT !.running_loop = TRUE, !.tv_cache = NoCache,
                             !.event_gotterm = FALSE, !.event_break = FALSE]
<1>1. Fits(base, loop) /\ Sound(base) /\ base \in Base /\ loop \in LoopType
  BY Before
<1>2. loop.pc = "out" /\ loop.pc \notin Calling
  BY DEF StartLoop, Calling
<1>3. base.current_event = None /\ base.event_running_priority = -1
  BY <1>2, Before
<1>4. NoCache \in NoCache .. MaxAge
  BY EventsAssumption DEF NoCache
<1>5. base' = NextRound(b).b /\ loop' = NextRound(b).l
  BY DEF StartLoop, Step
<1>6. /\ b \in Base /\ b.flags = base.flags
      /\ b.activequeues = base.activequeues /\ b.active_later_queue = base.active_later_queue
      /\ b.event_count = base.event_count /\ b.event_count_active = base.event_count_active
      /\ b.is_notify_pending = base.is_notify_pending /\ b.eventfd = base.eventfd
      /\ b.current_event = None /\ b.running_loop /\ b.event_running_priority = -1
      /\ b.io_timeout = base.io_timeout
  BY <1>1, <1>3, <1>4 DEF Base
<1> HIDE DEF b
<1>7. Sound(b)
  BY <1>1, <1>6, SoundIf DEF Sound
<1>8. Between(b)
  BY <1>1, <1>2, <1>6, <1>7 DEF Between, Fits, Has
<1>9. Stirs(b, base') /\ Rests(base')
  BY <1>5, <1>6, <1>8, NextRoundRests
<1>10. Stirs(base, base')
  BY <1>6, <1>9, StirsNothing, StirsTwice
<1>11. Agrees(base', loop')
  BY <1>1, <1>5, <1>6, <1>8, NextRoundAgrees
<1>12. QED BY <1>9, <1>10, <1>11, RestsTakes, TakesMoves

\* The loop's own descriptors are reported only when there is something in them.
LEMMA ReportedIs ==
  ASSUME Agrees(base, loop), Others(thr, ready, use)
  PROVE  Reported \in SUBSET Fds /\ (Fd[Notify] \in Reported => base.eventfd = 1)
<1>1. ready \subseteq Fds \ {Fd[Notify]}
  BY DEF Others
<1>2. Internal \subseteq All /\ Fd[Evsig] # Fd[Notify] /\ \A e \in Internal : Fd[e] # None
  BY EventsAssumption DEF Internal, All
<1>3. \A e \in Internal : Fd[e] \in Fds
  BY <1>2 DEF Fds
<1>4. Reported \in SUBSET Fds
  BY <1>1, <1>3 DEF Reported
<1>5. ASSUME Fd[Notify] \in Reported PROVE base.eventfd = 1
  <2>1. Fd[Notify] \notin ready
    BY <1>1
  <2>2. PICK e \in Internal : /\ Fd[Notify] = Fd[e]
                              /\ IF e = Notify THEN base.eventfd > 0 ELSE base.raised > 0
    BY <1>5, <2>1 DEF Reported
  <2>3. e = Notify
    BY <1>2, <2>2 DEF Internal
  <2>4. base.eventfd > 0 /\ base.eventfd \in {0, 1}
    BY <2>2, <2>3, Before
  <2>5. QED BY <2>4
<1>6. QED BY <1>4, <1>5

LEMMA WaitReturnsAgrees ==
  ASSUME Agrees(base, loop), Others(thr, ready, use), WaitReturns \/ WaitInterrupted
  PROVE  Agrees(base', loop')
<1>1. Fits(base, loop) /\ loop \in LoopType
  BY Before
<1>2. PICK got \in SUBSET Fds : /\ loop' = [loop EXCEPT !.pc = "reported", !.got = got]
                                /\ Fd[Notify] \in got => base.eventfd = 1
  <2>1. CASE WaitReturns
    BY <2>1, ReportedIs DEF WaitReturns
  <2>2. CASE WaitInterrupted
    <3> DEFINE none == {}
    <3>1. /\ none \in SUBSET Fds /\ Fd[Notify] \notin none
          /\ loop' = [loop EXCEPT !.pc = "reported", !.got = none]
      BY <2>2 DEF WaitInterrupted
    <3> HIDE DEF none
    <3>2. QED BY <3>1
  <2>3. QED BY <2>1, <2>2
<1>3. base' = base /\ loop.pc = "wait"
  BY DEF WaitReturns, WaitInterrupted
<1>4. loop' \in LoopType /\ loop'.pc = "reported" /\ loop'.got = got
  BY <1>1, <1>2 DEF LoopType
<1>5. Fits(base, loop')
  BY <1>1, <1>2, <1>3, <1>4 DEF Fits, Calling
<1>6. QED BY <1>3, <1>4, <1>5 DEF Agrees

LEMMA DispatchAgrees ==
  ASSUME Agrees(base, loop), Dispatch
  PROVE  Agrees(base', loop') /\ Moves(base, base', loop.count)
<1> DEFINE Io == {e \in All : Fd[e] \in loop.got /\ Has(base, e, "INSERTED")}
<1>1. Fits(base, loop) /\ Sound(base) /\ base \in Base /\ loop \in LoopType
  BY Before
<1>2. loop.pc = "reported" /\ loop.pc \notin Calling
  BY DEF Dispatch, Calling
<1>3. /\ base.current_event = None /\ base.event_running_priority = -1 /\ base.running_loop
      /\ base.is_notify_pending <=> base.eventfd = 1
      /\ Has(base, Notify, "ACTIVE") \/ Fd[Notify] \in loop.got => base.eventfd = 1
  BY <1>1, <1>2, Before DEF Fits
<1>4. PICK io \in SetToSeqs(Io) :
        LET b == [ActivateIo(base, io) EXCEPT !.tv_cache = 0]
        IN \E due \in SetToSeqs({e \in Timers(b) : b.timeout[e] <= 0}) :
             /\ ByTimeout(b, due)
             /\ LET b1 == ActivateTimeouts(b, due)
                IN Step(IF N_ACTIVE_CALLBACKS(b1) > 0 THEN event_process_active(b1)
                        ELSE NextRound(b1))
  BY DEF Dispatch
<1> DEFINE a == ActivateIo(base, io)
           b == [a EXCEPT !.tv_cache = 0]
           Due == {e \in Timers(b) : b.timeout[e] <= 0}
<1>5. PICK due \in SetToSeqs(Due) :
        LET b1 == ActivateTimeouts(b, due)
        IN Step(IF N_ACTIVE_CALLBACKS(b1) > 0 THEN event_process_active(b1)
                ELSE NextRound(b1))
  BY <1>4
<1> DEFINE b1 == ActivateTimeouts(b, due)
<1>6. \/ Step(CallFrom(b1, 0))
      \/ Step(NextRound(b1))
  BY <1>5 DEF event_process_active
<1>7. /\ io \in Seq(All)
      /\ \A i \in 1 .. Len(io) : io[i] \in Io
  <2>1. IsFiniteSet(Io)
    BY AllIsFinite, FS_Subset
  <2>2. io \in Seq(Io) /\ Len(io) \in Nat /\ \A i \in 1 .. Len(io) : io[i] \in Io
    <3> HIDE DEF Io
    <3>1. QED BY <2>1, OrderLists
  <2>3. QED BY <2>2
<1>8. /\ Sound(a) /\ Same(base, a)
      /\ a.is_notify_pending = base.is_notify_pending /\ a.eventfd = base.eventfd
      /\ Has(a, Notify, "ACTIVE") => base.eventfd = 1
      /\ Stirs(base, a)
  <2>1. /\ Sound(a) /\ Same(base, a)
        /\ a.is_notify_pending = base.is_notify_pending /\ a.eventfd = base.eventfd
        /\ Has(a, Notify, "ACTIVE") =>
             Has(base, Notify, "ACTIVE") \/ \E j \in 1 .. Len(io) : io[j] = Notify
        /\ (\A j \in 1 .. Len(io) : Has(base, io[j], "INSERTED")) => Stirs(base, a)
    BY <1>1, <1>7, IoServes
  <2>2. (\E j \in 1 .. Len(io) : io[j] = Notify) => Fd[Notify] \in loop.got
    BY <1>7
  <2>3. Stirs(base, a)
    <3>1. \A j \in 1 .. Len(io) : Has(base, io[j], "INSERTED")
      BY <1>7
    <3>2. QED BY <2>1, <3>1
  <2>4. QED BY <1>3, <2>1, <2>2, <2>3
<1> HIDE DEF a
<1>9. /\ b \in Base /\ b.flags = a.flags
      /\ b.activequeues = a.activequeues /\ b.active_later_queue = a.active_later_queue
      /\ b.event_count = a.event_count /\ b.event_count_active = a.event_count_active
      /\ b.is_notify_pending = a.is_notify_pending /\ b.eventfd = a.eventfd
      /\ b.current_event = a.current_event /\ b.running_loop = a.running_loop
      /\ b.event_running_priority = a.event_running_priority
      /\ b.io_timeout = a.io_timeout
  <2>1. a \in Base /\ 0 \in NoCache .. MaxAge
    BY <1>8, EventsAssumption DEF Sound, NoCache
  <2>2. QED BY <2>1 DEF Base
<1> HIDE DEF b
<1>10. Sound(b)
  BY <1>8, <1>9, SoundIf DEF Sound
<1>11. due \in Seq(Events) /\ \A i \in 1 .. Len(due) : due[i] \in Timers(b) /\ due[i] \in Events
  <2>1. Due \subseteq Events
    BY <1>10 DEF Timers, Has, Sound, Internal, All
  <2>2. IsFiniteSet(Due)
    BY <2>1, EventsAssumption, FS_Subset
  <2>3. due \in Seq(Due) /\ \A i \in 1 .. Len(due) : due[i] \in Due
    <3> HIDE DEF Due
    <3>1. QED BY <2>2, OrderLists
  <2>4. QED BY <2>1, <2>3
<1>12. /\ Serves(b, b1, LoopThread)
       /\ (\A j \in 1 .. Len(due) : Has(b, due[j], "TIMEOUT") /\ Remembered(b, due[j]))
             => Stirs(b, b1)
  BY <1>10, <1>11, TimeoutsServe
<1> HIDE DEF b1
<1>13. Between(b1) /\ b1.event_running_priority = -1
  BY <1>3, <1>8, <1>9, <1>12 DEF Between, Serves, Same, Woken, Has
<1>14. Agrees(base', loop')
  BY <1>1, <1>6, <1>13, CallFromAgrees, NextRoundAgrees DEF Step
<1>15. ASSUME Recalls(base)
       PROVE  Takes(base, base', loop.count)
  <2>1. Stirs(base, b)
    BY <1>8, <1>9, StirsNothing, StirsTwice
  <2>2. Recalls(b)
    BY <1>15, <2>1, StirsRecalls
  <2>3. \A j \in 1 .. Len(due) : Has(b, due[j], "TIMEOUT") /\ Remembered(b, due[j])
    BY <1>11, <2>2 DEF Timers, Recalls
  <2>4. Stirs(base, b1)
    BY <1>12, <2>1, <2>3, StirsTwice
  <2>5. Recalls(b1)
    BY <1>15, <2>4, StirsRecalls
  <2>6. CASE Step(CallFrom(b1, 0))
    <3>1. /\ Goes(b1, base') /\ Recalls(base')
          /\ Rests(base') \/ (Picks(base') /\ Foremost(base'))
      BY <1>13, <2>5, <2>6, ProcessGoes DEF Step
    <3>2. QED BY <2>4, <3>1, GoesAfter DEF Takes
  <2>7. CASE Step(NextRound(b1))
    <3>1. Stirs(b1, base') /\ Rests(base')
      BY <1>13, <2>7, NextRoundRests DEF Step
    <3>2. QED BY <1>15, <2>4, <3>1, StirsTwice, RestsTakes
  <2>8. QED BY <1>6, <2>6, <2>7
<1>16. QED BY <1>14, <1>15, TakesMoves

\* A callback of the program, or of the loop's own, is over.
LEMMA IsReturned ==
  ASSUME Agrees(base, loop), loop.pc \in {"callback", "calls", "returning"},
         loop.pc = "callback" => base.current_event # Notify,
         NEW c \in Base, c.flags = base.flags,
         c.activequeues = base.activequeues, c.active_later_queue = base.active_later_queue,
         c.event_count = base.event_count, c.event_count_active = base.event_count_active,
         c.is_notify_pending = base.is_notify_pending, c.eventfd = base.eventfd,
         c.running_loop = base.running_loop,
         c.event_running_priority = base.event_running_priority,
         c.io_timeout = base.io_timeout, c.event_continue = base.event_continue
  PROVE  /\ Agrees(CallbackDone(c).b, CallbackDone(c).l)
         /\ Moves(base, CallbackDone(c).b, loop.count)
<1>1. Fits(base, loop) /\ Sound(base) /\ loop \in LoopType
  BY Before
<1>2. base.event_running_priority \in Priorities
  BY Before DEF Calling
<1>3. Sound(c)
  BY <1>1, SoundIf DEF Sound
<1>4. Returned(c)
  BY <1>1, <1>2, <1>3 DEF Returned, Fits, Has, Calling
<1>5. Agrees(CallbackDone(c).b, CallbackDone(c).l)
  BY <1>1, <1>4, CallbackDoneAgrees
<1>6. ASSUME Recalls(base), Ranked(base)
      PROVE  Takes(base, CallbackDone(c).b, loop.count)
  <2>1. Stirs(base, c)
    BY StirsNothing
  <2>2. Recalls(c) /\ Ranked(c)
    BY <1>6, <2>1, StirsRecalls DEF Ranked, Foremost, Has
  <2>3. Takes(c, CallbackDone(c).b, loop.count)
    BY <1>1, <1>4, <2>2, DoneTakes
  <2>4. QED BY <2>1, <2>3, GoesAfter DEF Takes
<1>7. QED BY <1>5, <1>6, TakesMoves

LEMMA BroadcastWakes ==
  ASSUME Others(thr, ready, use), Broadcast
  PROVE  Others(thr', ready, use)
<1>1. thr \in [Threads -> Call \cup {Idle}]
  BY DEF Others
<1>2. ASSUME NEW w \in Call PROVE [w EXCEPT !.woken = TRUE] \in Call
  BY DEF Call
<1>3. thr' \in [Threads -> Call \cup {Idle}]
  BY <1>1, <1>2 DEF Broadcast
<1>4. \A t \in Threads : thr'[t].op = thr[t].op /\ thr'[t].ev = thr[t].ev
  <2>1. \A w \in Call : /\ [w EXCEPT !.woken = TRUE].op = w.op
                         /\ [w EXCEPT !.woken = TRUE].ev = w.ev
    BY DEF Call
  <2>2. QED BY <1>1, <2>1 DEF Broadcast
<1>5. Waits(thr')
  BY <1>4 DEF Others, Waits
<1>6. QED BY <1>3, <1>5 DEF Others


LEMMA CallbackReturnsAgrees ==
  ASSUME Agrees(base, loop), Others(thr, ready, use), CallbackReturns
  PROVE  Agrees(base', loop') /\ Others(thr', ready, use) /\ Moves(base, base', loop.count)
<1> DEFINE c == IF base.current_event \in Exits
                THEN [base EXCEPT !.event_gotterm = TRUE] ELSE base
<1>1. base \in Base
  BY Before
<1>2. /\ loop.pc = "callback" /\ base.current_event \in Events /\ Broadcast
      /\ Step(CallbackDone(c))
  BY DEF CallbackReturns, InCallback
<1>3. /\ c \in Base /\ c.flags = base.flags
      /\ c.activequeues = base.activequeues /\ c.active_later_queue = base.active_later_queue
      /\ c.event_count = base.event_count /\ c.event_count_active = base.event_count_active
      /\ c.is_notify_pending = base.is_notify_pending /\ c.eventfd = base.eventfd
      /\ c.running_loop = base.running_loop
      /\ c.event_running_priority = base.event_running_priority
      /\ c.io_timeout = base.io_timeout /\ c.event_continue = base.event_continue
  BY <1>1, ZenonT(40) DEF Base
<1> HIDE DEF c
<1>4. base.current_event # Notify
  BY <1>2, EventsAssumption DEF Internal
<1>5. Agrees(CallbackDone(c).b, CallbackDone(c).l) /\ Moves(base, CallbackDone(c).b, loop.count)
  BY <1>2, <1>3, <1>4, IsReturned
<1>6. QED BY <1>2, <1>5, BroadcastWakes DEF Step

LEMMA SignalCallAgrees ==
  ASSUME Agrees(base, loop), Others(thr, ready, use), SignalCall
  PROVE  Agrees(base', loop') /\ Others(thr', ready, use) /\ Moves(base, base', loop.count)
<1>1. Fits(base, loop) /\ base \in Base /\ loop \in LoopType /\ loop.pc = "calls"
  BY Before DEF SignalCall
<1>2. CASE base.calls = 0
  <2>1. Broadcast /\ Step(CallbackDone(base))
    BY <1>2 DEF SignalCall
  <2>2. /\ Agrees(CallbackDone(base).b, CallbackDone(base).l)
        /\ Moves(base, CallbackDone(base).b, loop.count)
    BY <1>1, IsReturned
  <2>3. QED BY <2>1, <2>2, BroadcastWakes DEF Step
<1>3. CASE base.calls # 0
  <2>1. loop' = [loop EXCEPT !.pc = "counted", !.left = base.calls] /\ UNCHANGED <<base, thr>>
    BY <1>3 DEF SignalCall
  <2>2. base.calls \in Nat /\ base.calls > 0
    BY <1>1, <1>3 DEF Base
  <2>3. loop' \in LoopType /\ loop'.pc = "counted" /\ loop'.left = base.calls
    BY <1>1, <2>1, <2>2 DEF LoopType, Calling
  <2>4. Fits(base, loop')
    BY <1>1, <2>2, <2>3 DEF Fits, Calling
  <2>5. QED BY <2>1, <2>3, <2>4, StayMoves DEF Agrees
<1>4. QED BY <1>2, <1>3

LEMMA SignalCountAgrees ==
  ASSUME Agrees(base, loop), SignalCount
  PROVE  Agrees(base', loop') /\ Moves(base, base', loop.count)
<1> DEFINE e == base.current_event
           n == loop.left - 1
           ncalls == [base.ncalls EXCEPT ![e] = n]
           pncalls == [base.pncalls EXCEPT ![e] = @ /\ n # 0]
<1>1. /\ Fits(base, loop) /\ base \in Base /\ loop \in LoopType /\ loop.pc = "counted"
      /\ e \in All
  BY Before DEF SignalCount, Calling
<1>2. n \in Nat /\ IsSignal(e)
  BY <1>1 DEF Fits, LoopType, Forever
<1>3. /\ base' = [base EXCEPT !.calls = n, !.ncalls = ncalls, !.pncalls = pncalls]
      /\ loop' = [loop EXCEPT !.pc = "callback", !.left = 0]
  BY <1>1 DEF SignalCount, Base
<1>4. ncalls \in [All -> Nat] /\ pncalls \in [All -> BOOLEAN]
  BY <1>1, <1>2 DEF Base
<1> HIDE DEF n, ncalls, pncalls
<1>5. /\ base' \in Base /\ base'.flags = base.flags
      /\ base'.activequeues = base.activequeues
      /\ base'.active_later_queue = base.active_later_queue
      /\ base'.event_count = base.event_count
      /\ base'.event_count_active = base.event_count_active
      /\ base'.is_notify_pending = base.is_notify_pending /\ base'.eventfd = base.eventfd
      /\ base'.running_loop = base.running_loop /\ base'.current_event = e
      /\ base'.event_running_priority = base.event_running_priority
      /\ base'.io_timeout = base.io_timeout /\ base'.event_continue = base.event_continue
  BY <1>1, <1>2, <1>3, <1>4 DEF Base
<1>6. loop' \in LoopType /\ loop'.pc = "callback"
  BY <1>1, <1>3 DEF LoopType, Calling
<1>7. e # Notify
  BY <1>2, EventsAssumption DEF IsSignal, Internal
<1>8. Fits(base', loop)
  BY <1>1, <1>5, FitsIf
<1>9. Fits(base', loop')
  BY <1>1, <1>5, <1>6, <1>7, <1>8 DEF Fits, Calling
<1>10. QED BY <1>6, <1>9, <1>5, StayMoves DEF Agrees

LEMMA SignalReturnsAgrees ==
  ASSUME Agrees(base, loop), Others(thr, ready, use), SignalReturns
  PROVE  Agrees(base', loop') /\ Others(thr', ready, use) /\ Moves(base, base', loop.count)
<1> DEFINE e == base.current_event
           pncalls == [base.pncalls EXCEPT ![e] = @ /\ base.calls = 0]
           c == [base EXCEPT !.pncalls = pncalls]
<1>1. /\ Fits(base, loop) /\ base \in Base /\ loop \in LoopType
      /\ loop.pc = "callback" /\ e \in Events /\ IsSignal(e)
  BY Before DEF SignalReturns, InCallback
<1>2. e \in All /\ e # Notify
  BY <1>1, AllIsFinite, EventsAssumption DEF Internal
<1>3. CASE base.event_break
  <2>1. Broadcast /\ Step(CallbackDone(c))
    BY <1>3 DEF SignalReturns
  <2>2. pncalls \in [All -> BOOLEAN]
    BY <1>1, <1>2 DEF Base
  <2> HIDE DEF pncalls
  <2>3. /\ c \in Base /\ c.flags = base.flags
        /\ c.activequeues = base.activequeues /\ c.active_later_queue = base.active_later_queue
        /\ c.event_count = base.event_count /\ c.event_count_active = base.event_count_active
        /\ c.is_notify_pending = base.is_notify_pending /\ c.eventfd = base.eventfd
        /\ c.running_loop = base.running_loop
        /\ c.event_running_priority = base.event_running_priority
        /\ c.io_timeout = base.io_timeout /\ c.event_continue = base.event_continue
    BY <1>1, <2>2 DEF Base
  <2> HIDE DEF c
  <2>4. Agrees(CallbackDone(c).b, CallbackDone(c).l) /\ Moves(base, CallbackDone(c).b, loop.count)
    BY <1>1, <1>2, <2>3, IsReturned
  <2>5. QED BY <2>1, <2>4, BroadcastWakes DEF Step
<1>4. CASE ~base.event_break
  <2>1. loop' = [loop EXCEPT !.pc = "calls"] /\ UNCHANGED <<base, thr>>
    BY <1>4 DEF SignalReturns
  <2>2. loop' \in LoopType /\ loop'.pc = "calls"
    BY <1>1, <2>1 DEF LoopType, Calling
  <2>3. Fits(base, loop')
    BY <1>1, <2>2 DEF Fits, Calling
  <2>4. QED BY <2>1, <2>2, <2>3, StayMoves DEF Agrees
<1>5. QED BY <1>3, <1>4

LEMMA DrainReadAgrees ==
  ASSUME Agrees(base, loop), DrainRead
  PROVE  Agrees(base', loop') /\ Moves(base, base', loop.count)
<1>1. /\ Fits(base, loop) /\ Sound(base) /\ base \in Base /\ loop \in LoopType
      /\ loop.pc = "callback" /\ base.current_event = Notify
      /\ base' = [base EXCEPT !.eventfd = 0] /\ loop' = [loop EXCEPT !.pc = "drained"]
  BY Before DEF DrainRead
<1>2. base.eventfd = 1 /\ base.is_notify_pending /\ ~Has(base, Notify, "ACTIVE")
  BY <1>1 DEF Fits
<1>3. /\ base' \in Base /\ base'.flags = base.flags
      /\ base'.activequeues = base.activequeues
      /\ base'.active_later_queue = base.active_later_queue
      /\ base'.event_count = base.event_count
      /\ base'.event_count_active = base.event_count_active
      /\ base'.is_notify_pending = base.is_notify_pending /\ base'.eventfd = 0
      /\ base'.running_loop = base.running_loop /\ base'.current_event = base.current_event
      /\ base'.event_running_priority = base.event_running_priority
      /\ base'.io_timeout = base.io_timeout /\ base'.event_continue = base.event_continue
  BY <1>1 DEF Base
<1>4. Sound(base')
  BY <1>1, <1>2, <1>3, SoundIf DEF Sound
<1>5. loop' \in LoopType /\ loop'.pc = "drained"
  BY <1>1 DEF LoopType, Calling
<1>6. Fits(base', loop')
  BY <1>1, <1>2, <1>3, <1>4, <1>5 DEF Fits, Calling, Has
<1>7. QED BY <1>5, <1>6, <1>3, StayMoves DEF Agrees

LEMMA DrainClearAgrees ==
  ASSUME Agrees(base, loop), DrainClear
  PROVE  Agrees(base', loop') /\ Moves(base, base', loop.count)
<1>1. /\ Fits(base, loop) /\ Sound(base) /\ base \in Base /\ loop \in LoopType
      /\ loop.pc = "drained"
      /\ base' = [base EXCEPT !.is_notify_pending = FALSE]
      /\ loop' = [loop EXCEPT !.pc = "returning"]
  BY Before DEF DrainClear
<1>2. base.eventfd = 0 /\ base.current_event = Notify /\ ~Has(base, Notify, "ACTIVE")
  BY <1>1 DEF Fits
<1>3. /\ base' \in Base /\ base'.flags = base.flags
      /\ base'.activequeues = base.activequeues
      /\ base'.active_later_queue = base.active_later_queue
      /\ base'.event_count = base.event_count
      /\ base'.event_count_active = base.event_count_active
      /\ ~base'.is_notify_pending /\ base'.eventfd = 0
      /\ base'.running_loop = base.running_loop /\ base'.current_event = base.current_event
      /\ base'.event_running_priority = base.event_running_priority
      /\ base'.io_timeout = base.io_timeout /\ base'.event_continue = base.event_continue
  BY <1>1, <1>2, ZenonT(40) DEF Base
<1>4. Sound(base')
  BY <1>1, <1>2, <1>3, SoundIf DEF Sound
<1>5. loop' \in LoopType /\ loop'.pc = "returning"
  BY <1>1 DEF LoopType, Calling
<1>6. Fits(base', loop')
  BY <1>1, <1>2, <1>3, <1>4, <1>5 DEF Fits, Calling, Has
<1>7. QED BY <1>5, <1>6, <1>3, StayMoves DEF Agrees

LEMMA EvsigReadAgrees ==
  ASSUME Agrees(base, loop), EvsigRead
  PROVE  Agrees(base', loop') /\ Moves(base, base', loop.count)
<1>1. /\ Fits(base, loop) /\ base \in Base /\ loop \in LoopType
      /\ loop.pc = "callback" /\ base.current_event = Evsig
      /\ base' = [base EXCEPT !.raised = 0]
      /\ loop' = [loop EXCEPT !.pc = "caught", !.left = base.raised]
  BY Before DEF EvsigRead
<1>2. base.raised \in Nat /\ 0 \in 0 .. MaxRaised
  BY <1>1, EventsAssumption DEF Base
<1>3. /\ base' \in Base /\ base'.flags = base.flags
      /\ base'.activequeues = base.activequeues
      /\ base'.active_later_queue = base.active_later_queue
      /\ base'.event_count = base.event_count
      /\ base'.event_count_active = base.event_count_active
      /\ base'.is_notify_pending = base.is_notify_pending /\ base'.eventfd = base.eventfd
      /\ base'.running_loop = base.running_loop /\ base'.current_event = base.current_event
      /\ base'.event_running_priority = base.event_running_priority
      /\ base'.io_timeout = base.io_timeout /\ base'.event_continue = base.event_continue
  BY <1>1, <1>2 DEF Base
<1>4. Fits(base', loop)
  BY <1>1, <1>3, FitsIf
<1>5. loop' \in LoopType /\ loop'.pc = "caught" /\ loop'.left # Forever
  <2>1. base.raised \in Nat \cup {Forever} /\ base.raised # Forever
    BY <1>2 DEF Forever
  <2>2. QED BY <1>1, <2>1 DEF LoopType, Calling
<1>6. Fits(base', loop')
  BY <1>1, <1>3, <1>4, <1>5 DEF Fits, Calling
<1>7. QED BY <1>5, <1>6, <1>3, StayMoves DEF Agrees

LEMMA EvsigActivateAgrees ==
  ASSUME Agrees(base, loop), EvsigActivate
  PROVE  Agrees(base', loop') /\ Moves(base, base', loop.count)
<1> DEFINE S == {e \in Events : IsSignal(e) /\ Has(base, e, "INSERTED")}
<1>1. /\ Fits(base, loop) /\ Sound(base) /\ base \in Base /\ loop \in LoopType
      /\ loop.pc = "caught"
      /\ loop' = [loop EXCEPT !.pc = "returning", !.left = 0]
  BY Before DEF EvsigActivate
<1>2. PICK order \in SetToSeqs(S) : base' = evmap_signal_active_(base, loop.left, order)
  BY DEF EvsigActivate
<1>3. order \in Seq(Events) /\ \A i \in 1 .. Len(order) : order[i] \in S
  <2>1. IsFiniteSet(S)
    BY EventsAssumption, FS_Subset
  <2>2. order \in Seq(S) /\ \A i \in 1 .. Len(order) : order[i] \in S
    <3> HIDE DEF S
    <3>1. QED BY <2>1, OrderLists
  <2>3. QED BY <2>2
<1>4. loop.left \in Nat
  BY <1>1 DEF Fits, LoopType
<1>5. /\ Serves(base, base', LoopThread) /\ (Ranked(base) => Ranked(base'))
      /\ (\A i \in 1 .. Len(order) : IsSignal(order[i]) /\ Has(base, order[i], "INSERTED"))
           => Stirs(base, base')
  BY <1>1, <1>2, <1>3, <1>4, CaughtServe
<1>6. Agrees(base', loop)
  BY <1>1, <1>5, CallAgrees
<1>7. loop' \in LoopType /\ loop'.pc = "returning"
  BY <1>1 DEF LoopType, Calling
<1>8. Fits(base', loop')
  BY <1>1, <1>6, <1>7 DEF Fits, Agrees, Calling
<1>9. Stirs(base, base')
  BY <1>3, <1>5
<1>10. base'.current_event = base.current_event /\ base'.current_event \notin Events
  BY <1>1, <1>5, EventsAssumption DEF Fits, Serves, Same, Internal
<1>11. Moves(base, base', loop.count)
  BY <1>5, <1>9, <1>10, StirsGoes, StirsRecalls DEF Moves, Lives
<1>12. QED BY <1>7, <1>8, <1>11 DEF Agrees

LEMMA InternalReturnsAgrees ==
  ASSUME Agrees(base, loop), InternalReturns
  PROVE  Agrees(base', loop') /\ Moves(base, base', loop.count)
<1>1. base \in Base /\ loop.pc = "returning" /\ Step(CallbackDone(base))
  BY Before DEF InternalReturns
<1>2. QED BY <1>1, IsReturned DEF Step


(***************************************************************************)
(* The calls of the program.                                               *)
(***************************************************************************)
LEMMA CanCallIs ==
  ASSUME NEW t, CanCall(t)
  PROVE  t = LoopThread => loop.pc # "wait"
BY DEF CanCall, InCallback

\* Activation, quiet or noticed.
LEMMA ActivationAgrees ==
  ASSUME NEW b, NEW l, Agrees(b, l), NEW e \in Events, NEW c, NEW t,
         Activates(b, c, t, e), t = LoopThread => l.pc # "wait"
  PROVE  Agrees(c, l)
<1>1. Serves(b, c, t) /\ Noticed(b, c, t)
  BY ActivatesServes
<1>2. Sound(b)
  BY DEF Agrees, Fits
<1>3. Quiet(b, c) => Calmer(b, c)
  BY <1>2, QuietCalmer DEF Quiet
<1>4. t # LoopThread /\ b.running_loop /\ ~b.is_notify_pending
        => c.eventfd = 1 \/ Calmer(b, c)
  BY <1>1, <1>3 DEF Noticed
<1>5. QED BY <1>1, <1>4, CallAgrees

\* event_add adds the event, and takes back at most a call for its old timeout.
LEMMA AddMoves ==
  ASSUME NEW b, Sound(b), NEW c, NEW t, NEW e \in Events, NEW tv, NEW n,
         Serves(b, c, t), Adds(b, c, e, tv, FALSE), Interest[e] # {} \/ Delays[e] # {},
         Interest[e] # {} \/ tv # None, e \in Lasting => tv # 0
  PROVE  Moves(b, c, n)
<1>1. /\ c.current_event = b.current_event
      /\ c.event_running_priority = b.event_running_priority
  BY DEF Serves, Same
<1>2. e \notin Deferred /\ e \in All
  BY EventsAssumption, AllIsFinite
<1>3. /\ \A x \in Events \ {e} : c.flags[x] = b.flags[x]
      /\ \A x \in All : Has(c, x, "ACTIVE") => Has(b, x, "ACTIVE")
      /\ Queued(c, e) => Queued(b, e)
      /\ c.flags[e] # {}
  BY <1>2 DEF Adds, Queued
<1>4. b.io_timeout \in [All -> Nat]
  BY DEF Sound, Base
<1>5. \A x \in Events \ {e} : c.io_timeout[x] = b.io_timeout[x]
  BY <1>4, AllIsFinite DEF Adds
<1>6. Ranked(b) => Ranked(c)
  BY <1>1, <1>3 DEF Adds, Ranked, Foremost
<1>7. ASSUME Recalls(b), e \in Lasting
      PROVE  /\ Has(c, e, "TIMEOUT") => c.io_timeout[e] # 0
             /\ Queued(c, e) => Has(c, e, "INSERTED") \/ c.io_timeout[e] # 0
  <2>1. /\ Has(b, e, "TIMEOUT") => b.io_timeout[e] # 0
        /\ Queued(b, e) => Has(b, e, "INSERTED") \/ b.io_timeout[e] # 0
    BY <1>7 DEF Recalls, Remembered
  <2>2. e \in Persist /\ ~IsSignal(e)
    BY <1>7 DEF Lasting
  <2>3. CASE tv = None
    <3>1. /\ c.io_timeout = b.io_timeout
          /\ Has(c, e, "TIMEOUT") <=> Has(b, e, "TIMEOUT")
          /\ Has(b, e, "INSERTED") => Has(c, e, "INSERTED")
      BY <2>3 DEF Adds
    <3>2. QED BY <2>1, <3>1, <1>3
  <2>4. CASE tv # None
    <3>1. c.io_timeout[e] = tv
      BY <2>2, <2>4, <1>2, <1>4 DEF Adds
    <3>2. QED BY <1>7, <3>1
  <2>5. QED BY <2>3, <2>4
<1>8. Recalls(b) => Recalls(c)
  <2> SUFFICES ASSUME Recalls(b), NEW x \in Events PROVE Remembered(c, x)
    BY DEF Recalls
  <2>1. CASE x # e
    <3>1. Remembered(b, x) /\ c.flags[x] = b.flags[x] /\ c.io_timeout[x] = b.io_timeout[x]
      BY <2>1, <1>3, <1>5 DEF Recalls
    <3>2. QED BY <3>1 DEF Remembered, Queued, Has
  <2>2. CASE x = e
    BY <2>2, <1>2, <1>7 DEF Remembered
  <2>3. QED BY <2>1, <2>2
<1>9. Called(c) = Called(b)
  BY <1>1 DEF Called
<1>10. Pending(c) = Pending(b) \cup {e}
  BY <1>3 DEF Pending
<1>11. Activated(c) \in {Activated(b), Activated(b) \ {e}}
  <2>1. \A x \in Events \ {e} : x \in Activated(c) <=> x \in Activated(b)
    BY <1>3 DEF Activated
  <2>2. e \in Activated(c) => e \in Activated(b)
    BY <1>3, ActivatedIs
  <2>3. Activated(c) \subseteq Events /\ Activated(b) \subseteq Events
    BY DEF Activated
  <2>4. QED BY <2>1, <2>2, <2>3
<1>12. Lives(b, c)
  BY <1>9, <1>10, <1>11 DEF Lives
<1>13. QED BY <1>1, <1>6, <1>8, <1>12 DEF Moves

\* What is taken back from an event, all of it or the call.
LEMMA DropMoves ==
  ASSUME NEW b, Sound(b), NEW c, NEW e \in Events, NEW n, Steady(b, c),
         \A x \in All \ {e} : c.flags[x] = b.flags[x],
         c.flags[e] = {},
         c.current_event = b.current_event,
         c.event_running_priority = b.event_running_priority
  PROVE  Moves(b, c, n)
<1>1. \A x \in Events \ {e} : c.flags[x] = b.flags[x]
  BY AllIsFinite
<1>2. Recalls(b) => Recalls(c)
  <2> SUFFICES ASSUME Recalls(b), NEW x \in Events PROVE Remembered(c, x)
    BY DEF Recalls
  <2>1. CASE x # e
    <3>1. Remembered(b, x) /\ c.flags[x] = b.flags[x] /\ c.io_timeout = b.io_timeout
      BY <2>1, <1>1 DEF Recalls, Steady
    <3>2. QED BY <3>1 DEF Remembered, Queued, Has
  <2>2. CASE x = e
    BY <2>2 DEF Remembered, Queued, Has
  <2>3. QED BY <2>1, <2>2
<1>3. Ranked(b) => Ranked(c)
  <2>1. \A x \in All : Has(c, x, "ACTIVE") => Has(b, x, "ACTIVE")
    BY DEF Has
  <2>2. QED BY <2>1 DEF Ranked, Foremost, Steady
<1>4. Called(c) = Called(b)
  BY DEF Called
<1>5. Pending(c) = Pending(b) \ {e}
  BY <1>1 DEF Pending
<1>6. Activated(c) = Activated(b) \ {e}
  BY <1>1 DEF Activated
<1>7. Lives(b, c)
  BY <1>4, <1>5, <1>6 DEF Lives
<1>8. QED BY <1>2, <1>3, <1>7 DEF Moves

\* The program activates an event, or schedules a callback: after the loop
\* has compared the priorities, only where nobody looks.
LEMMA ActivateMoves ==
  ASSUME NEW b, NEW c, NEW t, NEW e \in Manual \cup Deferred, NEW n, Activates(b, c, t, e),
         \/ e \in Unnoticed
         \/ ~Has(b, e, "ACTIVE") /\ Pri[e] < b.event_running_priority => c.event_continue
  PROVE  Moves(b, c, n)
<1>1. e \in Events /\ e \in All /\ e \notin Lasting
  BY EventsAssumption, AllIsFinite DEF Lasting
<1>2. /\ Sound(c) /\ Steady(b, c) /\ \A x \in All \ {e} : c.flags[x] = b.flags[x]
      /\ \A f \in {"INSERTED", "TIMEOUT"} : Has(c, e, f) <=> Has(b, e, f)
      /\ Queued(c, e) /\ c.current_event = b.current_event
  BY DEF Activates, Except, Queued, Same
<1>3. c.flags[e] \in SUBSET Flags
  BY <1>1, <1>2 DEF Sound, Base
<1>4. \A x \in Events \ {e} : c.flags[x] = b.flags[x]
  BY <1>2, AllIsFinite
<1>5. Recalls(b) => Recalls(c)
  <2> SUFFICES ASSUME Recalls(b), NEW x \in Events PROVE Remembered(c, x)
    BY DEF Recalls
  <2>1. CASE x # e
    <3>1. Remembered(b, x) /\ c.flags[x] = b.flags[x] /\ c.io_timeout = b.io_timeout
      BY <2>1, <1>2, <1>4 DEF Recalls, Steady
    <3>2. QED BY <3>1 DEF Remembered, Queued, Has
  <2>2. CASE x = e
    <3>1. e \in Deferred => b.flags[e] \subseteq {"ACTIVE", "LATER"}
      BY <1>1 DEF Recalls, Remembered
    <3>2. e \in Deferred => "INSERTED" \notin c.flags[e] /\ "TIMEOUT" \notin c.flags[e]
      BY <3>1, <1>2 DEF Has
    <3>3. e \in Deferred => c.flags[e] \subseteq {"ACTIVE", "LATER"}
      BY <3>2, <1>3 DEF Flags
    <3>4. QED BY <2>2, <3>3, <1>1 DEF Remembered
  <2>3. QED BY <2>1, <2>2
<1>6. Ranked(b) => Ranked(c)
  BY ActivatesRanked
<1>7. Called(c) = Called(b)
  BY <1>2 DEF Called
<1>8. Pending(c) = Pending(b) \cup {e}
  <2>1. c.flags[e] # {}
    BY <1>2 DEF Queued, Has
  <2>2. QED BY <1>1, <1>4, <2>1 DEF Pending
<1>9. Activated(c) = Activated(b) \cup {e}
  <2>1. e \in Activated(c)
    BY <1>1, <1>2, ActivatedIs
  <2>2. QED BY <1>1, <1>4, <2>1 DEF Activated
<1>10. Lives(b, c)
  BY <1>7, <1>8, <1>9 DEF Lives
<1>11. QED BY <1>2, <1>5, <1>6, <1>10 DEF Moves

LEMMA WaitForAgrees ==
  ASSUME NEW b, Agrees(b, loop), Others(thr, ready, use), NEW t, NEW op, NEW e, NEW tv,
         [op |-> op, ev |-> e, tv |-> tv, woken |-> FALSE] \in Call,
         op \in {"add", "active"} => IsSignal(e), op = "active" => e \in Manual,
         WaitFor(b, t, op, e, tv)
  PROVE  /\ Agrees(base', loop) /\ Others(thr', ready, use)
         /\ base'.flags = b.flags /\ base'.io_timeout = b.io_timeout
         /\ base'.event_continue = b.event_continue
         /\ base'.current_event = b.current_event
         /\ base'.event_running_priority = b.event_running_priority
<1>1. b \in Base
  BY DEF Agrees, Fits, Sound
<1>2. base' = [b EXCEPT !.current_event_waiters = 1]
  BY DEF WaitFor
<1>3. /\ base' \in Base /\ base'.flags = b.flags
      /\ base'.activequeues = b.activequeues
      /\ base'.active_later_queue = b.active_later_queue
      /\ base'.event_count = b.event_count
      /\ base'.event_count_active = b.event_count_active
      /\ base'.is_notify_pending = b.is_notify_pending /\ base'.eventfd = b.eventfd
      /\ base'.running_loop = b.running_loop /\ base'.current_event = b.current_event
      /\ base'.event_running_priority = b.event_running_priority
      /\ base'.timeout = b.timeout /\ base'.event_break = b.event_break
      /\ base'.io_timeout = b.io_timeout /\ base'.event_continue = b.event_continue
  BY <1>1, <1>2 DEF Base
<1>4. Agrees(base', loop)
  BY <1>3, QuietAgrees
<1>5. thr' \in [Threads -> Call \cup {Idle}]
  BY DEF WaitFor, Others
<1>6. Waits(thr')
  BY DEF WaitFor, Others, Waits
<1>7. QED BY <1>3, <1>4, <1>5, <1>6 DEF Others

\* event_add gives the time relative to now.
LEMMA AddCallServes ==
  ASSUME NEW b, Sound(b), NEW e \in Events, NEW tv \in Nat \cup {None}, NEW t
  PROVE  LET c == event_add_nolock_(b, t, e, tv, FALSE)
         IN  /\ Serves(b, c, t) /\ Adds(b, c, e, tv, FALSE)
             /\ t # LoopThread /\ b.running_loop /\ ~b.is_notify_pending
                  => c.eventfd = 1 \/ Calmer(b, c)
<1> DEFINE absolute == FALSE
<1>1. absolute \in BOOLEAN /\ tv \in Int \cup {None} /\ (~absolute => tv \in Nat \cup {None})
  OBVIOUS
<1> HIDE DEF absolute
<1>2. /\ Serves(b, event_add_nolock_(b, t, e, tv, absolute), t)
      /\ Adds(b, event_add_nolock_(b, t, e, tv, absolute), e, tv, absolute)
      /\ t # LoopThread /\ b.running_loop /\ ~b.is_notify_pending
           => \/ event_add_nolock_(b, t, e, tv, absolute).eventfd = 1
              \/ Calmer(b, event_add_nolock_(b, t, e, tv, absolute))
  BY <1>1, AddServes
<1>3. QED BY <1>2 DEF absolute

LEMMA EventAddAgrees ==
  ASSUME Agrees(base, loop), Others(thr, ready, use), NEW t, NEW e \in Events,
         NEW tv \in Nat \cup {None}, event_add(t, e, tv),
         Interest[e] # {} \/ Delays[e] # {}, Interest[e] # {} \/ tv # None,
         e \in Lasting => tv # 0
  PROVE  /\ Agrees(base', loop) /\ Others(thr', ready, use)
         /\ Moves(base, base', loop.count)
<1>1. t = LoopThread => loop.pc # "wait"
  BY CanCallIs DEF event_add
<1>2. CASE IsSignal(e) /\ IsCalled(t, e)
  <2>1. WaitFor(base, t, "add", e, tv)
    BY <1>2 DEF event_add
  <2>2. [op |-> "add", ev |-> e, tv |-> tv, woken |-> FALSE] \in Call
    BY DEF Call
  <2>3. /\ Agrees(base', loop) /\ Others(thr', ready, use)
        /\ base'.flags = base.flags /\ base'.io_timeout = base.io_timeout
        /\ base'.event_continue = base.event_continue
        /\ base'.current_event = base.current_event
        /\ base'.event_running_priority = base.event_running_priority
    BY <1>2, <2>1, <2>2, WaitForAgrees
  <2>4. QED BY <2>3, StayMoves
<1>3. CASE ~(IsSignal(e) /\ IsCalled(t, e))
  <2> DEFINE c == event_add_nolock_(base, t, e, tv, FALSE)
  <2>1. base' = c /\ thr' = thr
    BY <1>3 DEF event_add, Return
  <2>2. /\ Serves(base, c, t) /\ Adds(base, c, e, tv, FALSE)
        /\ t # LoopThread /\ base.running_loop /\ ~base.is_notify_pending
             => c.eventfd = 1 \/ Calmer(base, c)
    BY Before, AddCallServes
  <2> HIDE DEF c
  <2>3. Agrees(c, loop)
    BY <1>1, <2>2, CallAgrees
  <2>4. Moves(base, c, loop.count)
    BY <2>2, Before, AddMoves
  <2>5. QED BY <2>1, <2>3, <2>4
<1>4. QED BY <1>2, <1>3

LEMMA EventDelAgrees ==
  ASSUME Agrees(base, loop), Others(thr, ready, use), NEW t, NEW e \in Events, event_del(t, e)
  PROVE  /\ Agrees(base', loop) /\ Others(thr', ready, use)
         /\ Moves(base, base', loop.count)
<1> DEFINE d == event_del_nolock_(base, t, e)
           c == Forget(d, e)
<1>1. t = LoopThread => loop.pc # "wait"
  BY CanCallIs DEF event_del
<1>2. Sound(base) /\ base \in Base
  BY Before
<1>3. /\ Serves(base, d, t) /\ Steady(base, d)
      /\ d.flags = [base.flags EXCEPT ![e] = {}] /\ d.timeout = base.timeout
      /\ d.event_count_active <= base.event_count_active
  BY <1>2, DelServes
<1>4. \/ WaitFor(c, t, "del", e, None)
      \/ base' = c /\ thr' = thr
  BY DEF event_del, Return
<1> HIDE DEF d
<1>5. /\ Serves(d, c, t) /\ Steady(d, c) /\ c.flags = d.flags
      /\ c.event_count_active = d.event_count_active
      /\ \A x \in Timers(d) : c.timeout[x] = d.timeout[x]
  <2>1. Sound(d) /\ e \in All
    BY <1>3, AllIsFinite DEF Serves
  <2>2. QED BY <2>1, ForgetServes
<1> HIDE DEF c
<1>6. Serves(base, c, t)
  BY <1>3, <1>5, ServesTwice
<1>7. Timers(c) \subseteq Timers(d) /\ Timers(d) \subseteq Timers(base)
  BY <1>2, <1>3, <1>5 DEF Timers, Has, Base
<1>8. Calmer(base, c)
  <2>1. \A x \in Timers(c) : base.timeout[x] <= c.timeout[x]
    <3>1. base.timeout \in [All -> Int]
      BY <1>2 DEF Base
    <3>2. ASSUME NEW x \in Timers(c) PROVE base.timeout[x] <= c.timeout[x]
      <4>1. c.timeout[x] = base.timeout[x] /\ x \in All
        BY <1>3, <1>5, <1>7 DEF Timers
      <4>2. QED BY <3>1, <4>1
    <3>3. QED BY <3>2
  <2>2. c.event_count_active <= base.event_count_active
    BY <1>3, <1>5
  <2>3. QED BY <1>7, <2>1, <2>2 DEF Calmer
<1>9. Agrees(c, loop)
  BY <1>1, <1>6, <1>8, CallAgrees
<1>10. [op |-> "del", ev |-> e, tv |-> None, woken |-> FALSE] \in Call
  BY DEF Call
<1>11. /\ Agrees(base', loop) /\ Others(thr', ready, use)
       /\ base'.flags = c.flags /\ base'.io_timeout = c.io_timeout
       /\ base'.event_continue = c.event_continue
       /\ base'.current_event = c.current_event
       /\ base'.event_running_priority = c.event_running_priority
  <2>1. CASE WaitFor(c, t, "del", e, None)
    BY <2>1, <1>9, <1>10, WaitForAgrees
  <2>2. CASE base' = c /\ thr' = thr
    BY <2>2, <1>9
  <2>3. QED BY <1>4, <2>1, <2>2
<1>12. Moves(base, base', loop.count)
  <2>1. Steady(base, base')
    BY <1>3, <1>5, <1>11 DEF Steady
  <2>2. base'.flags = [base.flags EXCEPT ![e] = {}] /\ base.flags \in [All -> SUBSET Flags]
    BY <1>2, <1>3, <1>5, <1>11 DEF Base
  <2>3. (\A x \in All \ {e} : base'.flags[x] = base.flags[x]) /\ base'.flags[e] = {}
    BY <2>2, AllIsFinite
  <2>4. /\ base'.current_event = base.current_event
        /\ base'.event_running_priority = base.event_running_priority
    BY <1>6, <1>11 DEF Serves, Same
  <2>5. QED BY <1>2, <2>1, <2>3, <2>4, DropMoves
<1>13. QED BY <1>11, <1>12

LEMMA EventActiveAgrees ==
  ASSUME Agrees(base, loop), Others(thr, ready, use), NEW t, NEW e \in Events,
         NEW n \in Nat, event_active(t, e, n), e \in Manual
  PROVE  /\ Agrees(base', loop) /\ Others(thr', ready, use)
         /\ Moves(base, base', loop.count)
<1>1. t = LoopThread => loop.pc # "wait"
  BY CanCallIs DEF event_active
<1>2. Sound(base) /\ base \in Base /\ e \in All /\ Interest[e] \in SUBSET Results
  BY Before, AllIsFinite, EventsAssumption DEF Results
<1>3. CASE ~Has(base, e, "ACTIVE") /\ IsSignal(e) /\ IsCalled(t, e)
  <2> DEFINE c == NoteResult(base, e, Interest[e])
  <2>1. WaitFor(c, t, "active", e, n)
    BY <1>3 DEF event_active
  <2>2. Serves(base, c, t) /\ Quiet(base, c)
    BY <1>2, NoteResultServes
  <2>3. [op |-> "active", ev |-> e, tv |-> n, woken |-> FALSE] \in Call
    BY DEF Call
  <2> HIDE DEF c
  <2>4. Calmer(base, c)
    BY <1>2, <2>2, QuietCalmer DEF Quiet
  <2>5. Agrees(c, loop)
    BY <1>1, <2>2, <2>4, CallAgrees
  <2>6. /\ Agrees(base', loop) /\ Others(thr', ready, use)
        /\ base'.flags = c.flags /\ base'.io_timeout = c.io_timeout
        /\ base'.event_continue = c.event_continue
        /\ base'.current_event = c.current_event
        /\ base'.event_running_priority = c.event_running_priority
    BY <1>3, <2>1, <2>3, <2>5, WaitForAgrees
  <2>7. QED BY <2>2, <2>6, StayMoves DEF Quiet, Steady, Serves, Same
<1>4. CASE ~(~Has(base, e, "ACTIVE") /\ IsSignal(e) /\ IsCalled(t, e))
  <2> DEFINE c == event_active_nolock_(base, t, e, Interest[e], n)
  <2>1. base' = c /\ thr' = thr
    BY <1>4 DEF event_active, Return
  <2>2. /\ Activates(base, c, t, e)
        /\ ~Has(base, e, "ACTIVE") /\ Pri[e] < base.event_running_priority
             => c.event_continue
    BY <1>2, ActiveActivates
  <2> HIDE DEF c
  <2>3. Agrees(c, loop)
    BY <1>1, <2>2, ActivationAgrees
  <2>4. Moves(base, c, loop.count)
    BY <2>2, ActivateMoves
  <2>5. QED BY <2>1, <2>3, <2>4
<1>5. QED BY <1>3, <1>4

LEMMA ScheduleAgrees ==
  ASSUME Agrees(base, loop), NEW t, NEW e \in Deferred, schedule(t, e)
  PROVE  Agrees(base', loop) /\ thr' = thr /\ Moves(base, base', loop.count)
<1> DEFINE c == event_deferred_cb_schedule_(base, t, e)
<1>1. t = LoopThread => loop.pc # "wait"
  BY CanCallIs DEF schedule
<1>2. base' = c /\ thr' = thr
  BY DEF schedule, Return
<1>3. Activates(base, c, t, e) /\ e \in Events /\ e \in Unnoticed
  BY Before, ScheduleActivates, EventsAssumption DEF Unnoticed
<1> HIDE DEF c
<1>4. Moves(base, c, loop.count)
  BY <1>3, ActivateMoves
<1>5. QED BY <1>1, <1>2, <1>3, <1>4, ActivationAgrees

LEMMA CancelAgrees ==
  ASSUME Agrees(base, loop), NEW t, NEW e \in Deferred, cancel(t, e)
  PROVE  Agrees(base', loop) /\ thr' = thr /\ Moves(base, base', loop.count)
<1>1. t = LoopThread => loop.pc # "wait"
  BY CanCallIs DEF cancel
<1>2. Sound(base) /\ base \in Base /\ e \in Events /\ e \in All /\ e # Notify /\ Notify \in All
  BY Before, AllIsFinite, EventsAssumption DEF Internal
<1>3. thr' = thr
  BY DEF cancel, Return
<1>4. \/ base' = event_queue_remove_active(base, e) /\ Has(base, e, "ACTIVE")
      \/ base' = event_queue_remove_active_later(base, e) /\ Has(base, e, "LATER")
      \/ base' = base
  BY DEF cancel, Return
<1>5. CASE base' = base
  BY <1>3, <1>5, StayMoves
<1>6. ASSUME NEW f \in {"ACTIVE", "LATER"}, Has(base, e, f), Sound(base'), Rest(base, base'),
             base'.flags = [base.flags EXCEPT ![e] = @ \ {f}],
             base'.event_count_active = base.event_count_active - 1
      PROVE  Agrees(base', loop) /\ Moves(base, base', loop.count)
  <2>1. base.flags \in [All -> SUBSET Flags] /\ base.timeout \in [All -> Int]
        /\ base.event_count_active \in Int
    BY <1>2 DEF Base
  <2>2. base'.flags[Notify] = base.flags[Notify]
    BY <1>2, <1>6, <2>1
  <2>3. Serves(base, base', t)
    BY <1>6, <2>2, RestServes
  <2>4. Timers(base') \subseteq Timers(base)
    BY <1>6, <2>1 DEF Timers, Has
  <2>5. Calmer(base, base')
    <3>1. \A x \in Timers(base') : base.timeout[x] <= base'.timeout[x]
      BY <1>6, <2>1 DEF Rest, Timers
    <3>2. base'.event_count_active <= base.event_count_active
      BY <1>6, <2>1
    <3>3. QED BY <2>4, <3>1, <3>2 DEF Calmer
  <2>6. Agrees(base', loop)
    BY <1>1, <2>3, <2>5, CallAgrees
  <2>7. ASSUME Recalls(base)
        PROVE  Moves(base, base', loop.count)
    <3>1. base.flags[e] \subseteq {"ACTIVE", "LATER"}
      BY <1>2, <2>7 DEF Recalls, Remembered
    <3>2. ~({"ACTIVE", "LATER"} \subseteq base.flags[e])
      BY <1>2, AssertOk DEF Sound
    <3>3. base'.flags[e] = {}
      BY <1>2, <1>6, <2>1, <3>1, <3>2 DEF Has
    <3>4. \A x \in All \ {e} : base'.flags[x] = base.flags[x]
      BY <1>2, <1>6, <2>1
    <3>5. /\ Steady(base, base') /\ base'.current_event = base.current_event
          /\ base'.event_running_priority = base.event_running_priority
      BY <1>6 DEF Rest, Same, Steady
    <3>6. QED BY <1>2, <3>3, <3>4, <3>5, DropMoves
  <2>8. QED BY <2>6, <2>7 DEF Moves
<1>7. CASE base' = event_queue_remove_active(base, e) /\ Has(base, e, "ACTIVE")
  <2>1. /\ Sound(base') /\ Rest(base, base')
        /\ base'.flags = [base.flags EXCEPT ![e] = @ \ {"ACTIVE"}]
        /\ base'.event_count_active = base.event_count_active - 1
    BY <1>2, <1>7, RemoveActive
  <2>2. QED BY <1>3, <1>6, <1>7, <2>1
<1>8. CASE base' = event_queue_remove_active_later(base, e) /\ Has(base, e, "LATER")
  <2>1. /\ Sound(base') /\ Rest(base, base')
        /\ base'.flags = [base.flags EXCEPT ![e] = @ \ {"LATER"}]
        /\ base'.event_count_active = base.event_count_active - 1
    BY <1>2, <1>8, RemoveLater
  <2>2. QED BY <1>3, <1>6, <1>8, <2>1
<1>9. QED BY <1>4, <1>5, <1>7, <1>8

LEMMA LoopbreakAgrees ==
  ASSUME Agrees(base, loop), NEW t, event_base_loopbreak(t)
  PROVE  Agrees(base', loop) /\ thr' = thr /\ Moves(base, base', loop.count)
<1> DEFINE b == [base EXCEPT !.event_break = TRUE]
           c == evthread_notify_base(b, t)
<1>1. t = LoopThread => loop.pc # "wait"
  BY CanCallIs DEF event_base_loopbreak
<1>2. base' = c /\ thr' = thr
  BY DEF event_base_loopbreak, Return
<1>3. base \in Base /\ Fits(base, loop)
  BY Before
<1>4. /\ b \in Base /\ b.flags = base.flags
      /\ b.activequeues = base.activequeues /\ b.active_later_queue = base.active_later_queue
      /\ b.event_count = base.event_count /\ b.event_count_active = base.event_count_active
      /\ b.is_notify_pending = base.is_notify_pending /\ b.eventfd = base.eventfd
      /\ b.running_loop = base.running_loop /\ b.current_event = base.current_event
      /\ b.event_running_priority = base.event_running_priority
      /\ b.io_timeout = base.io_timeout /\ b.event_continue = base.event_continue
  BY <1>3 DEF Base
<1> HIDE DEF b
<1>5. Fits(b, loop) /\ Sound(b)
  <2>1. Fits(b, loop)
    BY <1>3, <1>4, FitsIf
  <2>2. QED BY <2>1 DEF Fits
<1>6. /\ Serves(b, c, t) /\ Steady(b, c) /\ c.flags = b.flags
      /\ t # LoopThread /\ b.running_loop /\ ~b.is_notify_pending => c.eventfd = 1
  BY <1>5, NotifyServes
<1> HIDE DEF c
<1>7. Fits(c, loop)
  BY <1>5, <1>6, ServesFits
<1>8. loop.pc = "wait" => c.eventfd = 1
  BY <1>1, <1>5, <1>6 DEF Fits, Serves, Woken
<1>9. loop.pc = "wait" => Sleeps(c, loop.left)
  BY <1>8 DEF Sleeps
<1>10. Moves(base, c, loop.count)
  BY <1>4, <1>6, StayMoves DEF Serves, Same, Steady
<1>11. QED BY <1>2, <1>7, <1>9, <1>10 DEF Agrees

LEMMA LoopcontinueAgrees ==
  ASSUME Agrees(base, loop), NEW t, event_base_loopcontinue(t)
  PROVE  Agrees(base', loop) /\ thr' = thr /\ Moves(base, base', loop.count)
<1> DEFINE b == [base EXCEPT !.event_continue = TRUE]
           c == evthread_notify_base(b, t)
<1>1. t = LoopThread => loop.pc # "wait"
  BY CanCallIs DEF event_base_loopcontinue
<1>2. base' = c /\ thr' = thr
  BY DEF event_base_loopcontinue, Return
<1>3. base \in Base
  BY Before
<1>4. /\ b \in Base /\ b.flags = base.flags
      /\ b.activequeues = base.activequeues /\ b.active_later_queue = base.active_later_queue
      /\ b.event_count = base.event_count /\ b.event_count_active = base.event_count_active
      /\ b.is_notify_pending = base.is_notify_pending /\ b.eventfd = base.eventfd
      /\ b.running_loop = base.running_loop /\ b.current_event = base.current_event
      /\ b.event_running_priority = base.event_running_priority
      /\ b.timeout = base.timeout /\ b.event_break = base.event_break
      /\ b.io_timeout = base.io_timeout /\ b.event_continue
  BY <1>3 DEF Base
<1> HIDE DEF b
<1>5. Agrees(b, loop) /\ Sound(b)
  <2>1. Agrees(b, loop)
    BY <1>4, QuietAgrees
  <2>2. QED BY <2>1 DEF Agrees, Fits
<1>6. /\ Serves(b, c, t) /\ Steady(b, c) /\ c.flags = b.flags
      /\ t # LoopThread /\ b.running_loop /\ ~b.is_notify_pending => c.eventfd = 1
  BY <1>5, NotifyServes
<1> HIDE DEF c
<1>7. Moves(base, c, loop.count)
  BY <1>4, <1>6, StayMoves DEF Serves, Same, Steady
<1>8. QED BY <1>1, <1>2, <1>5, <1>6, <1>7, CallAgrees

LEMMA CallsAgree ==
  ASSUME Agrees(base, loop), Others(thr, ready, use), NEW t, Calls(t)
  PROVE  /\ Agrees(base', loop') /\ Others(thr', ready', use')
         /\ Moves(base, base', loop.count)
<1>1. use \subseteq Events /\ Delays \in [Events -> SUBSET Nat]
  BY EventsAssumption DEF Others
<1>2. ASSUME NEW e \in use, NEW tv \in Delays[e], event_add(t, e, tv)
      PROVE  /\ Agrees(base', loop') /\ Others(thr', ready', use')
             /\ Moves(base, base', loop.count)
  <2>1. e \in Events /\ tv \in Nat /\ tv # None /\ UNCHANGED <<loop, ready, use>>
    BY <1>1, <1>2, EventsAssumption DEF event_add
  <2>2. e \in Lasting => tv # 0
    BY <1>2 DEF Lasting
  <2>3. QED BY <1>2, <2>1, <2>2, EventAddAgrees
<1>3. ASSUME NEW e \in use, Interest[e] # {}, event_add(t, e, None)
      PROVE  /\ Agrees(base', loop') /\ Others(thr', ready', use')
             /\ Moves(base, base', loop.count)
  <2>1. /\ e \in Events /\ None \in Nat \cup {None} /\ None # 0
        /\ UNCHANGED <<loop, ready, use>>
    BY <1>1, <1>3, EventsAssumption DEF event_add
  <2>2. QED BY <1>3, <2>1, EventAddAgrees
<1>4. ASSUME NEW e \in use, event_del(t, e)
      PROVE  /\ Agrees(base', loop') /\ Others(thr', ready', use')
             /\ Moves(base, base', loop.count)
  <2>1. e \in Events /\ UNCHANGED <<loop, ready, use>>
    BY <1>1, <1>4 DEF event_del
  <2>2. QED BY <1>4, <2>1, EventDelAgrees
<1>5. ASSUME NEW e \in use \cap Manual, event_active(t, e, 1)
      PROVE  /\ Agrees(base', loop') /\ Others(thr', ready', use')
             /\ Moves(base, base', loop.count)
  <2>1. e \in Events /\ 1 \in Nat /\ UNCHANGED <<loop, ready, use>>
    BY <1>1, <1>5 DEF event_active
  <2>2. QED BY <1>5, <2>1, EventActiveAgrees
<1>6. ASSUME NEW e \in use \cap Deferred, schedule(t, e) \/ cancel(t, e)
      PROVE  /\ Agrees(base', loop') /\ Others(thr', ready', use')
             /\ Moves(base, base', loop.count)
  <2>1. e \in Deferred /\ UNCHANGED <<loop, ready, use>>
    BY <1>6 DEF schedule, cancel
  <2>2. Agrees(base', loop) /\ thr' = thr /\ Moves(base, base', loop.count)
    BY <1>6, <2>1, ScheduleAgrees, CancelAgrees
  <2>3. QED BY <2>1, <2>2
<1>7. ASSUME event_base_loopbreak(t) \/ event_base_loopcontinue(t)
      PROVE  /\ Agrees(base', loop') /\ Others(thr', ready', use')
             /\ Moves(base, base', loop.count)
  <2>1. UNCHANGED <<loop, ready, use>>
    BY <1>7 DEF event_base_loopbreak, event_base_loopcontinue
  <2>2. Agrees(base', loop) /\ thr' = thr /\ Moves(base, base', loop.count)
    BY <1>7, LoopbreakAgrees, LoopcontinueAgrees
  <2>3. QED BY <2>1, <2>2
<1>8. QED BY <1>2, <1>3, <1>4, <1>5, <1>6, <1>7 DEF Calls

LEMMA ResumeAgrees ==
  ASSUME Agrees(base, loop), Others(thr, ready, use), NEW t \in Threads, Resume(t)
  PROVE  /\ Agrees(base', loop) /\ Others(thr', ready, use)
         /\ Moves(base, base', loop.count)
<1> DEFINE w == thr[t]
<1>1. t # LoopThread
  BY EventsAssumption
<1>2. w \in Call
  BY DEF Others, Resume
<1>3. Others(thr', ready, use)
  <2>1. thr' = [thr EXCEPT ![t] = Idle] /\ thr \in [Threads -> Call \cup {Idle}] /\ Waits(thr)
    BY DEF Others, Resume
  <2>2. Waits(thr')
    BY <2>1 DEF Waits, Idle
  <2>3. QED BY <2>1, <2>2 DEF Others
<1>4. base' = CASE w.op = "add" -> event_add_nolock_(base, t, w.ev, w.tv, FALSE)
                [] w.op = "active" -> Activate(base, t, w.ev, w.tv)
                [] OTHER -> base
  BY DEF Resume
<1>10. /\ w.op \in {"add", "active"} => IsSignal(w.ev)
       /\ w.op = "active" => w.ev \in Manual
  BY DEF Others, Waits
<1> HIDE DEF w
<1>5. /\ w.ev \in Events
      /\ w.op \in {"add", "del", "active"}
      /\ w.op = "add" => w.tv \in Nat \cup {None}
      /\ w.op = "active" => w.tv \in Nat
  BY <1>2 DEF Call
<1>6. CASE w.op = "add"
  <2> DEFINE c == event_add_nolock_(base, t, w.ev, w.tv, FALSE)
  <2>1. base' = c
    BY <1>4, <1>6
  <2>2. /\ Serves(base, c, t) /\ Adds(base, c, w.ev, w.tv, FALSE)
        /\ t # LoopThread /\ base.running_loop /\ ~base.is_notify_pending
             => c.eventfd = 1 \/ Calmer(base, c)
    BY <1>5, <1>6, Before, AddCallServes
  <2> HIDE DEF c
  <2>3. Agrees(c, loop)
    BY <1>1, <2>2, CallAgrees
  <2>4. Moves(base, c, loop.count)
    <3>1. Interest[w.ev] # {} /\ w.ev \notin Lasting
      BY <1>6, <1>10 DEF IsSignal, Lasting
    <3>2. QED BY <1>5, <2>2, <3>1, Before, AddMoves
  <2>5. QED BY <1>3, <2>1, <2>3, <2>4 DEF Resume
<1>7. CASE w.op = "active"
  <2> DEFINE c == Activate(base, t, w.ev, w.tv)
  <2>1. base' = c
    BY <1>4, <1>7
  <2>2. Activates(base, c, t, w.ev)
    BY <1>5, <1>7, Before, AllIsFinite, ActivateActivates
  <2> HIDE DEF c
  <2>3. Agrees(c, loop)
    BY <1>1, <1>5, <2>2, ActivationAgrees
  <2>4. Moves(base, c, loop.count)
    <3>1. w.ev \in Manual /\ w.ev \in Unnoticed
      BY <1>7, <1>10 DEF Unnoticed
    <3>2. QED BY <2>2, <3>1, ActivateMoves
  <2>5. QED BY <1>3, <2>1, <2>3, <2>4 DEF Resume
<1>8. CASE w.op = "del"
  <2>1. base' = base
    BY <1>4, <1>8
  <2>2. QED BY <1>3, <2>1, StayMoves DEF Resume
<1>9. QED BY <1>5, <1>6, <1>7, <1>8

LEMMA SpuriousWakeupAgrees ==
  ASSUME Others(thr, ready, use), NEW t \in Threads, SpuriousWakeup(t)
  PROVE  Others(thr', ready, use)
<1>1. thr[t] \in Call
  BY DEF Others, SpuriousWakeup
<1>2. [thr[t] EXCEPT !.woken = TRUE] \in Call
  BY <1>1 DEF Call
<1>3. \A x \in Threads : thr'[x].op = thr[x].op /\ thr'[x].ev = thr[x].ev
  <2>1. [thr[t] EXCEPT !.woken = TRUE].op = thr[t].op /\ [thr[t] EXCEPT !.woken = TRUE].ev = thr[t].ev
    BY <1>1 DEF Call
  <2>2. QED BY <2>1 DEF Others, SpuriousWakeup
<1>4. Waits(thr')
  BY <1>3 DEF Others, Waits
<1>5. QED BY <1>2, <1>4 DEF Others, SpuriousWakeup

(***************************************************************************)
(* The rest of the world.                                                  *)
(***************************************************************************)
LEMMA ReadinessAgrees ==
  ASSUME Others(thr, ready, use), Consume \/ \E fd \in Fds : BecomesReady(fd)
  PROVE  Others(thr', ready', use')
<1>1. ready \subseteq Fds \ {Fd[Notify]} /\ use \subseteq Events
  BY DEF Others
<1>2. CASE Consume
  BY <1>1, <1>2 DEF Consume, Others
<1>3. ASSUME NEW fd \in Fds, BecomesReady(fd)
      PROVE  Others(thr', ready', use')
  <2>1. fd # Fd[Notify]
    <3>1. PICK e \in use : Fd[e] = fd
      BY <1>3 DEF BecomesReady
    <3>2. e \in All \ {Notify}
      BY <1>1, AllIsFinite, EventsAssumption DEF Internal
    <3>3. QED BY <3>1, <3>2, EventsAssumption
  <2>2. QED BY <1>1, <1>3, <2>1 DEF BecomesReady, Others
<1>4. QED BY <1>2, <1>3

LEMMA RaiseAgrees ==
  ASSUME Agrees(base, loop), Raise
  PROVE  Agrees(base', loop) /\ Moves(base, base', loop.count)
<1> DEFINE n == base.raised + 1
<1>1. base \in Base
  BY Before
<1>2. base' = [base EXCEPT !.raised = n]
  BY DEF Raise
<1>3. n \in 0 .. MaxRaised
  <2>1. base.raised \in 0 .. MaxRaised
    BY <1>1 DEF Base
  <2>2. MaxRaised \in Nat /\ base.raised < MaxRaised
    BY EventsAssumption DEF Raise
  <2>3. QED BY <2>1, <2>2
<1> HIDE DEF n
<1>4. base' \in Base
  BY <1>1, <1>2, <1>3 DEF Base
<1>5. /\ base'.flags = base.flags
      /\ base'.activequeues = base.activequeues
      /\ base'.active_later_queue = base.active_later_queue
      /\ base'.event_count = base.event_count
      /\ base'.event_count_active = base.event_count_active
      /\ base'.is_notify_pending = base.is_notify_pending /\ base'.eventfd = base.eventfd
      /\ base'.running_loop = base.running_loop /\ base'.current_event = base.current_event
      /\ base'.event_running_priority = base.event_running_priority
      /\ base'.timeout = base.timeout /\ base'.event_break = base.event_break
      /\ base'.io_timeout = base.io_timeout /\ base'.event_continue = base.event_continue
  BY <1>1, <1>2 DEF Base
<1>6. QED BY <1>4, <1>5, QuietAgrees, StayMoves

\* A loop that sleeps comes closer to its end as the timers do.
LEMMA TickAgrees ==
  ASSUME Agrees(base, loop), Tick
  PROVE  Agrees(base', loop') /\ Moves(base, base', loop.count)
<1> DEFINE timeout == [e \in All |-> IF Running(e) THEN base.timeout[e] - 1 ELSE base.timeout[e]]
           age == IF base.tv_cache = NoCache THEN NoCache ELSE base.tv_cache + 1
           left == IF loop.pc = "wait" /\ loop.left > 0 THEN loop.left - 1 ELSE loop.left
<1>1. Fits(base, loop) /\ base \in Base /\ loop \in LoopType
  BY Before
<1>2. base' = [base EXCEPT !.timeout = timeout, !.tv_cache = age]
  BY <1>1 DEF Tick, Base
<1>3. loop' = [loop EXCEPT !.left = left]
  BY <1>1 DEF Tick, LoopType
<1>4. timeout \in [All -> Int]
  BY <1>1 DEF Base
<1>5. age \in NoCache .. MaxAge
  <2>1. base.tv_cache \in NoCache .. MaxAge
    BY <1>1 DEF Base
  <2>2. base.tv_cache < MaxAge /\ MaxAge \in Nat
    BY EventsAssumption DEF Tick
  <2>3. QED BY <2>1, <2>2 DEF NoCache
<1>6. left \in Nat \cup {Forever} /\ (loop.pc # "wait" => left = loop.left)
  BY <1>1 DEF LoopType, Forever
<1>7. ASSUME NEW e \in Timers(base)
      PROVE  timeout[e] = base.timeout[e] - 1 /\ base.timeout[e] \in Int /\ e \in All
  BY <1>1 DEF Timers, Running, Base
<1> HIDE DEF timeout, age, Forever, NoCache
<1>8. /\ base' \in Base /\ base'.flags = base.flags
      /\ base'.activequeues = base.activequeues
      /\ base'.active_later_queue = base.active_later_queue
      /\ base'.event_count = base.event_count
      /\ base'.event_count_active = base.event_count_active
      /\ base'.is_notify_pending = base.is_notify_pending /\ base'.eventfd = base.eventfd
      /\ base'.running_loop = base.running_loop /\ base'.current_event = base.current_event
      /\ base'.event_running_priority = base.event_running_priority
      /\ base'.timeout = timeout /\ base'.event_break = base.event_break
      /\ base'.io_timeout = base.io_timeout /\ base'.event_continue = base.event_continue
  BY <1>1, <1>2, <1>4, <1>5 DEF Base
<1>9. Fits(base', loop)
  BY <1>1, <1>8, FitsIf
<1>10. loop' \in LoopType /\ loop'.pc = loop.pc /\ loop'.got = loop.got /\ loop'.left = left
  <2> HIDE DEF left
  <2>1. QED BY <1>1, <1>3, <1>6 DEF LoopType
<1>11. Fits(base', loop')
  BY <1>6, <1>9, <1>10 DEF Fits
<1>12. ASSUME loop.pc = "wait"
       PROVE  Sleeps(base', left)
  <2> SUFFICES ASSUME base'.eventfd = 0
               PROVE  /\ N_ACTIVE_CALLBACKS(base') > 0 => left = 0
                      /\ ~base'.event_break
                      /\ \A e \in Timers(base') :
                           left # Forever /\ left <= Max({0, timeout[e]}) + MaxAge
    BY <1>8 DEF Sleeps
  <2>1. Sleeps(base, loop.left) /\ base.eventfd = 0
    BY <1>8, <1>12 DEF Agrees
  <2>2. N_ACTIVE_CALLBACKS(base') > 0 => left = 0
    BY <1>8, <2>1 DEF Sleeps, N_ACTIVE_CALLBACKS
  <2>3. ~base'.event_break
    BY <1>8, <2>1 DEF Sleeps
  <2>4. ASSUME NEW e \in Timers(base')
        PROVE  left # Forever /\ left <= Max({0, timeout[e]}) + MaxAge
    <3>1. e \in Timers(base)
      BY <1>8 DEF Timers, Has
    <3>2. loop.left # Forever /\ loop.left <= Max({0, base.timeout[e]}) + MaxAge
      BY <2>1, <3>1 DEF Sleeps
    <3>3. loop.left \in Nat /\ MaxAge \in Nat
      BY <1>1, <3>2, EventsAssumption DEF LoopType
    <3>4. left = IF loop.left > 0 THEN loop.left - 1 ELSE loop.left
      BY <1>12
    <3> HIDE DEF left
    <3>5. timeout[e] = base.timeout[e] - 1 /\ base.timeout[e] \in Int /\ timeout[e] \in Int
      BY <1>7, <3>1
    <3>6. /\ Max({0, base.timeout[e]}) = IF 0 >= base.timeout[e] THEN 0 ELSE base.timeout[e]
          /\ Max({0, timeout[e]}) = IF 0 >= timeout[e] THEN 0 ELSE timeout[e]
      BY <3>5, MaxOfTwo
    <3>7. left \in Nat /\ left # Forever
      BY <3>3, <3>4 DEF Forever
    <3>8. left <= Max({0, timeout[e]}) + MaxAge
      BY <3>2, <3>3, <3>4, <3>5, <3>6
    <3>9. QED BY <3>7, <3>8
  <2>5. QED BY <2>2, <2>3, <2>4
<1>13. QED BY <1>8, <1>10, <1>11, <1>12, StayMoves DEF Agrees

(***************************************************************************)
(* The invariant, and what follows from it.                                *)
(***************************************************************************)
LEMMA InvInit == Init => Inv
<1> SUFFICES ASSUME Init PROVE Inv
  OBVIOUS
<1> DEFINE flags == [e \in All |-> IF e = Notify THEN {"INSERTED"} ELSE {}]
<1>1. Notify \in All /\ Notify \notin Events /\ None \notin All
  BY AllIsFinite, EventsAssumption DEF Internal
<1>2. flags \in [All -> SUBSET Flags]
  BY DEF Flags
<1>3. base.flags = flags /\ base \in Base
  <2>1. <<>> \in Seq(All) /\ {} \in SUBSET Results
    OBVIOUS
  <2>2. NoCache \in NoCache .. MaxAge /\ 0 \in 0 .. MaxRaised
    BY EventsAssumption DEF NoCache
  <2>3. [p \in Priorities |-> <<>>] \in [Priorities -> Seq(All)]
    BY <2>1
  <2>4. /\ [e \in All |-> {}] \in [All -> SUBSET Results]
        /\ [e \in All |-> 0] \in [All -> Int] /\ [e \in All |-> 0] \in [All -> Nat]
        /\ [e \in All |-> FALSE] \in [All -> BOOLEAN]
    OBVIOUS
  <2> HIDE DEF flags
  <2>5. base.flags = flags
    BY DEF Init, flags
  <2>6. QED BY <1>2, <2>1, <2>2, <2>3, <2>4, <2>5 DEF Init, Base, flags
<1>4. /\ base.activequeues = [p \in Priorities |-> <<>>] /\ base.active_later_queue = <<>>
      /\ base.event_count = 0 /\ base.event_count_active = 0
      /\ ~base.is_notify_pending /\ base.eventfd = 0 /\ ~base.running_loop
      /\ base.current_event = None /\ base.event_running_priority = -1
  BY DEF Init
<1>5. \A e \in All : flags[e] \cap {"ACTIVE", "LATER"} = {}
  OBVIOUS
<1>6. Lists(<<>>, {})
  <2>1. DOMAIN <<>> = {}
    OBVIOUS
  <2>2. QED BY <2>1 DEF Lists, IsInjective, Range
<1>7. Sound(base)
  <2>1. \A e \in All : ~({"ACTIVE", "LATER"} \subseteq flags[e])
    BY <1>5
  <2>2. \A p \in Priorities : ActiveAt(flags, p) = {}
    BY <1>5 DEF ActiveAt
  <2>3. Later(flags) = {} /\ QueuedOf(flags) = {}
    BY <1>5 DEF Later, QueuedOf
  <2>4. CountOf(flags) = 0
    <3>1. {x \in Events \X Flags : x[2] \in flags[x[1]]} = {}
      <4>1. \A e \in Events : e \in All /\ flags[e] = {}
        BY <1>1, AllIsFinite
      <4> HIDE DEF flags
      <4>2. QED BY <4>1
    <3>2. QED BY <3>1, FS_EmptySet DEF CountOf
  <2>5. Cardinality(QueuedOf(flags)) = 0
    BY <2>3, FS_EmptySet
  <2>6. \A e \in Internal : flags[e] \subseteq {"INSERTED", "ACTIVE"}
    BY AllIsFinite DEF Internal, All
  <2> HIDE DEF flags
  <2>7. event_base_assert_ok_nolock_(base)
    BY <1>3, <1>4, <1>6, <2>1, <2>2, <2>3, <2>4, <2>5, AssertOk
  <2>8. QED BY <1>3, <1>4, <2>6, <2>7 DEF Sound
<1>8. ~Has(base, Notify, "ACTIVE")
  BY <1>1, <1>3 DEF Has
<1>9. loop = [pc |-> "out", left |-> 0, count |-> 0, got |-> {}]
  BY DEF Init
<1>10. loop \in LoopType /\ loop.pc = "out"
  BY <1>9 DEF LoopType
<1>11. Fits(base, loop)
  BY <1>1, <1>4, <1>7, <1>8, <1>10 DEF Fits, Calling
<1>12. Others(thr, ready, use)
  BY EventsAssumption DEF Init, Others, Waits, Idle
<1>13. \A e \in All : base.flags[e] \cap {"ACTIVE", "LATER", "TIMEOUT"} = {}
  BY <1>3
<1>14. Recalls(base)
  <2> HIDE DEF flags
  <2>1. ASSUME NEW e \in Events
        PROVE  Remembered(base, e)
    <3>1. e \in All /\ ~Has(base, e, "TIMEOUT") /\ ~Queued(base, e)
      BY <1>13, AllIsFinite DEF Has, Queued
    <3>2. base.flags[e] = {}
      BY <1>1, <1>3, <3>1 DEF flags
    <3>3. QED BY <3>1, <3>2 DEF Remembered
  <2>2. QED BY <2>1 DEF Recalls
<1>15. Ranked(base)
  <2> HIDE DEF flags
  <2>1. \A x \in All : ~Has(base, x, "ACTIVE")
    BY <1>13 DEF Has
  <2>2. QED BY <2>1 DEF Ranked, Foremost
<1>16. QED BY <1>10, <1>11, <1>12, <1>14, <1>15, InvIs DEF Agrees

\* Every step keeps the invariant, and what it does to the events is Moves.
LEMMA StepMoves == Inv /\ [Next]_vars => Inv' /\ Moves(base, base', loop.count)
<1> SUFFICES ASSUME Inv, [Next]_vars PROVE Inv' /\ Moves(base, base', loop.count)
  OBVIOUS
<1>1. Agrees(base, loop) /\ Others(thr, ready, use) /\ Recalls(base) /\ Ranked(base)
  BY InvIs
<1>2. base' = base => Moves(base, base', loop.count)
  BY StayMoves
<1>3. /\ Agrees(base', loop') /\ Others(thr', ready', use')
      /\ Moves(base, base', loop.count)
  <2>1. CASE StartLoop
    BY <1>1, <2>1, StartLoopAgrees DEF StartLoop
  <2>2. CASE WaitReturns \/ WaitInterrupted
    BY <1>1, <1>2, <2>2, WaitReturnsAgrees DEF WaitReturns, WaitInterrupted
  <2>3. CASE Dispatch
    BY <1>1, <2>3, DispatchAgrees DEF Dispatch
  <2>4. CASE CallbackReturns
    BY <1>1, <2>4, CallbackReturnsAgrees DEF CallbackReturns
  <2>5. CASE SignalCall
    BY <1>1, <2>5, SignalCallAgrees DEF SignalCall
  <2>6. CASE SignalCount
    BY <1>1, <2>6, SignalCountAgrees DEF SignalCount
  <2>7. CASE SignalReturns
    BY <1>1, <2>7, SignalReturnsAgrees DEF SignalReturns
  <2>8. CASE DrainRead
    BY <1>1, <2>8, DrainReadAgrees DEF DrainRead
  <2>9. CASE DrainClear
    BY <1>1, <2>9, DrainClearAgrees DEF DrainClear
  <2>10. CASE EvsigRead
    BY <1>1, <2>10, EvsigReadAgrees DEF EvsigRead
  <2>11. CASE EvsigActivate
    BY <1>1, <2>11, EvsigActivateAgrees DEF EvsigActivate
  <2>12. CASE InternalReturns
    BY <1>1, <2>12, InternalReturnsAgrees DEF InternalReturns
  <2>13. ASSUME NEW t \in Threads \cup {LoopThread}, Calls(t)
         PROVE  /\ Agrees(base', loop') /\ Others(thr', ready', use')
                /\ Moves(base, base', loop.count)
    BY <1>1, <2>13, CallsAgree
  <2>14. ASSUME NEW t \in Threads, Resume(t)
         PROVE  /\ Agrees(base', loop') /\ Others(thr', ready', use')
                /\ Moves(base, base', loop.count)
    BY <1>1, <2>14, ResumeAgrees DEF Resume
  <2>15. ASSUME NEW t \in Threads, SpuriousWakeup(t)
         PROVE  /\ Agrees(base', loop') /\ Others(thr', ready', use')
                /\ Moves(base, base', loop.count)
    BY <1>1, <1>2, <2>15, SpuriousWakeupAgrees DEF SpuriousWakeup
  <2>16. CASE Consume \/ \E fd \in Fds : BecomesReady(fd)
    <3>1. UNCHANGED <<base, loop>>
      BY <2>16 DEF Consume, BecomesReady
    <3>2. QED BY <1>1, <1>2, <2>16, <3>1, ReadinessAgrees
  <2>17. CASE Raise
    BY <1>1, <2>17, RaiseAgrees DEF Raise
  <2>18. CASE Tick
    BY <1>1, <2>18, TickAgrees DEF Tick
  <2>19. CASE UNCHANGED vars
    BY <1>1, <1>2, <2>19 DEF vars
  <2>20. QED BY <2>1, <2>2, <2>3, <2>4, <2>5, <2>6, <2>7, <2>8, <2>9, <2>10, <2>11, <2>12,
                <2>13, <2>14, <2>15, <2>16, <2>17, <2>18, <2>19 DEF Next, LoopNext
<1>4. Recalls(base') /\ Ranked(base')
  BY <1>1, <1>3 DEF Moves
<1>5. QED BY <1>3, <1>4, InvIsNext

LEMMA InvStep == Inv /\ [Next]_vars => Inv'
BY StepMoves

\* The event_base stays sound: however the loop, its callbacks and the calls
\* of other threads interleave, the queues are those of the flags, the
\* counters those of the queues, and the eventfd is pending exactly when it
\* is written (event_base_assert_ok_nolock_, event.c; evthread_notify_base).
THEOREM BaseStaysSound == Spec => []BaseSound
<1>1. Spec => []Inv
  BY InvInit, InvStep, PTL DEF Spec
<1>2. Inv => BaseSound
  BY DEF Inv
<1>3. QED BY <1>1, <1>2, PTL

\* The loop never sleeps in epoll_wait over something to do: what another
\* thread adds, activates or asks for while it sleeps finds the eventfd
\* written, and no timer ends before the sleep does, but for what the
\* callbacks before it took (event_base_loop, timeout_next).
THEOREM NeverSleepsOverWork == Spec => []NoLostWakeup
<1>1. Spec => []Inv
  BY InvInit, InvStep, PTL DEF Spec
<1>2. Inv => NoLostWakeup
  BY DEF Inv
<1>3. QED BY <1>1, <1>2, PTL

\* The part of a step that EventLife tells apart is one of its steps.
LEMMA LivesOn ==
  ASSUME Lives(base, base')
  PROVE  Life!Next \/ (/\ Pending(base') = Pending(base)
                       /\ Activated(base') = Activated(base)
                       /\ Called(base') = Called(base))
<1> DEFINE e == Called(base')
           happened == Activated(base') \cup (IF e = None THEN {} ELSE {e})
<1>1. CASE Goes(base, base')
  <2>1. /\ Activated(base') \subseteq Pending(base') /\ Pending(base') \subseteq Pending(base)
        /\ e # None => e \in Pending(base)
    BY <1>1 DEF Goes, Activated, Pending
  <2>2. happened \in SUBSET Pending(base) /\ e \in Activated(base) \cup Pending(base) \cup {None}
    BY <2>1
  <2>3. e \in Events \/ e = None
    BY DEF Called
  <2>4. None \notin Events
    BY EventsAssumption DEF All
  <2>5. e # None => e \in Activated(base) \cup happened
    OBVIOUS
  <2>6. Activated(base') = (Activated(base) \cup happened) \ {e}
    <3>1. e \notin Activated(base')
      BY <1>1, <2>4 DEF Goes, Activated
    <3>2. QED BY <1>1, <3>1 DEF Goes
  <2>7. e \in Lasting => e \in Pending(base')
    BY <1>1 DEF Goes
  <2>8. e \in Events \ Persist => e \notin Pending(base')
    BY <1>1 DEF Goes
  <2>9. Pending(base') \in {Pending(base), Pending(base) \ {e}}
    BY <1>1 DEF Goes
  <2>10. Life!Loop(happened, e)
    <3>1. e = IF base'.current_event \in Events THEN base'.current_event ELSE None
      BY DEF Called
    <3> HIDE DEF e, happened
    <3>2. {x \in Events : base'.flags[x] \cap {"ACTIVE", "LATER"} # {}} =
            ({x \in Events : base.flags[x] \cap {"ACTIVE", "LATER"} # {}} \cup happened) \ {e}
      BY <2>6 DEF Activated
    <3>3. {x \in Events : base'.flags[x] # {}} \in
            {{x \in Events : base.flags[x] # {}}, {x \in Events : base.flags[x] # {}} \ {e}}
      BY <2>9 DEF Pending
    <3>4. e # None => e \in {x \in Events : base.flags[x] \cap {"ACTIVE", "LATER"} # {}}
                            \cup happened
      BY <2>5 DEF Activated
    <3>5. /\ e \in Lasting => e \in {x \in Events : base'.flags[x] # {}}
          /\ e \in Events \ Persist => e \notin {x \in Events : base'.flags[x] # {}}
      BY <2>7, <2>8 DEF Pending
    <3>6. QED BY <3>1, <3>2, <3>3, <3>4, <3>5 DEF Life!Loop, Lasting
  <2> HIDE DEF e, happened
  <2>11. /\ happened \in SUBSET {x \in Events : base.flags[x] # {}}
         /\ e \in {x \in Events : base.flags[x] \cap {"ACTIVE", "LATER"} # {}}
                   \cup {x \in Events : base.flags[x] # {}} \cup {None}
    BY <2>2 DEF Pending, Activated
  <2>12. Life!Next
    BY <2>10, <2>11 DEF Life!Next, Life!Loop
  <2>13. QED BY <2>12
<1>2. ASSUME Called(base') = Called(base),
             NEW x \in Events, Interest[x] # {} \/ Delays[x] # {},
             Pending(base') = Pending(base) \cup {x},
             Activated(base') \in {Activated(base), Activated(base) \ {x}}
      PROVE  Life!Next
  <2>1. Life!Add(x)
    BY <1>2 DEF Life!Add, Pending, Activated, Called
  <2>2. QED BY <1>2, <2>1 DEF Life!Next
<1>3. ASSUME Called(base') = Called(base), NEW x \in Events,
             Pending(base') = Pending(base) \ {x},
             Activated(base') = Activated(base) \ {x}
      PROVE  Life!Next
  <2>1. Life!Delete(x)
    BY <1>3 DEF Life!Delete, Pending, Activated, Called
  <2>2. QED BY <2>1 DEF Life!Next
<1>4. ASSUME Called(base') = Called(base), NEW x \in Manual \cup Deferred,
             Pending(base') = Pending(base) \cup {x},
             Activated(base') = Activated(base) \cup {x}
      PROVE  Life!Next
  <2>1. Life!Activate(x)
    BY <1>4 DEF Life!Activate, Pending, Activated, Called
  <2>2. QED BY <2>1 DEF Life!Next
<1>5. QED BY <1>1, <1>2, <1>3, <1>4 DEF Lives

\* libevent keeps what a program counts on (EventLife): an event is called for
\* something that happened while it was pending, never after event_del, and
\* once for each time it became active - whatever other threads add, delete and
\* activate between the steps of the loop (event.c, event_process_active).
THEOREM BaseImplementsEventLife == Spec => ImplementsEventLife
<1>1. Init => Life!Init
  <2> SUFFICES ASSUME Init PROVE Life!Init
    OBVIOUS
  <2>1. \A e \in Events : base.flags[e] = {}
    BY AllIsFinite DEF Init
  <2>2. base.current_event \notin Events
    BY EventsAssumption DEF Init, All
  <2>3. QED BY <2>1, <2>2 DEF Life!Init
<1>2. Inv /\ [Next]_vars => Life!Next \/ (/\ Pending(base') = Pending(base)
                                          /\ Activated(base') = Activated(base)
                                          /\ Called(base') = Called(base))
  <2> SUFFICES ASSUME Inv, [Next]_vars
               PROVE  Life!Next \/ (/\ Pending(base') = Pending(base)
                                    /\ Activated(base') = Activated(base)
                                    /\ Called(base') = Called(base))
    OBVIOUS
  <2>1. Moves(base, base', loop.count) /\ Recalls(base) /\ Ranked(base)
    BY StepMoves, InvIs
  <2>2. QED BY <2>1, LivesOn DEF Moves
<1>3. Inv /\ [Next]_vars =>
        [Life!Next]_<<{e \in Events : base.flags[e] # {}},
                      {e \in Events : base.flags[e] \cap {"ACTIVE", "LATER"} # {}},
                      IF base.current_event \in Events THEN base.current_event ELSE None>>
  BY <1>2 DEF Pending, Activated, Called
<1>4. Spec => []Inv
  BY InvInit, InvStep, PTL DEF Spec
<1>5. QED BY <1>1, <1>3, <1>4, PTL DEF Spec, ImplementsEventLife, Life!Spec

\* Active events of a higher priority are processed first (event.h:1447), but
\* for the two ways event.c has of not noticing one, and for loopcontinue.
THEOREM HigherStayFirst == Spec => HigherFirst
<1>1. Inv /\ [Next]_vars =>
        [/\ base'.current_event \in Events
         /\ base'.current_event # base.current_event
         /\ ~(base.event_continue /\ loop.count = 0)
         => \A p \in Priorities : p < Pri[base'.current_event] =>
              Range(base'.activequeues[p]) \subseteq Unnoticed]_vars
  <2> SUFFICES ASSUME Inv, [Next]_vars, base'.current_event \in Events,
                      base'.current_event # base.current_event,
                      ~(base.event_continue /\ loop.count = 0),
                      NEW p \in Priorities, p < Pri[base'.current_event],
                      NEW e \in Range(base'.activequeues[p])
               PROVE  e \in Unnoticed
    OBVIOUS
  <2>1. Picks(base') /\ Foremost(base')
    BY StepMoves, InvIs DEF Moves
  <2>2. Sound(base')
    BY StepMoves, InvIsNext DEF Agrees, Fits
  <2>3. Lists(base'.activequeues[p], ActiveAt(base'.flags, p))
    BY <2>2, AssertOk DEF Sound
  <2>4. e \in All /\ Has(base', e, "ACTIVE") /\ Pri[e] = p
    BY <2>3 DEF Lists, ActiveAt, Has
  <2>5. QED BY <2>1, <2>4 DEF Picks, Foremost
<1>2. Spec => []Inv
  BY InvInit, InvStep, PTL DEF Spec
<1>3. QED BY <1>1, <1>2, PTL DEF Spec, HigherFirst

===============================================================================
