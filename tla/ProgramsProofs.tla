---------------------------- MODULE ProgramsProofs ----------------------------
(***************************************************************************)
(* Proofs about the programs of MCPrograms, for any number of processes,   *)
(* writers, senders, descriptors and connections: Sound is an invariant.   *)
(* Each program has an inductive invariant of its own, stated and proved   *)
(* in its section; a step is one program's, and leaves the variables of    *)
(* the others alone.  The two servers that serve connections of the same   *)
(* kind share the lemmas on the kernel's calls.  It follows that the       *)
(* libevent server implements EchoSession and the form server FormSession, *)
(* and what a step of the poll server may answer.                          *)
(***************************************************************************)
EXTENDS MCPrograms, FiniteSetTheorems, SequenceTheorems, WellFoundedInduction, TLAPS

-------------------------------------------------------------------------------
(* sems.c.                                                                 *)

Inside == {p \in Procs : pc[p] = "in"}
\* The semaphore counts who is inside, late says how often it was set with processes
\* inside, and a process has taken its permit as often as it has returned it, or
\* once less or more.
SemInv ==
  /\ pc \in [Procs -> {"new", "p", "in", "out", "gone"}]
  /\ sem \in Nat /\ late \in Nat
  /\ adj \in [Procs -> -1 .. 1]
  /\ \A p \in Procs : adj[p] # IF pc[p] = "in" THEN -1 ELSE 1
  /\ sem + Cardinality(Inside) <= 1 + late
  /\ init => sem + Cardinality(Sems!Gains) > Cardinality(Sems!Loses)

\* A set of processes that gains or loses one, or neither.
LEMMA CountChange ==
  ASSUME NEW S \in SUBSET Procs, NEW p \in Procs
  PROVE  /\ Cardinality(S) \in Nat
         /\ p \notin S => Cardinality(S \cup {p}) = Cardinality(S) + 1
         /\ Cardinality(S \ {p}) = Cardinality(S) - IF p \in S THEN 1 ELSE 0
<1>1. IsFiniteSet(S)
  BY ProgramsAssumption, FS_Subset
<1>2. p \notin S => S \ {p} = S
  OBVIOUS
<1>3. QED BY <1>1, <1>2, FS_CardinalityType, FS_AddElement, FS_RemoveElement

\* The first state of sems.c.
LEMMA SemsInit == Sems!Init => SemInv
<1> SUFFICES ASSUME Sems!Init PROVE SemInv
  OBVIOUS
<1>1. Inside = {} /\ Sems!Gains = {} /\ Sems!Loses = {}
  BY DEF Sems!Init, Inside, Sems!Gains, Sems!Loses
<1>2. Cardinality({}) = 0
  BY FS_EmptySet
<1>3. QED BY <1>1, <1>2 DEF Sems!Init, SemInv
\* The counts of the three sets of processes, as numbers.
LEMMA SemTypes ==
  SemInv => /\ Cardinality(Inside) \in Nat /\ Cardinality(Sems!Gains) \in Nat
            /\ Cardinality(Sems!Loses) \in Nat
<1>1. Inside \subseteq Procs /\ Sems!Gains \subseteq Procs /\ Sems!Loses \subseteq Procs
  BY DEF Inside, Sems!Gains, Sems!Loses
<1>2. QED BY <1>1, ProgramsAssumption, FS_Subset, FS_CardinalityType

\* A process opens the semaphore, or makes it and sets it to 1.
LEMMA StartKeeps ==
  ASSUME SemInv, NEW p \in Procs, Sems!Start(p)
  PROVE  SemInv'
<1>1. Inside' = Inside
  BY DEF SemInv, Sems!Start, Inside
<1>2. CASE p \notin WithArgument
  <2>1. Sems!Gains' = Sems!Gains /\ Sems!Loses' = Sems!Loses
    BY <1>2 DEF Sems!Start, Sems!Gains, Sems!Loses
  <2>2. QED BY <1>1, <1>2, <2>1 DEF SemInv, Sems!Start
<1>3. CASE p \in WithArgument
  <2>1. Sems!Gains' = {} /\ Sems!Loses' = {} /\ Cardinality({}) = 0
    BY <1>3, FS_EmptySet DEF Sems!Start, Sems!sem_initial, Sems!Gains, Sems!Loses
  <2>2. Cardinality(Inside) \in Nat /\ Inside = Sems!Inside
    BY SemTypes DEF Inside, Sems!Inside
  <2>3. late' \in Nat /\ sem' = 1 /\ sem' + Cardinality(Inside) <= 1 + late'
    <3>1. CASE Inside = {}
      BY <1>3, <2>1, <2>2, <3>1 DEF SemInv, Sems!Start, Sems!sem_initial
    <3>2. CASE Inside # {}
      BY <1>3, <2>2, <3>2 DEF SemInv, Sems!Start, Sems!sem_initial
    <3>3. QED BY <3>1, <3>2
  <2>4. pc' = [pc EXCEPT ![p] = "p"] /\ adj' = [q \in Procs |-> 0] /\ pc[p] = "new"
    BY <1>3 DEF Sems!Start, Sems!sem_initial
  <2>5. QED BY <1>1, <2>1, <2>3, <2>4 DEF SemInv
<1>4. QED BY <1>2, <1>3

\* What entering the section and leaving it change of a process.
LEMMA EntersKeeps ==
  ASSUME SemInv, NEW p \in Procs, Sems!sem_p(p)
  PROVE  SemInv'
<1>1. /\ pc[p] = "p" /\ sem > 0 /\ sem' = sem - 1
      /\ adj' = [adj EXCEPT ![p] = adj[p] + 1] /\ pc' = [pc EXCEPT ![p] = "in"]
      /\ late' = late /\ init' = init /\ adj[p] \in {-1, 0}
  BY DEF SemInv, Sems!sem_p
<1>2. Inside' = Inside \cup {p} /\ p \notin Inside
  BY <1>1 DEF SemInv, Inside
<1>3. Cardinality(Inside') = Cardinality(Inside) + 1
  BY <1>2, CountChange DEF Inside
<1>4. CASE adj[p] = 0
  <2>1. /\ Sems!Gains' = Sems!Gains \cup {p} /\ p \notin Sems!Gains
        /\ Sems!Loses' = Sems!Loses
    BY <1>1, <1>4 DEF SemInv, Sems!Gains, Sems!Loses
  <2>2. Cardinality(Sems!Gains') = Cardinality(Sems!Gains) + 1
    BY <2>1, CountChange DEF Sems!Gains
  <2>3. QED BY SemTypes, <1>1, <1>3, <1>4, <2>1, <2>2 DEF SemInv
<1>5. CASE adj[p] = -1
  <2>1. /\ Sems!Loses' = Sems!Loses \ {p} /\ p \in Sems!Loses
        /\ Sems!Gains' = Sems!Gains
    BY <1>1, <1>5 DEF SemInv, Sems!Gains, Sems!Loses
  <2>2. Cardinality(Sems!Loses') = Cardinality(Sems!Loses) - 1
    BY <2>1, CountChange DEF Sems!Loses
  <2>3. QED BY SemTypes, <1>1, <1>3, <1>5, <2>1, <2>2 DEF SemInv
<1>6. QED BY <1>1, <1>4, <1>5

\* The opposite.
LEMMA LeavesKeeps ==
  ASSUME SemInv, NEW p \in Procs, Sems!sem_v(p)
  PROVE  SemInv'
<1>1. /\ pc[p] = "in" /\ sem' = sem + 1
      /\ adj' = [adj EXCEPT ![p] = adj[p] - 1] /\ pc' = [pc EXCEPT ![p] = "out"]
      /\ late' = late /\ init' = init /\ adj[p] \in {0, 1}
  BY DEF SemInv, Sems!sem_v
<1>2. Inside' = Inside \ {p} /\ p \in Inside
  BY <1>1 DEF SemInv, Inside
<1>3. Cardinality(Inside') = Cardinality(Inside) - 1
  BY <1>2, CountChange DEF Inside
<1>4. CASE adj[p] = 1
  <2>1. /\ Sems!Gains' = Sems!Gains \ {p} /\ p \in Sems!Gains
        /\ Sems!Loses' = Sems!Loses
    BY <1>1, <1>4 DEF SemInv, Sems!Gains, Sems!Loses
  <2>2. Cardinality(Sems!Gains') = Cardinality(Sems!Gains) - 1
    BY <2>1, CountChange DEF Sems!Gains
  <2>3. QED BY SemTypes, <1>1, <1>3, <1>4, <2>1, <2>2 DEF SemInv
<1>5. CASE adj[p] = 0
  <2>1. /\ Sems!Loses' = Sems!Loses \cup {p} /\ p \notin Sems!Loses
        /\ Sems!Gains' = Sems!Gains
    BY <1>1, <1>5 DEF SemInv, Sems!Gains, Sems!Loses
  <2>2. Cardinality(Sems!Loses') = Cardinality(Sems!Loses) + 1
    BY <2>1, CountChange DEF Sems!Loses
  <2>3. QED BY SemTypes, <1>1, <1>3, <1>5, <2>1, <2>2 DEF SemInv
<1>6. QED BY <1>1, <1>4, <1>5

\* The end of a process, inside or outside the section.
LEMMA EndKeeps ==
  ASSUME SemInv, NEW p \in Procs, pc[p] # "gone",
         pc' = [pc EXCEPT ![p] = "gone"], Sems!Undo(p), UNCHANGED <<late, init>>
  PROVE  SemInv'
<1>1. adj[p] \in -1 .. 1 /\ sem \in Nat
  BY DEF SemInv
<1>2. sem' = IF sem + adj[p] >= 0 THEN sem + adj[p] ELSE 0
  <2> DEFINE both == {0, sem + adj[p]}
  <2>1. \E x \in both : \A y \in both : x >= y
    BY <1>1
  <2>2. sem' \in both /\ \A y \in both : sem' >= y
    BY <2>1 DEF Sems!Undo, Sems!Max
  <2>3. QED BY <1>1, <2>2
<1>3. adj' = [adj EXCEPT ![p] = 0]
  BY DEF Sems!Undo
<1>4. /\ Sems!Gains' = Sems!Gains \ {p} /\ (p \in Sems!Gains <=> adj[p] = 1)
      /\ Sems!Loses' = Sems!Loses \ {p} /\ (p \in Sems!Loses <=> adj[p] = -1)
      /\ Inside' = Inside \ {p} /\ (p \in Inside <=> pc[p] = "in")
  BY <1>3 DEF SemInv, Sems!Gains, Sems!Loses, Inside
<1>5. /\ Cardinality(Sems!Gains') = Cardinality(Sems!Gains) - IF adj[p] = 1 THEN 1 ELSE 0
      /\ Cardinality(Sems!Loses') = Cardinality(Sems!Loses) - IF adj[p] = -1 THEN 1 ELSE 0
      /\ Cardinality(Inside') = Cardinality(Inside) - IF pc[p] = "in" THEN 1 ELSE 0
  <2>1. Inside \subseteq Procs /\ Sems!Gains \subseteq Procs /\ Sems!Loses \subseteq Procs
    BY DEF Inside, Sems!Gains, Sems!Loses
  <2>2. QED BY <1>4, <2>1, CountChange
<1>6. QED BY SemTypes, <1>1, <1>2, <1>3, <1>5 DEF SemInv

\* Every step of sems.c.
LEMMA SemsStep == SemInv /\ Sems!Next => SemInv'
<1> SUFFICES ASSUME SemInv, NEW p \in Procs,
                    Sems!Start(p) \/ Sems!sem_p(p) \/ Sems!Leave(p) \/ Sems!Killed(p)
             PROVE  SemInv'
  BY DEF Sems!Next
<1>1. ASSUME Sems!NextRound(p), i[p] + 1 < Rounds PROVE SemInv'
  <2>1. /\ pc[p] = "out" /\ pc' = [pc EXCEPT ![p] = "p"]
        /\ UNCHANGED <<sem, adj, late, init>>
    BY <1>1 DEF Sems!NextRound
  <2>2. Inside' = Inside /\ Sems!Gains' = Sems!Gains /\ Sems!Loses' = Sems!Loses
    BY <2>1 DEF SemInv, Inside, Sems!Gains, Sems!Loses
  <2>3. QED BY <2>1, <2>2 DEF SemInv
<1>2. ASSUME Sems!NextRound(p), ~(i[p] + 1 < Rounds) PROVE SemInv'
  BY <1>2, EndKeeps DEF Sems!NextRound
<1>3. ASSUME Sems!Killed(p) PROVE SemInv'
  BY <1>3, EndKeeps DEF Sems!Killed
<1>4. QED BY <1>1, <1>2, <1>3, StartKeeps, EntersKeeps, LeavesKeeps DEF Sems!Leave

LEMMA SemsStutter == SemInv /\ UNCHANGED <<pc, sem, adj, late, init>> => SemInv'
BY DEF SemInv, Inside, Sems!Gains, Sems!Loses

LEMMA SemsSound == SemInv => Sems!OneInside /\ Sems!PermitLeft
<1>1. \A S : Sems!Cardinality(S) = Cardinality(S)
  BY DEF Sems!Cardinality, Cardinality
<1>2. Inside = Sems!Inside
  BY DEF Inside, Sems!Inside
<1>3. QED BY <1>1, <1>2, SemTypes DEF SemInv, Sems!OneInside, Sems!PermitLeft
-------------------------------------------------------------------------------
(* fcntl_test.c and lockf.c.                                               *)

Writers == Locks!Writers
Bytes == Locks!Bytes

\* The byte that is locked by whoever has locked any.
Key == IF program = "fcntl_test" THEN Sections ELSE 0

\* One writer at most has a lock, and its lock has the key; offset tells whether
\* the record is written.
LockInv ==
  /\ Locking
  /\ pc \in [Writers -> {"open", "locked", "written", "unlocked", "gone"}]
  /\ locked \in [Writers -> SUBSET Bytes]
  /\ offset \in [Writers -> Nat]
  /\ \A w \in Writers :
       /\ locked[w] # {} => Key \in locked[w] /\ pc[w] \in {"locked", "written", "unlocked"}
       /\ pc[w] \in {"open", "locked"} => offset[w] = 0
       /\ pc[w] = "written" => offset[w] > 0
       /\ pc[w] \in {"locked", "written"} => locked[w] # {}
       /\ pc[w] = "unlocked" /\ offset[w] > 0 => locked[w] # {}
       /\ pc[w] = "unlocked" => program = "lockf"
  /\ \A v, w \in Writers : locked[v] # {} /\ locked[w] # {} => v = w

\* The locks of the two programs as sets of bytes.
LEMMA ByteFacts ==
  /\ Writers = 1 .. Sections /\ Bytes = 0 .. Sections /\ Key \in Bytes
  /\ \A n \in Nat : Locks!From(n) = {b \in Bytes : b >= n}
  /\ Sections \in Nat
BY ProgramsAssumption DEF Writers, Bytes, Locks!Writers, Locks!Bytes, Key, Locks!From

LEMMA LocksInit == Locks!Init /\ Locking => LockInv
BY DEF Locks!Init, Writers, Bytes, LockInv

\* Every step of fcntl_test.c and lockf.c.
LEMMA LocksStep == LockInv /\ Locks!Next /\ UNCHANGED program => LockInv'
<1> SUFFICES ASSUME LockInv, UNCHANGED program, NEW w \in Writers,
                    Locks!WriterStep(w) \/ Locks!Killed(w)
             PROVE  LockInv'
  BY DEF Locks!Next, Writers
<1>1. Key' = Key /\ Locking' = Locking
  BY DEF Key, Locking
<1>2. ASSUME Locks!Lock(w) PROVE LockInv'
  <2>1. /\ pc[w] = "open" /\ offset[w] = 0 /\ locked[w] = {}
        /\ pc' = [pc EXCEPT ![w] = "locked"] /\ UNCHANGED offset
        /\ locked' = [locked EXCEPT ![w] = Locks!LockFrom(w)]
        /\ \A v \in Writers \ {w} : locked[v] \cap Locks!LockFrom(w) = {}
    BY <1>2 DEF LockInv, Locks!Lock, Locks!Go, Writers
  <2>2. Locks!LockFrom(w) \subseteq Bytes /\ Key \in Locks!LockFrom(w)
    <3> DEFINE first == IF program = "fcntl_test" THEN w - 1 ELSE offset[w]
    <3>1. first \in Nat /\ first <= Key /\ Key \in Bytes
      BY <2>1, ByteFacts DEF LockInv, Locking, Key
    <3>2. Locks!LockFrom(w) = Locks!From(first)
      BY DEF Locks!LockFrom
    <3> HIDE DEF first
    <3>3. QED BY <3>1, <3>2, ByteFacts
  <2>3. \A v \in Writers \ {w} : locked[v] = {}
    BY <2>1, <2>2 DEF LockInv
  <2>4. QED BY <1>1, <2>1, <2>2, <2>3 DEF LockInv
<1>3. ASSUME Locks!Write(w) PROVE LockInv'
  <2> DEFINE at == IF program = "fcntl_test" THEN w - 1 ELSE offset[w]
  <2>1. at \in Nat
    BY ByteFacts DEF LockInv
  <2>2. /\ pc[w] = "locked" /\ pc' = [pc EXCEPT ![w] = "written"] /\ UNCHANGED locked
        /\ offset' = [offset EXCEPT ![w] = at + 1]
    BY <1>3 DEF Locks!Write, Locks!Go
  <2> HIDE DEF at
  <2>3. QED BY <1>1, <2>1, <2>2 DEF LockInv
<1>4. ASSUME Locks!Unlock(w) PROVE LockInv'
  <2>1. /\ pc[w] \in {"locked", "written"} /\ program = "lockf"
        /\ pc' = [pc EXCEPT ![w] = "unlocked"] /\ UNCHANGED offset
        /\ locked' = [locked EXCEPT ![w] = locked[w] \ Locks!From(offset[w])]
    BY <1>4 DEF Locks!Unlock, Locks!Go
  <2>2. /\ offset[w] > 0 => Key \in locked'[w]
        /\ offset[w] = 0 => locked'[w] = {}
        /\ offset[w] \in Nat /\ locked[w] \in SUBSET Bytes /\ locked'[w] \subseteq locked[w]
    BY <2>1, ByteFacts DEF LockInv, Key
  <2>3. QED BY <1>1, <2>1, <2>2 DEF LockInv
<1>5. ASSUME Locks!Close(w) \/ Locks!Killed(w) PROVE LockInv'
  <2>1. /\ pc' = [pc EXCEPT ![w] = "gone"] /\ locked' = [locked EXCEPT ![w] = {}]
        /\ UNCHANGED offset
    BY <1>5 DEF Locks!Close, Locks!Killed, Locks!Go
  <2>2. QED BY <1>1, <2>1 DEF LockInv
<1>6. QED BY <1>2, <1>3, <1>4, <1>5 DEF Locks!WriterStep

LEMMA LocksStutter == LockInv /\ UNCHANGED <<program, pc, locked, offset>> => LockInv'
BY DEF LockInv, Locking, Key

LEMMA LocksSound == LockInv => Locks!Excludes /\ Locks!HeldToTheEnd
BY DEF LockInv, Locks!Excludes, Locks!HeldToTheEnd, Writers
-------------------------------------------------------------------------------
(* TCPfenbao.                                                              *)

\* One direction of connection c, none of whose packets was cut: n bytes are
\* under way, or have all arrived.
Whole(c, w, n) == \/ sent[c][w] = n /\ arrived[c][w] = 0
                  \/ sent[c][w] = 0 /\ arrived[c][w] = n

Reply == HeaderSize + Frames!ResponseSize

\* What the server is to read, and what the client is.
Request(c) ==
  IF pc[c] = "new" \/ c \in served THEN Whole(c, "request", 0)
  ELSE IF serving = c /\ spc = "body"
  THEN sent[c]["request"] = 0 /\ arrived[c]["request"] = size[c]
  ELSE Whole(c, "request", HeaderSize + size[c])
Response(c) ==
  CASE pc[c] = "header" /\ c \in served -> Whole(c, "response", Reply)
    [] pc[c] = "body" -> sent[c]["response"] = 0 /\ arrived[c]["response"] = 1
    [] OTHER -> Whole(c, "response", 0)

\* The server and the clients agree on what is under way, unless it was cut.
FrameInv ==
  /\ pc \in [Senders -> {"new", "header", "body", "done", "failed"}]
  /\ size \in [Senders -> Nat]
  /\ sent \in [Senders -> [Frames!Ways -> Nat]]
  /\ arrived \in [Senders -> [Frames!Ways -> Nat]]
  /\ spc \in {"accept", "header", "body"}
  /\ spc # "accept" => serving \in Senders /\ serving \notin closed /\ pc[serving] # "new"
  /\ \A c \in Senders :
       /\ c \in served => c \in closed
       /\ c \in closed => pc[c] # "new"
       /\ pc[c] \in {"body", "done"} => c \in served
       /\ c \notin served => sent[c]["response"] = 0 /\ arrived[c]["response"] = 0
       /\ pc[c] = "new" => sent[c]["request"] = 0 /\ arrived[c]["request"] = 0
       /\ c \notin cut => /\ pc[c] # "failed" /\ (c \in closed => c \in served)
                          /\ Request(c) /\ Response(c)

\* The sizes of the packets.
LEMMA FrameConstants ==
  /\ HeaderSize \in Nat /\ HeaderSize > 0 /\ Frames!ResponseSize = 1 /\ Reply \in Nat
  /\ Reply = HeaderSize + 1 /\ Frames!Nobody \notin Senders
  /\ Frames!Ways = {"request", "response"}
BY ProgramsAssumption DEF Frames!ResponseSize, Reply, Frames!Nobody, Frames!Ways

\* The smaller of two numbers.
LEMMA ReadableIs ==
  ASSUME FrameInv, NEW c \in Senders, NEW w \in Frames!Ways, NEW n \in Nat
  PROVE  Frames!Readable(c, w, n) = IF arrived[c][w] <= n THEN arrived[c][w] ELSE n
<1> DEFINE S == {arrived[c][w], n}
<1>1. arrived[c][w] \in Nat
  BY DEF FrameInv
<1>2. \E x \in S : \A y \in S : x <= y
  BY <1>1
<1>3. Frames!Readable(c, w, n) \in S /\ \A y \in S : Frames!Readable(c, w, n) <= y
  BY <1>2 DEF Frames!Readable, Frames!Min
<1>4. QED BY <1>1, <1>3

LEMMA FramesInit == Frames!Init => FrameInv
BY ProgramsAssumption, FrameConstants DEF Frames!Init, FrameInv, Request, Response, Whole

\* The step of each actor, of a segment under way, and of the server.
LEMMA SendPacketKeeps ==
  ASSUME FrameInv, NEW c \in Senders, Frames!SendPacket(c)
  PROVE  FrameInv'
<1> DEFINE sent2 == [sent[c] EXCEPT !["request"] = HeaderSize + size[c]]
<1>1. /\ pc[c] = "new" /\ pc' = [pc EXCEPT ![c] = "header"]
      /\ sent' = [sent EXCEPT ![c] = sent2]
      /\ UNCHANGED <<size, arrived, serving, spc, closed, cut, served>>
      /\ size[c] \in Nat
  BY DEF FrameInv, Frames!SendPacket
<1>2. /\ sent2 \in [Frames!Ways -> Nat] /\ sent2["request"] = HeaderSize + size[c]
      /\ sent2["response"] = sent[c]["response"]
  BY <1>1, FrameConstants DEF FrameInv
<1> HIDE DEF sent2
<1>3. c \notin served /\ c \notin closed /\ (spc # "accept" => serving # c)
  BY <1>1 DEF FrameInv
<1>4. QED BY <1>1, <1>2, <1>3, FrameConstants DEF FrameInv, Request, Response, Whole

LEMMA SegmentKeeps ==
  ASSUME FrameInv, NEW c \in Senders, NEW w \in Frames!Ways, Frames!Segment(c, w)
  PROVE  FrameInv'
<1>1. PICK n \in 1 .. sent[c][w] :
        /\ sent' = [sent EXCEPT ![c][w] = sent[c][w] - n]
        /\ arrived' = [arrived EXCEPT ![c][w] = arrived[c][w] + n]
        /\ cut' = IF n < sent[c][w] THEN cut \cup {c} ELSE cut
  BY DEF Frames!Segment
<1>2. UNCHANGED <<pc, size, serving, spc, closed, served>>
  BY DEF Frames!Segment
<1>3. /\ sent[c][w] \in Nat /\ arrived[c][w] \in Nat /\ n \in Nat /\ n > 0 /\ n <= sent[c][w]
  BY DEF FrameInv
<1> DEFINE s2 == [sent[c] EXCEPT ![w] = sent[c][w] - n]
           a2 == [arrived[c] EXCEPT ![w] = arrived[c][w] + n]
<1>4. sent' = [sent EXCEPT ![c] = s2] /\ arrived' = [arrived EXCEPT ![c] = a2]
  BY <1>1
<1>5. /\ s2 \in [Frames!Ways -> Nat] /\ s2[w] = sent[c][w] - n
      /\ a2 \in [Frames!Ways -> Nat] /\ a2[w] = arrived[c][w] + n
      /\ \A v \in Frames!Ways \ {w} : s2[v] = sent[c][v] /\ a2[v] = arrived[c][v]
  BY <1>3 DEF FrameInv
<1>6. /\ sent' \in [Senders -> [Frames!Ways -> Nat]]
      /\ arrived' \in [Senders -> [Frames!Ways -> Nat]]
      /\ sent'[c] = s2 /\ arrived'[c] = a2
      /\ \A d \in Senders \ {c} : sent'[d] = sent[d] /\ arrived'[d] = arrived[d]
  BY <1>4, <1>5 DEF FrameInv
<1> HIDE DEF s2, a2
<1>7. /\ pc[c] # "new" /\ (c \notin served => w # "response")
  BY <1>3, FrameConstants DEF FrameInv
<1>8. ASSUME c \notin cut'
      PROVE  Request(c)' /\ Response(c)'
  <2>1. c \notin cut /\ n = sent[c][w] /\ s2[w] = 0 /\ a2[w] = arrived[c][w] + sent[c][w]
    BY <1>1, <1>3, <1>5, <1>8
  <2>2. Request(c) /\ Response(c)
    BY <2>1 DEF FrameInv
  <2>3. size[c] \in Nat
    BY DEF FrameInv
  <2>4. Request(c)'
    <3>1. CASE w = "request"
      <4>1. arrived[c]["request"] = 0 /\ c \notin served /\ ~(serving = c /\ spc = "body")
        BY <1>3, <1>7, <2>2, <3>1 DEF Request, Whole
      <4>2. sent[c]["request"] = HeaderSize + size[c]
        BY <1>3, <1>7, <2>2, <3>1, <4>1 DEF Request, Whole
      <4>3. arrived'[c]["request"] = HeaderSize + size[c] /\ sent'[c]["request"] = 0
        BY <1>6, <2>1, <2>3, <3>1, <4>1, <4>2, FrameConstants
      <4>4. QED BY <1>2, <1>7, <4>1, <4>3 DEF Request, Whole
    <3>2. CASE w = "response"
      <4>1. arrived'[c]["request"] = arrived[c]["request"] /\ sent'[c]["request"] = sent[c]["request"]
        BY <1>5, <1>6, <3>2, FrameConstants
      <4>2. QED BY <1>2, <2>2, <4>1 DEF Request, Whole
    <3>3. QED BY <3>1, <3>2, FrameConstants
  <2>5. Response(c)'
    BY <1>2, <1>3, <1>5, <1>6, <2>1, <2>2, <2>3, FrameConstants DEF Response, Whole
  <2>6. QED BY <2>4, <2>5
<1>9. ASSUME NEW d \in Senders \ {c}
      PROVE  /\ Request(d)' <=> Request(d)
             /\ Response(d)' <=> Response(d)
             /\ d \in cut' <=> d \in cut
  BY <1>1, <1>2, <1>6 DEF Request, Response, Whole
<1>10. ASSUME NEW d \in Senders
       PROVE  /\ d \notin served => sent'[d]["response"] = 0 /\ arrived'[d]["response"] = 0
              /\ pc[d] = "new" => sent'[d]["request"] = 0 /\ arrived'[d]["request"] = 0
  BY <1>5, <1>6, <1>7, FrameConstants DEF FrameInv
<1>11. c \in cut => c \in cut'
  BY <1>1
<1>12. QED BY <1>2, <1>6, <1>8, <1>9, <1>10, <1>11 DEF FrameInv

\* Bytes taken from what has arrived.
LEMMA TakeFacts ==
  ASSUME FrameInv, NEW c \in Senders, NEW w \in Frames!Ways, NEW n \in Nat,
         NEW taken, taken = Frames!Readable(c, w, n), Frames!Take(c, w, taken)
  PROVE  /\ arrived' \in [Senders -> [Frames!Ways -> Nat]]
         /\ arrived'[c][w] = arrived[c][w] - taken /\ taken \in Nat
         /\ taken = IF arrived[c][w] <= n THEN arrived[c][w] ELSE n
         /\ arrived[c][w] \in Nat /\ sent[c][w] \in Nat
         /\ \A v \in Frames!Ways \ {w} : arrived'[c][v] = arrived[c][v]
         /\ \A d \in Senders \ {c} : arrived'[d] = arrived[d]
<1>1. arrived[c][w] \in Nat /\ sent[c][w] \in Nat
  BY DEF FrameInv
<1>2. taken = IF arrived[c][w] <= n THEN arrived[c][w] ELSE n
  BY ReadableIs
<1> DEFINE a2 == [arrived[c] EXCEPT ![w] = arrived[c][w] - taken]
<1>3. arrived' = [arrived EXCEPT ![c] = a2]
  BY DEF Frames!Take
<1>4. /\ a2 \in [Frames!Ways -> Nat] /\ a2[w] = arrived[c][w] - taken
      /\ \A v \in Frames!Ways \ {w} : a2[v] = arrived[c][v]
  BY <1>1, <1>2 DEF FrameInv
<1> HIDE DEF a2
<1>5. QED BY <1>1, <1>2, <1>3, <1>4 DEF FrameInv

LEMMA ClientStepKeeps ==
  ASSUME FrameInv, NEW c \in Senders, Frames!ClientStep(c)
  PROVE  FrameInv'
<1>1. PICK from \in {"header", "body"}, n \in Nat, to \in {"body", "done"} :
        /\ Frames!ClientReads(c, from, n, to)
        /\ IF from = "header" THEN n = HeaderSize /\ to = "body"
                              ELSE n = 1 /\ to = "done"
  BY FrameConstants
     DEF Frames!ClientStep, Frames!ClientHeader, Frames!ClientBody
<1> DEFINE taken == Frames!Readable(c, "response", n)
<1>2. /\ pc[c] = from /\ (arrived[c]["response"] > 0 \/ Frames!EndOfFile(c))
      /\ Frames!Take(c, "response", taken)
      /\ pc' = [pc EXCEPT ![c] = IF taken = n THEN to ELSE "failed"]
      /\ UNCHANGED <<size, sent, serving, spc, closed, cut, served>>
  BY <1>1 DEF Frames!ClientReads
<1>3. /\ arrived' \in [Senders -> [Frames!Ways -> Nat]]
      /\ arrived'[c]["response"] = arrived[c]["response"] - taken /\ taken \in Nat
      /\ taken = IF arrived[c]["response"] <= n THEN arrived[c]["response"] ELSE n
      /\ arrived[c]["response"] \in Nat /\ sent[c]["response"] \in Nat
      /\ arrived'[c]["request"] = arrived[c]["request"]
      /\ \A d \in Senders \ {c} : arrived'[d] = arrived[d]
  <2>1. "response" \in Frames!Ways /\ "request" \in Frames!Ways \ {"response"}
    BY FrameConstants
  <2> HIDE DEF taken
  <2>2. taken = Frames!Readable(c, "response", n)
    BY DEF taken
  <2>3. QED BY <1>2, <2>1, <2>2, TakeFacts
<1> HIDE DEF taken
<1>4. ASSUME c \notin cut
      PROVE  taken = n /\ c \in served /\ Request(c)' /\ Response(c)'
  <2>1. Request(c) /\ Response(c) /\ (c \in closed => c \in served)
    BY <1>4 DEF FrameInv
  <2>2. c \in served
    BY <1>2, <2>1 DEF FrameInv, Frames!EndOfFile
  <2>3. CASE from = "header"
    <3>1. arrived[c]["response"] = Reply /\ sent[c]["response"] = 0
      BY <1>2, <2>1, <2>2, <2>3, FrameConstants DEF Response, Whole, Frames!EndOfFile
    <3>2. taken = n /\ arrived'[c]["response"] = 1 /\ pc'[c] = "body"
      BY <1>1, <1>2, <1>3, <2>3, <3>1, FrameConstants DEF FrameInv
    <3>3. QED BY <1>2, <1>3, <2>1, <2>2, <3>1, <3>2 DEF Request, Response, Whole
  <2>4. CASE from = "body"
    <3>1. arrived[c]["response"] = 1 /\ sent[c]["response"] = 0
      BY <1>2, <2>1, <2>4 DEF Response
    <3>2. taken = n /\ arrived'[c]["response"] = 0 /\ pc'[c] = "done"
      BY <1>1, <1>2, <1>3, <2>4, <3>1 DEF FrameInv
    <3>3. QED BY <1>2, <1>3, <2>1, <2>2, <3>1, <3>2 DEF Request, Response, Whole
  <2>5. QED BY <2>3, <2>4
<1>5. ASSUME NEW d \in Senders \ {c}
      PROVE  /\ Request(d)' <=> Request(d)
             /\ Response(d)' <=> Response(d)
             /\ pc'[d] = pc[d]
  BY <1>2, <1>3 DEF Request, Response, Whole, FrameInv
<1>6. taken = n => c \in served
  BY <1>1, <1>3, FrameConstants DEF FrameInv
<1>7. /\ pc'[c] = (IF taken = n THEN to ELSE "failed") /\ pc[c] # "new" /\ pc'[c] # "new"
      /\ pc' \in [Senders -> {"new", "header", "body", "done", "failed"}]
  BY <1>1, <1>2 DEF FrameInv
<1>8. c \notin served => arrived'[c]["response"] = 0
  BY <1>3 DEF FrameInv
<1>9. QED BY <1>2, <1>3, <1>4, <1>5, <1>6, <1>7, <1>8 DEF FrameInv

LEMMA AcceptKeeps ==
  ASSUME FrameInv, NEW c \in Senders, Frames!Accept(c)
  PROVE  FrameInv'
BY DEF FrameInv, Frames!Accept, Request, Response, Whole

LEMMA ServerHeaderKeeps ==
  ASSUME FrameInv, Frames!ServerHeader
  PROVE  FrameInv'
<1> PICK c \in Senders : c = serving
  BY DEF FrameInv, Frames!ServerHeader
<1> DEFINE taken == Frames!Readable(c, "request", HeaderSize)
<1>1. /\ spc = "header" /\ arrived[c]["request"] > 0
      /\ Frames!Take(c, "request", taken)
      /\ IF taken = HeaderSize
         THEN spc' = "body" /\ serving' = c /\ closed' = closed
         ELSE serving' = Frames!Nobody /\ spc' = "accept" /\ closed' = closed \cup {c}
      /\ UNCHANGED <<pc, size, sent, cut, served>>
  BY DEF Frames!ServerHeader, Frames!CloseConn
<1>2. c \in Senders /\ pc[c] # "new" /\ c \notin closed /\ c \notin served
  BY <1>1 DEF FrameInv
<1>3. /\ arrived' \in [Senders -> [Frames!Ways -> Nat]]
      /\ arrived'[c]["request"] = arrived[c]["request"] - taken /\ taken \in Nat
      /\ taken = IF arrived[c]["request"] <= HeaderSize THEN arrived[c]["request"] ELSE HeaderSize
      /\ arrived[c]["request"] \in Nat /\ sent[c]["request"] \in Nat
      /\ arrived'[c]["response"] = arrived[c]["response"]
      /\ \A d \in Senders \ {c} : arrived'[d] = arrived[d]
  <2>1. "request" \in Frames!Ways /\ "response" \in Frames!Ways \ {"request"}
    BY FrameConstants
  <2> HIDE DEF taken
  <2>2. taken = Frames!Readable(c, "request", HeaderSize)
    BY DEF taken
  <2>3. QED BY <1>1, <1>2, <2>1, <2>2, TakeFacts, FrameConstants
<1> HIDE DEF taken
<1>4. ASSUME c \notin cut
      PROVE  taken = HeaderSize /\ Request(c)' /\ Response(c)'
  <2>1. Request(c) /\ Response(c) /\ size[c] \in Nat
    BY <1>2, <1>4 DEF FrameInv
  <2>2. arrived[c]["request"] = HeaderSize + size[c] /\ sent[c]["request"] = 0
    BY <1>1, <1>2, <2>1 DEF Request, Whole
  <2>3. taken = HeaderSize /\ arrived'[c]["request"] = size[c]
    BY <1>3, <2>1, <2>2, FrameConstants
  <2>4. QED BY <1>1, <1>2, <1>3, <2>1, <2>2, <2>3 DEF Request, Response, Whole
<1>5. ASSUME NEW d \in Senders \ {c}
      PROVE  /\ Request(d)' <=> Request(d)
             /\ Response(d)' <=> Response(d)
             /\ d \in closed' <=> d \in closed
  BY <1>1, <1>3 DEF Request, Response, Whole
<1>6. QED BY <1>1, <1>2, <1>3, <1>4, <1>5, FrameConstants DEF FrameInv

LEMMA ServerBodyKeeps ==
  ASSUME FrameInv, Frames!ServerBody
  PROVE  FrameInv'
<1> PICK c \in Senders : c = serving
  BY DEF FrameInv, Frames!ServerBody
<1> DEFINE taken == Frames!Readable(c, "request", size[c])
           s2 == [sent[c] EXCEPT !["response"] = Reply]
<1>1. /\ spc = "body"
      /\ Frames!Take(c, "request", taken)
      /\ IF taken = size[c]
         THEN sent' = [sent EXCEPT ![c]["response"] = Reply] /\ served' = served \cup {c}
         ELSE UNCHANGED <<sent, served>>
      /\ serving' = Frames!Nobody /\ spc' = "accept" /\ closed' = closed \cup {c}
      /\ UNCHANGED <<pc, size, cut>>
  BY DEF Frames!ServerBody, Frames!CloseConn, Reply
<1>2. /\ c \in Senders /\ pc[c] # "new" /\ c \notin closed /\ c \notin served
      /\ pc[c] \notin {"body", "done"} /\ size[c] \in Nat
      /\ sent[c]["response"] = 0 /\ arrived[c]["response"] = 0
  BY <1>1 DEF FrameInv
<1>3. /\ arrived' \in [Senders -> [Frames!Ways -> Nat]]
      /\ arrived'[c]["request"] = arrived[c]["request"] - taken /\ taken \in Nat
      /\ taken = IF arrived[c]["request"] <= size[c] THEN arrived[c]["request"] ELSE size[c]
      /\ arrived[c]["request"] \in Nat /\ sent[c]["request"] \in Nat
      /\ arrived'[c]["response"] = arrived[c]["response"]
      /\ \A d \in Senders \ {c} : arrived'[d] = arrived[d]
  <2>1. "request" \in Frames!Ways /\ "response" \in Frames!Ways \ {"request"}
    BY FrameConstants
  <2> HIDE DEF taken
  <2>2. taken = Frames!Readable(c, "request", size[c])
    BY DEF taken
  <2>3. QED BY <1>1, <1>2, <2>1, <2>2, TakeFacts
<1>4. /\ s2 \in [Frames!Ways -> Nat] /\ s2["response"] = Reply
      /\ s2["request"] = sent[c]["request"]
  BY <1>2, FrameConstants DEF FrameInv
<1>5. /\ sent' \in [Senders -> [Frames!Ways -> Nat]]
      /\ sent'[c] = IF taken = size[c] THEN s2 ELSE sent[c]
      /\ \A d \in Senders \ {c} : sent'[d] = sent[d]
  <2>1. CASE taken = size[c]
    <3>1. sent' = [sent EXCEPT ![c] = s2]
      BY <1>1, <2>1
    <3> HIDE DEF s2
    <3>2. QED BY <1>2, <1>4, <2>1, <3>1 DEF FrameInv
  <2>2. CASE taken # size[c]
    BY <1>1, <2>2 DEF FrameInv
  <2>3. QED BY <2>1, <2>2
<1> HIDE DEF taken, s2
<1>6. ASSUME c \notin cut
      PROVE  taken = size[c] /\ Request(c)' /\ Response(c)'
  <2>1. Request(c) /\ Response(c) /\ pc[c] = "header"
    BY <1>2, <1>6 DEF FrameInv
  <2>2. arrived[c]["request"] = size[c] /\ sent[c]["request"] = 0
    BY <1>1, <1>2, <2>1 DEF Request
  <2>3. taken = size[c] /\ arrived'[c]["request"] = 0
    BY <1>2, <1>3, <2>2
  <2>4. QED BY <1>1, <1>2, <1>3, <1>4, <1>5, <2>1, <2>2, <2>3 DEF Request, Response, Whole
<1>7. ASSUME NEW d \in Senders \ {c}
      PROVE  /\ Request(d)' <=> Request(d)
             /\ Response(d)' <=> Response(d)
             /\ d \in closed' <=> d \in closed
             /\ d \in served' <=> d \in served
  BY <1>1, <1>3, <1>5 DEF Request, Response, Whole
<1>8. c \in served' <=> taken = size[c]
  BY <1>1, <1>2
<1>9. QED BY <1>1, <1>2, <1>3, <1>4, <1>5, <1>6, <1>7, <1>8 DEF FrameInv

LEMMA FramesStep == FrameInv /\ Frames!Next => FrameInv'
BY SendPacketKeeps, SegmentKeeps, ClientStepKeeps, AcceptKeeps, ServerHeaderKeeps,
   ServerBodyKeeps DEF Frames!Next, Frames!Serve

LEMMA FramesStutter == FrameInv /\ UNCHANGED Frames!vars => FrameInv'
BY DEF FrameInv, Frames!vars, Request, Response, Whole

LEMMA FramesSound == FrameInv => Frames!AnsweredWasServed /\ Frames!FailsOnlyIfCut
BY DEF FrameInv, Frames!AnsweredWasServed, Frames!FailsOnlyIfCut
-------------------------------------------------------------------------------
(* Descriptors and sequences, for the three servers on Tcp.                *)

Fd == 0 .. Biggest_FD - 1
ConnFd == ListenFd + 1 .. Biggest_FD - 1

LEMMA FdFacts ==
  /\ Biggest_FD \in Nat /\ ListenFd \in Nat /\ ListenFd \in Fd /\ ListenFd > 0
  /\ ListenFd \notin ConnFd /\ ConnFd \subseteq Fd /\ Fd \subseteq Nat
  /\ \A fd \in Fd : fd < Biggest_FD /\ (fd > ListenFd <=> fd \in ConnFd)
  /\ Listener \notin Conns /\ "nobody" \notin Conns /\ Listener # "nobody"
BY ProgramsAssumption DEF Fd, ConnFd

\* The order of the natural numbers as a set of pairs.
LEMMA LessIsPairs == OpToRel(<, Nat) = {ss \in Nat \X Nat : ss[1] < ss[2]}
BY DEF OpToRel

\* A set of natural numbers has a least one.
LEMMA LeastExists ==
  ASSUME NEW S \in SUBSET Nat, S # {}
  PROVE  \E x \in S : \A y \in S : x <= y
<1> DEFINE Less == {ss \in Nat \X Nat : ss[1] < ss[2]}
<1>1. IsWellFoundedOn(Less, Nat)
  BY NatLessThanWellFounded, LessIsPairs
<1>2. PICK x \in S : \A y \in S : ~ (<<y, x>> \in Less)
  <2> HIDE DEF Less
  <2> QED BY <1>1, WFMin
<1>3. ASSUME NEW y \in S
      PROVE  x <= y
  <2>1. x \in Nat /\ y \in Nat
    OBVIOUS
  <2>2. y < x => <<y, x>> \in Less
    BY <2>1
  <2>3. QED BY <2>1, <2>2, <1>3, <1>2
<1>4. QED BY <1>3

-------------------------------------------------------------------------------
(* polls.c.                                                                *)

\* The entries of poll are those of the open connections, in every stage of a round.
PollInv ==
  /\ Polls!TypeOK
  /\ i # Polls!Ended =>
       /\ \A fd \in Fd : sock[fd] = Listener <=> fd = ListenFd
       /\ \A fd \in Fd : /\ events[fd] # {} <=> sock[fd] # "nobody"
                         /\ events[fd] # {} => fd < cur_max_fd
                         /\ i >= 0 /\ fd >= i /\ revents[fd] # {} => sock[fd] # "nobody"
       /\ i >= 0 /\ i <= ListenFd /\ revents[ListenFd] # {} => backlog # <<>>

LEMMA PollConstants ==
  /\ Polls!Fd = Fd /\ Polls!ConnFd = ConnFd /\ Polls!Nobody = "nobody"
  /\ Polls!Polling = -1 /\ Polls!Ended = -2
BY DEF Polls!Fd, Fd, Polls!ConnFd, ConnFd, Polls!Nobody, Polls!Polling, Polls!Ended

LEMMA PollTypes ==
  Polls!TypeOK <=>
    /\ sock \in [Fd -> Conns \cup {"nobody", Listener}]
    /\ backlog \in Seq(Conns)
    /\ peer \in [Conns -> {"none", "open", "fin", "reset", "broken", "gone"}]
    /\ inbox \in [Conns -> {"byte"} \cup {"none"}]
    /\ room \in [Conns -> BOOLEAN]
    /\ sends \in 0 .. MaxBytes
    /\ events \in [Fd -> SUBSET {"IN", "OUT"}]
    /\ revents \in [Fd -> SUBSET {"IN", "OUT", "HUP"}]
    /\ cur_max_fd \in Fd \cup {Biggest_FD} /\ i \in Fd \cup {-1, -2}
    /\ ch \in Conns \cup {"nobody"} /\ waiting \subseteq Conns
BY PollConstants DEF Polls!TypeOK, Polls!TcpTypeOK

LEMMA PollTypesNext ==
  (Polls!TypeOK <=>
    /\ sock \in [Fd -> Conns \cup {"nobody", Listener}]
    /\ backlog \in Seq(Conns)
    /\ peer \in [Conns -> {"none", "open", "fin", "reset", "broken", "gone"}]
    /\ inbox \in [Conns -> {"byte"} \cup {"none"}]
    /\ room \in [Conns -> BOOLEAN]
    /\ sends \in 0 .. MaxBytes
    /\ events \in [Fd -> SUBSET {"IN", "OUT"}]
    /\ revents \in [Fd -> SUBSET {"IN", "OUT", "HUP"}]
    /\ cur_max_fd \in Fd \cup {Biggest_FD} /\ i \in Fd \cup {-1, -2}
    /\ ch \in Conns \cup {"nobody"} /\ waiting \subseteq Conns)'
BY PollTypes, PTL

LEMMA PollNumbers ==
  Polls!TypeOK => /\ i \in Int /\ (i >= 0 => i \in Fd)
                  /\ cur_max_fd \in Nat /\ cur_max_fd \in Fd \cup {Biggest_FD}
<1> SUFFICES ASSUME Polls!TypeOK PROVE i \in Int /\ (i >= 0 => i \in Fd) /\ cur_max_fd \in Nat
                                       /\ cur_max_fd \in Fd \cup {Biggest_FD}
  OBVIOUS
<1>1. i \in Fd \cup {-1, -2} /\ cur_max_fd \in Fd \cup {Biggest_FD}
  BY PollTypes
<1>2. QED BY <1>1, FdFacts

LEMMA PollsInit == Polls!Init => PollInv
<1> SUFFICES ASSUME Polls!Init PROVE PollInv
  OBVIOUS
<1>1. Polls!TypeOK
  <2>1. ListenFd + 1 \in Fd /\ 0 \in 0 .. MaxBytes
    BY ProgramsAssumption DEF Fd
  <2>2. backlog \in Seq(Conns)
    BY DEF Polls!Init, Polls!TcpInit
  <2>3. QED BY <2>1, <2>2, PollTypes, PollConstants DEF Polls!Init, Polls!TcpInit
<1>2. QED BY <1>1, PollConstants, FdFacts DEF Polls!Init, Polls!TcpInit, PollInv

LEMMA PollClientsKeep == PollInv /\ Polls!Clients => PollInv'
<1> SUFFICES ASSUME PollInv, Polls!Clients PROVE PollInv'
  OBVIOUS
<1>1. PICK c \in Conns :
        \/ (Polls!Connect(c) \/ Polls!Fin(c) \/ Polls!Reset(c)) /\ UNCHANGED waiting
        \/ Polls!Send(c, "byte") /\ waiting' = waiting \cup {c}
  BY DEF Polls!Clients
<1>2. /\ i # Polls!Ended
      /\ UNCHANGED <<events, revents, cur_max_fd, i, ch, sock>>
  BY <1>1 DEF Polls!Clients, Polls!Connect, Polls!Fin, Polls!Reset, Polls!Send
<1>3. Polls!TypeOK
  BY DEF PollInv
<1>4. Polls!TypeOK' /\ (backlog # <<>> => backlog' # <<>>)
  <2>1. ASSUME Polls!Connect(c), UNCHANGED waiting
        PROVE  Polls!TypeOK' /\ (backlog # <<>> => backlog' # <<>>)
    <3>1. backlog' \in Seq(Conns) /\ backlog' # <<>>
      BY <1>3, <2>1, PollTypes DEF Polls!Connect
    <3>2. QED BY <1>2, <1>3, <2>1, <3>1, PollTypes, PollTypesNext DEF Polls!Connect
  <2>2. ASSUME Polls!Fin(c) \/ Polls!Reset(c), UNCHANGED waiting
        PROVE  Polls!TypeOK' /\ (backlog # <<>> => backlog' # <<>>)
    BY <1>2, <1>3, <2>2, PollTypes, PollTypesNext DEF Polls!Fin, Polls!Reset
  <2>3. ASSUME Polls!Send(c, "byte"), waiting' = waiting \cup {c}
        PROVE  Polls!TypeOK' /\ (backlog # <<>> => backlog' # <<>>)
    BY <1>2, <1>3, <2>3, PollTypes, PollTypesNext, ProgramsAssumption DEF Polls!Send
  <2>4. QED BY <1>1, <2>1, <2>2, <2>3
<1>5. QED BY <1>2, <1>4, PollConstants DEF PollInv

\* The scan of the entries goes on within the table.
LEMMA GoOnFacts ==
  ASSUME i \in Fd, NEW max \in Fd \cup {Biggest_FD}, Polls!GoOn(max)
  PROVE  i' \in Fd \cup {-1} /\ (i' >= 0 => i' = i + 1)
<1>1. i \in Nat /\ max \in Nat /\ max <= Biggest_FD
  BY FdFacts
<1>2. QED BY <1>1, FdFacts, PollConstants DEF Polls!GoOn, Fd

LEMMA pollKeeps == PollInv /\ Polls!poll => PollInv'
<1> SUFFICES ASSUME PollInv, Polls!poll PROVE PollInv'
  OBVIOUS
<1>1. /\ i = -1 /\ i' = 0
      /\ UNCHANGED <<sock, backlog, peer, inbox, room, sends, events, cur_max_fd, ch, waiting>>
      /\ revents' = [fd \in Fd |-> IF fd \in Polls!Used
                                   THEN Polls!ReadyFor(fd, events[fd]) ELSE {}]
  BY PollConstants DEF Polls!poll, Polls!tcp
<1>2. \A fd \in Polls!Used : fd \in Fd /\ events[fd] # {}
  BY PollConstants DEF Polls!Used
<1>3. \A fd \in Fd : /\ events[fd] \in SUBSET {"IN", "OUT"}
                     /\ Polls!ReadyFor(fd, events[fd]) \in SUBSET {"IN", "OUT", "HUP"}
  BY PollTypes DEF PollInv, Polls!ReadyFor
<1>4. \A fd \in Fd : revents'[fd] # {} => events[fd] # {}
  BY <1>1, <1>2
<1>5. revents'[ListenFd] # {} => backlog # <<>>
  <2>1. sock[ListenFd] = Listener
    BY <1>1, FdFacts, PollConstants DEF PollInv
  <2>2. QED BY <1>1, <2>1, FdFacts DEF Polls!ReadyFor
<1>6. Polls!TypeOK'
  <2>1. revents' \in [Fd -> SUBSET {"IN", "OUT", "HUP"}]
    BY <1>1, <1>3
  <2>2. QED BY <1>1, <2>1, PollTypes, PollTypesNext, FdFacts DEF PollInv, Fd
<1>7. \A fd \in Fd : revents'[fd] # {} => sock'[fd] # "nobody"
  BY <1>1, <1>4, PollConstants DEF PollInv
<1>8. i # Polls!Ended /\ UNCHANGED <<sock, events, cur_max_fd>> /\ (backlog # <<>> => backlog' # <<>>)
  BY <1>1, PollConstants
<1>9. QED BY <1>5, <1>6, <1>7, <1>8 DEF PollInv

LEMMA SkipKeeps == PollInv /\ Polls!Skip => PollInv'
<1> SUFFICES ASSUME PollInv, Polls!Skip PROVE PollInv'
  OBVIOUS
<1>1. /\ i >= 0 /\ Polls!GoOn(cur_max_fd)
      /\ UNCHANGED <<sock, backlog, peer, inbox, room, sends, events, revents,
                     cur_max_fd, ch, waiting>>
  BY DEF Polls!Skip, Polls!tcp
<1>2. i \in Fd /\ cur_max_fd \in Fd \cup {Biggest_FD}
  BY <1>1, PollTypes DEF PollInv
<1>3. i' \in Fd \cup {-1} /\ (i' >= 0 => i' = i + 1)
  BY <1>1, <1>2, GoOnFacts
<1>4. Polls!TypeOK'
  BY <1>1, <1>3, PollTypes, PollTypesNext DEF PollInv
<1>5. i \in Nat /\ \A fd \in Fd : fd \in Nat
  BY <1>2, FdFacts
<1>6. QED BY <1>1, <1>3, <1>4, <1>5, PollConstants, FdFacts DEF PollInv
LEMMA PollAcceptKeeps == PollInv /\ Polls!Accept => PollInv'
<1> SUFFICES ASSUME PollInv, Polls!Accept PROVE PollInv'
  OBVIOUS
<1> DEFINE new == Polls!Min(Polls!FreeFd)
<1>1. new \in Polls!FreeFd
  <2>1. Polls!FreeFd \in SUBSET Nat /\ Polls!FreeFd # {}
    BY FdFacts, PollConstants DEF Polls!FreeFd, Polls!Accept
  <2>2. QED BY <2>1, LeastExists DEF Polls!Min
<1>2. new \in ConnFd /\ sock[new] = "nobody" /\ new \in Fd /\ new # ListenFd /\ new > ListenFd
  BY <1>1, PollConstants, FdFacts DEF Polls!FreeFd
<1>3. i = ListenFd /\ revents[i] # {} /\ i # Polls!Ended
  BY FdFacts, PollConstants DEF Polls!Accept
<1>4. Polls!TypeOK /\ backlog # <<>> /\ backlog \in Seq(Conns) /\ i \in Nat
  BY <1>3, PollTypes, FdFacts DEF PollInv
<1>5. Head(backlog) \in Conns /\ Tail(backlog) \in Seq(Conns)
  BY <1>4
<1> DEFINE max == Polls!Max({cur_max_fd, new + 1})
<1>6. max \in Fd \cup {Biggest_FD} /\ max >= cur_max_fd /\ max >= new + 1
      /\ cur_max_fd \in Nat /\ new \in Nat
  <2> DEFINE both == {cur_max_fd, new + 1}
  <2>1. cur_max_fd \in Fd \cup {Biggest_FD} /\ new + 1 \in Fd \cup {Biggest_FD}
    <3>1. cur_max_fd \in Fd \cup {Biggest_FD}
      BY <1>4, PollNumbers
    <3>2. new + 1 \in Fd \cup {Biggest_FD}
      <4> HIDE DEF new
      <4>1. QED BY <1>2, FdFacts DEF Fd
    <3>3. QED BY <3>1, <3>2
  <2>2. both \subseteq Nat /\ new \in Nat
    BY <1>2, <2>1, FdFacts
  <2>3. \E x \in both : \A y \in both : x >= y
    BY <2>2
  <2>4. max \in both /\ \A y \in both : max >= y
    BY <2>3 DEF Polls!Max
  <2>5. QED BY <2>1, <2>2, <2>4
<1>7. /\ sock' = [sock EXCEPT ![new] = Head(backlog)]
      /\ backlog' = Tail(backlog) /\ UNCHANGED <<peer, inbox, room, sends>>
      /\ events' = [events EXCEPT ![new] = {"IN"}]
      /\ revents' = [revents EXCEPT ![new] = {}]
      /\ cur_max_fd' = max /\ Polls!GoOn(max)
      /\ UNCHANGED <<ch, waiting>>
  BY DEF Polls!Accept, Polls!accept
<1> HIDE DEF new, max
<1>8. i' \in Fd \cup {-1} /\ (i' >= 0 => i' = ListenFd + 1)
  BY <1>3, <1>6, <1>7, GoOnFacts, FdFacts
<1>9. Polls!TypeOK'
  BY <1>2, <1>4, <1>5, <1>6, <1>7, <1>8, PollTypes, PollTypesNext
<1>10. ASSUME NEW fd \in Fd
       PROVE  /\ sock'[fd] = Listener <=> fd = ListenFd
              /\ events'[fd] # {} <=> sock'[fd] # "nobody"
              /\ events'[fd] # {} => fd < cur_max_fd'
              /\ i' >= 0 /\ fd >= i' /\ revents'[fd] # {} => sock'[fd] # "nobody"
  <2>1. /\ sock[fd] = Listener <=> fd = ListenFd
        /\ events[fd] # {} <=> sock[fd] # "nobody"
        /\ events[fd] # {} => fd < cur_max_fd
        /\ fd >= i /\ revents[fd] # {} => sock[fd] # "nobody"
    BY <1>3, <1>4 DEF PollInv
  <2>2. sock \in [Fd -> Conns \cup {"nobody", Listener}] /\ events \in [Fd -> SUBSET {"IN", "OUT"}]
        /\ revents \in [Fd -> SUBSET {"IN", "OUT", "HUP"}] /\ fd \in Nat
    BY <1>4, PollTypes, FdFacts
  <2>3. CASE fd = new
    BY <1>2, <1>5, <1>6, <1>7, <2>2, <2>3, FdFacts
  <2>4. CASE fd # new
    BY <1>3, <1>4, <1>6, <1>7, <1>8, <2>1, <2>2, <2>4, FdFacts
  <2>5. QED BY <2>3, <2>4
<1>11. ~(i' >= 0 /\ i' <= ListenFd)
  BY <1>8, FdFacts
<1>12. QED BY <1>9, <1>10, <1>11 DEF PollInv

\* The connection of an entry the scan has come to.
LEMMA EntryConn ==
  ASSUME PollInv, i > ListenFd, revents[i] # {}
  PROVE  /\ i \in Fd /\ i # ListenFd /\ i \in Nat /\ i # Polls!Ended
         /\ sock[i] \in Conns /\ events[i] # {}
         /\ Polls!TypeOK /\ cur_max_fd \in Fd \cup {Biggest_FD}
<1>1. Polls!TypeOK
  BY DEF PollInv
<1>2. i \in Fd /\ i \in Nat /\ i # ListenFd /\ i >= 0
  BY <1>1, PollNumbers, FdFacts
<1>3. i # Polls!Ended
  BY <1>2, PollConstants
<1>4. sock[i] # "nobody" /\ sock[i] # Listener /\ events[i] # {}
  BY <1>2, <1>3 DEF PollInv
<1>5. QED BY <1>1, <1>2, <1>3, <1>4, PollTypes

LEMMA PollCloseKeeps == PollInv /\ Polls!CloseClient => PollInv'
<1> SUFFICES ASSUME PollInv, Polls!CloseClient PROVE PollInv'
  OBVIOUS
<1>1. i > ListenFd /\ revents[i] # {}
  BY DEF Polls!CloseClient
<1>2. /\ i \in Fd /\ i # ListenFd /\ i \in Nat /\ i # Polls!Ended
      /\ sock[i] \in Conns /\ events[i] # {}
      /\ Polls!TypeOK /\ cur_max_fd \in Fd \cup {Biggest_FD}
  BY <1>1, EntryConn
<1>3. /\ sock' = [sock EXCEPT ![i] = "nobody"]
      /\ peer' = [peer EXCEPT ![sock[i]] = "gone"]
      /\ inbox' = [inbox EXCEPT ![sock[i]] = "none"]
      /\ room' = [room EXCEPT ![sock[i]] = TRUE]
      /\ UNCHANGED <<backlog, sends, cur_max_fd, ch, waiting>>
      /\ events' = [events EXCEPT ![i] = {}] /\ revents' = [revents EXCEPT ![i] = {}]
      /\ Polls!GoOn(cur_max_fd)
  BY PollConstants DEF Polls!CloseClient, Polls!close
<1>4. i' \in Fd \cup {-1} /\ (i' >= 0 => i' = i + 1)
  BY <1>2, <1>3, GoOnFacts
<1>5. Polls!TypeOK'
  BY <1>2, <1>3, <1>4, PollTypes, PollTypesNext
<1>6. \A fd \in Fd : fd \in Nat
  BY FdFacts
<1>7. QED BY <1>1, <1>2, <1>3, <1>4, <1>5, <1>6, PollTypes, FdFacts DEF PollInv

\* A step that changes the events of the scan's entry to others.
LEMMA ServedKeeps ==
  ASSUME PollInv, i > ListenFd, revents[i] # {}, NEW ev \in {{"IN"}, {"OUT"}},
         events' = [events EXCEPT ![i] = ev], Polls!GoOn(cur_max_fd),
         UNCHANGED <<sock, backlog, revents, cur_max_fd>>,
         i' \in Fd \cup {-1} => Polls!TypeOK'
  PROVE  PollInv'
<1>1. /\ i \in Fd /\ i # ListenFd /\ i \in Nat /\ i # Polls!Ended
      /\ sock[i] \in Conns /\ events[i] # {}
      /\ Polls!TypeOK /\ cur_max_fd \in Fd \cup {Biggest_FD}
  BY EntryConn
<1>2. i' \in Fd \cup {-1} /\ (i' >= 0 => i' = i + 1)
  BY <1>1, GoOnFacts
<1>3. \A fd \in Fd : fd \in Nat
  BY FdFacts
<1>4. events \in [Fd -> SUBSET {"IN", "OUT"}]
  BY <1>1, PollTypes
<1>5. \A fd \in Fd : events'[fd] # {} <=> events[fd] # {}
  BY <1>1, <1>4
<1>6. QED BY <1>1, <1>2, <1>3, <1>5, FdFacts DEF PollInv

LEMMA ReadByteKeeps == PollInv /\ Polls!ReadByte => PollInv'
<1> SUFFICES ASSUME PollInv, Polls!ReadByte PROVE PollInv'
  OBVIOUS
<1>1. /\ i > ListenFd /\ revents[i] # {} /\ events' = [events EXCEPT ![i] = {"OUT"}]
      /\ Polls!GoOn(cur_max_fd) /\ UNCHANGED <<sock, backlog, revents, cur_max_fd, waiting>>
  BY DEF Polls!ReadByte, Polls!readData, Polls!callFails
<1>2. sock[i] \in Conns /\ Polls!TypeOK /\ i \in Fd
  BY <1>1, EntryConn
<1>3. ASSUME i' \in Fd \cup {-1} PROVE Polls!TypeOK'
  <2>1. CASE /\ Polls!ReadsData(sock[i]) /\ Polls!readData(sock[i]) /\ ch' = sock[i]
    BY <1>1, <1>2, <1>3, <2>1, PollTypes, PollTypesNext DEF Polls!readData
  <2>2. CASE Polls!callFails(sock[i]) /\ ch' = Polls!Nobody
    BY <1>1, <1>2, <1>3, <2>2, PollTypes, PollTypesNext, PollConstants DEF Polls!callFails
  <2>3. QED BY <2>1, <2>2 DEF Polls!ReadByte
<1>4. QED BY <1>1, <1>3, ServedKeeps

LEMMA WriteByteKeeps == PollInv /\ Polls!WriteByte => PollInv'
<1> SUFFICES ASSUME PollInv, Polls!WriteByte PROVE PollInv'
  OBVIOUS
<1>1. /\ i > ListenFd /\ revents[i] # {} /\ events' = [events EXCEPT ![i] = {"IN"}]
      /\ Polls!GoOn(cur_max_fd) /\ UNCHANGED <<sock, backlog, revents, cur_max_fd, ch>>
  BY DEF Polls!WriteByte, Polls!tcp, Polls!callFails
<1>2. sock[i] \in Conns /\ Polls!TypeOK /\ i \in Fd
  BY <1>1, EntryConn
<1>3. ASSUME i' \in Fd \cup {-1} PROVE Polls!TypeOK'
  <2>1. CASE UNCHANGED Polls!tcp /\ waiting' = waiting \ {sock[i]}
    BY <1>1, <1>2, <1>3, <2>1, PollTypes, PollTypesNext DEF Polls!tcp
  <2>2. CASE Polls!callFails(sock[i]) /\ UNCHANGED waiting
    BY <1>1, <1>2, <1>3, <2>2, PollTypes, PollTypesNext DEF Polls!callFails
  <2>3. QED BY <2>1, <2>2 DEF Polls!WriteByte
<1>4. QED BY <1>1, <1>3, ServedKeeps

LEMMA WriteKilledKeeps == PollInv /\ Polls!WriteKilled => PollInv'
<1> SUFFICES ASSUME PollInv, Polls!WriteKilled PROVE PollInv'
  OBVIOUS
<1>1. /\ sock' = [fd \in Fd |-> "nobody"] /\ backlog' = <<>>
      /\ peer' = [c \in Conns |-> IF Polls!IsOpen(c) \/ peer[c] = "gone" THEN "gone" ELSE "none"]
      /\ inbox' = [c \in Conns |-> "none"] /\ room' = [c \in Conns |-> TRUE]
      /\ UNCHANGED <<sends, events, revents, cur_max_fd, ch, waiting>>
      /\ i' = Polls!Ended
  BY PollConstants DEF Polls!WriteKilled, Polls!processEnds
<1>2. Polls!TypeOK'
  <2>1. Polls!TypeOK
    BY DEF PollInv
  <2>2. backlog' \in Seq(Conns)
    BY <1>1
  <2>3. QED BY <1>1, <2>1, <2>2, PollTypes, PollTypesNext, PollConstants
<1>3. QED BY <1>1, <1>2 DEF PollInv

LEMMA PollsStep == PollInv /\ Polls!Next => PollInv'
BY PollClientsKeep, pollKeeps, SkipKeeps, PollAcceptKeeps, PollCloseKeeps, ReadByteKeeps,
   WriteByteKeeps, WriteKilledKeeps DEF Polls!Next, Polls!ServerStep

LEMMA PollsStutter == PollInv /\ UNCHANGED Polls!vars => PollInv'
BY PollTypes, PollTypesNext DEF PollInv, Polls!vars, Polls!tcp

LEMMA PollsSound == PollInv => Polls!TypeOK /\ Polls!EntriesAgree
<1> SUFFICES ASSUME PollInv PROVE Polls!TypeOK /\ Polls!EntriesAgree
  OBVIOUS
<1>1. Polls!TypeOK
  BY DEF PollInv
<1>2. ASSUME i # Polls!Ended, NEW fd \in Fd
      PROVE  /\ (fd < cur_max_fd /\ events[fd] # {}) <=> sock[fd] # "nobody"
             /\ i >= 0 /\ fd > i /\ revents[fd] # {} => sock[fd] # "nobody"
  <2>1. fd \in Nat /\ i \in Int
    BY <1>1, FdFacts, PollNumbers
  <2>2. QED BY <1>2, <2>1 DEF PollInv
<1>3. QED BY <1>1, <1>2, PollConstants DEF Polls!EntriesAgree
-------------------------------------------------------------------------------
(* The connections of a server that runs.                                  *)

Peers == {"none", "open", "fin", "reset", "broken", "gone"}
Live(p, c) == p[c] \notin {"none", "gone"}

\* Every connection has one descriptor, or a place in the backlog.
NetInv ==
  /\ sock \in [Fd -> Conns \cup {"nobody", Listener}]
  /\ backlog \in Seq(Conns)
  /\ peer \in [Conns -> Peers]
  /\ room \in [Conns -> BOOLEAN]
  /\ sends \in 0 .. MaxSends
  /\ \A fd \in Fd : /\ sock[fd] = Listener <=> fd = ListenFd
                    /\ sock[fd] \in Conns => fd \in ConnFd /\ Live(peer, sock[fd])
  /\ \A f, g \in ConnFd : sock[f] \in Conns /\ sock[f] = sock[g] => f = g
  /\ \A m, n \in 1 .. Len(backlog) : backlog[m] = backlog[n] => m = n
  /\ \A n \in 1 .. Len(backlog) : /\ Live(peer, backlog[n])
                                  /\ \A fd \in ConnFd : sock[fd] # backlog[n]

\* The steps of the clients and the server's calls, which are the same for
\* both servers.
Clients == \E c \in Conns : \/ Echo!Connect(c) \/ Echo!Fin(c) \/ Echo!Reset(c) \/ Echo!Drain(c)
                            \/ \E message : Echo!Send(c, message)

\* The two servers have the same descriptors.
LEMMA SameConstants ==
  /\ Echo!Fd = Fd /\ Echo!ConnFd = ConnFd /\ Echo!Nobody = "nobody"
  /\ Form!Fd = Fd /\ Form!ConnFd = ConnFd /\ Form!Nobody = "nobody"
  /\ Form!FreeFd = Echo!FreeFd
BY DEF Echo!Fd, Form!Fd, Fd, Echo!ConnFd, Form!ConnFd, ConnFd, Echo!Nobody, Form!Nobody,
       Echo!FreeFd, Form!FreeFd

LEMMA SameCalls ==
  /\ \A fd : Form!accept(fd) <=> Echo!accept(fd)
  /\ \A fd : Form!close(fd) <=> Echo!close(fd)
  /\ \A c : Form!readData(c) <=> Echo!readData(c)
  /\ \A c : Form!writeAll(c) <=> Echo!writeAll(c)
  /\ \A c : Form!callFails(c) <=> Echo!callFails(c)
  /\ \A c : Form!Connect(c) <=> Echo!Connect(c)
  /\ \A c : Form!Fin(c) <=> Echo!Fin(c)
  /\ \A c : Form!Reset(c) <=> Echo!Reset(c)
  /\ \A c : Form!Drain(c) <=> Echo!Drain(c)
  /\ \A c, message : Form!Send(c, message) <=> Echo!Send(c, message)
<1>1. \A fd : Form!accept(fd) <=> Echo!accept(fd)
  BY DEF Form!accept, Echo!accept
<1>2. \A fd : Form!close(fd) <=> Echo!close(fd)
  BY SameConstants DEF Form!close, Echo!close
<1>3. \A c : Form!readData(c) <=> Echo!readData(c)
  BY DEF Form!readData, Echo!readData
<1>4. \A c : Form!writeAll(c) <=> Echo!writeAll(c)
  BY DEF Form!writeAll, Echo!writeAll
<1>5. \A c : Form!callFails(c) <=> Echo!callFails(c)
  BY DEF Form!callFails, Echo!callFails
<1>6. \A c : /\ Form!Connect(c) <=> Echo!Connect(c)
             /\ Form!Fin(c) <=> Echo!Fin(c)
             /\ Form!Reset(c) <=> Echo!Reset(c)
  BY DEF Form!Connect, Echo!Connect, Form!Fin, Echo!Fin, Form!Reset, Echo!Reset
<1>7. \A c : Form!Drain(c) <=> Echo!Drain(c)
  BY DEF Form!Drain, Echo!Drain, Form!Connected, Echo!Connected
<1>8. \A c, message : Form!Send(c, message) <=> Echo!Send(c, message)
  BY DEF Form!Send, Echo!Send
<1>9. QED BY <1>1, <1>2, <1>3, <1>4, <1>5, <1>6, <1>7, <1>8

LEMMA NetInit == Echo!TcpInit => NetInv
<1> SUFFICES ASSUME Echo!TcpInit PROVE NetInv
  OBVIOUS
<1>1. /\ sock = [fd \in Fd |-> IF fd = ListenFd THEN Listener ELSE "nobody"]
      /\ backlog = <<>> /\ peer = [c \in Conns |-> "none"]
      /\ room = [c \in Conns |-> TRUE] /\ sends = 0
  BY SameConstants DEF Echo!TcpInit
<1>2. backlog \in Seq(Conns) /\ Len(backlog) = 0
  BY <1>1
<1>3. QED BY <1>1, <1>2, FdFacts, ProgramsAssumption DEF NetInv, Peers

\* What clients do leaves the descriptors alone.
LEMMA ClientsKeepNet ==
  ASSUME NetInv, Clients
  PROVE  /\ NetInv' /\ UNCHANGED sock
         /\ backlog # <<>> => backlog' # <<>>
         /\ \A c \in Conns : peer[c] = "gone" <=> peer'[c] = "gone"
<1>1. PICK c \in Conns : \/ Echo!Connect(c) \/ Echo!Fin(c) \/ Echo!Reset(c) \/ Echo!Drain(c)
                         \/ \E message : Echo!Send(c, message)
  BY DEF Clients
<1>2. CASE Echo!Connect(c)
  <2>1. /\ peer[c] = "none" /\ peer' = [peer EXCEPT ![c] = "open"]
        /\ backlog' = Append(backlog, c) /\ UNCHANGED <<sock, room, sends>>
        /\ backlog \in Seq(Conns) /\ peer \in [Conns -> Peers]
    BY <1>2 DEF Echo!Connect, NetInv
  <2>2. /\ backlog' \in Seq(Conns) /\ Len(backlog') = Len(backlog) + 1 /\ Len(backlog) \in Nat
        /\ \A n \in 1 .. Len(backlog) : backlog'[n] = backlog[n] /\ backlog[n] \in Conns
        /\ backlog'[Len(backlog) + 1] = c /\ backlog' # <<>>
    BY <2>1
  <2>3. /\ \A n \in 1 .. Len(backlog) : backlog[n] # c
        /\ \A fd \in ConnFd : sock[fd] # c
    BY <2>1, FdFacts DEF NetInv, Live
  <2>4. \A d \in Conns : Live(peer, d) => Live(peer', d)
    BY <2>1 DEF Live
  <2>5. Live(peer', c)
    BY <2>1 DEF Live
  <2>6. \A m, n \in 1 .. Len(backlog') : backlog'[m] = backlog'[n] => m = n
    BY <2>2, <2>3 DEF NetInv
  <2>7. \A n \in 1 .. Len(backlog') : Live(peer', backlog'[n]) /\ \A fd \in ConnFd : sock'[fd] # backlog'[n]
    <3> SUFFICES ASSUME NEW n \in 1 .. Len(backlog')
                 PROVE  Live(peer', backlog'[n]) /\ \A fd \in ConnFd : sock'[fd] # backlog'[n]
      OBVIOUS
    <3>1. CASE n \in 1 .. Len(backlog)
      <4>1. backlog'[n] = backlog[n] /\ backlog[n] \in Conns /\ Live(peer, backlog[n])
            /\ \A fd \in ConnFd : sock[fd] # backlog[n]
        BY <2>2, <3>1 DEF NetInv
      <4>2. QED BY <2>1, <2>4, <4>1
    <3>2. CASE n = Len(backlog) + 1
      BY <2>1, <2>2, <2>3, <2>5, <3>2
    <3>3. QED BY <2>2, <3>1, <3>2
  <2>8. \A d \in Conns : peer[d] = "gone" <=> peer'[d] = "gone"
    BY <2>1
  <2>9. peer' \in [Conns -> Peers]
    BY <2>1 DEF Peers
  <2>10. QED BY <2>1, <2>2, <2>4, <2>6, <2>7, <2>8, <2>9 DEF NetInv
<1>3. CASE Echo!Fin(c) \/ Echo!Reset(c)
  <2>1. /\ UNCHANGED <<sock, backlog, room, sends>> /\ peer \in [Conns -> Peers]
        /\ \E new \in {"fin", "reset", "broken"} : peer' = [peer EXCEPT ![c] = new]
        /\ Live(peer, c)
    BY <1>3 DEF Echo!Fin, Echo!Reset, NetInv, Live
  <2>2. /\ peer' \in [Conns -> Peers] /\ \A d \in Conns : Live(peer, d) => Live(peer', d)
        /\ \A d \in Conns : peer[d] = "gone" <=> peer'[d] = "gone"
    BY <2>1 DEF Live, Peers
  <2>3. \A n \in 1 .. Len(backlog) : backlog[n] \in Conns
    BY DEF NetInv
  <2>4. QED BY <2>1, <2>2, <2>3 DEF NetInv
<1>4. CASE Echo!Drain(c) \/ \E message : Echo!Send(c, message)
  <2>1. UNCHANGED <<sock, backlog, peer>> /\ room' \in [Conns -> BOOLEAN]
    BY <1>4 DEF Echo!Drain, Echo!Send, NetInv
  <2>2. sends' \in 0 .. MaxSends
    <3>1. sends \in 0 .. MaxSends /\ MaxSends \in Nat
      BY ProgramsAssumption DEF NetInv
    <3>2. sends' = sends \/ (sends < MaxSends /\ sends' = sends + 1)
      BY <1>4 DEF Echo!Drain, Echo!Send
    <3>3. QED BY <3>1, <3>2
  <2>3. QED BY <2>1, <2>2 DEF NetInv, Live
<1>5. QED BY <1>1, <1>2, <1>3, <1>4

\* A call that takes up neither a connection nor a descriptor.
LEMMA CallKeepsNet ==
  ASSUME NetInv, NEW c \in Conns,
         Echo!readData(c) \/ Echo!writeAll(c) \/ Echo!writeShort(c) \/ Echo!callFails(c)
  PROVE  /\ NetInv' /\ UNCHANGED <<sock, backlog, sends>>
         /\ \A d \in Conns : peer[d] = "gone" <=> peer'[d] = "gone"
<1>1. CASE Echo!readData(c) \/ Echo!writeAll(c) \/ Echo!writeShort(c)
  <2>1. UNCHANGED <<sock, backlog, peer, sends>> /\ room' \in [Conns -> BOOLEAN]
    BY <1>1 DEF Echo!readData, Echo!writeAll, Echo!writeShort, NetInv
  <2>2. QED BY <2>1 DEF NetInv, Live
<1>2. CASE Echo!callFails(c)
  <2>1. /\ UNCHANGED <<sock, backlog, room, sends>> /\ peer \in [Conns -> Peers]
        /\ peer' = [peer EXCEPT ![c] = IF peer[c] = "reset" THEN "broken" ELSE peer[c]]
    BY <1>2 DEF Echo!callFails, NetInv
  <2>2. /\ peer' \in [Conns -> Peers] /\ \A d \in Conns : Live(peer, d) => Live(peer', d)
        /\ \A d \in Conns : peer[d] = "gone" <=> peer'[d] = "gone"
    BY <2>1 DEF Live, Peers
  <2>3. \A n \in 1 .. Len(backlog') : /\ Live(peer', backlog'[n])
                                     /\ \A f \in ConnFd : sock'[f] # backlog'[n]
    <3>1. \A n \in 1 .. Len(backlog) : backlog[n] \in Conns /\ Live(peer, backlog[n])
      BY DEF NetInv
    <3>2. QED BY <2>1, <2>2, <3>1 DEF NetInv
  <2>4. \A f \in Fd : /\ sock'[f] = Listener <=> f = ListenFd
                      /\ sock'[f] \in Conns => f \in ConnFd /\ Live(peer', sock'[f])
    BY <2>1, <2>2 DEF NetInv
  <2>5. NetInv'
    BY <2>1, <2>2, <2>3, <2>4 DEF NetInv
  <2>6. QED BY <2>1, <2>2, <2>5
<1>3. QED BY <1>1, <1>2

LEMMA AcceptKeepsNet ==
  ASSUME NetInv, backlog # <<>>, NEW fd \in ConnFd, sock[fd] = "nobody", Echo!accept(fd)
  PROVE  /\ NetInv' /\ UNCHANGED <<peer, inbox, sends>>
         /\ Head(backlog) \in Conns /\ sock' = [sock EXCEPT ![fd] = Head(backlog)]
         /\ \A f \in ConnFd : sock[f] # Head(backlog)
         /\ Live(peer, Head(backlog))
<1> DEFINE c == Head(backlog)
<1>1. /\ sock' = [sock EXCEPT ![fd] = c] /\ backlog' = Tail(backlog)
      /\ UNCHANGED <<peer, inbox, room, sends>> /\ backlog \in Seq(Conns)
  BY DEF Echo!accept, NetInv
<1>2. /\ c = backlog[1] /\ c \in Conns /\ backlog' \in Seq(Conns)
      /\ Len(backlog) \in Nat /\ Len(backlog) >= 1 /\ Len(backlog') = Len(backlog) - 1
      /\ \A n \in 1 .. Len(backlog') : backlog'[n] = backlog[n + 1]
  BY <1>1
<1>3. \A f \in ConnFd : sock[f] # c
  BY <1>2 DEF NetInv
<1>4. Live(peer, c)
  BY <1>2 DEF NetInv
<1>5. \A n \in 1 .. Len(backlog') : n + 1 \in 1 .. Len(backlog) /\ backlog'[n] # c
  BY <1>2 DEF NetInv
<1> HIDE DEF c
<1>6. \A m, n \in 1 .. Len(backlog') : backlog'[m] = backlog'[n] => m = n
  BY <1>2, <1>5 DEF NetInv
<1>7. \A n \in 1 .. Len(backlog') : Live(peer', backlog'[n]) /\ \A f \in ConnFd : sock'[f] # backlog'[n]
  <2> SUFFICES ASSUME NEW n \in 1 .. Len(backlog')
               PROVE  Live(peer', backlog'[n]) /\ \A f \in ConnFd : sock'[f] # backlog'[n]
    OBVIOUS
  <2>1. /\ backlog'[n] = backlog[n + 1] /\ Live(peer, backlog[n + 1]) /\ backlog'[n] # c
        /\ \A f \in ConnFd : sock[f] # backlog[n + 1]
    BY <1>2, <1>5 DEF NetInv
  <2>2. QED BY <1>1, <2>1, FdFacts DEF NetInv, Live
<1>8. /\ sock' \in [Fd -> Conns \cup {"nobody", Listener}]
      /\ \A f \in Fd : /\ sock'[f] = Listener <=> f = ListenFd
                       /\ sock'[f] \in Conns => f \in ConnFd /\ Live(peer', sock'[f])
      /\ \A f, g \in ConnFd : sock'[f] \in Conns /\ sock'[f] = sock'[g] => f = g
  <2>1. /\ sock'[fd] = c /\ c \in Conns /\ c # Listener /\ fd # ListenFd /\ Live(peer', c)
        /\ \A f \in Fd \ {fd} : sock'[f] = sock[f]
        /\ sock' \in [Fd -> Conns \cup {"nobody", Listener}]
    BY <1>1, <1>2, <1>4, FdFacts DEF NetInv, Live
  <2>2. \A f \in Fd \ {fd} : /\ sock'[f] = Listener <=> f = ListenFd
                             /\ sock'[f] \in Conns => f \in ConnFd /\ Live(peer', sock'[f])
    BY <1>1, <2>1 DEF NetInv, Live
  <2>3. \A f, g \in ConnFd : sock'[f] \in Conns /\ sock'[f] = sock'[g] => f = g
    BY <1>3, <2>1, FdFacts DEF NetInv
  <2>4. QED BY <2>1, <2>2, <2>3
<1>9. NetInv'
  BY <1>1, <1>2, <1>6, <1>7, <1>8 DEF NetInv
<1>10. QED BY <1>1, <1>2, <1>3, <1>4, <1>9 DEF c

LEMMA CloseKeepsNet ==
  ASSUME NetInv, NEW fd \in ConnFd, sock[fd] \in Conns, Echo!close(fd)
  PROVE  /\ NetInv' /\ UNCHANGED <<backlog, sends>>
         /\ sock' = [sock EXCEPT ![fd] = "nobody"]
         /\ inbox' = [inbox EXCEPT ![sock[fd]] = "none"]
<1> PICK c \in Conns : c = sock[fd]
  OBVIOUS
<1>1. /\ sock' = [sock EXCEPT ![fd] = "nobody"] /\ peer' = [peer EXCEPT ![c] = "gone"]
      /\ inbox' = [inbox EXCEPT ![c] = "none"] /\ room' = [room EXCEPT ![c] = TRUE]
      /\ UNCHANGED <<backlog, sends>>
  BY SameConstants DEF Echo!close
<1>2. \A n \in 1 .. Len(backlog) : backlog[n] # c /\ backlog[n] \in Conns
  BY DEF NetInv
<1>3. \A f \in Fd : sock[f] = c => f = fd
  BY DEF NetInv
<1>4. /\ peer' \in [Conns -> Peers] /\ room' \in [Conns -> BOOLEAN]
      /\ \A d \in Conns \ {c} : peer'[d] = peer[d]
  BY <1>1 DEF NetInv, Peers
<1>5. \A d \in Conns \ {c} : Live(peer, d) => Live(peer', d)
  BY <1>4 DEF Live
<1>6. \A n \in 1 .. Len(backlog') : Live(peer', backlog'[n]) /\ \A f \in ConnFd : sock'[f] # backlog'[n]
  <2> SUFFICES ASSUME NEW n \in 1 .. Len(backlog)
               PROVE  Live(peer', backlog[n]) /\ \A f \in ConnFd : sock'[f] # backlog[n]
    BY <1>1
  <2>1. Live(peer, backlog[n]) /\ backlog[n] \in Conns \ {c} /\ \A f \in ConnFd : sock[f] # backlog[n]
    BY <1>2 DEF NetInv
  <2>2. Live(peer', backlog[n])
    BY <1>1, <1>4, <2>1 DEF Live
  <2>3. QED BY <1>1, <2>1, <2>2, FdFacts DEF NetInv
<1>7. /\ sock' \in [Fd -> Conns \cup {"nobody", Listener}]
      /\ \A f \in Fd : /\ sock'[f] = Listener <=> f = ListenFd
                       /\ sock'[f] \in Conns => f \in ConnFd /\ Live(peer', sock'[f])
      /\ \A f, g \in ConnFd : sock'[f] \in Conns /\ sock'[f] = sock'[g] => f = g
  <2>1. /\ sock'[fd] = "nobody" /\ "nobody" \notin Conns \cup {Listener} /\ fd # ListenFd
        /\ \A f \in Fd \ {fd} : sock'[f] = sock[f]
        /\ sock' \in [Fd -> Conns \cup {"nobody", Listener}]
    BY <1>1, FdFacts DEF NetInv
  <2>2. \A f \in Fd \ {fd} : /\ sock'[f] = Listener <=> f = ListenFd
                             /\ sock'[f] \in Conns => f \in ConnFd /\ Live(peer', sock'[f])
    BY <1>3, <1>5, <2>1 DEF NetInv
  <2>3. \A f, g \in ConnFd : sock'[f] \in Conns /\ sock'[f] = sock'[g] => f = g
    BY <2>1, FdFacts DEF NetInv
  <2>4. QED BY <2>1, <2>2, <2>3
<1>8. /\ backlog' \in Seq(Conns) /\ sends' \in 0 .. MaxSends
      /\ \A m, n \in 1 .. Len(backlog') : backlog'[m] = backlog'[n] => m = n
  BY <1>1 DEF NetInv
<1>9. NetInv'
  BY <1>4, <1>6, <1>7, <1>8, Zenon DEF NetInv
<1>10. QED BY <1>1, <1>9
-------------------------------------------------------------------------------
(* The echo server on libevent.                                            *)

\* What is open is watched, or was given up; an event that waits to be called is
\* the only one of its descriptor, and the listener's has a connection to accept.
EchoInv ==
  /\ Echo!TypeOK
  /\ Echo!WatchedOrFailed
  /\ pc # "killed" => NetInv
  /\ \A m, n \in 1 .. Len(active) : active[m] = active[n] => m = n
  /\ \A n \in 1 .. Len(active) : active[n] = Listener => backlog # <<>>

\* Echo!TypeOK, in the words of this module.
LEMMA EchoTypes ==
  Echo!TypeOK <=>
    /\ sock \in [Fd -> Conns \cup {"nobody", Listener}]
    /\ backlog \in Seq(Conns)
    /\ peer \in [Conns -> Peers]
    /\ inbox \in [Conns -> {"text", "quit"} \cup {"none"}]
    /\ room \in [Conns -> BOOLEAN]
    /\ sends \in 0 .. MaxSends
    /\ evh \in [Conns -> {"welcome", "echo", "response"} \cup {"none"}]
    /\ added \subseteq Conns
    /\ active \in Seq(Conns \cup {Listener})
    /\ heap \subseteq Conns \cup {Listener} /\ reply \subseteq heap
    /\ pc \in {"wait", "call", "killed"}
    /\ failed \subseteq heap
BY SameConstants DEF Echo!TypeOK, Echo!TcpTypeOK, Peers, Echo!Handler

LEMMA EchoTypesNext ==
  (Echo!TypeOK <=>
    /\ sock \in [Fd -> Conns \cup {"nobody", Listener}]
    /\ backlog \in Seq(Conns)
    /\ peer \in [Conns -> Peers]
    /\ inbox \in [Conns -> {"text", "quit"} \cup {"none"}]
    /\ room \in [Conns -> BOOLEAN]
    /\ sends \in 0 .. MaxSends
    /\ evh \in [Conns -> {"welcome", "echo", "response"} \cup {"none"}]
    /\ added \subseteq Conns
    /\ active \in Seq(Conns \cup {Listener})
    /\ heap \subseteq Conns \cup {Listener} /\ reply \subseteq heap
    /\ pc \in {"wait", "call", "killed"}
    /\ failed \subseteq heap)'
BY EchoTypes, PTL

\* WatchedOrFailed, with the elements of active by their index.
Opened(c) == \E fd \in ConnFd : sock[fd] = c

LEMMA WatchedIs ==
  Echo!WatchedOrFailed <=>
    /\ \A c \in Conns : Opened(c) <=> c \in heap
    /\ \A c \in Conns : c \in heap <=> evh[c] # "none"
    /\ heap \cap Conns = added \cup failed /\ added \cap failed = {}
    /\ \A n \in DOMAIN active : active[n] \in added \cup {Listener}
<1>1. Echo!Range(active) \subseteq added \cup {Listener}
      <=> \A n \in DOMAIN active : active[n] \in added \cup {Listener}
  BY DEF Echo!Range
<1>2. \A c : Echo!IsOpen(c) <=> Opened(c)
  BY SameConstants DEF Echo!IsOpen, Opened
<1>3. QED BY <1>1, <1>2 DEF Echo!WatchedOrFailed

LEMMA WatchedIsNext ==
  (Echo!WatchedOrFailed <=>
    /\ \A c \in Conns : Opened(c) <=> c \in heap
    /\ \A c \in Conns : c \in heap <=> evh[c] # "none"
    /\ heap \cap Conns = added \cup failed /\ added \cap failed = {}
    /\ \A n \in DOMAIN active : active[n] \in added \cup {Listener})'
BY WatchedIs, PTL

LEMMA EchoInit == Echo!Init => EchoInv
<1> SUFFICES ASSUME Echo!Init PROVE EchoInv
  OBVIOUS
<1>1. NetInv
  BY NetInit DEF Echo!Init
<1>2. /\ evh = [c \in Conns |-> "none"] /\ added = {} /\ active = <<>>
      /\ heap = {Listener} /\ reply = {} /\ pc = "wait" /\ failed = {}
      /\ inbox = [c \in Conns |-> "none"]
  BY DEF Echo!Init, Echo!TcpInit
<1>3. active \in Seq(Conns \cup {Listener}) /\ Len(active) = 0 /\ DOMAIN active = {}
  BY <1>2
<1>4. Echo!TypeOK
  BY <1>1, <1>2, <1>3, EchoTypes DEF NetInv
<1>5. \A c \in Conns : ~Opened(c)
  BY SameConstants, FdFacts DEF Opened, Echo!Init, Echo!TcpInit
<1>6. Echo!WatchedOrFailed
  BY <1>2, <1>3, <1>5, WatchedIs, FdFacts
<1>7. QED BY <1>1, <1>3, <1>4, <1>6 DEF EchoInv

LEMMA EchoClientsKeep == EchoInv /\ Echo!Clients => EchoInv'
<1> SUFFICES ASSUME EchoInv, Echo!Clients PROVE EchoInv'
  OBVIOUS
<1>1. /\ pc # "killed" /\ Clients
      /\ UNCHANGED <<evh, added, active, pc, heap, reply, failed>>
  BY DEF Echo!Clients, Echo!ClientStep, Echo!events, Clients
<1>2. /\ NetInv' /\ sock' = sock /\ (backlog # <<>> => backlog' # <<>>)
  BY <1>1, ClientsKeepNet DEF EchoInv
<1>3. inbox' \in [Conns -> {"text", "quit"} \cup {"none"}]
  <2>1. inbox \in [Conns -> {"text", "quit"} \cup {"none"}]
    BY EchoTypes DEF EchoInv
  <2>2. QED BY <2>1 DEF Echo!Clients, Echo!ClientStep, Echo!Connect, Echo!Fin, Echo!Reset,
                        Echo!Drain, Echo!Send
<1>4. Echo!TypeOK'
  BY <1>1, <1>2, <1>3, EchoTypes, EchoTypesNext DEF EchoInv, NetInv
<1>5. Echo!WatchedOrFailed'
  BY <1>1, <1>2, WatchedIs, WatchedIsNext DEF EchoInv, Opened
<1>6. QED BY <1>1, <1>2, <1>4, <1>5 DEF EchoInv
\* The events that wait to be called once the first of them is.
LEMMA NextCall ==
  ASSUME EchoInv, active # <<>>
  PROVE  /\ Tail(active) \in Seq(Conns \cup {Listener})
         /\ Head(active) \in added \cup {Listener}
         /\ Head(active) = Listener => backlog # <<>>
         /\ DOMAIN Tail(active) = 1 .. Len(Tail(active))
         /\ \A n \in 1 .. Len(Tail(active)) :
              /\ Tail(active)[n] \in (added \cup {Listener}) \ {Head(active)}
              /\ Tail(active)[n] = Listener => backlog # <<>>
         /\ \A m, n \in 1 .. Len(Tail(active)) : Tail(active)[m] = Tail(active)[n] => m = n
<1> DEFINE rest == Tail(active)
<1>1. active \in Seq(Conns \cup {Listener})
  BY EchoTypes DEF EchoInv
<1>2. /\ rest \in Seq(Conns \cup {Listener}) /\ Head(active) = active[1]
      /\ Len(active) \in Nat /\ Len(active) >= 1 /\ Len(rest) = Len(active) - 1
      /\ DOMAIN active = 1 .. Len(active) /\ DOMAIN rest = 1 .. Len(rest)
      /\ \A n \in 1 .. Len(rest) : rest[n] = active[n + 1]
  BY <1>1
<1>3. \A n \in 1 .. Len(active) : active[n] \in added \cup {Listener}
  BY <1>2, WatchedIs DEF EchoInv
<1>4. \A n \in 1 .. Len(rest) : n + 1 \in 1 .. Len(active) /\ n + 1 # 1
  BY <1>2
<1> HIDE DEF rest
<1>5. \A n \in 1 .. Len(rest) : /\ rest[n] \in (added \cup {Listener}) \ {Head(active)}
                                /\ rest[n] = Listener => backlog # <<>>
  BY <1>2, <1>3, <1>4 DEF EchoInv
<1>6. \A m, n \in 1 .. Len(rest) : rest[m] = rest[n] => m = n
  BY <1>2, <1>4 DEF EchoInv
<1>7. Head(active) \in added \cup {Listener} /\ (Head(active) = Listener => backlog # <<>>)
  BY <1>2, <1>3 DEF EchoInv
<1>8. QED BY <1>2, <1>5, <1>6, <1>7 DEF rest

\* Nothing is watched and called that was not before, but for the one just called.
LEMMA CallKeeps ==
  ASSUME EchoInv, active # <<>>, active' = Tail(active), UNCHANGED pc, pc # "killed", NetInv',
         inbox' \in [Conns -> {"text", "quit"} \cup {"none"}],
         evh' \in [Conns -> {"welcome", "echo", "response"} \cup {"none"}],
         heap' \subseteq Conns \cup {Listener}, reply' \subseteq heap', failed' \subseteq heap',
         \A c \in Conns : Opened(c)' <=> c \in heap',
         \A c \in Conns : c \in heap' <=> evh'[c] # "none",
         heap' \cap Conns = added' \cup failed', added' \cap failed' = {},
         added \ {Head(active)} \subseteq added',
         backlog' = backlog \/ Head(active) = Listener
  PROVE  EchoInv'
<1>1. /\ active' \in Seq(Conns \cup {Listener}) /\ DOMAIN active' = 1 .. Len(active')
      /\ \A n \in 1 .. Len(active') :
           /\ active'[n] \in (added \cup {Listener}) \ {Head(active)}
           /\ active'[n] = Listener => backlog # <<>>
      /\ \A m, n \in 1 .. Len(active') : active'[m] = active'[n] => m = n
  BY NextCall
<1>2. Echo!TypeOK'
  <2>1. added' \subseteq Conns /\ pc' \in {"wait", "call", "killed"}
    BY EchoTypes DEF EchoInv
  <2>2. QED BY <1>1, <2>1, EchoTypesNext DEF NetInv
<1>3. \A n \in 1 .. Len(active') : active'[n] \in added' \cup {Listener}
  BY <1>1
<1>4. Echo!WatchedOrFailed'
  BY <1>1, <1>3, WatchedIsNext
<1>5. \A n \in 1 .. Len(active') : active'[n] = Listener => backlog' # <<>>
  BY <1>1
<1>6. QED BY <1>1, <1>2, <1>4, <1>5 DEF EchoInv

LEMMA CallAcceptKeeps == EchoInv /\ Echo!CallAccept => EchoInv'
<1> SUFFICES ASSUME EchoInv, Echo!CallAccept PROVE EchoInv'
  OBVIOUS
<1>1. /\ pc = "call" /\ active # <<>> /\ Head(active) = Listener
      /\ active' = Tail(active) /\ UNCHANGED pc /\ Echo!accept_connection
  BY DEF Echo!CallAccept
<1>2. /\ NetInv /\ backlog # <<>> /\ Echo!TypeOK /\ Echo!WatchedOrFailed
  BY <1>1, NextCall DEF EchoInv
<1>3. /\ inbox \in [Conns -> {"text", "quit"} \cup {"none"}]
      /\ evh \in [Conns -> {"welcome", "echo", "response"} \cup {"none"}]
      /\ heap \subseteq Conns \cup {Listener} /\ reply \subseteq heap /\ failed \subseteq heap
      /\ added \subseteq Conns
  BY <1>2, EchoTypes
<1>4. CASE Echo!FreeFd = {}
  <2>1. UNCHANGED <<sock, backlog, peer, inbox, room, sends, evh, added, heap, reply, failed>>
    BY <1>1, <1>4 DEF Echo!accept_connection, Echo!tcp
  <2>2. NetInv' /\ \A c \in Conns : Opened(c)' <=> Opened(c)
    BY <1>2, <2>1 DEF NetInv, Opened
  <2>3. QED BY <1>1, <1>2, <1>3, <2>1, <2>2, WatchedIs, CallKeeps
<1>5. CASE Echo!FreeFd # {}
  <2> DEFINE new == Echo!Min(Echo!FreeFd)
             c == Head(backlog)
  <2>1. new \in Echo!FreeFd
    <3>1. Echo!FreeFd \in SUBSET Nat
      BY FdFacts, SameConstants DEF Echo!FreeFd
    <3>2. QED BY <1>5, <3>1, LeastExists DEF Echo!Min
  <2>2. new \in ConnFd /\ sock[new] = "nobody"
    BY <2>1, SameConstants DEF Echo!FreeFd
  <2>3. /\ Echo!accept(new) /\ evh' = [evh EXCEPT ![c] = "welcome"] /\ added' = added \cup {c}
        /\ heap' = heap \cup {c} /\ UNCHANGED <<reply, failed>>
    BY <1>1, <1>5 DEF Echo!accept_connection, Echo!SetAndAdd, Echo!Returned
  <2> HIDE DEF new
  <2>4. /\ NetInv' /\ UNCHANGED <<peer, inbox, sends>>
        /\ c \in Conns /\ sock' = [sock EXCEPT ![new] = c]
        /\ \A f \in ConnFd : sock[f] # c
    BY <1>2, <2>2, <2>3, AcceptKeepsNet
  <2> HIDE DEF c
  <2>5. \A d \in Conns : Opened(d)' <=> Opened(d) \/ d = c
    <3>1. \A f \in ConnFd : sock'[f] = IF f = new THEN c ELSE sock[f]
      BY <1>2, <2>2, <2>4, FdFacts DEF NetInv
    <3>2. QED BY <2>2, <3>1, FdFacts DEF Opened
  <2>6. c \notin heap /\ c \notin failed
    BY <1>2, <1>3, <2>4, WatchedIs DEF Opened
  <2>7. QED BY <1>1, <1>2, <1>3, <2>3, <2>4, <2>5, <2>6, WatchedIs, CallKeeps
<1>6. QED BY <1>4, <1>5

\* The descriptor of a connection that is watched.
LEMMA DescriptorIs ==
  ASSUME NetInv, NEW c \in Conns, Opened(c)
  PROVE  Echo!DescriptorOf(c) \in ConnFd /\ sock[Echo!DescriptorOf(c)] = c
BY SameConstants DEF Echo!DescriptorOf, Opened

LEMMA CallHandlerKeeps == EchoInv /\ Echo!CallHandler => EchoInv'
<1> SUFFICES ASSUME EchoInv, Echo!CallHandler PROVE EchoInv'
  OBVIOUS
<1>1. /\ pc = "call" /\ active # <<>> /\ Head(active) # Listener
      /\ active' = Tail(active) /\ UNCHANGED pc
  BY DEF Echo!CallHandler
<1> PICK c \in Conns : c = Head(active)
  BY <1>1, NextCall, EchoTypes DEF EchoInv
<1>2. /\ NetInv /\ Echo!TypeOK /\ Echo!WatchedOrFailed /\ c \in added
  BY <1>1, NextCall DEF EchoInv
<1>3. /\ inbox \in [Conns -> {"text", "quit"} \cup {"none"}]
      /\ evh \in [Conns -> {"welcome", "echo", "response"} \cup {"none"}]
      /\ heap \subseteq Conns \cup {Listener} /\ reply \subseteq heap /\ failed \subseteq heap
      /\ added \subseteq Conns
  BY <1>2, EchoTypes
<1>4. c \in heap /\ c \notin failed /\ Opened(c) /\ evh[c] # "none"
  BY <1>2, WatchedIs
<1>5. ASSUME Echo!callFails(c) \/ Echo!writeShort(c), Echo!GiveUp(c)
      PROVE  EchoInv'
  <2>1. NetInv' /\ UNCHANGED <<sock, backlog>> /\ UNCHANGED inbox
    BY <1>2, <1>5, CallKeepsNet DEF Echo!callFails, Echo!writeShort
  <2>2. /\ added' = added \ {c} /\ failed' = failed \cup {c} /\ UNCHANGED <<evh, heap, reply>>
        /\ \A d \in Conns : Opened(d)' <=> Opened(d)
    BY <1>5, <2>1 DEF Echo!GiveUp, Echo!NotAdded, Opened
  <2>3. QED BY <1>1, <1>2, <1>3, <1>4, <2>1, <2>2, WatchedIs, CallKeeps
<1>6. ASSUME Echo!readData(c) \/ Echo!writeAll(c), NEW h \in {"welcome", "echo", "response"},
             Echo!SetAndAdd(c, h), UNCHANGED <<heap, failed>>,
             reply' \in {reply, reply \cup {c}, reply \ {c}}
      PROVE  EchoInv'
  <2>1. NetInv' /\ UNCHANGED <<sock, backlog>>
    BY <1>2, <1>6, CallKeepsNet
  <2>2. inbox' \in [Conns -> {"text", "quit"} \cup {"none"}]
    BY <1>3, <1>6 DEF Echo!readData, Echo!writeAll
  <2>3. /\ added' = added /\ evh' = [evh EXCEPT ![c] = h] /\ reply' \subseteq heap
        /\ \A d \in Conns : Opened(d)' <=> Opened(d)
    BY <1>2, <1>3, <1>4, <1>6, <2>1 DEF Echo!SetAndAdd, Opened
  <2>4. QED BY <1>1, <1>2, <1>3, <1>4, <1>6, <2>1, <2>2, <2>3, WatchedIs, CallKeeps
<1>7. ASSUME Echo!CloseAndFree(c)
      PROVE  EchoInv'
  <2> DEFINE fd == Echo!DescriptorOf(c)
  <2>1. fd \in ConnFd /\ sock[fd] = c
    BY <1>2, <1>4, DescriptorIs
  <2>2. /\ Echo!close(fd) /\ evh' = [evh EXCEPT ![c] = "none"] /\ added' = added \ {c}
        /\ heap' = heap \ {c} /\ reply' = reply \ {c} /\ failed' = failed \ {c}
    BY <1>7 DEF Echo!CloseAndFree
  <2> HIDE DEF fd
  <2>3. /\ NetInv' /\ UNCHANGED backlog /\ sock' = [sock EXCEPT ![fd] = "nobody"]
        /\ inbox' = [inbox EXCEPT ![c] = "none"]
    BY <1>2, <2>1, <2>2, CloseKeepsNet
  <2>4. \A d \in Conns : Opened(d)' <=> Opened(d) /\ d # c
    <3>1. \A f \in ConnFd : sock'[f] = IF f = fd THEN "nobody" ELSE sock[f]
      BY <1>2, <2>1, <2>3, FdFacts DEF NetInv
    <3>2. \A f \in ConnFd : sock[f] = c => f = fd
      BY <1>2, <2>1 DEF NetInv
    <3>3. QED BY <2>1, <3>1, <3>2, FdFacts DEF Opened
  <2>5. QED BY <1>1, <1>2, <1>3, <1>4, <2>2, <2>3, <2>4, WatchedIs, CallKeeps
<1>8. \/ evh[c] = "welcome" /\ Echo!do_welcome_handler(c)
      \/ evh[c] = "echo" /\ Echo!do_echo_handler(c)
      \/ evh[c] = "response" /\ Echo!do_echo_response(c)
  BY DEF Echo!CallHandler
<1>9. QED BY <1>5, <1>6, <1>7, <1>8
          DEF Echo!do_welcome_handler, Echo!do_echo_handler, Echo!do_echo_response

LEMMA CallKilledKeeps == EchoInv /\ Echo!CallKilled => EchoInv'
<1> SUFFICES ASSUME EchoInv, Echo!CallKilled PROVE EchoInv'
  OBVIOUS
<1>1. /\ sock' = [fd \in Fd |-> "nobody"] /\ backlog' = <<>>
      /\ \E S : peer' = [c \in Conns |-> IF c \in S THEN "gone" ELSE "none"]
      /\ inbox' = [c \in Conns |-> "none"] /\ room' = [c \in Conns |-> TRUE]
      /\ UNCHANGED sends
      /\ evh' = [c \in Conns |-> "none"] /\ added' = {} /\ active' = <<>>
      /\ heap' = {} /\ reply' = {} /\ failed' = {} /\ pc' = "killed"
  <2>1. peer' = [c \in Conns |-> IF c \in {d \in Conns : Echo!IsOpen(d) \/ peer[d] = "gone"}
                                 THEN "gone" ELSE "none"]
    BY DEF Echo!CallKilled, Echo!processEnds
  <2>2. QED BY <2>1, SameConstants DEF Echo!CallKilled, Echo!processEnds
<1>2. /\ active' \in Seq(Conns \cup {Listener}) /\ DOMAIN active' = {} /\ Len(active') = 0
      /\ backlog' \in Seq(Conns)
  BY <1>1
<1>3. peer' \in [Conns -> Peers] /\ sends' \in 0 .. MaxSends
  BY <1>1, EchoTypes DEF EchoInv, Peers
<1>4. Echo!TypeOK'
  BY <1>1, <1>2, <1>3, EchoTypesNext
<1>5. \A c \in Conns : ~Opened(c)'
  BY <1>1, FdFacts DEF Opened
<1>6. Echo!WatchedOrFailed'
  BY <1>1, <1>2, <1>5, WatchedIsNext
<1>7. QED BY <1>1, <1>2, <1>4, <1>6 DEF EchoInv

LEMMA EchoDispatchKeeps == EchoInv /\ Echo!epoll_dispatch => EchoInv'
<1> SUFFICES ASSUME EchoInv, Echo!epoll_dispatch PROVE EchoInv'
  OBVIOUS
<1>1. PICK order \in [1 .. Echo!Cardinality(Echo!Ready) -> Echo!Ready] :
        /\ \A m, n \in DOMAIN order : order[m] = order[n] => m = n
        /\ active' = order
  BY DEF Echo!epoll_dispatch
<1>2. /\ pc = "wait" /\ pc' = "call"
      /\ UNCHANGED <<sock, backlog, peer, inbox, room, sends, evh, added, heap, reply, failed>>
  BY DEF Echo!epoll_dispatch, Echo!tcp
<1>3. NetInv /\ Echo!TypeOK /\ Echo!WatchedOrFailed /\ added \subseteq Conns
  BY <1>2, EchoTypes DEF EchoInv
<1>4. Echo!Ready \subseteq added \cup {Listener}
  BY DEF Echo!Ready
<1>5. Listener \in Echo!Ready => backlog # <<>>
  <2>1. sock[ListenFd] = Listener /\ Listener \notin added
    BY <1>3, FdFacts DEF NetInv
  <2>2. QED BY <2>1, FdFacts DEF Echo!Ready, Echo!ReadyFor
<1>6. Echo!Cardinality(Echo!Ready) \in Nat
  <2>1. IsFiniteSet(added \cup {Listener})
    BY <1>3, ProgramsAssumption, FS_Subset, FS_AddElement
  <2>2. IsFiniteSet(Echo!Ready)
    BY <1>4, <2>1, FS_Subset
  <2>3. Cardinality(Echo!Ready) \in Nat
    BY <2>2, FS_CardinalityType
  <2>4. Echo!Cardinality(Echo!Ready) = Cardinality(Echo!Ready)
    BY DEF Echo!Cardinality, Cardinality
  <2>5. QED BY <2>3, <2>4
<1>7. /\ active' \in Seq(Conns \cup {Listener}) /\ DOMAIN active' = 1 .. Len(active')
      /\ \A n \in DOMAIN active' : active'[n] \in Echo!Ready
      /\ \A m, n \in DOMAIN active' : active'[m] = active'[n] => m = n
  <2> DEFINE many == Echo!Cardinality(Echo!Ready)
  <2>1. many \in Nat /\ order \in [1 .. many -> Echo!Ready] /\ Echo!Ready \subseteq Conns \cup {Listener}
    BY <1>3, <1>4, <1>6
  <2> HIDE DEF many
  <2>2. order \in Seq(Conns \cup {Listener}) /\ DOMAIN order = 1 .. many /\ Len(order) = many
    BY <2>1
  <2>3. QED BY <1>1, <2>1, <2>2
<1>8. Echo!TypeOK'
  BY <1>2, <1>3, <1>7, EchoTypes, EchoTypesNext
<1>9. Echo!WatchedOrFailed'
  <2>1. \A n \in DOMAIN active' : active'[n] \in added \cup {Listener}
    BY <1>4, <1>7
  <2>2. \A c \in Conns : Opened(c)' <=> Opened(c)
    BY <1>2 DEF Opened
  <2>3. QED BY <1>2, <1>3, <2>1, <2>2, WatchedIs, WatchedIsNext
<1>10. NetInv'
  BY <1>2, <1>3 DEF NetInv
<1>11. QED BY <1>2, <1>5, <1>7, <1>8, <1>9, <1>10 DEF EchoInv

LEMMA EchoStutter ==
  ASSUME EchoInv,
         UNCHANGED <<sock, backlog, peer, inbox, room, sends, evh, added, active, heap,
                     reply, failed>>,
         pc' = pc \/ (pc # "killed" /\ pc' \in {"wait", "call"})
  PROVE  EchoInv'
<1>1. Echo!TypeOK'
  BY EchoTypes, EchoTypesNext DEF EchoInv
<1>2. Echo!WatchedOrFailed'
  BY WatchedIs, WatchedIsNext DEF EchoInv, Opened
<1>3. pc' # "killed" => NetInv'
  BY DEF EchoInv, NetInv
<1>4. QED BY <1>1, <1>2, <1>3 DEF EchoInv

LEMMA EchoStep == EchoInv /\ Echo!Next => EchoInv'
<1>1. EchoInv /\ Echo!LoopAgain => EchoInv'
  BY EchoStutter DEF Echo!LoopAgain, Echo!tcp
<1>2. QED BY <1>1, EchoClientsKeep, EchoDispatchKeeps, CallAcceptKeeps, CallHandlerKeeps,
             CallKilledKeeps DEF Echo!Next, Echo!Loop
-------------------------------------------------------------------------------
(* epollserver.c.                                                          *)

Requests == {"commit", "blank", "get"}
StatType == [fd : Fd, name : Conns \cup {"none"}, handler : {"null", "welcome", "commit"}]
NoEntry == [ev |-> {}, ptr |-> Listener]
Entry == {NoEntry} \cup [ev : {{"IN"}, {"OUT"}}, ptr : Stats \cup {Listener}]
Event == [ptr : Stats \cup {Listener}, ev : SUBSET {"IN", "OUT", "HUP"},
          conn : Conns \cup {Listener}]

\* Each ConnectStat has the descriptor it is registered for, and each
\* descriptor that leads to a connection has one.
Registered ==
  /\ \A s \in heap : /\ stat[s].fd \in ConnFd /\ sock[stat[s].fd] \in Conns
                     /\ kernel[stat[s].fd].ptr = s
  /\ \A fd \in ConnFd : sock[fd] # "nobody" =>
       kernel[fd].ptr \in heap /\ kernel[fd].ev # {} /\ stat[kernel[fd].ptr].fd = fd
  /\ \A fd \in Fd \ {ListenFd} : sock[fd] = "nobody" => kernel[fd] = NoEntry

\* The events of a round are of different ConnectStats.
RoundRight ==
  /\ \A m, n \in 1 .. Len(revs) : revs[m].ptr = revs[n].ptr => m = n
  /\ \A n \in 1 .. Len(revs) :
       IF revs[n].ptr = Listener THEN backlog # <<>>
       ELSE revs[n].ptr \in heap /\ sock[stat[revs[n].ptr].fd] = revs[n].conn

\* A server that was killed has no connection and no event.
FormInv ==
  /\ Form!TypeOK
  /\ pc # "killed" => NetInv /\ kernel[ListenFd].ptr = Listener
  /\ pc = "killed" => revs = <<>>
  /\ Registered
  /\ RoundRight

\* Form!TypeOK, in the words of this module.
LEMMA FormTypes ==
  Form!TypeOK <=>
    /\ sock \in [Fd -> Conns \cup {"nobody", Listener}]
    /\ backlog \in Seq(Conns)
    /\ peer \in [Conns -> Peers]
    /\ inbox \in [Conns -> Requests \cup {"none"}]
    /\ room \in [Conns -> BOOLEAN]
    /\ sends \in 0 .. MaxSends
    /\ stat \in [Stats -> StatType]
    /\ heap \subseteq Stats
    /\ kernel \in [Fd -> Entry]
    /\ revs \in Seq(Event)
    /\ pc \in {"wait", "dispatch", "killed"}
    /\ shown \in [Conns -> Conns \cup {"nothing", "form", "none"}]
BY SameConstants
   DEF Form!TypeOK, Form!TcpTypeOK, Peers, Requests, StatType, Entry, Event, NoEntry,
       Form!NotRegistered

LEMMA FormTypesNext ==
  (Form!TypeOK <=>
    /\ sock \in [Fd -> Conns \cup {"nobody", Listener}]
    /\ backlog \in Seq(Conns)
    /\ peer \in [Conns -> Peers]
    /\ inbox \in [Conns -> Requests \cup {"none"}]
    /\ room \in [Conns -> BOOLEAN]
    /\ sends \in 0 .. MaxSends
    /\ stat \in [Stats -> StatType]
    /\ heap \subseteq Stats
    /\ kernel \in [Fd -> Entry]
    /\ revs \in Seq(Event)
    /\ pc \in {"wait", "dispatch", "killed"}
    /\ shown \in [Conns -> Conns \cup {"nothing", "form", "none"}])'
BY FormTypes, PTL

LEMMA FormInit == Form!Init => FormInv
<1> SUFFICES ASSUME Form!Init PROVE FormInv
  OBVIOUS
<1>1. Echo!TcpInit
  BY SameConstants DEF Form!Init, Form!TcpInit, Echo!TcpInit
<1>2. NetInv
  BY <1>1, NetInit
<1>3. /\ stat = [s \in Stats |-> [fd |-> 0, name |-> "none", handler |-> "null"]]
      /\ heap = {} /\ revs = <<>> /\ pc = "wait" /\ shown = [c \in Conns |-> "nothing"]
      /\ kernel = [fd \in Fd |-> IF fd = ListenFd THEN [ev |-> {"IN"}, ptr |-> Listener]
                                 ELSE NoEntry]
      /\ inbox = [c \in Conns |-> "none"]
      /\ sock = [fd \in Fd |-> IF fd = ListenFd THEN Listener ELSE "nobody"]
  BY SameConstants DEF Form!Init, Form!TcpInit, Form!NotRegistered, NoEntry
<1>4. revs \in Seq(Event) /\ Len(revs) = 0
  BY <1>3
<1>5. stat \in [Stats -> StatType] /\ kernel \in [Fd -> Entry]
  <2>1. 0 \in Fd
    BY ProgramsAssumption DEF Fd
  <2>2. stat \in [Stats -> StatType]
    BY <1>3, <2>1 DEF StatType
  <2>3. kernel \in [Fd -> Entry]
    BY <1>3 DEF Entry
  <2>4. QED BY <2>2, <2>3
<1>6. Form!TypeOK
  BY <1>2, <1>3, <1>4, <1>5, FormTypes DEF NetInv
<1>7. Registered
  BY <1>3, FdFacts DEF Registered
<1>8. RoundRight
  BY <1>4 DEF RoundRight
<1>9. QED BY <1>2, <1>3, <1>6, <1>7, <1>8, FdFacts DEF FormInv

LEMMA FormClientsKeep == FormInv /\ Form!Clients => FormInv'
<1> SUFFICES ASSUME FormInv, Form!Clients PROVE FormInv'
  OBVIOUS
<1>1. UNCHANGED <<stat, heap, kernel, shown, revs, pc>>
  BY DEF Form!Clients, Form!server
<1>2. pc # "killed"
  BY DEF Form!Clients, FormInv
<1>3. Clients
  BY SameCalls DEF Form!Clients, Form!ClientStep, Clients
<1>4. /\ NetInv' /\ sock' = sock /\ (backlog # <<>> => backlog' # <<>>)
  BY <1>2, <1>3, ClientsKeepNet DEF FormInv
<1>5. inbox' \in [Conns -> Requests \cup {"none"}]
  <2>1. inbox \in [Conns -> Requests \cup {"none"}]
    BY FormTypes DEF FormInv
  <2>2. QED BY <2>1 DEF Form!Clients, Form!ClientStep, Form!Connect, Form!Fin, Form!Reset,
                        Form!Drain, Form!Send, Requests
<1>6. Form!TypeOK'
  BY <1>1, <1>4, <1>5, FormTypes, FormTypesNext DEF FormInv, NetInv
<1>7. Registered' /\ RoundRight'
  BY <1>1, <1>4 DEF FormInv, Registered, RoundRight
<1>8. QED BY <1>1, <1>2, <1>4, <1>6, <1>7 DEF FormInv

\* The events that are left once the first of them is dispatched.
LEMMA NextEvent ==
  ASSUME FormInv, revs # <<>>
  PROVE  /\ Tail(revs) \in Seq(Event) /\ Head(revs) \in Event
         /\ IF Head(revs).ptr = Listener THEN backlog # <<>> ELSE Head(revs).ptr \in heap
         /\ \A n \in 1 .. Len(Tail(revs)) :
              /\ Tail(revs)[n].ptr # Head(revs).ptr
              /\ IF Tail(revs)[n].ptr = Listener THEN backlog # <<>>
                 ELSE /\ Tail(revs)[n].ptr \in heap
                      /\ sock[stat[Tail(revs)[n].ptr].fd] = Tail(revs)[n].conn
         /\ \A m, n \in 1 .. Len(Tail(revs)) : Tail(revs)[m].ptr = Tail(revs)[n].ptr => m = n
<1> DEFINE rest == Tail(revs)
<1>1. revs \in Seq(Event)
  BY FormTypes DEF FormInv
<1>2. /\ rest \in Seq(Event) /\ Head(revs) = revs[1] /\ Head(revs) \in Event
      /\ Len(revs) \in Nat /\ Len(revs) >= 1 /\ Len(rest) = Len(revs) - 1
      /\ \A n \in 1 .. Len(rest) : rest[n] = revs[n + 1]
  BY <1>1
<1>3. \A n \in 1 .. Len(rest) : n + 1 \in 1 .. Len(revs) /\ n + 1 # 1
  BY <1>2
<1>4. 1 \in 1 .. Len(revs)
  BY <1>2
<1> HIDE DEF rest
<1>5. /\ \A m, n \in 1 .. Len(revs) : revs[m].ptr = revs[n].ptr => m = n
      /\ \A n \in 1 .. Len(revs) :
           IF revs[n].ptr = Listener THEN backlog # <<>>
           ELSE revs[n].ptr \in heap /\ sock[stat[revs[n].ptr].fd] = revs[n].conn
  BY DEF FormInv, RoundRight
<1>6. \A n \in 1 .. Len(rest) :
        /\ rest[n].ptr # Head(revs).ptr
        /\ IF rest[n].ptr = Listener THEN backlog # <<>>
           ELSE rest[n].ptr \in heap /\ sock[stat[rest[n].ptr].fd] = rest[n].conn
  BY <1>2, <1>3, <1>4, <1>5
<1>7. \A m, n \in 1 .. Len(rest) : rest[m].ptr = rest[n].ptr => m = n
  BY <1>2, <1>3, <1>5
<1>8. QED BY <1>2, <1>4, <1>5, <1>6, <1>7 DEF rest

\* A dispatch touches the ConnectStat of its event and no other in use.
LEMMA DispatchKeeps ==
  ASSUME FormInv, revs # <<>>, revs' = Tail(revs), pc = "dispatch", UNCHANGED pc,
         NetInv', Registered', kernel'[ListenFd].ptr = Listener,
         inbox' \in [Conns -> Requests \cup {"none"}],
         stat' \in [Stats -> StatType], heap' \subseteq Stats, kernel' \in [Fd -> Entry],
         shown' \in [Conns -> Conns \cup {"nothing", "form", "none"}],
         \A s \in heap \ {Head(revs).ptr} :
           s \in heap' /\ sock'[stat'[s].fd] = sock[stat[s].fd],
         backlog' = backlog \/ Head(revs).ptr = Listener
  PROVE  FormInv'
<1>1. /\ revs' \in Seq(Event)
      /\ \A n \in 1 .. Len(revs') :
           /\ revs'[n].ptr # Head(revs).ptr
           /\ IF revs'[n].ptr = Listener THEN backlog # <<>>
              ELSE revs'[n].ptr \in heap /\ sock[stat[revs'[n].ptr].fd] = revs'[n].conn
      /\ \A m, n \in 1 .. Len(revs') : revs'[m].ptr = revs'[n].ptr => m = n
  BY NextEvent
<1>2. Form!TypeOK'
  BY <1>1, FormTypesNext DEF NetInv
<1>3. \A n \in 1 .. Len(revs') :
        IF revs'[n].ptr = Listener THEN backlog' # <<>>
        ELSE revs'[n].ptr \in heap' /\ sock'[stat'[revs'[n].ptr].fd] = revs'[n].conn
  BY <1>1
<1>4. RoundRight'
  BY <1>1, <1>3 DEF RoundRight
<1>5. QED BY <1>2, <1>4 DEF FormInv

\* A new connection gets the ConnectStat malloc returns, which none has in use.
LEMMA FormAcceptKeeps == FormInv /\ Form!DispatchListener => FormInv'
<1> SUFFICES ASSUME FormInv, Form!DispatchListener PROVE FormInv'
  OBVIOUS
<1>1. /\ pc = "dispatch" /\ revs # <<>> /\ Head(revs).ptr = Listener /\ revs' = Tail(revs)
      /\ UNCHANGED pc /\ Form!connect_handle
  BY DEF Form!DispatchListener, Form!Dispatch
<1>2. /\ NetInv /\ backlog # <<>> /\ Form!TypeOK /\ Registered /\ kernel[ListenFd].ptr = Listener
  BY <1>1, NextEvent DEF FormInv
<1>3. /\ inbox \in [Conns -> Requests \cup {"none"}] /\ stat \in [Stats -> StatType]
      /\ heap \subseteq Stats /\ kernel \in [Fd -> Entry]
      /\ shown \in [Conns -> Conns \cup {"nothing", "form", "none"}]
  BY <1>2, FormTypes
<1>4. CASE Form!FreeFd = {}
  <2>1. UNCHANGED <<sock, backlog, peer, inbox, room, sends, stat, heap, kernel, shown>>
    BY <1>1, <1>4 DEF Form!connect_handle, Form!tcp, Form!server
  <2>2. NetInv' /\ Registered'
    BY <1>2, <2>1 DEF NetInv, Registered
  <2>3. QED BY <1>1, <1>2, <1>3, <2>1, <2>2, DispatchKeeps
<1>5. CASE Form!FreeFd # {}
  <2> DEFINE new == Form!Min(Form!FreeFd)
             c == Head(backlog)
  <2>1. new \in Form!FreeFd
    <3>1. Form!FreeFd \in SUBSET Nat
      BY FdFacts, SameConstants DEF Form!FreeFd
    <3>2. QED BY <1>5, <3>1, LeastExists DEF Form!Min
  <2>2. new \in ConnFd /\ sock[new] = "nobody" /\ new \in Fd \ {ListenFd}
    BY <2>1, SameConstants, FdFacts DEF Form!FreeFd
  <2>3. PICK s \in Stats \ heap :
          /\ heap' = heap \cup {s} /\ Form!stat_init(s, new) /\ Form!Register(s, new, {"IN"})
    BY <1>1, <1>5 DEF Form!connect_handle, Form!Returned
  <2>4. Form!accept(new) /\ UNCHANGED shown
    BY <1>1, <1>5 DEF Form!connect_handle, Form!Returned
  <2> HIDE DEF new
  <2>5. /\ NetInv' /\ UNCHANGED <<peer, inbox, sends>>
        /\ c \in Conns /\ sock' = [sock EXCEPT ![new] = c]
    BY <1>2, <2>2, <2>4, SameCalls, AcceptKeepsNet
  <2> HIDE DEF c
  <2>6. /\ stat' = [stat EXCEPT ![s] = [fd |-> new, name |-> "none", handler |-> "null"]]
        /\ kernel' = [kernel EXCEPT ![new] = [ev |-> {"IN"}, ptr |-> s]]
    BY <2>3 DEF Form!stat_init, Form!Register
  <2>7. stat' \in [Stats -> StatType]
    <3>1. [fd |-> new, name |-> "none", handler |-> "null"] \in StatType
      BY <2>2 DEF StatType
    <3>2. QED BY <1>3, <2>6, <3>1
  <2>8. kernel' \in [Fd -> Entry]
    <3>1. [ev |-> {"IN"}, ptr |-> s] \in Entry
      BY DEF Entry
    <3>2. QED BY <1>3, <2>2, <2>6, <3>1
  <2>9. /\ sock'[new] = c /\ \A fd \in Fd \ {new} : sock'[fd] = sock[fd]
        /\ \A fd \in Fd \ {new} : kernel'[fd] = kernel[fd]
        /\ kernel'[new].ptr = s /\ kernel'[new].ev # {}
        /\ stat'[s].fd = new /\ \A t \in heap : stat'[t] = stat[t]
    BY <1>2, <1>3, <2>2, <2>3, <2>5, <2>6 DEF NetInv
  <2>10. \A t \in heap : stat[t].fd \in Fd \ {new}
    BY <1>2, <2>2, FdFacts, ProgramsAssumption DEF Registered
  <2>11. Registered'
    <3>1. \A t \in heap' : /\ stat'[t].fd \in ConnFd /\ sock'[stat'[t].fd] \in Conns
                           /\ kernel'[stat'[t].fd].ptr = t
      BY <1>2, <2>2, <2>3, <2>5, <2>9, <2>10 DEF Registered
    <3>2. \A fd \in ConnFd : sock'[fd] # "nobody" =>
            kernel'[fd].ptr \in heap' /\ kernel'[fd].ev # {} /\ stat'[kernel'[fd].ptr].fd = fd
      <4> SUFFICES ASSUME NEW fd \in ConnFd, sock'[fd] # "nobody"
                   PROVE  /\ kernel'[fd].ptr \in heap' /\ kernel'[fd].ev # {}
                          /\ stat'[kernel'[fd].ptr].fd = fd
        OBVIOUS
      <4>1. CASE fd = new
        BY <2>3, <2>9, <4>1
      <4>2. CASE fd # new
        <5>1. sock'[fd] = sock[fd] /\ kernel'[fd] = kernel[fd]
          BY <2>9, <4>2, FdFacts
        <5>2. kernel[fd].ptr \in heap /\ kernel[fd].ev # {} /\ stat[kernel[fd].ptr].fd = fd
          BY <1>2, <5>1 DEF Registered
        <5>3. QED BY <2>3, <2>9, <5>1, <5>2
      <4>3. QED BY <4>1, <4>2
    <3>3. \A fd \in Fd \ {ListenFd} : sock'[fd] = "nobody" => kernel'[fd] = NoEntry
      BY <1>2, <2>5, <2>9, ProgramsAssumption DEF Registered
    <3>4. QED BY <3>1, <3>2, <3>3 DEF Registered
  <2>12. \A t \in heap \ {Head(revs).ptr} :
           t \in heap' /\ sock'[stat'[t].fd] = sock[stat[t].fd]
    BY <2>3, <2>9, <2>10
  <2>13. kernel'[ListenFd].ptr = Listener
    BY <1>2, <2>2, <2>9, FdFacts
  <2>14. heap' \subseteq Stats
    BY <1>3, <2>3
  <2>15. QED BY <1>1, <1>3, <2>4, <2>5, <2>7, <2>8, <2>11, <2>12, <2>13, <2>14, DispatchKeeps
<1>6. QED BY <1>4, <1>5

\* The ConnectStat of an event, and its descriptor and connection.
LEMMA EventFacts ==
  ASSUME FormInv, revs # <<>>, Head(revs).ptr # Listener
  PROVE  /\ Head(revs).ptr \in heap /\ Head(revs).ptr \in Stats
         /\ stat[Head(revs).ptr].fd \in ConnFd
         /\ sock[stat[Head(revs).ptr].fd] \in Conns
         /\ \A t \in heap : stat[t].fd = stat[Head(revs).ptr].fd => t = Head(revs).ptr
<1>1. Head(revs).ptr \in heap /\ heap \subseteq Stats /\ Registered
  BY NextEvent, FormTypes DEF FormInv
<1> PICK s \in heap : s = Head(revs).ptr
  BY <1>1
<1>2. /\ stat[s].fd \in ConnFd /\ sock[stat[s].fd] \in Conns
      /\ \A t \in heap : stat[t].fd = stat[s].fd => t = s
  BY <1>1 DEF Registered
<1>3. QED BY <1>1, <1>2

\* Another event is asked for.
LEMMA RegisterKeeps ==
  ASSUME Registered, NEW s \in heap, NEW ev \in {{"IN"}, {"OUT"}}, kernel \in [Fd -> Entry],
         heap \subseteq Stats, kernel[ListenFd].ptr = Listener,
         kernel' = [kernel EXCEPT ![stat[s].fd] = [ev |-> ev, ptr |-> s]],
         UNCHANGED <<heap, sock>>, \A t \in heap : stat'[t].fd = stat[t].fd
  PROVE  Registered' /\ kernel' \in [Fd -> Entry] /\ kernel'[ListenFd].ptr = Listener
<1> PICK fd \in ConnFd : fd = stat[s].fd
  BY DEF Registered
<1>1. /\ fd \in Fd /\ fd # ListenFd /\ sock[fd] # "nobody"
      /\ kernel' = [kernel EXCEPT ![fd] = [ev |-> ev, ptr |-> s]]
  BY FdFacts, ProgramsAssumption DEF Registered
<1>2. kernel' \in [Fd -> Entry]
  <2>1. [ev |-> ev, ptr |-> s] \in Entry
    BY DEF Entry
  <2>2. QED BY <1>1, <2>1
<1>3. /\ kernel'[fd].ptr = s /\ kernel'[fd].ev # {}
      /\ \A f \in Fd \ {fd} : kernel'[f] = kernel[f]
  BY <1>1
<1>4. kernel'[ListenFd].ptr = Listener
  BY <1>1, <1>3, FdFacts
<1>5. \A t \in heap : /\ stat'[t].fd \in ConnFd /\ sock'[stat'[t].fd] \in Conns
                      /\ kernel'[stat'[t].fd].ptr = t
  <2> SUFFICES ASSUME NEW t \in heap
               PROVE  /\ stat'[t].fd \in ConnFd /\ sock'[stat'[t].fd] \in Conns
                      /\ kernel'[stat'[t].fd].ptr = t
    OBVIOUS
  <2>1. /\ stat'[t].fd = stat[t].fd /\ stat[t].fd \in ConnFd /\ sock[stat[t].fd] \in Conns
        /\ kernel[stat[t].fd].ptr = t
    BY DEF Registered
  <2>2. stat[t].fd = fd => t = s
    BY <2>1 DEF Registered
  <2>3. QED BY <1>3, <2>1, <2>2, FdFacts
<1>6. \A f \in ConnFd : sock'[f] # "nobody" =>
        kernel'[f].ptr \in heap' /\ kernel'[f].ev # {} /\ stat'[kernel'[f].ptr].fd = f
  <2> SUFFICES ASSUME NEW f \in ConnFd, sock[f] # "nobody"
               PROVE  kernel'[f].ptr \in heap /\ kernel'[f].ev # {} /\ stat'[kernel'[f].ptr].fd = f
    OBVIOUS
  <2>1. kernel[f].ptr \in heap /\ kernel[f].ev # {} /\ stat[kernel[f].ptr].fd = f
    BY DEF Registered
  <2>2. QED BY <1>3, <2>1, FdFacts
<1>7. \A f \in Fd \ {ListenFd} : sock'[f] = "nobody" => kernel'[f] = NoEntry
  BY <1>1, <1>3 DEF Registered
<1>8. QED BY <1>2, <1>4, <1>5, <1>6, <1>7 DEF Registered

\* A request is read, the end of the connection, or nothing.
LEMMA FormRequestKeeps == FormInv /\ Form!DispatchRequest => FormInv'
<1> SUFFICES ASSUME FormInv, Form!DispatchRequest PROVE FormInv'
  OBVIOUS
<1>1. /\ pc = "dispatch" /\ revs # <<>> /\ Head(revs).ptr # Listener /\ revs' = Tail(revs)
      /\ UNCHANGED pc /\ Form!do_http_request(Head(revs).ptr)
  BY DEF Form!DispatchRequest, Form!Dispatch
<1> PICK s \in heap : s = Head(revs).ptr
  BY <1>1, EventFacts
<1> PICK fd \in ConnFd : fd = stat[s].fd
  BY <1>1, EventFacts
<1> PICK c \in Conns : c = sock[fd]
  BY <1>1, EventFacts
<1>2. /\ NetInv /\ Form!TypeOK /\ Registered /\ kernel[ListenFd].ptr = Listener
  BY <1>1 DEF FormInv
<1>3. /\ inbox \in [Conns -> Requests \cup {"none"}] /\ stat \in [Stats -> StatType]
      /\ heap \subseteq Stats /\ kernel \in [Fd -> Entry]
      /\ shown \in [Conns -> Conns \cup {"nothing", "form", "none"}]
  BY <1>2, FormTypes
<1>4. ASSUME Form!readData(c), stat' = [stat EXCEPT ![s] = Form!Parsed(s, inbox[c])],
             Form!Register(s, fd, {"OUT"}), UNCHANGED <<heap, shown>>
      PROVE  FormInv'
  <2>1. NetInv' /\ UNCHANGED <<sock, backlog>> /\ inbox' \in [Conns -> Requests \cup {"none"}]
    <3>1. NetInv' /\ UNCHANGED <<sock, backlog>>
      BY <1>2, <1>4, SameCalls, CallKeepsNet
    <3>2. inbox' = [inbox EXCEPT ![c] = "none"]
      BY <1>4 DEF Form!readData
    <3>3. QED BY <1>3, <3>1, <3>2
  <2>2. Form!Parsed(s, inbox[c]) \in StatType /\ Form!Parsed(s, inbox[c]).fd = fd
    <3> DEFINE handler == IF inbox[c] = "get" THEN "welcome" ELSE "commit"
               name == IF inbox[c] = "commit" THEN c ELSE stat[s].name
    <3>1. stat[s] \in StatType
      BY <1>3
    <3>2. handler \in {"welcome", "commit"} /\ name \in Conns \cup {"none"}
      BY <3>1 DEF StatType
    <3>3. Form!Parsed(s, inbox[c]) = [stat[s] EXCEPT !.handler = handler, !.name = name]
      BY DEF Form!Parsed
    <3> HIDE DEF handler, name
    <3>4. QED BY <3>1, <3>2, <3>3 DEF StatType
  <2>3. stat' \in [Stats -> StatType] /\ \A t \in heap : stat'[t].fd = stat[t].fd
    BY <1>3, <1>4, <2>2
  <2>4. Registered' /\ kernel' \in [Fd -> Entry] /\ kernel'[ListenFd].ptr = Listener
    BY <1>2, <1>3, <1>4, <2>1, <2>3, RegisterKeeps DEF Form!Register
  <2>5. QED BY <1>1, <1>3, <1>4, <2>1, <2>3, <2>4, DispatchKeeps
<1>5. ASSUME Form!CloseAndFree(s)
      PROVE  FormInv'
  <2>1. /\ Form!close(fd) /\ kernel' = [kernel EXCEPT ![fd] = NoEntry]
        /\ heap' = heap \ {s} /\ UNCHANGED <<stat, shown>>
    BY <1>5 DEF Form!CloseAndFree, Form!NotRegistered, NoEntry
  <2>2. /\ NetInv' /\ UNCHANGED backlog /\ sock' = [sock EXCEPT ![fd] = "nobody"]
        /\ inbox' = [inbox EXCEPT ![c] = "none"]
    BY <1>2, <2>1, SameCalls, CloseKeepsNet
  <2>3. /\ sock'[fd] = "nobody" /\ kernel'[fd] = NoEntry /\ fd \in Fd /\ fd # ListenFd
        /\ \A f \in Fd \ {fd} : sock'[f] = sock[f] /\ kernel'[f] = kernel[f]
    BY <1>2, <1>3, <2>1, <2>2, FdFacts DEF NetInv
  <2>4. \A t \in heap' : t \in heap /\ stat[t].fd \in Fd \ {fd}
    BY <1>1, <2>1, EventFacts, FdFacts DEF FormInv, Registered
  <2>5. Registered'
    <3>1. \A t \in heap' : /\ stat'[t].fd \in ConnFd /\ sock'[stat'[t].fd] \in Conns
                           /\ kernel'[stat'[t].fd].ptr = t
      BY <1>2, <2>1, <2>3, <2>4 DEF Registered
    <3>2. \A f \in ConnFd : sock'[f] # "nobody" =>
            kernel'[f].ptr \in heap' /\ kernel'[f].ev # {} /\ stat'[kernel'[f].ptr].fd = f
      <4> SUFFICES ASSUME NEW f \in ConnFd, sock'[f] # "nobody"
                   PROVE  /\ kernel'[f].ptr \in heap' /\ kernel'[f].ev # {}
                          /\ stat'[kernel'[f].ptr].fd = f
        OBVIOUS
      <4>1. f # fd /\ sock[f] # "nobody" /\ kernel'[f] = kernel[f]
        BY <2>3, FdFacts
      <4>2. kernel[f].ptr \in heap /\ kernel[f].ev # {} /\ stat[kernel[f].ptr].fd = f
        BY <1>2, <4>1 DEF Registered
      <4>3. QED BY <2>1, <4>1, <4>2
    <3>3. \A f \in Fd \ {ListenFd} : sock'[f] = "nobody" => kernel'[f] = NoEntry
      BY <1>2, <2>3 DEF Registered
    <3>4. QED BY <3>1, <3>2, <3>3 DEF Registered
  <2>6. \A t \in heap \ {s} : t \in heap' /\ sock'[stat'[t].fd] = sock[stat[t].fd]
    BY <2>1, <2>3, <2>4
  <2>7. kernel' \in [Fd -> Entry] /\ kernel'[ListenFd].ptr = Listener
    BY <1>2, <1>3, <2>1, <2>3, FdFacts DEF Entry
  <2>8. inbox' \in [Conns -> Requests \cup {"none"}] /\ heap' \subseteq Stats
    BY <1>3, <2>1, <2>2
  <2>9. QED BY <1>1, <1>3, <2>1, <2>2, <2>5, <2>6, <2>7, <2>8, DispatchKeeps
<1>6. ASSUME Form!callFails(c), UNCHANGED Form!server
      PROVE  FormInv'
  <2>1. NetInv' /\ UNCHANGED <<sock, backlog, inbox>> /\ UNCHANGED <<stat, heap, kernel, shown>>
    BY <1>2, <1>6, SameCalls, CallKeepsNet DEF Form!callFails, Form!server
  <2>2. Registered'
    BY <1>2, <2>1 DEF Registered
  <2>3. QED BY <1>1, <1>2, <1>3, <2>1, <2>2, DispatchKeeps
<1>7. QED BY <1>1, <1>4, <1>5, <1>6 DEF Form!do_http_request

LEMMA FormResponeKeeps == FormInv /\ Form!DispatchRespone => FormInv'
<1> SUFFICES ASSUME FormInv, Form!DispatchRespone PROVE FormInv'
  OBVIOUS
<1>1. /\ pc = "dispatch" /\ revs # <<>> /\ Head(revs).ptr # Listener /\ revs' = Tail(revs)
      /\ UNCHANGED pc /\ Form!do_http_respone(Head(revs).ptr)
  BY DEF Form!DispatchRespone, Form!Dispatch
<1> PICK s \in heap : s = Head(revs).ptr
  BY <1>1, EventFacts
<1> PICK fd \in ConnFd : fd = stat[s].fd
  BY <1>1, EventFacts
<1> PICK c \in Conns : c = sock[fd]
  BY <1>1, EventFacts
<1>2. /\ NetInv /\ Form!TypeOK /\ Registered /\ kernel[ListenFd].ptr = Listener
  BY <1>1 DEF FormInv
<1>3. /\ inbox \in [Conns -> Requests \cup {"none"}] /\ stat \in [Stats -> StatType]
      /\ heap \subseteq Stats /\ kernel \in [Fd -> Entry]
      /\ shown \in [Conns -> Conns \cup {"nothing", "form", "none"}]
  BY <1>2, FormTypes
<1>4. /\ Form!writeAll(c) \/ Form!callFails(c)
      /\ \/ shown' = [shown EXCEPT ![c] = Form!Page(s)]
         \/ shown' = shown
      /\ Form!Register(s, fd, {"IN"}) /\ UNCHANGED <<stat, heap>>
  BY <1>1 DEF Form!do_http_respone
<1>5. NetInv' /\ UNCHANGED <<sock, backlog, inbox>>
  BY <1>2, <1>4, SameCalls, CallKeepsNet DEF Form!writeAll, Form!callFails
<1>6. Form!Page(s) \in Conns \cup {"form", "none"}
  <2>1. stat[s] \in StatType
    BY <1>3
  <2>2. QED BY <2>1 DEF Form!Page, StatType
<1>7. shown' \in [Conns -> Conns \cup {"nothing", "form", "none"}]
  BY <1>3, <1>4, <1>6
<1>8. Registered' /\ kernel' \in [Fd -> Entry] /\ kernel'[ListenFd].ptr = Listener
  BY <1>2, <1>3, <1>4, <1>5, RegisterKeeps DEF Form!Register
<1>9. QED BY <1>1, <1>3, <1>4, <1>5, <1>7, <1>8, DispatchKeeps

LEMMA FormKilledKeeps == FormInv /\ Form!DispatchKilled => FormInv'
<1> SUFFICES ASSUME FormInv, Form!DispatchKilled PROVE FormInv'
  OBVIOUS
<1>1. /\ sock' = [fd \in Fd |-> "nobody"] /\ backlog' = <<>>
      /\ inbox' = [c \in Conns |-> "none"] /\ room' = [c \in Conns |-> TRUE]
      /\ UNCHANGED <<sends, stat, shown>>
      /\ heap' = {} /\ kernel' = [fd \in Fd |-> NoEntry] /\ revs' = <<>> /\ pc' = "killed"
  BY SameConstants DEF Form!DispatchKilled, Form!processEnds, Form!NotRegistered, NoEntry
<1>2. peer' = [c \in Conns |-> IF Form!IsOpen(c) \/ peer[c] = "gone" THEN "gone" ELSE "none"]
  BY DEF Form!DispatchKilled, Form!processEnds
<1>3. peer' \in [Conns -> Peers] /\ kernel' \in [Fd -> Entry]
  BY <1>1, <1>2 DEF Peers, Entry
<1>4. revs' \in Seq(Event) /\ Len(revs') = 0 /\ backlog' \in Seq(Conns)
  BY <1>1
<1>5. Form!TypeOK'
  BY <1>1, <1>3, <1>4, FormTypes, FormTypesNext DEF FormInv
<1>6. Registered' /\ RoundRight'
  BY <1>1, <1>4, FdFacts DEF Registered, RoundRight
<1>7. QED BY <1>1, <1>5, <1>6 DEF FormInv

\* What epoll_wait reports is of different descriptors, hence of different
\* ConnectStats.
LEMMA FormWaitKeeps == FormInv /\ Form!WaitReturns => FormInv'
<1> SUFFICES ASSUME FormInv, Form!WaitReturns PROVE FormInv'
  OBVIOUS
<1> DEFINE num == Form!Min({MaxEvents, Form!Cardinality(Form!ReadyFds)})
<1>1. PICK order \in [1 .. num -> Form!ReadyFds] :
        /\ \A m, n \in 1 .. num : order[m] = order[n] => m = n
        /\ revs' = [n \in 1 .. num |-> Form!Reported(order[n])]
  BY DEF Form!WaitReturns
<1>2. /\ pc = "wait" /\ pc' = "dispatch"
      /\ UNCHANGED <<sock, backlog, peer, inbox, room, sends, stat, heap, kernel, shown>>
  BY DEF Form!WaitReturns, Form!tcp, Form!server
<1>3. NetInv /\ Form!TypeOK /\ Registered /\ kernel[ListenFd].ptr = Listener
  BY <1>2 DEF FormInv
<1>4. num \in Nat
  <2> DEFINE many == Form!Cardinality(Form!ReadyFds)
             S == {MaxEvents, many}
  <2>1. IsFiniteSet(Form!ReadyFds)
    <3>1. Form!ReadyFds \subseteq 0 .. Biggest_FD - 1
      BY SameConstants DEF Form!ReadyFds, Fd
    <3>2. IsFiniteSet(0 .. Biggest_FD - 1)
      BY ProgramsAssumption, FS_Interval
    <3>3. QED BY <3>1, <3>2, FS_Subset
  <2>2. many = Cardinality(Form!ReadyFds)
    BY DEF Form!Cardinality, Cardinality
  <2>3. many \in Nat /\ MaxEvents \in Nat
    BY <2>1, <2>2, FS_CardinalityType, ProgramsAssumption
  <2> HIDE DEF many
  <2>4. S # {} /\ S \in SUBSET Nat
    BY <2>3
  <2>5. \E x \in S : \A y \in S : x <= y
    BY <2>4, LeastExists
  <2> HIDE DEF S
  <2>6. Form!Min(S) \in S
    BY <2>5 DEF Form!Min
  <2>7. QED BY <2>4, <2>6 DEF S, many
<1> HIDE DEF num
<1>5. ASSUME NEW fd \in Form!ReadyFds
      PROVE  /\ fd \in Fd /\ Form!Reported(fd) \in Event
             /\ Form!Reported(fd).ptr = kernel[fd].ptr /\ Form!Reported(fd).conn = sock[fd]
             /\ IF fd = ListenFd THEN backlog # <<>> /\ kernel[fd].ptr = Listener
                ELSE fd \in ConnFd /\ kernel[fd].ptr \in heap /\ stat[kernel[fd].ptr].fd = fd
  <2>1. fd \in Fd /\ kernel[fd].ev # {} /\ Form!Ready(fd) # {}
    BY SameConstants DEF Form!ReadyFds
  <2>2. sock[fd] # "nobody"
    BY <1>3, <2>1, FdFacts DEF Registered, NoEntry, NetInv
  <2>3. sock[fd] \in Conns \cup {Listener} /\ kernel[fd] \in Entry
    BY <1>3, <2>1, <2>2, FormTypes
  <2>4. kernel[fd].ev \in {{"IN"}, {"OUT"}} /\ kernel[fd].ptr \in Stats \cup {Listener}
    BY <2>1, <2>3 DEF Entry, NoEntry
  <2>5. Form!Ready(fd) \subseteq kernel[fd].ev \cup {"HUP"}
    BY DEF Form!Ready, Form!ReadyFor
  <2>6. Form!Reported(fd) = [ptr |-> kernel[fd].ptr, ev |-> Form!Ready(fd), conn |-> sock[fd]]
    BY DEF Form!Reported
  <2>7. Form!Reported(fd) \in Event
    BY <2>3, <2>4, <2>5, <2>6 DEF Event
  <2>8. CASE fd = ListenFd
    <3>1. sock[fd] = Listener /\ kernel[fd].ptr = Listener
      BY <1>3, <2>1, <2>8 DEF NetInv
    <3>2. backlog # <<>>
      BY <2>1, <2>4, <3>1, FdFacts DEF Form!Ready, Form!ReadyFor
    <3>3. QED BY <2>1, <2>6, <2>7, <2>8, <3>1, <3>2
  <2>9. CASE fd # ListenFd
    <3>1. fd \in ConnFd
      BY <1>3, <2>1, <2>3, <2>9 DEF NetInv
    <3>2. QED BY <1>3, <2>1, <2>2, <2>6, <2>7, <2>9, <3>1 DEF Registered
  <2>10. QED BY <2>8, <2>9
<1>6. /\ revs' \in Seq(Event) /\ Len(revs') = num
      /\ \A n \in 1 .. num : revs'[n] = Form!Reported(order[n]) /\ order[n] \in Form!ReadyFds
  <2>1. \A n \in 1 .. num : Form!Reported(order[n]) \in Event
    BY <1>5
  <2>2. revs' \in [1 .. num -> Event]
    BY <1>1, <2>1
  <2>3. QED BY <1>1, <1>4, <2>2
<1>7. Listener \notin heap
  BY <1>3, FormTypes, ProgramsAssumption
<1>8. RoundRight'
  <2>1. \A m, n \in 1 .. num : revs'[m].ptr = revs'[n].ptr => m = n
    <3> SUFFICES ASSUME NEW m \in 1 .. num, NEW n \in 1 .. num, revs'[m].ptr = revs'[n].ptr
                 PROVE  m = n
      OBVIOUS
    <3>1. kernel[order[m]].ptr = kernel[order[n]].ptr
      BY <1>5, <1>6
    <3>2. order[m] = order[n]
      BY <1>5, <1>6, <1>7, <3>1
    <3>3. QED BY <1>1, <3>2
  <2>2. \A n \in 1 .. num :
          IF revs'[n].ptr = Listener THEN backlog' # <<>>
          ELSE revs'[n].ptr \in heap' /\ sock'[stat'[revs'[n].ptr].fd] = revs'[n].conn
    BY <1>2, <1>5, <1>6, <1>7
  <2>3. QED BY <1>6, <2>1, <2>2 DEF RoundRight
<1>9. Form!TypeOK'
  BY <1>2, <1>3, <1>6, FormTypes, FormTypesNext
<1>10. NetInv' /\ Registered'
  BY <1>2, <1>3 DEF NetInv, Registered
<1>11. QED BY <1>2, <1>3, <1>8, <1>9, <1>10 DEF FormInv

LEMMA FormStutter ==
  ASSUME FormInv,
         UNCHANGED <<sock, backlog, peer, inbox, room, sends, stat, heap, kernel, shown,
                     revs>>,
         pc' = pc \/ (pc = "dispatch" /\ pc' = "wait")
  PROVE  FormInv'
<1>1. Form!TypeOK'
  BY FormTypes, FormTypesNext DEF FormInv
<1>2. Registered' /\ RoundRight'
  BY DEF FormInv, Registered, RoundRight
<1>3. pc' # "killed" => NetInv' /\ kernel'[ListenFd].ptr = Listener
  BY DEF FormInv, NetInv
<1>4. QED BY <1>1, <1>2, <1>3 DEF FormInv

LEMMA FormStep == FormInv /\ Form!Next => FormInv'
<1>1. FormInv /\ Form!WaitAgain => FormInv'
  BY FormStutter DEF Form!WaitAgain, Form!tcp, Form!server
<1>2. QED BY <1>1, FormClientsKeep, FormWaitKeeps, FormAcceptKeeps, FormRequestKeeps,
             FormResponeKeeps, FormKilledKeeps DEF Form!Next, Form!Loop

LEMMA FormSound == FormInv => Form!StatsSound
<1> SUFFICES ASSUME FormInv PROVE Form!StatsSound
  OBVIOUS
<1>1. Form!TypeOK /\ Registered /\ RoundRight
  BY DEF FormInv
<1>2. DOMAIN revs = 1 .. Len(revs)
  BY <1>1, FormTypes
<1>3. Form!NoDanglingEvent
  BY <1>1, <1>2 DEF RoundRight, Form!NoDanglingEvent
<1>4. Form!StatOfConnection
  BY <1>1, SameConstants DEF Registered, Form!StatOfConnection
<1>5. QED BY <1>1, <1>3, <1>4 DEF Form!StatsSound
-------------------------------------------------------------------------------
(* The programs together.                                                  *)

\* The invariant of the program that runs.
ProgInv ==
  /\ program = "sems" => SemInv
  /\ Locking => LockInv
  /\ program = "polls" => PollInv
  /\ program = "TCPfenbao" => FrameInv
  /\ program = "main" => EchoInv
  /\ program = "epollserver" => FormInv

LEMMA ProgInit == Init => ProgInv
BY SemsInit, LocksInit, PollsInit, FramesInit, EchoInit, FormInit DEF Init, ProgInv, Locking

LEMMA ProgStep == ProgInv /\ [Next]_vars => ProgInv'
<1> SUFFICES ASSUME ProgInv, [Next]_vars PROVE ProgInv'
  OBVIOUS
<1>1. CASE InSems /\ Sems!Next
  BY <1>1, SemsStep DEF InSems, ProgInv, Locking
<1>2. CASE InLocks /\ Locks!Next
  BY <1>2, LocksStep DEF InLocks, ProgInv, Locking
<1>3. CASE InBuffer /\ Hand!LinesNext
  BY <1>3 DEF InBuffer, ProgInv, Locking
<1>4. CASE InDouble /\ Hand!PipeNext
  BY <1>4 DEF InDouble, ProgInv, Locking
<1>5. CASE InPolls /\ Polls!Next
  BY <1>5, PollsStep DEF InPolls, ProgInv, Locking
<1>6. CASE InFrames /\ Frames!Next
  BY <1>6, FramesStep DEF InFrames, ProgInv, Locking
<1>7. CASE InEcho /\ Echo!Next
  BY <1>7, EchoStep DEF InEcho, ProgInv, Locking
<1>8. CASE InForm /\ Form!Next
  BY <1>8, FormStep DEF InForm, ProgInv, Locking
<1>9. CASE UNCHANGED vars
  <2>1. UNCHANGED <<program, pc, i, sem, adj, late, init, locked, offset>>
    BY <1>9 DEF vars, countVars, exerciseVars, semVars, lockVars
  <2>2. UNCHANGED Polls!vars
    BY <1>9 DEF vars, countVars, tcpVars, pollVars, Polls!vars, Polls!tcp
  <2>3. UNCHANGED Frames!vars
    BY <1>9 DEF vars, exerciseVars, frameVars, Frames!vars
  <2>4. UNCHANGED <<sock, backlog, peer, inbox, room, sends, evh, added, active, heap, reply,
                    failed>>
    BY <1>9 DEF vars, tcpVars, serverVars, echoVars
  <2>5. UNCHANGED <<sock, backlog, peer, inbox, room, sends, stat, heap, kernel, shown, revs>>
    BY <1>9 DEF vars, tcpVars, serverVars, formVars
  <2>6. pc' = pc
    BY <2>1
  <2>7. (SemInv => SemInv') /\ (LockInv => LockInv')
    BY <2>1, SemsStutter, LocksStutter
  <2>8. (PollInv => PollInv') /\ (FrameInv => FrameInv')
    BY <2>2, <2>3, PollsStutter, FramesStutter
  <2>9. ASSUME EchoInv PROVE EchoInv'
    BY <2>4, <2>6, <2>9, EchoStutter
  <2>10. ASSUME FormInv PROVE FormInv'
    BY <2>5, <2>6, <2>10, FormStutter
  <2>11. QED BY <2>1, <2>7, <2>8, <2>9, <2>10 DEF ProgInv, Locking
<1>10. QED BY <1>1, <1>2, <1>3, <1>4, <1>5, <1>6, <1>7, <1>8, <1>9 DEF Next

LEMMA ProgSound == ProgInv => Sound
<1> SUFFICES ASSUME ProgInv PROVE Sound
  OBVIOUS
<1>1. EchoInv => Echo!TypeOK /\ Echo!WatchedOrFailed
  BY DEF EchoInv
<1>2. QED BY <1>1, SemsSound, LocksSound, PollsSound, FramesSound, FormSound
          DEF ProgInv, Sound, Locking

\* In every program, however many processes, writers, senders, connections and
\* descriptors: one process of sems.c is inside while it counts the permits it
\* gave out, and permits are left; a record stays locked by one writer from the
\* first byte to the last; the entries of poll, the watched events and the
\* ConnectStats are those of the open connections; a packet answered was served.
THEOREM ProgramsStaySound == Spec => []Sound
<1>1. Spec => []ProgInv
  BY ProgInit, ProgStep, PTL DEF Spec
<1>2. QED BY <1>1, ProgSound, PTL
-------------------------------------------------------------------------------
(* The echo server on libevent implements EchoSession.                     *)

\* The stage of a connection by its client's segments and its event's callback.
StageAt(p, h) ==
  IF p = "gone" THEN "closed"
  ELSE IF h = "none" THEN "absent"
  ELSE IF h = "welcome" THEN "greeting"
  ELSE IF h = "echo" THEN "reading" ELSE "replying"

Stages == [c \in Conns |-> IF program = "main" THEN Echo!StageOf(c) ELSE "absent"]
StageStep == Session!Next \/ UNCHANGED Stages

LEMMA StageIs ==
  EchoInv /\ program = "main" => \A c \in Conns : Stages[c] = StageAt(peer[c], evh[c])
<1> SUFFICES ASSUME EchoInv, program = "main", NEW c \in Conns
             PROVE  Stages[c] = StageAt(peer[c], evh[c])
  OBVIOUS
<1>1. evh[c] \in {"welcome", "echo", "response", "none"}
  BY EchoTypes DEF EchoInv
<1>2. Stages[c] = Echo!StageOf(c)
  BY DEF Stages
<1>3. QED BY <1>1, <1>2 DEF StageAt, Echo!StageOf

LEMMA StageIsNext ==
  (EchoInv /\ program = "main" => \A c \in Conns : Stages[c] = StageAt(peer[c], evh[c]))'
BY StageIs, PTL

\* What is watched or was given up is open, and so its connection is not gone.
LEMMA WatchedIsLive ==
  ASSUME EchoInv, pc # "killed", NEW c \in Conns
  PROVE  /\ evh[c] # "none" <=> Opened(c)
         /\ Opened(c) => peer[c] # "gone" /\ peer[c] # "none"
<1>1. evh[c] # "none" <=> Opened(c)
  BY WatchedIs DEF EchoInv
<1>2. Opened(c) => peer[c] # "gone" /\ peer[c] # "none"
  BY FdFacts DEF EchoInv, NetInv, Opened, Live
<1>3. QED BY <1>1, <1>2

LEMMA StagesStay ==
  ASSUME EchoInv, EchoInv', program = "main", program' = program,
         \A c \in Conns : (peer[c] = "gone" <=> peer'[c] = "gone") /\ evh'[c] = evh[c]
  PROVE  StageStep
<1>1. \A c \in Conns : Stages'[c] = Stages[c]
  BY StageIs, StageIsNext DEF StageAt
<1>2. Stages' = Stages
  BY <1>1 DEF Stages
<1>3. QED BY <1>2 DEF StageStep

\* One connection moves.
LEMMA StageMoves ==
  ASSUME EchoInv, EchoInv', program = "main", program' = program, NEW c \in Conns,
         NEW from, NEW to, StageAt(peer[c], evh[c]) \in from, StageAt(peer'[c], evh'[c]) = to,
         \A d \in Conns \ {c} : (peer[d] = "gone" <=> peer'[d] = "gone") /\ evh'[d] = evh[d]
  PROVE  Session!Move(c, from, to)
<1>1. \A d \in Conns : Stages'[d] = IF d = c THEN to ELSE Stages[d]
  BY StageIs, StageIsNext DEF StageAt
<1>2. Stages' = [Stages EXCEPT ![c] = to]
  BY <1>1 DEF Stages
<1>3. Stages[c] \in from
  BY StageIs
<1>4. QED BY <1>2, <1>3 DEF Session!Move, Stages

LEMMA EchoClientsMove ==
  ASSUME EchoInv, EchoInv', program = "main", program' = program, Echo!Clients
  PROVE  StageStep
<1>1. /\ pc # "killed" /\ Clients /\ UNCHANGED evh
  BY DEF Echo!Clients, Echo!ClientStep, Echo!events, Clients
<1>2. \A c \in Conns : peer[c] = "gone" <=> peer'[c] = "gone"
  BY <1>1, ClientsKeepNet DEF EchoInv
<1>3. QED BY <1>1, <1>2, StagesStay

LEMMA EchoAcceptMoves ==
  ASSUME EchoInv, EchoInv', program = "main", program' = program, Echo!CallAccept
  PROVE  StageStep
<1>1. /\ pc = "call" /\ active # <<>> /\ Head(active) = Listener /\ Echo!accept_connection
  BY DEF Echo!CallAccept
<1>2. NetInv /\ backlog # <<>>
  BY <1>1, NextCall DEF EchoInv
<1>3. CASE Echo!FreeFd = {}
  <2>1. UNCHANGED <<peer, evh>>
    BY <1>1, <1>3 DEF Echo!accept_connection, Echo!tcp
  <2>2. QED BY <2>1, StagesStay
<1>4. CASE Echo!FreeFd # {}
  <2> DEFINE new == Echo!Min(Echo!FreeFd)
             c == Head(backlog)
  <2>1. new \in ConnFd /\ sock[new] = "nobody"
    <3>1. Echo!FreeFd \in SUBSET Nat
      BY FdFacts, SameConstants DEF Echo!FreeFd
    <3>2. new \in Echo!FreeFd
      BY <1>4, <3>1, LeastExists DEF Echo!Min
    <3>3. QED BY <3>2, SameConstants DEF Echo!FreeFd
  <2>2. Echo!accept(new) /\ evh' = [evh EXCEPT ![c] = "welcome"]
    BY <1>1, <1>4 DEF Echo!accept_connection, Echo!SetAndAdd, Echo!Returned
  <2> HIDE DEF new
  <2>3. /\ peer' = peer /\ c \in Conns /\ Live(peer, c) /\ \A f \in ConnFd : sock[f] # c
    BY <1>2, <2>1, <2>2, AcceptKeepsNet
  <2> HIDE DEF c
  <2>4. evh[c] = "none" /\ evh \in [Conns -> {"welcome", "echo", "response"} \cup {"none"}]
    BY <1>1, <2>3, WatchedIsLive, EchoTypes DEF Opened, EchoInv
  <2>5. StageAt(peer[c], evh[c]) \in {"absent"} /\ StageAt(peer'[c], evh'[c]) = "greeting"
    BY <2>2, <2>3, <2>4 DEF StageAt, Live
  <2>6. \A d \in Conns \ {c} : (peer[d] = "gone" <=> peer'[d] = "gone") /\ evh'[d] = evh[d]
    BY <2>2, <2>3, <2>4
  <2>7. Session!Accept(c)
    BY <2>3, <2>5, <2>6, StageMoves DEF Session!Accept
  <2>8. QED BY <2>3, <2>7 DEF StageStep, Session!Next
<1>5. QED BY <1>3, <1>4

LEMMA EchoHandlerMoves ==
  ASSUME EchoInv, EchoInv', program = "main", program' = program, Echo!CallHandler
  PROVE  StageStep
<1>1. pc = "call" /\ active # <<>> /\ Head(active) # Listener
  BY DEF Echo!CallHandler
<1> PICK c \in Conns : c = Head(active)
  BY <1>1, NextCall, EchoTypes DEF EchoInv
<1>2. /\ NetInv /\ c \in added /\ evh[c] # "none" /\ Opened(c) /\ peer[c] # "gone"
      /\ evh \in [Conns -> {"welcome", "echo", "response"} \cup {"none"}]
  <2>1. NetInv /\ c \in added /\ Echo!WatchedOrFailed
    BY <1>1, NextCall DEF EchoInv
  <2>2. c \in heap /\ evh[c] # "none"
    BY <2>1, WatchedIs
  <2>3. QED BY <1>1, <2>1, <2>2, WatchedIsLive, EchoTypes DEF EchoInv
<1>3. ASSUME Echo!callFails(c) \/ Echo!writeShort(c), Echo!GiveUp(c)
      PROVE  StageStep
  <2>1. \A d \in Conns : peer[d] = "gone" <=> peer'[d] = "gone"
    BY <1>2, <1>3, CallKeepsNet
  <2>2. UNCHANGED evh
    BY <1>3 DEF Echo!GiveUp, Echo!NotAdded
  <2>3. QED BY <2>1, <2>2, StagesStay
<1>4. ASSUME Echo!readData(c) \/ Echo!writeAll(c), NEW h \in {"welcome", "echo", "response"},
             Echo!SetAndAdd(c, h)
      PROVE  Session!Move(c, {StageAt("open", evh[c])}, StageAt("open", h))
  <2>1. \A d \in Conns : peer[d] = "gone" <=> peer'[d] = "gone"
    BY <1>2, <1>4, CallKeepsNet
  <2>2. evh' = [evh EXCEPT ![c] = h]
    BY <1>4 DEF Echo!SetAndAdd
  <2>3. /\ StageAt(peer[c], evh[c]) \in {StageAt("open", evh[c])}
        /\ StageAt(peer'[c], evh'[c]) = StageAt("open", h)
    BY <1>2, <2>1, <2>2 DEF StageAt
  <2>4. \A d \in Conns \ {c} : (peer[d] = "gone" <=> peer'[d] = "gone") /\ evh'[d] = evh[d]
    BY <1>2, <2>1, <2>2
  <2>5. QED BY <2>3, <2>4, StageMoves
<1>5. ASSUME Echo!CloseAndFree(c)
      PROVE  StageStep
  <2>1. /\ peer' = [peer EXCEPT ![c] = "gone"] /\ evh' = [evh EXCEPT ![c] = "none"]
    BY <1>2, <1>5, DescriptorIs DEF Echo!CloseAndFree, Echo!close
  <2>2. peer \in [Conns -> Peers]
    BY <1>2 DEF NetInv
  <2>3. StageAt(peer[c], evh[c]) \in {"greeting", "reading", "replying"}
        /\ StageAt(peer'[c], evh'[c]) = "closed"
    BY <1>2, <2>1, <2>2 DEF StageAt
  <2>4. \A d \in Conns \ {c} : (peer[d] = "gone" <=> peer'[d] = "gone") /\ evh'[d] = evh[d]
    BY <1>2, <2>1, <2>2
  <2>5. Session!Close(c)
    BY <2>3, <2>4, StageMoves DEF Session!Close
  <2>6. QED BY <2>5 DEF StageStep, Session!Next
<1>6. CASE evh[c] = "welcome" /\ Echo!do_welcome_handler(c)
  <2>1. CASE Echo!writeAll(c) /\ Echo!SetAndAdd(c, "echo")
    <3>1. Session!Greet(c)
      BY <1>4, <1>6, <2>1 DEF Session!Greet, StageAt
    <3>2. QED BY <3>1 DEF StageStep, Session!Next
  <2>2. QED BY <1>3, <1>6, <2>1 DEF Echo!do_welcome_handler
<1>7. CASE evh[c] = "echo" /\ Echo!do_echo_handler(c)
  <2>1. CASE Echo!readData(c) /\ Echo!SetAndAdd(c, "response")
    <3>1. Session!Read(c)
      BY <1>4, <1>7, <2>1 DEF Session!Read, StageAt
    <3>2. QED BY <3>1 DEF StageStep, Session!Next
  <2>2. QED BY <1>3, <1>5, <1>7, <2>1 DEF Echo!do_echo_handler
<1>8. CASE evh[c] = "response" /\ Echo!do_echo_response(c)
  <2>1. CASE Echo!writeAll(c) /\ Echo!SetAndAdd(c, "echo")
    <3>1. Session!Reply(c)
      BY <1>4, <1>8, <2>1 DEF Session!Reply, StageAt
    <3>2. QED BY <3>1 DEF StageStep, Session!Next
  <2>2. QED BY <1>3, <1>8, <2>1 DEF Echo!do_echo_response
<1>9. QED BY <1>6, <1>7, <1>8 DEF Echo!CallHandler

LEMMA EchoKilledMoves ==
  ASSUME EchoInv, EchoInv', program = "main", program' = program, Echo!CallKilled
  PROVE  StageStep
<1>1. /\ peer' = [c \in Conns |-> IF Echo!IsOpen(c) \/ peer[c] = "gone" THEN "gone" ELSE "none"]
      /\ evh' = [c \in Conns |-> "none"] /\ pc # "killed"
  BY DEF Echo!CallKilled, Echo!processEnds
<1>2. ASSUME NEW c \in Conns
      PROVE  Stages'[c] = IF Stages[c] = "absent" THEN "absent" ELSE "closed"
  <2>1. Echo!IsOpen(c) <=> Opened(c)
    BY SameConstants DEF Echo!IsOpen, Opened
  <2>2. evh[c] # "none" <=> Opened(c)
    BY <1>1, WatchedIsLive
  <2>3. StageAt(peer'[c], evh'[c]) = IF Opened(c) \/ peer[c] = "gone" THEN "closed" ELSE "absent"
    BY <1>1, <2>1 DEF StageAt
  <2>4. StageAt(peer[c], evh[c]) = "absent" <=> ~Opened(c) /\ peer[c] # "gone"
    BY <2>2 DEF StageAt
  <2>5. QED BY <2>3, <2>4, StageIs, StageIsNext
<1>3. Stages' = [c \in Conns |-> IF Stages[c] = "absent" THEN "absent" ELSE "closed"]
  BY <1>2 DEF Stages
<1>4. Session!CloseAll
  BY <1>3 DEF Session!CloseAll, Stages
<1>5. QED BY <1>4 DEF StageStep, Session!Next

LEMMA EchoMoves ==
  ASSUME ProgInv, ProgInv', [Next]_vars
  PROVE  StageStep
<1>1. CASE program = "main" /\ InEcho /\ Echo!Next
  <2>1. EchoInv /\ EchoInv' /\ program' = program
    BY <1>1 DEF ProgInv, InEcho
  <2>2. CASE Echo!epoll_dispatch \/ Echo!LoopAgain
    <3>1. UNCHANGED <<peer, evh>>
      BY <2>2 DEF Echo!epoll_dispatch, Echo!LoopAgain, Echo!tcp
    <3>2. QED BY <1>1, <2>1, <3>1, StagesStay
  <2>3. QED BY <1>1, <2>1, <2>2, EchoClientsMove, EchoAcceptMoves, EchoHandlerMoves,
               EchoKilledMoves DEF Echo!Next, Echo!Loop
<1>2. CASE program # "main" /\ program' = program
  BY <1>2 DEF StageStep, Stages
<1>3. CASE UNCHANGED vars
  <2>1. UNCHANGED <<program, peer, evh>>
    BY <1>3 DEF vars, tcpVars, serverVars, echoVars
  <2>2. CASE program = "main"
    BY <2>1, <2>2, StagesStay DEF ProgInv
  <2>3. QED BY <1>2, <2>1, <2>2
<1>4. CASE Next
  BY <1>1, <1>2, <1>4 DEF Next, InSems, InLocks, Locking, InBuffer, InDouble, InPolls, InFrames,
                          InEcho, InForm
<1>5. QED BY <1>3, <1>4

\* The handlers of the libevent server serve every connection as those of the
\* epoll framework's do: greeting, then message and reply in turns, and an end,
\* although each takes its one-shot event out and a failed call ends nothing.
THEOREM LibeventImplementsSession == Spec => ImplementsEchoSession
<1>1. Init => Session!Init
  <2> SUFFICES ASSUME Init PROVE Session!Init
    OBVIOUS
  <2>1. \A c \in Conns : program = "main" => Echo!StageOf(c) = "absent"
    BY DEF Init, Echo!Init, Echo!TcpInit, Echo!StageOf
  <2>2. QED BY <2>1 DEF Session!Init
<1>2. Spec => []ProgInv
  BY ProgInit, ProgStep, PTL DEF Spec
<1>3. ProgInv /\ ProgInv' /\ [Next]_vars => [Session!Next]_Stages
  BY EchoMoves DEF StageStep
<1>4. Session!Spec <=> Session!Init /\ [][Session!Next]_Stages
  BY DEF Session!Spec, Stages
<1>5. QED BY <1>1, <1>2, <1>3, <1>4, PTL DEF Spec, ImplementsEchoSession
-------------------------------------------------------------------------------
(* The form server implements FormSession.                                 *)

Hung(p, c) == p[c] \in {"reset", "broken"}

\* A ConnectStat registered for writing has a page to write.  An event of a round
\* still says what its ConnectStat is registered for, and one for writing comes with
\* room for the page, or with a client that nobody can write to.
TurnsRight ==
  /\ \A s \in heap : kernel[stat[s].fd].ev = {"OUT"} => stat[s].handler # "null"
  /\ \A n \in 1 .. Len(revs) : revs[n].ptr # Listener =>
       /\ "IN" \in revs[n].ev <=> kernel[stat[revs[n].ptr].fd].ev = {"IN"}
       /\ "IN" \in revs[n].ev \/ room[revs[n].conn] \/ Hung(peer, revs[n].conn)

\* What a browser sees of a connection, by the ConnectStat that serves it.
Views ==
  /\ pc # "killed" => \A s \in heap :
       /\ Opened(sock[stat[s].fd])
       /\ Form!NameOf(sock[stat[s].fd]) = stat[s].name
       /\ Form!Owed(sock[stat[s].fd]) =
            IF kernel[stat[s].fd].ev = {"OUT"} THEN stat[s].handler ELSE "none"
  /\ \A c \in Conns : ~Opened(c) =>
       /\ Form!NameOf(c) = "none"
       /\ Form!Owed(c) = IF peer[c] = "gone" THEN "closed" ELSE "absent"

LEMMA FormViews == FormInv => Views
<1> SUFFICES ASSUME FormInv PROVE Views
  OBVIOUS
<1>1. \A c : Form!IsOpen(c) <=> Opened(c)
  BY SameConstants DEF Form!IsOpen, Opened
<1>2. ASSUME pc # "killed", NEW s \in heap
      PROVE  /\ Opened(sock[stat[s].fd])
             /\ Form!NameOf(sock[stat[s].fd]) = stat[s].name
             /\ Form!Owed(sock[stat[s].fd]) =
                  IF kernel[stat[s].fd].ev = {"OUT"} THEN stat[s].handler ELSE "none"
  <2> PICK fd \in ConnFd : fd = stat[s].fd
    BY DEF FormInv, Registered
  <2> PICK c \in Conns : c = sock[fd]
    BY DEF FormInv, Registered
  <2>1. /\ Opened(c) /\ peer[c] # "gone" /\ kernel[fd].ptr = s
        /\ \A f \in ConnFd : sock[f] = c => f = fd
    BY <1>2, FdFacts DEF FormInv, NetInv, Registered, Opened, Live
  <2>2. (CHOOSE f \in ConnFd : sock[f] = c) = fd
    BY <2>1
  <2>3. Form!StatOf(c) = s
    BY <2>1, <2>2, SameConstants DEF Form!StatOf
  <2>4. QED BY <1>1, <2>1, <2>3 DEF Form!NameOf, Form!Owed
<1>3. \A c \in Conns : ~Opened(c) =>
        /\ Form!NameOf(c) = "none"
        /\ Form!Owed(c) = IF peer[c] = "gone" THEN "closed" ELSE "absent"
  BY <1>1 DEF Form!NameOf, Form!Owed
<1>4. QED BY <1>2, <1>3 DEF Views

LEMMA FormViewsNext == (FormInv => Views)'
BY FormViews, PTL

OwedNow == [c \in Conns |-> IF program = "epollserver" THEN Form!Owed(c) ELSE "absent"]
NameNow == [c \in Conns |-> IF program = "epollserver" THEN Form!NameOf(c) ELSE "none"]
ShownNow == [c \in Conns |-> IF program = "epollserver" THEN shown[c] ELSE "nothing"]
PageStep == Pages!Next \/ UNCHANGED <<OwedNow, NameNow, ShownNow>>
Serving == program = "epollserver" /\ program' = program

LEMMA PagesAre ==
  program = "epollserver" => \A c \in Conns : /\ OwedNow[c] = Form!Owed(c)
                                             /\ NameNow[c] = Form!NameOf(c)
                                             /\ ShownNow[c] = shown[c]
BY DEF OwedNow, NameNow, ShownNow

LEMMA PagesAreNext ==
  (program = "epollserver" => \A c \in Conns : /\ OwedNow[c] = Form!Owed(c)
                                              /\ NameNow[c] = Form!NameOf(c)
                                              /\ ShownNow[c] = shown[c])'
BY PagesAre, PTL

\* Where the browsers of all connections but c see no change.
Others(c) == \A d \in Conns \ {c} : /\ OwedNow'[d] = OwedNow[d] /\ NameNow'[d] = NameNow[d]
                                    /\ ShownNow'[d] = ShownNow[d]

LEMMA PagesMove ==
  ASSUME NEW c \in Conns, Others(c), NEW owed, NEW name, NEW page,
         OwedNow'[c] = owed, NameNow'[c] = name, ShownNow'[c] = page
  PROVE  /\ OwedNow' = [OwedNow EXCEPT ![c] = owed]
         /\ NameNow' = [NameNow EXCEPT ![c] = name]
         /\ ShownNow' = [ShownNow EXCEPT ![c] = page]
         /\ name = NameNow[c] => NameNow' = NameNow
         /\ page = ShownNow[c] => ShownNow' = ShownNow
         /\ owed = OwedNow[c] => OwedNow' = OwedNow
<1>1. \A d \in Conns : /\ OwedNow'[d] = IF d = c THEN owed ELSE OwedNow[d]
                       /\ NameNow'[d] = IF d = c THEN name ELSE NameNow[d]
                       /\ ShownNow'[d] = IF d = c THEN page ELSE ShownNow[d]
  BY DEF Others
<1>2. OwedNow' = [OwedNow EXCEPT ![c] = owed] /\ (owed = OwedNow[c] => OwedNow' = OwedNow)
  BY <1>1 DEF OwedNow
<1>3. NameNow' = [NameNow EXCEPT ![c] = name] /\ (name = NameNow[c] => NameNow' = NameNow)
  BY <1>1 DEF NameNow
<1>4. ShownNow' = [ShownNow EXCEPT ![c] = page] /\ (page = ShownNow[c] => ShownNow' = ShownNow)
  BY <1>1 DEF ShownNow
<1>5. QED BY <1>2, <1>3, <1>4

\* An event is dispatched, and the connections but c are left as they are.
LEMMA DispatchLeaves ==
  ASSUME FormInv, FormInv', TurnsRight, Serving, pc = "dispatch", pc' = pc,
         revs # <<>>, revs' = Tail(revs), NEW c \in Conns,
         IF Head(revs).ptr = Listener THEN ~Opened(c) ELSE sock[stat[Head(revs).ptr].fd] = c,
         \A s \in heap \ {Head(revs).ptr} :
           /\ s \in heap' /\ stat'[s] = stat[s] /\ sock'[stat[s].fd] = sock[stat[s].fd]
           /\ kernel'[stat[s].fd] = kernel[stat[s].fd],
         \A s \in heap' : \/ s \in heap \ {Head(revs).ptr}
                          \/ kernel'[stat'[s].fd].ev # {"OUT"}
                          \/ stat'[s].handler # "null",
         \A d \in Conns \ {c} :
           /\ peer[d] = "gone" <=> peer'[d] = "gone"
           /\ Opened(d)' <=> Opened(d)
           /\ room[d] \/ Hung(peer, d) => room'[d] \/ Hung(peer', d)
           /\ shown'[d] = shown[d]
  PROVE  TurnsRight' /\ Others(c)
<1>1. Registered /\ NetInv /\ RoundRight /\ Listener \notin heap
  BY FormTypes, ProgramsAssumption DEF FormInv
<1>2. ASSUME NEW d \in Conns \ {c}
      PROVE  /\ Form!Owed(d)' = Form!Owed(d)
             /\ Form!NameOf(d)' = Form!NameOf(d)
  <2>1. CASE Opened(d)
    <3>1. PICK f \in ConnFd : sock[f] = d
      BY <2>1 DEF Opened
    <3>2. PICK s \in heap : s = kernel[f].ptr /\ stat[s].fd = f
      BY <1>1, <3>1, FdFacts DEF Registered
    <3>3. s \in heap \ {Head(revs).ptr}
      BY <1>1, <3>1, <3>2
    <3>4. /\ s \in heap' /\ stat'[s] = stat[s] /\ stat'[s].fd = f /\ sock'[f] = d
          /\ kernel'[f] = kernel[f]
      BY <3>1, <3>2, <3>3
    <3>5. /\ Form!NameOf(d) = stat[s].name
          /\ Form!Owed(d) = IF kernel[f].ev = {"OUT"} THEN stat[s].handler ELSE "none"
      BY <3>1, <3>2, FormViews DEF Views
    <3>6. /\ Form!NameOf(d)' = stat'[s].name
          /\ Form!Owed(d)' = IF kernel'[f].ev = {"OUT"} THEN stat'[s].handler ELSE "none"
      BY <3>4, FormViewsNext DEF Views
    <3>7. QED BY <3>4, <3>5, <3>6
  <2>2. CASE ~Opened(d)
    BY <2>2, FormViews, FormViewsNext DEF Views
  <2>3. QED BY <2>1, <2>2
<1>3. Others(c)
  BY <1>2, PagesAre, PagesAreNext DEF Others, Serving
<1>4. \A n \in 1 .. Len(revs') : n + 1 \in 1 .. Len(revs) /\ revs'[n] = revs[n + 1]
  BY FormTypes DEF FormInv
<1>5. ASSUME NEW n \in 1 .. Len(revs'), revs'[n].ptr # Listener
      PROVE  /\ "IN" \in revs'[n].ev <=> kernel'[stat'[revs'[n].ptr].fd].ev = {"IN"}
             /\ "IN" \in revs'[n].ev \/ room'[revs'[n].conn] \/ Hung(peer', revs'[n].conn)
  <2> PICK m \in 1 .. Len(revs) : m = n + 1 /\ revs'[n] = revs[m]
    BY <1>4
  <2> PICK s \in heap : s = revs[m].ptr /\ sock[stat[s].fd] = revs[m].conn
    BY <1>1, <1>5 DEF RoundRight
  <2>1. s # Head(revs).ptr
    BY NextEvent
  <2>2. /\ "IN" \in revs[m].ev <=> kernel[stat[s].fd].ev = {"IN"}
        /\ "IN" \in revs[m].ev \/ room[revs[m].conn] \/ Hung(peer, revs[m].conn)
    BY <1>5 DEF TurnsRight
  <2>3. stat'[s] = stat[s] /\ kernel'[stat[s].fd] = kernel[stat[s].fd]
    BY <2>1
  <2>4. sock[stat[s].fd] \in Conns \ {c}
    <3>1. sock[stat[s].fd] \in Conns /\ stat[s].fd \in ConnFd
      BY <1>1 DEF Registered
    <3>2. CASE Head(revs).ptr # Listener
      <4>1. stat[Head(revs).ptr].fd \in ConnFd /\ stat[s].fd # stat[Head(revs).ptr].fd
        BY <2>1, <3>2, EventFacts
      <4>2. QED BY <1>1, <3>1, <3>2, <4>1 DEF NetInv
    <3>3. CASE Head(revs).ptr = Listener
      BY <3>1, <3>3 DEF Opened
    <3>4. QED BY <3>2, <3>3
  <2>5. "IN" \in revs[m].ev \/ room'[revs[m].conn] \/ Hung(peer', revs[m].conn)
    BY <2>2, <2>4
  <2>6. kernel'[stat'[s].fd] = kernel[stat[s].fd]
    BY <2>3
  <2>7. revs'[n].ptr = s /\ revs'[n].ev = revs[m].ev /\ revs'[n].conn = revs[m].conn
    OBVIOUS
  <2>8. "IN" \in revs'[n].ev <=> kernel'[stat'[s].fd].ev = {"IN"}
    BY <2>2, <2>6, <2>7
  <2>9. stat'[revs'[n].ptr] = stat'[s]
    BY <2>7
  <2>10. "IN" \in revs'[n].ev <=> kernel'[stat'[revs'[n].ptr].fd].ev = {"IN"}
    BY <2>8, <2>9
  <2>11. "IN" \in revs'[n].ev \/ room'[revs'[n].conn] \/ Hung(peer', revs'[n].conn)
    BY <2>5, <2>7
  <2>12. QED BY <2>10, <2>11
<1>6. \A s \in heap' : kernel'[stat'[s].fd].ev = {"OUT"} => stat'[s].handler # "null"
  <2> SUFFICES ASSUME NEW s \in heap', kernel'[stat'[s].fd].ev = {"OUT"}
               PROVE  stat'[s].handler # "null"
    OBVIOUS
  <2>1. CASE s \in heap \ {Head(revs).ptr}
    <3>1. stat'[s] = stat[s] /\ kernel'[stat[s].fd] = kernel[stat[s].fd]
      BY <2>1
    <3>2. kernel[stat[s].fd].ev = {"OUT"}
      BY <3>1
    <3>3. QED BY <2>1, <3>1, <3>2 DEF TurnsRight
  <2>2. QED BY <2>1
<1>7. TurnsRight'
  BY <1>5, <1>6 DEF TurnsRight
<1>8. QED BY <1>3, <1>7
\* A step that leaves the ConnectStats and the connections as they are.
LEMMA PagesStay ==
  ASSUME FormInv, FormInv', Serving, pc # "killed", pc' # "killed",
         UNCHANGED <<sock, stat, heap, kernel, shown>>,
         \A c \in Conns : peer[c] = "gone" <=> peer'[c] = "gone"
  PROVE  PageStep
<1>1. ASSUME NEW c \in Conns
      PROVE  /\ Form!Owed(c)' = Form!Owed(c)
             /\ Form!NameOf(c)' = Form!NameOf(c)
  <2>1. Opened(c)' <=> Opened(c)
    BY DEF Opened
  <2>2. CASE Opened(c)
    <3> PICK fd \in ConnFd : sock[fd] = c
      BY <2>2 DEF Opened
    <3> PICK s \in heap : s = kernel[fd].ptr /\ stat[s].fd = fd
      BY FdFacts DEF FormInv, Registered
    <3>1. /\ Form!NameOf(c) = stat[s].name
          /\ Form!Owed(c) = IF kernel[fd].ev = {"OUT"} THEN stat[s].handler ELSE "none"
      BY FormViews DEF Views
    <3>2. /\ Form!NameOf(c)' = stat'[s].name
          /\ Form!Owed(c)' = IF kernel'[fd].ev = {"OUT"} THEN stat'[s].handler ELSE "none"
      BY FormViewsNext DEF Views
    <3>3. QED BY <3>1, <3>2
  <2>3. QED BY <2>1, <2>2, FormViews, FormViewsNext DEF Views
<1>2. \A c \in Conns : /\ OwedNow'[c] = OwedNow[c] /\ NameNow'[c] = NameNow[c]
                       /\ ShownNow'[c] = ShownNow[c]
  BY <1>1, PagesAre, PagesAreNext DEF Serving
<1>3. UNCHANGED OwedNow
  BY <1>2 DEF OwedNow
<1>4. UNCHANGED NameNow
  BY <1>2 DEF NameNow
<1>5. UNCHANGED ShownNow
  BY <1>2 DEF ShownNow
<1>6. QED BY <1>3, <1>4, <1>5 DEF PageStep

LEMMA FormClientsMove ==
  ASSUME FormInv, FormInv', TurnsRight, Serving, Form!Clients
  PROVE  TurnsRight' /\ PageStep
<1>1. /\ pc # "killed" /\ pc' = pc /\ Form!ClientStep
      /\ UNCHANGED <<stat, heap, kernel, shown, revs>>
  BY DEF Form!Clients, Form!server, FormInv
<1>2. Clients
  BY <1>1, SameCalls DEF Form!ClientStep, Clients
<1>3. /\ NetInv /\ NetInv' /\ UNCHANGED sock
      /\ \A c \in Conns : peer[c] = "gone" <=> peer'[c] = "gone"
  BY <1>1, <1>2, ClientsKeepNet DEF FormInv
<1>4. PageStep
  BY <1>1, <1>3, PagesStay
<1>5. ASSUME NEW d \in Conns, room[d] \/ Hung(peer, d)
      PROVE  room'[d] \/ Hung(peer', d)
  <2>1. peer \in [Conns -> Peers] /\ room \in [Conns -> BOOLEAN]
    BY <1>3 DEF NetInv
  <2>2. PICK c \in Conns : \/ Form!Connect(c) \/ Form!Fin(c) \/ Form!Reset(c) \/ Form!Drain(c)
                          \/ \E message \in Requests : Form!Send(c, message)
    BY <1>1 DEF Form!ClientStep, Requests
  <2>3. CASE Form!Connect(c) \/ Form!Fin(c) \/ Form!Reset(c)
    BY <1>5, <2>1, <2>3 DEF Form!Connect, Form!Fin, Form!Reset, Hung
  <2>4. CASE Form!Drain(c) \/ \E message \in Requests : Form!Send(c, message)
    BY <1>5, <2>1, <2>4 DEF Form!Drain, Form!Send, Hung
  <2>5. QED BY <2>2, <2>3, <2>4
<1>6. \A n \in 1 .. Len(revs) : revs[n].ptr # Listener => revs[n].conn \in Conns
  BY <1>1 DEF FormInv, RoundRight, Registered
<1>7. \A n \in 1 .. Len(revs) : revs[n].ptr # Listener =>
        "IN" \in revs[n].ev \/ room'[revs[n].conn] \/ Hung(peer', revs[n].conn)
  BY <1>5, <1>6 DEF TurnsRight
<1>8. TurnsRight'
  BY <1>1, <1>7 DEF TurnsRight
<1>9. QED BY <1>4, <1>8

\* What an event stands for when its turn comes.
LEMMA HeadTurn ==
  ASSUME FormInv, TurnsRight, pc = "dispatch", revs # <<>>, Head(revs).ptr # Listener,
         NEW s \in heap, s = Head(revs).ptr, NEW fd \in ConnFd, fd = stat[s].fd,
         NEW c \in Conns, c = sock[fd]
  PROVE  /\ Opened(c) /\ peer[c] # "gone" /\ peer[c] # "none"
         /\ kernel[fd].ev = IF "IN" \in Head(revs).ev THEN {"IN"} ELSE {"OUT"}
         /\ "IN" \in Head(revs).ev \/ room[c] \/ Hung(peer, c)
         /\ "IN" \in Head(revs).ev \/ stat[s].handler \in {"welcome", "commit"}
         /\ Form!NameOf(c) = stat[s].name
         /\ Form!Owed(c) = IF "IN" \in Head(revs).ev THEN "none" ELSE stat[s].handler
<1>1. /\ revs[1] = Head(revs) /\ 1 \in 1 .. Len(revs) /\ NetInv /\ Registered /\ RoundRight
      /\ kernel \in [Fd -> Entry] /\ stat \in [Stats -> StatType] /\ heap \subseteq Stats
      /\ fd \in Fd
  BY FormTypes, FdFacts DEF FormInv
<1>2. revs[1].conn = c
  BY <1>1 DEF RoundRight
<1>3. /\ "IN" \in Head(revs).ev <=> kernel[fd].ev = {"IN"}
      /\ "IN" \in Head(revs).ev \/ room[c] \/ Hung(peer, c)
  BY <1>1, <1>2 DEF TurnsRight
<1>4. kernel[fd].ev \in {{"IN"}, {"OUT"}}
  <2>1. kernel[fd] \in Entry
    BY <1>1
  <2>2. kernel[fd].ev # {}
    BY <1>1, FdFacts DEF Registered
  <2>3. QED BY <2>1, <2>2 DEF Entry, NoEntry
<1>5. "IN" \in Head(revs).ev \/ stat[s].handler \in {"welcome", "commit"}
  <2>1. stat[s].handler \in {"null", "welcome", "commit"}
    BY <1>1 DEF StatType
  <2>2. QED BY <1>3, <1>4, <2>1 DEF TurnsRight
<1>6. Opened(c) /\ peer[c] # "gone" /\ peer[c] # "none"
  BY <1>1, FdFacts DEF NetInv, Opened, Live
<1>7. /\ Form!NameOf(c) = stat[s].name
      /\ Form!Owed(c) = IF kernel[fd].ev = {"OUT"} THEN stat[s].handler ELSE "none"
  BY FormViews DEF Views
<1>8. kernel[fd].ev = IF "IN" \in Head(revs).ev THEN {"IN"} ELSE {"OUT"}
  BY <1>3, <1>4
<1>9. Form!Owed(c) = IF "IN" \in Head(revs).ev THEN "none" ELSE stat[s].handler
  <2>1. CASE "IN" \in Head(revs).ev
    <3>1. kernel[fd].ev # {"OUT"}
      BY <1>8, <2>1
    <3>2. QED BY <1>7, <2>1, <3>1
  <2>2. QED BY <1>7, <1>8, <2>1
<1>10. QED BY <1>3, <1>5, <1>6, <1>7, <1>8, <1>9

\* The pages of one connection move.
LEMMA PageMoves ==
  ASSUME Serving, NEW c \in Conns, Others(c), NEW from, NEW to, NEW name, NEW page,
         Form!Owed(c) = from, Form!Owed(c)' = to, Form!NameOf(c)' = name, shown'[c] = page
  PROVE  /\ Pages!Move(c, from, to)
         /\ NameNow' = [NameNow EXCEPT ![c] = name]
         /\ ShownNow' = [ShownNow EXCEPT ![c] = page]
         /\ name = Form!NameOf(c) => NameNow' = NameNow
         /\ page = shown[c] => ShownNow' = ShownNow
<1>1. /\ OwedNow[c] = from /\ NameNow[c] = Form!NameOf(c) /\ ShownNow[c] = shown[c]
      /\ OwedNow'[c] = to /\ NameNow'[c] = name /\ ShownNow'[c] = page
  BY PagesAre, PagesAreNext DEF Serving
<1>2. /\ OwedNow' = [OwedNow EXCEPT ![c] = to]
      /\ NameNow' = [NameNow EXCEPT ![c] = name]
      /\ ShownNow' = [ShownNow EXCEPT ![c] = page]
      /\ name = NameNow[c] => NameNow' = NameNow
      /\ page = ShownNow[c] => ShownNow' = ShownNow
  BY <1>1, PagesMove
<1>3. Pages!Move(c, from, to)
  BY <1>1, <1>2 DEF Pages!Move, OwedNow
<1>4. QED BY <1>1, <1>2, <1>3

\* It is shown no page.
LEMMA PageMovesUnseen ==
  ASSUME Serving, NEW c \in Conns, Others(c), shown'[c] = shown[c]
  PROVE  /\ Pages!Move(c, Form!Owed(c), Form!Owed(c)') /\ ShownNow' = ShownNow
         /\ NameNow' = [NameNow EXCEPT ![c] = Form!NameOf(c)']
         /\ Form!NameOf(c)' = Form!NameOf(c) => NameNow' = NameNow
<1> PICK from, to, name, page :
      from = Form!Owed(c) /\ to = Form!Owed(c)' /\ name = Form!NameOf(c)' /\ page = shown[c]
  OBVIOUS
<1>1. shown'[c] = page
  OBVIOUS
<1>2. /\ Pages!Move(c, from, to)
      /\ page = shown[c] => ShownNow' = ShownNow
      /\ NameNow' = [NameNow EXCEPT ![c] = name]
      /\ name = Form!NameOf(c) => NameNow' = NameNow
  BY <1>1, PageMoves
<1>3. QED BY <1>2

LEMMA FormAcceptMoves ==
  ASSUME FormInv, FormInv', TurnsRight, Serving, Form!DispatchListener
  PROVE  TurnsRight' /\ PageStep
<1>1. /\ pc = "dispatch" /\ revs # <<>> /\ Head(revs).ptr = Listener /\ revs' = Tail(revs)
      /\ pc' = pc /\ Form!connect_handle
  BY DEF Form!DispatchListener, Form!Dispatch
<1>2. /\ NetInv /\ backlog # <<>> /\ Registered /\ Registered'
      /\ kernel \in [Fd -> Entry] /\ stat \in [Stats -> StatType] /\ heap \subseteq Stats
      /\ Listener \notin heap
  BY <1>1, NextEvent, FormTypes, ProgramsAssumption DEF FormInv
<1> PICK c \in Conns : c = Head(backlog)
  BY <1>2 DEF NetInv
<1>3. ~Opened(c) /\ peer[c] # "gone"
  <2>1. 1 \in 1 .. Len(backlog) /\ backlog[1] = c
    BY <1>2 DEF NetInv
  <2>2. QED BY <1>2, <2>1 DEF NetInv, Opened, Live
<1>4. CASE Form!FreeFd = {}
  <2>1. UNCHANGED <<sock, backlog, peer, inbox, room, sends, stat, heap, kernel, shown>>
    BY <1>1, <1>4 DEF Form!connect_handle, Form!tcp, Form!server
  <2>2. PageStep
    BY <1>1, <2>1, PagesStay
  <2>3. \A d \in Conns : Opened(d)' <=> Opened(d)
    BY <2>1 DEF Opened
  <2>4. /\ \A s \in heap \ {Head(revs).ptr} :
             /\ s \in heap' /\ stat'[s] = stat[s] /\ sock'[stat[s].fd] = sock[stat[s].fd]
             /\ kernel'[stat[s].fd] = kernel[stat[s].fd]
        /\ \A s \in heap' : s \in heap \ {Head(revs).ptr}
    BY <1>1, <1>2, <2>1
  <2>5. \A d \in Conns \ {c} : room[d] \/ Hung(peer, d) => room'[d] \/ Hung(peer', d)
    BY <2>1 DEF Hung
  <2>6. TurnsRight'
    BY <1>1, <1>3, <2>1, <2>3, <2>4, <2>5, DispatchLeaves
  <2>7. QED BY <2>2, <2>6
<1>5. CASE Form!FreeFd # {}
  <2> DEFINE new == Form!Min(Form!FreeFd)
  <2>1. new \in Form!FreeFd
    <3>1. Form!FreeFd \in SUBSET Nat
      BY FdFacts, SameConstants DEF Form!FreeFd
    <3>2. QED BY <1>5, <3>1, LeastExists DEF Form!Min
  <2>2. new \in ConnFd /\ sock[new] = "nobody" /\ new \in Fd \ {ListenFd}
    BY <2>1, SameConstants, FdFacts DEF Form!FreeFd
  <2>3. PICK s \in Stats \ heap :
          /\ heap' = heap \cup {s} /\ Form!stat_init(s, new) /\ Form!Register(s, new, {"IN"})
    BY <1>1, <1>5 DEF Form!connect_handle, Form!Returned
  <2>4. Form!accept(new) /\ UNCHANGED shown
    BY <1>1, <1>5 DEF Form!connect_handle, Form!Returned
  <2> HIDE DEF new
  <2>5. sock' = [sock EXCEPT ![new] = c] /\ UNCHANGED <<peer, room>>
    BY <2>4 DEF Form!accept
  <2>6. /\ stat' = [stat EXCEPT ![s] = [fd |-> new, name |-> "none", handler |-> "null"]]
        /\ kernel' = [kernel EXCEPT ![new] = [ev |-> {"IN"}, ptr |-> s]]
    BY <2>3 DEF Form!stat_init, Form!Register
  <2>7. /\ sock'[new] = c /\ \A fd \in Fd \ {new} : sock'[fd] = sock[fd]
        /\ \A fd \in Fd \ {new} : kernel'[fd] = kernel[fd]
        /\ kernel'[new].ev = {"IN"} /\ stat'[s].fd = new /\ stat'[s].name = "none"
        /\ \A t \in heap : stat'[t] = stat[t]
    BY <1>2, <2>2, <2>3, <2>5, <2>6 DEF NetInv
  <2>8. \A t \in heap : stat[t].fd \in Fd \ {new}
    BY <1>2, <2>2, FdFacts DEF Registered
  <2>9. \A t \in heap \ {Head(revs).ptr} :
          /\ t \in heap' /\ stat'[t] = stat[t] /\ sock'[stat[t].fd] = sock[stat[t].fd]
          /\ kernel'[stat[t].fd] = kernel[stat[t].fd]
    BY <2>3, <2>7, <2>8
  <2>10. {"IN"} # {"OUT"}
    OBVIOUS
  <2>11. \A t \in heap' : t \in heap \ {Head(revs).ptr} \/ kernel'[stat'[t].fd].ev # {"OUT"}
    BY <1>1, <1>2, <2>3, <2>7, <2>10
  <2>12. ASSUME NEW d \in Conns \ {c}
         PROVE  Opened(d)' <=> Opened(d)
    <3>1. \A fd \in ConnFd : sock'[fd] = d <=> sock[fd] = d
      BY <2>2, <2>7, FdFacts
    <3>2. QED BY <3>1 DEF Opened
  <2>13. \A d \in Conns \ {c} : room[d] \/ Hung(peer, d) => room'[d] \/ Hung(peer', d)
    BY <2>5 DEF Hung
  <2>14. TurnsRight' /\ Others(c)
    BY <1>1, <1>3, <2>4, <2>5, <2>9, <2>11, <2>12, <2>13, DispatchLeaves
  <2>15. Form!Owed(c) = "absent" /\ Form!NameOf(c) = "none"
    BY <1>3, FormViews DEF Views
  <2>16. Form!Owed(c)' = "none" /\ Form!NameOf(c)' = "none"
    <3>1. /\ s \in heap' /\ pc' # "killed" /\ sock'[stat'[s].fd] = c
          /\ kernel'[stat'[s].fd].ev # {"OUT"}
      BY <1>1, <2>3, <2>7, <2>10
    <3>2. QED BY <2>7, <3>1, FormViewsNext DEF Views
  <2>17. Pages!Accept(c)
    BY <2>4, <2>14, <2>15, <2>16, PageMoves DEF Pages!Accept, NameNow, ShownNow
  <2>18. QED BY <2>14, <2>17 DEF PageStep, Pages!Next
<1>6. QED BY <1>4, <1>5

LEMMA FormRequestMoves ==
  ASSUME FormInv, FormInv', TurnsRight, Serving, Form!DispatchRequest
  PROVE  TurnsRight' /\ PageStep
<1>1. /\ pc = "dispatch" /\ revs # <<>> /\ Head(revs).ptr # Listener /\ revs' = Tail(revs)
      /\ pc' = pc /\ "IN" \in Head(revs).ev /\ Form!do_http_request(Head(revs).ptr)
  BY DEF Form!DispatchRequest, Form!Dispatch
<1> PICK s \in heap : s = Head(revs).ptr
  BY <1>1, EventFacts
<1> PICK fd \in ConnFd : fd = stat[s].fd
  BY <1>1, EventFacts
<1> PICK c \in Conns : c = sock[fd]
  BY <1>1, EventFacts
<1>2. /\ NetInv /\ Registered /\ fd \in Fd /\ inbox \in [Conns -> Requests \cup {"none"}]
      /\ kernel \in [Fd -> Entry] /\ stat \in [Stats -> StatType] /\ heap \subseteq Stats
      /\ shown \in [Conns -> Conns \cup {"nothing", "form", "none"}]
      /\ \A t \in heap \ {s} : stat[t].fd \in Fd \ {fd}
  BY <1>1, EventFacts, FormTypes, FdFacts DEF FormInv, Registered
<1>3. /\ Opened(c) /\ peer[c] # "gone" /\ Form!Owed(c) = "none" /\ Form!NameOf(c) = stat[s].name
  BY <1>1, HeadTurn
<1>4. ASSUME Form!ReadsData(c), Form!readData(c),
             stat' = [stat EXCEPT ![s] = Form!Parsed(s, inbox[c])],
             Form!Register(s, fd, {"OUT"}), UNCHANGED <<heap, shown>>
      PROVE  TurnsRight' /\ PageStep
  <2> DEFINE handler == IF inbox[c] = "get" THEN "welcome" ELSE "commit"
             name == IF inbox[c] = "commit" THEN c ELSE stat[s].name
  <2>1. /\ inbox[c] \in Requests /\ handler \in {"welcome", "commit"}
        /\ UNCHANGED <<sock, peer, room>>
    BY <1>2, <1>4 DEF Form!ReadsData, Form!readData
  <2>2. /\ Form!Parsed(s, inbox[c]).fd = fd /\ Form!Parsed(s, inbox[c]).handler = handler
        /\ Form!Parsed(s, inbox[c]).name = name
    <3>1. stat[s] \in StatType
      BY <1>2
    <3>2. Form!Parsed(s, inbox[c]) = [stat[s] EXCEPT !.handler = handler, !.name = name]
      BY DEF Form!Parsed
    <3> HIDE DEF handler, name
    <3>3. QED BY <3>1, <3>2 DEF StatType
  <2> DEFINE parsed == Form!Parsed(s, inbox[c])
  <2>3. /\ kernel' = [kernel EXCEPT ![fd] = [ev |-> {"OUT"}, ptr |-> s]]
        /\ stat' = [stat EXCEPT ![s] = parsed] /\ heap' = heap /\ shown' = shown
    BY <1>4 DEF Form!Register
  <2>4. parsed.fd = fd /\ parsed.handler = handler /\ parsed.name = name
    BY <2>2
  <2> HIDE DEF handler, name, parsed
  <2>5. /\ stat'[s].fd = fd /\ stat'[s].handler = handler /\ stat'[s].name = name
         /\ \A t \in heap \ {s} : stat'[t] = stat[t]
    BY <1>2, <2>3, <2>4
  <2>6. kernel'[fd].ev = {"OUT"} /\ \A f \in Fd \ {fd} : kernel'[f] = kernel[f]
    BY <1>2, <2>3
  <2>7. \A t \in heap \ {s} :
          /\ t \in heap' /\ stat'[t] = stat[t] /\ sock'[stat[t].fd] = sock[stat[t].fd]
          /\ kernel'[stat[t].fd] = kernel[stat[t].fd]
    BY <1>2, <2>1, <2>3, <2>5, <2>6
  <2>8. \A t \in heap' : t \in heap \ {s} \/ stat'[t].handler # "null"
    BY <2>1, <2>3, <2>5
  <2>9. \A d \in Conns : /\ Opened(d)' <=> Opened(d)
                         /\ Hung(peer', d) <=> Hung(peer, d)
    BY <2>1 DEF Opened, Hung
  <2>10. TurnsRight' /\ Others(c)
    <3>1. IF Head(revs).ptr = Listener THEN ~Opened(c) ELSE sock[stat[Head(revs).ptr].fd] = c
      BY <1>1
    <3>2. \A t \in heap' : \/ t \in heap \ {Head(revs).ptr}
                           \/ kernel'[stat'[t].fd].ev # {"OUT"}
                           \/ stat'[t].handler # "null"
      BY <2>8
    <3>3. \A d \in Conns \ {c} : /\ peer[d] = "gone" <=> peer'[d] = "gone"
                                 /\ Opened(d)' <=> Opened(d)
                                 /\ room[d] \/ Hung(peer, d) => room'[d] \/ Hung(peer', d)
                                 /\ shown'[d] = shown[d]
      BY <2>1, <2>3, <2>9
    <3>4. QED BY <1>1, <2>7, <3>1, <3>2, <3>3, DispatchLeaves
  <2>11. Form!Owed(c)' = handler /\ Form!NameOf(c)' = name
    <3>1. /\ s \in heap' /\ pc' # "killed" /\ sock'[stat'[s].fd] = c
          /\ kernel'[stat'[s].fd].ev = {"OUT"}
      BY <1>1, <2>1, <2>3, <2>5, <2>6
    <3>2. /\ Form!NameOf(c)' = stat'[s].name
          /\ Form!Owed(c)' = IF kernel'[stat'[s].fd].ev = {"OUT"} THEN stat'[s].handler ELSE "none"
      BY <3>1, FormViewsNext DEF Views
    <3>3. QED BY <2>5, <3>1, <3>2
  <2>12. shown'[c] = shown[c]
    BY <2>3
  <2>13. /\ Pages!Move(c, "none", handler) /\ ShownNow' = ShownNow
         /\ NameNow' = [NameNow EXCEPT ![c] = name]
         /\ name = stat[s].name => NameNow' = NameNow
    <3>1. /\ Pages!Move(c, Form!Owed(c), Form!Owed(c)') /\ ShownNow' = ShownNow
          /\ NameNow' = [NameNow EXCEPT ![c] = Form!NameOf(c)']
          /\ Form!NameOf(c)' = Form!NameOf(c) => NameNow' = NameNow
      BY <2>10, <2>12, PageMovesUnseen
    <3>2. QED BY <1>3, <2>11, <3>1
  <2>14. CASE inbox[c] = "get"
    <3>1. handler = "welcome" /\ name = stat[s].name
      BY <2>14 DEF handler, name
    <3>2. Pages!Get(c)
      BY <2>13, <3>1 DEF Pages!Get, NameNow, ShownNow
    <3>3. QED BY <2>10, <3>2 DEF PageStep, Pages!Next
  <2>15. CASE inbox[c] = "blank"
    <3>1. handler = "commit" /\ name = stat[s].name
      BY <2>15 DEF handler, name
    <3>2. Pages!Blank(c)
      BY <2>13, <3>1 DEF Pages!Blank, NameNow, ShownNow
    <3>3. QED BY <2>10, <3>2 DEF PageStep, Pages!Next
  <2>16. CASE inbox[c] = "commit"
    <3>1. handler = "commit" /\ name = c
      BY <2>16 DEF handler, name
    <3>2. Pages!Commit(c)
      BY <2>13, <3>1 DEF Pages!Commit, NameNow, ShownNow
    <3>3. QED BY <2>10, <3>2 DEF PageStep, Pages!Next
  <2>17. QED BY <2>1, <2>14, <2>15, <2>16 DEF Requests
<1>5. ASSUME Form!CloseAndFree(s)
      PROVE  TurnsRight' /\ PageStep
  <2>1. /\ kernel' = [kernel EXCEPT ![fd] = NoEntry] /\ heap' = heap \ {s}
        /\ UNCHANGED <<stat, shown>>
        /\ sock' = [sock EXCEPT ![fd] = "nobody"] /\ peer' = [peer EXCEPT ![c] = "gone"]
        /\ room' = [room EXCEPT ![c] = TRUE]
    BY <1>5, SameConstants
       DEF Form!CloseAndFree, Form!close, Form!NotRegistered, NoEntry
  <2>2. /\ sock'[fd] = "nobody" /\ peer'[c] = "gone"
        /\ \A d \in Conns \ {c} : peer'[d] = peer[d] /\ room'[d] = room[d]
        /\ \A f \in Fd \ {fd} : sock'[f] = sock[f] /\ kernel'[f] = kernel[f]
    BY <1>2, <2>1 DEF NetInv
  <2>3. \A t \in heap \ {s} :
          /\ t \in heap' /\ stat'[t] = stat[t] /\ sock'[stat[t].fd] = sock[stat[t].fd]
          /\ kernel'[stat[t].fd] = kernel[stat[t].fd]
    BY <1>2, <2>1, <2>2
  <2>4. \A t \in heap' : t \in heap \ {s}
    BY <2>1
  <2>5. \A f \in ConnFd : sock'[f] = c => FALSE
    BY <1>2, <2>2, FdFacts DEF NetInv
  <2>6. ASSUME NEW d \in Conns \ {c}
        PROVE  /\ Opened(d)' <=> Opened(d)
               /\ Hung(peer', d) <=> Hung(peer, d)
    <3>1. \A f \in ConnFd : sock'[f] = d <=> sock[f] = d
      BY <2>2, FdFacts
    <3>2. QED BY <2>2, <3>1 DEF Opened, Hung
  <2>7. \A d \in Conns \ {c} : peer[d] = "gone" <=> peer'[d] = "gone"
    BY <2>2
  <2>8. \A d \in Conns \ {c} : room[d] \/ Hung(peer, d) => room'[d] \/ Hung(peer', d)
    BY <2>2, <2>6
  <2>9. TurnsRight' /\ Others(c)
    BY <1>1, <2>1, <2>3, <2>4, <2>6, <2>7, <2>8, DispatchLeaves
  <2>10. Form!Owed(c)' = "closed" /\ Form!NameOf(c)' = "none"
    <3>1. ~Opened(c)'
      BY <2>5 DEF Opened
    <3>2. QED BY <2>2, <3>1, FormViewsNext DEF Views
  <2>11. shown'[c] = shown[c]
    BY <2>1
  <2>12. /\ Pages!Move(c, "none", "closed") /\ ShownNow' = ShownNow
         /\ NameNow' = [NameNow EXCEPT ![c] = "none"]
    <3>1. Form!Owed(c) = "none" /\ Form!Owed(c)' = "closed" /\ Form!NameOf(c)' = "none"
      BY <1>3, <2>10
    <3>2. /\ Pages!Move(c, Form!Owed(c), Form!Owed(c)') /\ ShownNow' = ShownNow
          /\ NameNow' = [NameNow EXCEPT ![c] = Form!NameOf(c)']
      BY <2>9, <2>11, PageMovesUnseen
    <3>3. QED BY <3>1, <3>2
  <2>13. Pages!Close(c)
    BY <2>12 DEF Pages!Close, NameNow, ShownNow
  <2>14. QED BY <2>9, <2>13 DEF PageStep, Pages!Next
<1>6. ASSUME Form!callFails(c), UNCHANGED Form!server
      PROVE  TurnsRight' /\ PageStep
  <2>1. /\ UNCHANGED <<sock, room>> /\ UNCHANGED <<stat, heap, kernel, shown>>
        /\ peer' = [peer EXCEPT ![c] = IF @ = "reset" THEN "broken" ELSE @]
    BY <1>6 DEF Form!callFails, Form!server
  <2>2. \A d \in Conns : /\ peer[d] = "gone" <=> peer'[d] = "gone"
                         /\ Hung(peer, d) <=> Hung(peer', d)
                         /\ Opened(d)' <=> Opened(d)
    BY <1>2, <2>1 DEF NetInv, Hung, Opened
  <2>3. PageStep
    BY <1>1, <2>1, <2>2, PagesStay
  <2>4. \A t \in heap : kernel[stat[t].fd].ev = {"OUT"} => stat[t].handler # "null"
    BY DEF TurnsRight
  <2>5. /\ \A t \in heap \ {s} :
             /\ t \in heap' /\ stat'[t] = stat[t] /\ sock'[stat[t].fd] = sock[stat[t].fd]
             /\ kernel'[stat[t].fd] = kernel[stat[t].fd]
        /\ \A t \in heap' : kernel'[stat'[t].fd].ev # {"OUT"} \/ stat'[t].handler # "null"
    BY <2>1, <2>4
  <2>6. TurnsRight'
    <3>1. IF Head(revs).ptr = Listener THEN ~Opened(c) ELSE sock[stat[Head(revs).ptr].fd] = c
      BY <1>1
    <3>2. \A t \in heap' : \/ t \in heap \ {Head(revs).ptr}
                           \/ kernel'[stat'[t].fd].ev # {"OUT"}
                           \/ stat'[t].handler # "null"
      BY <2>5
    <3>3. \A d \in Conns \ {c} : /\ peer[d] = "gone" <=> peer'[d] = "gone"
                                 /\ Opened(d)' <=> Opened(d)
                                 /\ room[d] \/ Hung(peer, d) => room'[d] \/ Hung(peer', d)
                                 /\ shown'[d] = shown[d]
      BY <2>1, <2>2
    <3>4. QED BY <1>1, <2>5, <3>1, <3>2, <3>3, DispatchLeaves
  <2>7. QED BY <2>3, <2>6
<1>7. QED BY <1>1, <1>4, <1>5, <1>6 DEF Form!do_http_request

LEMMA FormResponeMoves ==
  ASSUME FormInv, FormInv', TurnsRight, Serving, Form!DispatchRespone
  PROVE  TurnsRight' /\ PageStep
<1>1. /\ pc = "dispatch" /\ revs # <<>> /\ Head(revs).ptr # Listener /\ revs' = Tail(revs)
      /\ pc' = pc /\ "IN" \notin Head(revs).ev /\ Form!do_http_respone(Head(revs).ptr)
  BY DEF Form!DispatchRespone, Form!Dispatch
<1> PICK s \in heap : s = Head(revs).ptr
  BY <1>1, EventFacts
<1> PICK fd \in ConnFd : fd = stat[s].fd
  BY <1>1, EventFacts
<1> PICK c \in Conns : c = sock[fd]
  BY <1>1, EventFacts
<1>2. /\ NetInv /\ fd \in Fd /\ kernel \in [Fd -> Entry]
      /\ shown \in [Conns -> Conns \cup {"nothing", "form", "none"}]
      /\ \A t \in heap \ {s} : stat[t].fd \in Fd \ {fd}
  BY <1>1, EventFacts, FormTypes, FdFacts DEF FormInv, Registered
<1>3. /\ Opened(c) /\ peer[c] # "gone" /\ Form!NameOf(c) = stat[s].name
      /\ Form!Owed(c) = stat[s].handler /\ stat[s].handler \in {"welcome", "commit"}
      /\ room[c] \/ Hung(peer, c)
  BY <1>1, HeadTurn
<1>4. /\ Form!writeAll(c) \/ Form!callFails(c)
      /\ shown' = [shown EXCEPT ![c] = Form!Page(s)]
      /\ kernel' = [kernel EXCEPT ![fd] = [ev |-> {"IN"}, ptr |-> s]] /\ UNCHANGED <<stat, heap>>
  <2>1. Form!do_http_respone(s)
    BY <1>1
  <2>2. /\ Form!writeAll(c) \/ Form!callFails(c)
        /\ shown' = IF room[c] \/ Form!Hung(c) THEN [shown EXCEPT ![c] = Form!Page(s)] ELSE shown
        /\ Form!Register(s, fd, {"IN"}) /\ UNCHANGED <<stat, heap>>
    BY <2>1 DEF Form!do_http_respone
  <2>3. room[c] \/ Form!Hung(c)
    BY <1>3 DEF Form!Hung, Hung
  <2>4. QED BY <2>2, <2>3 DEF Form!Register
<1>5. /\ sock' = sock /\ \A d \in Conns : peer[d] = "gone" <=> peer'[d] = "gone"
      /\ \A d \in Conns \ {c} : peer'[d] = peer[d] /\ room'[d] = room[d]
  <2>1. peer \in [Conns -> Peers] /\ room \in [Conns -> BOOLEAN]
    BY <1>2 DEF NetInv
  <2>2. CASE Form!writeAll(c)
    BY <2>1, <2>2 DEF Form!writeAll
  <2>3. CASE Form!callFails(c)
    <3>1. /\ UNCHANGED <<sock, room>>
          /\ peer' = [peer EXCEPT ![c] = IF peer[c] = "reset" THEN "broken" ELSE peer[c]]
      BY <2>3 DEF Form!callFails
    <3> DEFINE broken == IF peer[c] = "reset" THEN "broken" ELSE peer[c]
    <3>2. broken # "gone" /\ peer[c] # "gone"
      BY <1>3
    <3>3. peer' = [peer EXCEPT ![c] = broken]
      BY <3>1
    <3> HIDE DEF broken
    <3>4. peer'[c] # "gone" /\ \A d \in Conns \ {c} : peer'[d] = peer[d]
      BY <2>1, <3>2, <3>3
    <3>5. \A d \in Conns : peer[d] = "gone" <=> peer'[d] = "gone"
      BY <3>2, <3>4
    <3>6. QED BY <3>1, <3>4, <3>5
  <2>4. QED BY <1>4, <2>2, <2>3
<1> DEFINE page == Form!Page(s)
<1>6. page = IF stat[s].handler = "welcome" THEN "form" ELSE stat[s].name
  BY DEF Form!Page
<1> HIDE DEF page
<1>7. /\ kernel'[fd].ev = {"IN"} /\ \A f \in Fd \ {fd} : kernel'[f] = kernel[f]
      /\ shown'[c] = page /\ \A d \in Conns \ {c} : shown'[d] = shown[d]
  BY <1>2, <1>4 DEF page
<1>8. {"IN"} # {"OUT"}
  OBVIOUS
<1>9. TurnsRight' /\ Others(c)
  <2>1. IF Head(revs).ptr = Listener THEN ~Opened(c) ELSE sock[stat[Head(revs).ptr].fd] = c
    BY <1>1
  <2>2. \A t \in heap \ {Head(revs).ptr} :
          /\ t \in heap' /\ stat'[t] = stat[t] /\ sock'[stat[t].fd] = sock[stat[t].fd]
          /\ kernel'[stat[t].fd] = kernel[stat[t].fd]
    <3>1. stat' = stat /\ heap' = heap /\ sock' = sock
      BY <1>4, <1>5
    <3>2. QED BY <1>2, <1>7, <3>1
  <2>3. \A t \in heap' : \/ t \in heap \ {Head(revs).ptr}
                         \/ kernel'[stat'[t].fd].ev # {"OUT"}
                         \/ stat'[t].handler # "null"
    BY <1>4, <1>7, <1>8
  <2>4. \A d \in Conns \ {c} : /\ peer[d] = "gone" <=> peer'[d] = "gone"
                               /\ Opened(d)' <=> Opened(d)
                               /\ room[d] \/ Hung(peer, d) => room'[d] \/ Hung(peer', d)
                               /\ shown'[d] = shown[d]
    BY <1>5, <1>7 DEF Opened, Hung
  <2>5. QED BY <1>1, <2>1, <2>2, <2>3, <2>4, DispatchLeaves
<1>10. Form!Owed(c)' = "none" /\ Form!NameOf(c)' = stat[s].name
  <2>1. stat' = stat /\ heap' = heap /\ sock' = sock
    BY <1>4, <1>5
  <2>2. /\ s \in heap' /\ pc' # "killed" /\ stat'[s] = stat[s] /\ sock'[stat'[s].fd] = c
        /\ kernel'[stat'[s].fd].ev # {"OUT"}
    BY <1>1, <1>7, <1>8, <2>1
  <2>3. QED BY <2>2, FormViewsNext DEF Views
<1>11. /\ Pages!Move(c, stat[s].handler, "none") /\ NameNow' = NameNow
       /\ ShownNow' = [ShownNow EXCEPT ![c] = page] /\ NameNow[c] = stat[s].name
  <2> DEFINE handler == stat[s].handler
             name == stat[s].name
  <2>1. NameNow[c] = name
    BY <1>3, PagesAre DEF Serving
  <2>2. /\ Form!Owed(c) = handler /\ Form!NameOf(c) = name
        /\ Form!Owed(c)' = "none" /\ Form!NameOf(c)' = name
    BY <1>3, <1>10
  <2>3. shown'[c] = page
    BY <1>7
  <2> HIDE DEF handler, name
  <2>4. /\ Pages!Move(c, handler, "none") /\ NameNow' = NameNow
        /\ ShownNow' = [ShownNow EXCEPT ![c] = page]
    BY <1>9, <2>2, <2>3, PageMoves
  <2>5. QED BY <2>1, <2>4 DEF handler, name
<1>12. Pages!Show(c)
  BY <1>3, <1>6, <1>11 DEF Pages!Show, NameNow, ShownNow
<1>13. QED BY <1>9, <1>12 DEF PageStep, Pages!Next

LEMMA FormKilledMoves ==
  ASSUME FormInv, FormInv', TurnsRight, Serving, Form!DispatchKilled
  PROVE  TurnsRight' /\ PageStep
<1>1. /\ pc = "dispatch" /\ sock' = [fd \in Fd |-> "nobody"] /\ heap' = {} /\ revs' = <<>>
      /\ shown' = shown
      /\ peer' = [c \in Conns |-> IF Form!IsOpen(c) \/ peer[c] = "gone" THEN "gone" ELSE "none"]
  BY SameConstants DEF Form!DispatchKilled, Form!processEnds
<1>2. TurnsRight'
  <2>1. Len(revs') = 0
    BY <1>1
  <2>2. QED BY <1>1, <2>1 DEF TurnsRight
<1>3. ASSUME NEW c \in Conns
      PROVE  /\ Form!Owed(c)' = IF Form!Owed(c) = "absent" THEN "absent" ELSE "closed"
             /\ Form!NameOf(c)' = "none"
  <2>1. ~Opened(c)' /\ peer'[c] = IF Opened(c) \/ peer[c] = "gone" THEN "gone" ELSE "none"
    <3>1. Form!IsOpen(c) <=> Opened(c)
      BY SameConstants DEF Form!IsOpen, Opened
    <3>2. \A fd \in ConnFd : sock'[fd] # c
      BY <1>1, FdFacts
    <3>3. QED BY <1>1, <3>1, <3>2 DEF Opened
  <2>2. /\ Form!NameOf(c)' = "none"
        /\ Form!Owed(c)' = IF Opened(c) \/ peer[c] = "gone" THEN "closed" ELSE "absent"
    BY <2>1, FormViewsNext DEF Views
  <2>3. CASE Opened(c)
    <3> PICK fd \in ConnFd : sock[fd] = c
      BY <2>3 DEF Opened
    <3> PICK s \in heap : s = kernel[fd].ptr /\ stat[s].fd = fd
      BY FdFacts DEF FormInv, Registered
    <3>1. Form!Owed(c) = IF kernel[fd].ev = {"OUT"} THEN stat[s].handler ELSE "none"
      BY <1>1, FormViews DEF Views
    <3>2. stat[s].handler \in {"null", "welcome", "commit"}
      BY FormTypes DEF FormInv, StatType
    <3>3. Form!Owed(c) # "absent"
      BY <3>1, <3>2
    <3>4. QED BY <2>2, <2>3, <3>3
  <2>4. CASE ~Opened(c)
    BY <2>2, <2>4, FormViews DEF Views
  <2>5. QED BY <2>3, <2>4
<1>4. OwedNow' = [c \in Conns |-> IF OwedNow[c] = "absent" THEN "absent" ELSE "closed"]
  <2>1. \A c \in Conns : OwedNow'[c] = IF OwedNow[c] = "absent" THEN "absent" ELSE "closed"
    BY <1>3, PagesAre, PagesAreNext DEF Serving
  <2>2. QED BY <2>1 DEF OwedNow
<1>5. NameNow' = [c \in Conns |-> "none"]
  <2>1. \A c \in Conns : NameNow'[c] = "none"
    BY <1>3, PagesAreNext DEF Serving
  <2>2. QED BY <2>1 DEF NameNow
<1>6. ShownNow' = ShownNow
  BY <1>1 DEF ShownNow, Serving
<1>7. Pages!CloseAll
  BY <1>4, <1>5, <1>6 DEF Pages!CloseAll, OwedNow, NameNow, ShownNow
<1>8. QED BY <1>2, <1>7 DEF PageStep, Pages!Next

\* What epoll_wait reports is what each descriptor is registered for, or the end of
\* a client that hung up.
LEMMA FormWaitMoves ==
  ASSUME FormInv, FormInv', TurnsRight, Serving, Form!WaitReturns
  PROVE  TurnsRight' /\ PageStep
<1>1. /\ pc = "wait" /\ pc' = "dispatch"
      /\ UNCHANGED <<sock, backlog, peer, inbox, room, sends, stat, heap, kernel, shown>>
  BY DEF Form!WaitReturns, Form!tcp, Form!server
<1>2. PageStep
  BY <1>1, PagesStay
<1>3. /\ NetInv /\ Registered /\ sock \in [Fd -> Conns \cup {"nobody", Listener}]
      /\ kernel \in [Fd -> Entry] /\ Listener \notin heap /\ kernel[ListenFd].ptr = Listener
  BY <1>1, FormTypes, ProgramsAssumption DEF FormInv
<1>4. ASSUME NEW n \in 1 .. Len(revs')
      PROVE  \E fd \in Form!ReadyFds : revs'[n] = Form!Reported(fd)
  <2> DEFINE num == Form!Min({MaxEvents, Form!Cardinality(Form!ReadyFds)})
  <2>1. PICK order \in [1 .. num -> Form!ReadyFds] :
          revs' = [m \in 1 .. num |-> Form!Reported(order[m])]
    BY DEF Form!WaitReturns
  <2> HIDE DEF num
  <2>2. DOMAIN revs' = 1 .. Len(revs')
    BY FormTypesNext DEF FormInv
  <2>3. n \in 1 .. num
    BY <2>1, <2>2
  <2>4. QED BY <2>1, <2>3
<1>5. ASSUME NEW n \in 1 .. Len(revs'), revs'[n].ptr # Listener
      PROVE  /\ "IN" \in revs'[n].ev <=> kernel'[stat'[revs'[n].ptr].fd].ev = {"IN"}
             /\ "IN" \in revs'[n].ev \/ room'[revs'[n].conn] \/ Hung(peer', revs'[n].conn)
  <2>1. PICK fd \in Form!ReadyFds : revs'[n] = Form!Reported(fd)
    BY <1>4
  <2>2. fd \in Fd /\ kernel[fd].ev # {} /\ Form!Ready(fd) # {}
    BY SameConstants DEF Form!ReadyFds
  <2>3. revs'[n].ptr = kernel[fd].ptr /\ revs'[n].ev = Form!Ready(fd) /\ revs'[n].conn = sock[fd]
    BY <2>1 DEF Form!Reported
  <2>4. fd # ListenFd /\ sock[fd] # "nobody"
    BY <1>3, <1>5, <2>2, <2>3 DEF Registered, NoEntry
  <2>5. fd \in ConnFd /\ sock[fd] \in Conns /\ sock[fd] # Listener
    BY <1>3, <2>2, <2>4, FdFacts DEF NetInv
  <2>6. stat[kernel[fd].ptr].fd = fd
    BY <1>3, <2>4, <2>5 DEF Registered
  <2>7. kernel[fd].ev \in {{"IN"}, {"OUT"}}
    <3>1. kernel[fd] \in Entry
      BY <1>3, <2>2
    <3>2. QED BY <2>2, <3>1 DEF Entry, NoEntry
  <2> PICK c \in Conns : c = sock[fd]
    BY <2>5
  <2>8. Form!Ready(fd) = {e \in kernel[fd].ev :
                            IF e = "IN" THEN inbox[c] # "none" \/ peer[c] # "open"
                            ELSE room[c] \/ Hung(peer, c)}
                           \cup (IF Hung(peer, c) THEN {"HUP"} ELSE {})
    BY <2>5 DEF Form!Ready, Form!ReadyFor, Form!Hung, Hung
  <2>9. CASE kernel[fd].ev = {"IN"}
    <3>1. "IN" \in Form!Ready(fd)
      BY <2>2, <2>8, <2>9 DEF Hung
    <3>2. QED BY <1>1, <2>3, <2>6, <2>9, <3>1
  <2>10. CASE kernel[fd].ev = {"OUT"}
    <3>1. "IN" \notin Form!Ready(fd) /\ (room[c] \/ Hung(peer, c))
      BY <2>2, <2>8, <2>10
    <3>2. kernel[fd].ev # {"IN"}
      BY <2>10
    <3>3. QED BY <1>1, <2>3, <2>6, <3>1, <3>2
  <2>11. QED BY <2>7, <2>9, <2>10
<1>6. TurnsRight'
  BY <1>1, <1>5 DEF TurnsRight
<1>7. QED BY <1>2, <1>6

LEMMA FormMoves ==
  ASSUME ProgInv, ProgInv', program = "epollserver" => TurnsRight, [Next]_vars
  PROVE  /\ PageStep
         /\ (program = "epollserver" => TurnsRight)'
<1>1. CASE program = "epollserver" /\ InForm /\ Form!Next
  <2>1. FormInv /\ FormInv' /\ Serving
    BY <1>1 DEF ProgInv, InForm, Serving
  <2>2. CASE Form!WaitAgain
    <3>1. /\ UNCHANGED <<sock, backlog, peer, inbox, room, sends, stat, heap, kernel, shown, revs>>
          /\ pc = "dispatch" /\ pc' = "wait"
      BY <2>2 DEF Form!WaitAgain, Form!tcp, Form!server
    <3>2. PageStep
      BY <2>1, <3>1, PagesStay
    <3>3. TurnsRight'
      BY <1>1, <3>1 DEF TurnsRight
    <3>4. QED BY <3>2, <3>3
  <2>3. QED BY <1>1, <2>1, <2>2, FormClientsMove, FormWaitMoves, FormAcceptMoves,
               FormRequestMoves, FormResponeMoves, FormKilledMoves DEF Form!Next, Form!Loop
<1>2. CASE program # "epollserver" /\ program' = program
  BY <1>2 DEF PageStep, OwedNow, NameNow, ShownNow
<1>3. CASE UNCHANGED vars
  <2>1. UNCHANGED <<program, sock, peer, room, stat, heap, kernel, shown, revs>>
    BY <1>3 DEF vars, tcpVars, serverVars, formVars
  <2>2. TurnsRight => TurnsRight'
    BY <2>1 DEF TurnsRight
  <2>3. UNCHANGED <<OwedNow, NameNow, ShownNow>>
    BY <2>1 DEF OwedNow, NameNow, ShownNow, Form!Owed, Form!NameOf, Form!StatOf, Form!IsOpen
  <2>4. QED BY <2>1, <2>2, <2>3 DEF PageStep
<1>4. CASE Next
  BY <1>1, <1>2, <1>4 DEF Next, InSems, InLocks, Locking, InBuffer, InDouble, InPolls, InFrames,
                          InEcho, InForm
<1>5. QED BY <1>3, <1>4

\* Every request read is answered by one page, with no name but the client's own:
\* an event still means what its ConnectStat is registered for when its turn comes,
\* a page is written where there is room for it, and a ConnectStat is cleared before
\* it serves another connection.
THEOREM FormImplementsSession == Spec => ImplementsFormSession
<1>1. Init => ProgInv /\ Pages!Init /\ (program = "epollserver" => TurnsRight)
  <2> SUFFICES ASSUME Init
               PROVE  ProgInv /\ Pages!Init /\ (program = "epollserver" => TurnsRight)
    OBVIOUS
  <2>1. ProgInv
    BY ProgInit
  <2>2. CASE program = "epollserver"
    <3>1. Form!Init
      BY <2>2 DEF Init
    <3>2. /\ heap = {} /\ revs = <<>> /\ pc = "wait" /\ shown = [c \in Conns |-> "nothing"]
          /\ peer = [c \in Conns |-> "none"]
          /\ sock = [fd \in Fd |-> IF fd = ListenFd THEN Listener ELSE "nobody"]
      BY <3>1, SameConstants DEF Form!Init, Form!TcpInit
    <3>3. TurnsRight
      <4>1. Len(revs) = 0
        BY <3>2
      <4>2. QED BY <3>2, <4>1 DEF TurnsRight
    <3>4. \A c \in Conns : ~Opened(c) /\ peer[c] # "gone"
      BY <3>2, FdFacts DEF Opened
    <3>5. \A c \in Conns : Form!Owed(c) = "absent" /\ Form!NameOf(c) = "none"
      BY <2>1, <2>2, <3>4, FormViews DEF ProgInv, Views
    <3>6. Pages!Init
      BY <2>2, <3>2, <3>5 DEF Pages!Init
    <3>7. QED BY <2>1, <3>3, <3>6
  <2>3. CASE program # "epollserver"
    BY <2>1, <2>3 DEF Pages!Init
  <2>4. QED BY <2>2, <2>3
<1>2. Spec => []ProgInv
  BY ProgInit, ProgStep, PTL DEF Spec
<1>3. /\ ProgInv /\ ProgInv' /\ (program = "epollserver" => TurnsRight) /\ [Next]_vars
      => PageStep /\ (program = "epollserver" => TurnsRight)'
  BY FormMoves
<1>4. Pages!Spec <=> Pages!Init /\ [][Pages!Next]_<<OwedNow, NameNow, ShownNow>>
  BY DEF Pages!Spec, Pages!session, OwedNow, NameNow, ShownNow
<1>5. PageStep => [Pages!Next]_<<OwedNow, NameNow, ShownNow>>
  BY DEF PageStep
<1>6. QED BY <1>1, <1>2, <1>3, <1>4, <1>5, PTL DEF Spec, ImplementsFormSession

-------------------------------------------------------------------------------
(* What the steps of the poll server and of the libevent server may do.    *)

\* Only the connection whose handler is called changes, and it is not one given up.
LEMMA EchoGivesUp ==
  ASSUME EchoInv, EchoInv', Echo!Next
  PROVE  Echo!StaysGivenUp
<1> SUFFICES ASSUME pc' # "killed", NEW c \in failed
             PROVE  Opened(c)' /\ evh'[c] = evh[c] /\ c \notin added'
  BY SameConstants DEF Echo!StaysGivenUp, Echo!IsOpen, Opened
<1>1. /\ c \in Conns /\ c \in heap /\ c \notin added /\ Opened(c)
      /\ evh \in [Conns -> {"welcome", "echo", "response"} \cup {"none"}]
  <2>1. c \in heap /\ heap \subseteq Conns \cup {Listener} /\ added \subseteq Conns
    BY EchoTypes DEF EchoInv
  <2>2. heap \cap Conns = added \cup failed /\ added \cap failed = {}
    BY WatchedIs DEF EchoInv
  <2>3. QED BY <2>1, <2>2, WatchedIs, EchoTypes DEF EchoInv
<1>2. ASSUME UNCHANGED <<sock, evh, added>>
      PROVE  Opened(c)' /\ evh'[c] = evh[c] /\ c \notin added'
  BY <1>1, <1>2 DEF Opened
<1>3. CASE Echo!Clients
  <2>1. /\ pc # "killed" /\ Clients /\ UNCHANGED <<evh, added>>
    BY <1>3 DEF Echo!Clients, Echo!ClientStep, Echo!events, Clients
  <2>2. UNCHANGED sock
    BY <2>1, ClientsKeepNet DEF EchoInv
  <2>3. QED BY <1>2, <2>1, <2>2
<1>4. CASE Echo!epoll_dispatch \/ Echo!LoopAgain
  BY <1>2, <1>4 DEF Echo!epoll_dispatch, Echo!LoopAgain, Echo!tcp
<1>5. CASE Echo!CallAccept
  <2>1. /\ pc = "call" /\ active # <<>> /\ Head(active) = Listener /\ Echo!accept_connection
    BY <1>5 DEF Echo!CallAccept
  <2>2. NetInv /\ backlog # <<>>
    BY <2>1, NextCall DEF EchoInv
  <2>3. CASE Echo!FreeFd = {}
    <3>1. UNCHANGED <<sock, evh, added>>
      BY <2>1, <2>3 DEF Echo!accept_connection, Echo!tcp
    <3>2. QED BY <1>2, <3>1
  <2>4. CASE Echo!FreeFd # {}
    <3> DEFINE new == Echo!Min(Echo!FreeFd)
               d == Head(backlog)
    <3>1. new \in ConnFd /\ sock[new] = "nobody"
      <4>1. Echo!FreeFd \in SUBSET Nat
        BY FdFacts, SameConstants DEF Echo!FreeFd
      <4>2. new \in Echo!FreeFd
        BY <2>4, <4>1, LeastExists DEF Echo!Min
      <4>3. QED BY <4>2, SameConstants DEF Echo!FreeFd
    <3>2. Echo!accept(new) /\ evh' = [evh EXCEPT ![d] = "welcome"] /\ added' = added \cup {d}
      BY <2>1, <2>4 DEF Echo!accept_connection, Echo!SetAndAdd, Echo!Returned
    <3> HIDE DEF new
    <3>3. /\ d \in Conns /\ \A f \in ConnFd : sock[f] # d
          /\ sock' = [sock EXCEPT ![new] = d]
      BY <2>2, <3>1, <3>2, AcceptKeepsNet
    <3> HIDE DEF d
    <3>4. PICK f \in ConnFd : sock[f] = c
      BY <1>1 DEF Opened
    <3>5. c # d /\ f # new /\ sock'[f] = c
      BY <1>1, <2>2, <3>1, <3>3, <3>4, FdFacts DEF NetInv
    <3>6. QED BY <1>1, <3>2, <3>3, <3>5 DEF Opened
  <2>5. QED BY <2>3, <2>4
<1>6. CASE Echo!CallHandler
  <2>1. pc = "call" /\ active # <<>> /\ Head(active) # Listener
    BY <1>6 DEF Echo!CallHandler
  <2>2. Head(active) \in added /\ Head(active) \in Conns /\ NetInv
    BY <2>1, NextCall, EchoTypes DEF EchoInv
  <2> PICK d \in Conns : d = Head(active)
    BY <2>2
  <2>3. d # c /\ NetInv /\ Opened(d)
    <3>1. d \in heap
      BY <2>2, WatchedIs DEF EchoInv
    <3>2. QED BY <1>1, <2>2, <3>1, WatchedIs DEF EchoInv
  <2>4. ASSUME Echo!callFails(d) \/ Echo!writeShort(d), Echo!GiveUp(d)
        PROVE  Opened(c)' /\ evh'[c] = evh[c] /\ c \notin added'
    <3>1. UNCHANGED <<sock, evh>> /\ added' = added \ {d}
      BY <2>4 DEF Echo!GiveUp, Echo!NotAdded, Echo!callFails, Echo!writeShort
    <3>2. QED BY <1>1, <3>1 DEF Opened
  <2>5. ASSUME Echo!readData(d) \/ Echo!writeAll(d), NEW h, Echo!SetAndAdd(d, h)
        PROVE  Opened(c)' /\ evh'[c] = evh[c] /\ c \notin added'
    <3>1. /\ UNCHANGED sock /\ evh' = [evh EXCEPT ![d] = h] /\ added' = added \cup {d}
      BY <2>5 DEF Echo!SetAndAdd, Echo!readData, Echo!writeAll
    <3>2. QED BY <1>1, <2>3, <3>1 DEF Opened
  <2>6. ASSUME Echo!CloseAndFree(d)
        PROVE  Opened(c)' /\ evh'[c] = evh[c] /\ c \notin added'
    <3> DEFINE fd == Echo!DescriptorOf(d)
    <3>1. fd \in ConnFd /\ sock[fd] = d
      BY <2>3, DescriptorIs
    <3>2. /\ sock' = [sock EXCEPT ![fd] = "nobody"]
          /\ evh' = [evh EXCEPT ![d] = "none"] /\ added' = added \ {d}
      BY <2>6, SameConstants DEF Echo!CloseAndFree, Echo!close
    <3> HIDE DEF fd
    <3>3. PICK f \in ConnFd : sock[f] = c
      BY <1>1 DEF Opened
    <3>4. sock'[f] = c
      BY <2>3, <3>1, <3>2, <3>3, FdFacts DEF NetInv
    <3>5. QED BY <1>1, <2>3, <3>2, <3>4 DEF Opened
  <2>7. \/ Echo!do_welcome_handler(d) \/ Echo!do_echo_handler(d) \/ Echo!do_echo_response(d)
    BY <1>6 DEF Echo!CallHandler
  <2>8. QED BY <2>4, <2>5, <2>6, <2>7
            DEF Echo!do_welcome_handler, Echo!do_echo_handler, Echo!do_echo_response
<1>7. CASE Echo!CallKilled
  BY <1>7 DEF Echo!CallKilled
<1>8. QED BY <1>3, <1>4, <1>5, <1>6, <1>7 DEF Echo!Next, Echo!Loop

\* Connections of the poll server that are open or not accepted are different and alive.
PollNet ==
  /\ \A fd \in ConnFd : sock[fd] \in Conns => Live(peer, sock[fd])
  /\ \A f, g \in ConnFd : sock[f] \in Conns /\ sock[f] = sock[g] => f = g
  /\ \A m, n \in 1 .. Len(backlog) : backlog[m] = backlog[n] => m = n
  /\ \A n \in 1 .. Len(backlog) : /\ Live(peer, backlog[n])
                                  /\ \A fd \in ConnFd : sock[fd] # backlog[n]

\* An entry waits to write when the one byte of its client is read, and the client for
\* the answer.  What poll reported of an entry not come to yet is still so.
EntryOwes(fd) ==
  /\ events[fd] \in {{}, {"IN"}, {"OUT"}}
  /\ i >= 0 /\ fd >= i /\ "IN" \in revents[fd] =>
       inbox[sock[fd]] # "none" \/ peer[sock[fd]] # "open"
  /\ i >= 0 /\ fd >= i /\ "IN" \notin revents[fd] /\ "OUT" \in revents[fd] =>
       events[fd] = {"OUT"}
  /\ events[fd] = {"OUT"} =>
       /\ inbox[sock[fd]] = "none"
       /\ peer[sock[fd]] \in {"open", "fin"} =>
            sock[fd] \in waiting /\ (since[sock[fd]] = {} => ch = sock[fd])

AnswersOwed ==
  /\ \A c \in Conns : inbox[c] # "none" => c \in waiting
  /\ i # Polls!Ended => \A fd \in ConnFd : EntryOwes(fd)

AskInv == PollInv /\ PollNet /\ AnswersOwed

\* What is known of the connection of an entry.
LEMMA EntryIs ==
  ASSUME AskInv, i # Polls!Ended, NEW fd \in ConnFd
  PROVE  /\ fd \in Fd /\ fd \in Nat /\ fd > ListenFd /\ i \in Int /\ EntryOwes(fd)
         /\ sock[fd] \in Conns \cup {"nobody"}
         /\ events[fd] # {} => sock[fd] \in Conns
         /\ i >= 0 /\ fd >= i /\ revents[fd] # {} => sock[fd] \in Conns
         /\ sock[fd] \in Conns => peer[sock[fd]] # "none" /\ peer[sock[fd]] # "gone"
<1>1. fd \in Fd /\ fd \in Nat /\ fd > ListenFd /\ fd # ListenFd /\ i \in Int
  BY FdFacts, PollNumbers DEF AskInv, PollInv
<1>2. sock[fd] \in Conns \cup {"nobody"}
  BY <1>1, PollTypes DEF AskInv, PollInv
<1>3. events[fd] # {} <=> sock[fd] # "nobody"
  BY <1>1 DEF AskInv, PollInv
<1>4. i >= 0 /\ fd >= i /\ revents[fd] # {} => sock[fd] # "nobody"
  BY <1>1 DEF AskInv, PollInv
<1>5. EntryOwes(fd) /\ (sock[fd] \in Conns => Live(peer, sock[fd]))
  BY DEF AskInv, AnswersOwed, PollNet
<1>6. QED BY <1>1, <1>2, <1>3, <1>4, <1>5 DEF Live

LEMMA ClientsOwe ==
  ASSUME AskInv, PollInv', Polls!Clients
  PROVE  PollNet' /\ AnswersOwed'
<1>1. PICK c \in Conns :
        \/ (Polls!Connect(c) \/ Polls!Fin(c) \/ Polls!Reset(c)) /\ UNCHANGED waiting
        \/ Polls!Send(c, "byte") /\ c \notin waiting /\ waiting' = waiting \cup {c}
  BY DEF Polls!Clients
<1>2. /\ i # Polls!Ended /\ i' = i
      /\ UNCHANGED <<events, revents, cur_max_fd, ch, since, sock>>
  BY <1>1 DEF Polls!Clients, Polls!Connect, Polls!Fin, Polls!Reset, Polls!Send
<1>3. /\ peer \in [Conns -> Peers] /\ inbox \in [Conns -> {"byte"} \cup {"none"}]
      /\ backlog \in Seq(Conns)
  BY PollTypes DEF AskInv, PollInv, Peers
<1>4. CASE Polls!Connect(c) /\ UNCHANGED waiting
  <2>1. /\ peer[c] = "none" /\ peer' = [peer EXCEPT ![c] = "open"] /\ inbox' = inbox
        /\ backlog' = Append(backlog, c)
    BY <1>4 DEF Polls!Connect
  <2>2. /\ Len(backlog') = Len(backlog) + 1 /\ Len(backlog) \in Nat
        /\ \A n \in 1 .. Len(backlog') : backlog'[n] = IF n = Len(backlog') THEN c ELSE backlog[n]
    BY <1>3, <2>1
  <2>3. \A n \in 1 .. Len(backlog) : backlog[n] # c /\ backlog[n] \in Conns
    BY <1>3, <2>1 DEF AskInv, PollNet, Live
  <2>4. \A fd \in ConnFd : sock[fd] # c
    BY <2>1 DEF AskInv, PollNet, Live
  <2>5. \A m, n \in 1 .. Len(backlog') : backlog'[m] = backlog'[n] => m = n
    BY <2>2, <2>3 DEF AskInv, PollNet
  <2>6. \A d \in Conns : Live(peer, d) \/ d = c => Live(peer', d)
    BY <1>3, <2>1 DEF Live
  <2>7. \A n \in 1 .. Len(backlog') : /\ Live(peer', backlog'[n])
                                     /\ \A fd \in ConnFd : sock[fd] # backlog'[n]
    BY <2>2, <2>3, <2>4, <2>6 DEF AskInv, PollNet
  <2>8. PollNet'
    BY <1>2, <2>5, <2>6, <2>7 DEF AskInv, PollNet
  <2>9. ASSUME NEW fd \in ConnFd
        PROVE  EntryOwes(fd)'
    <3>1. sock[fd] \in Conns => peer'[sock[fd]] = peer[sock[fd]]
      BY <1>3, <2>1, <2>4
    <3>2. QED BY <1>2, <1>4, <2>1, <3>1, EntryIs DEF EntryOwes
  <2>10. QED BY <1>2, <1>4, <2>1, <2>8, <2>9 DEF AskInv, AnswersOwed
<1>5. CASE (Polls!Fin(c) \/ Polls!Reset(c)) /\ UNCHANGED waiting
  <2>1. /\ UNCHANGED <<inbox, backlog>> /\ peer[c] \in {"open", "fin"}
        /\ \E end \in {"fin", "reset", "broken"} :
             peer' = [peer EXCEPT ![c] = end] /\ (end = "fin" => peer[c] = "open")
    BY <1>5 DEF Polls!Fin, Polls!Reset
  <2>2. \A d \in Conns : /\ Live(peer, d) => Live(peer', d)
                         /\ peer'[d] = "open" => peer[d] = "open"
                         /\ peer'[d] \in {"open", "fin"} => peer[d] \in {"open", "fin"}
    BY <1>3, <2>1 DEF Live
  <2>3. PollNet'
    <3>1. \A n \in 1 .. Len(backlog) : backlog[n] \in Conns
      BY <1>3
    <3>2. \A n \in 1 .. Len(backlog) : /\ Live(peer', backlog[n])
                                      /\ \A fd \in ConnFd : sock[fd] # backlog[n]
      BY <2>2, <3>1 DEF AskInv, PollNet
    <3>3. \A fd \in ConnFd : sock[fd] \in Conns => Live(peer', sock[fd])
      BY <2>2 DEF AskInv, PollNet
    <3>4. QED BY <1>2, <2>1, <3>2, <3>3 DEF AskInv, PollNet
  <2>4. ASSUME NEW fd \in ConnFd
        PROVE  EntryOwes(fd)'
    BY <1>2, <1>5, <2>1, <2>2, EntryIs DEF EntryOwes
  <2>5. QED BY <1>2, <1>5, <2>1, <2>3, <2>4 DEF AskInv, AnswersOwed
<1>6. CASE Polls!Send(c, "byte") /\ c \notin waiting /\ waiting' = waiting \cup {c}
  <2>1. /\ peer[c] = "open" /\ UNCHANGED <<backlog, peer>>
        /\ \A d \in Conns \ {c} : inbox'[d] = inbox[d]
        /\ inbox'[c] # "none" /\ c \notin waiting
    BY <1>3, <1>6 DEF Polls!Send
  <2>2. PollNet'
    BY <1>2, <2>1 DEF AskInv, PollNet
  <2>3. ASSUME NEW fd \in ConnFd
        PROVE  EntryOwes(fd)'
    <3>1. CASE sock[fd] = c
      BY <1>2, <2>1, <3>1, EntryIs DEF EntryOwes
    <3>2. CASE sock[fd] # c
      BY <1>2, <1>6, <2>1, <3>2, EntryIs DEF EntryOwes
    <3>3. QED BY <3>1, <3>2
  <2>4. \A d \in Conns : inbox'[d] # "none" => d \in waiting'
    BY <1>6, <2>1 DEF AskInv, AnswersOwed
  <2>5. QED BY <1>2, <2>2, <2>3, <2>4 DEF AnswersOwed
<1>7. QED BY <1>1, <1>4, <1>5, <1>6

LEMMA pollOwes ==
  ASSUME AskInv, PollInv', Polls!poll
  PROVE  PollNet' /\ AnswersOwed'
<1>1. /\ i = -1 /\ i' = 0 /\ i # Polls!Ended
      /\ UNCHANGED <<sock, backlog, peer, inbox, events, ch, since, waiting>>
      /\ revents' = [fd \in Fd |-> IF fd \in Polls!Used
                                   THEN Polls!ReadyFor(fd, events[fd]) ELSE {}]
  BY PollConstants DEF Polls!poll, Polls!tcp
<1>2. PollNet'
  BY <1>1 DEF AskInv, PollNet
<1>3. ASSUME NEW fd \in ConnFd
      PROVE  EntryOwes(fd)'
  <2>1. /\ fd \in Fd /\ events[fd] \in {{}, {"IN"}, {"OUT"}}
        /\ events[fd] # {} => sock[fd] \in Conns /\ sock[fd] # Listener
    BY <1>1, EntryIs, FdFacts DEF EntryOwes
  <2>2. revents'[fd] = IF fd \in Polls!Used THEN Polls!ReadyFor(fd, events[fd]) ELSE {}
    BY <1>1, <2>1
  <2>3. ASSUME "IN" \in revents'[fd]
        PROVE  inbox[sock[fd]] # "none" \/ peer[sock[fd]] # "open"
    BY <2>1, <2>2, <2>3 DEF Polls!ReadyFor
  <2>4. ASSUME "IN" \notin revents'[fd], "OUT" \in revents'[fd]
        PROVE  events[fd] = {"OUT"}
    <3>1. "OUT" \in events[fd]
      BY <2>2, <2>4 DEF Polls!ReadyFor
    <3>2. QED BY <2>1, <3>1
  <2>5. QED BY <1>1, <2>3, <2>4, EntryIs DEF EntryOwes
<1>4. QED BY <1>1, <1>2, <1>3 DEF AskInv, AnswersOwed

\* The entries that a scan has not come to when it goes on.
LEMMA LaterEntries ==
  ASSUME AskInv, i \in Fd, NEW max \in Fd \cup {Biggest_FD}, Polls!GoOn(max)
  PROVE  /\ i' # Polls!Ended
         /\ \A fd \in ConnFd : i' >= 0 /\ fd >= i' => i >= 0 /\ fd >= i /\ fd # i
<1>1. i' \in Fd \cup {-1} /\ (i' >= 0 => i' = i + 1) /\ i \in Nat
  BY GoOnFacts, FdFacts
<1>2. \A fd \in ConnFd : fd \in Nat
  BY FdFacts
<1>3. i' # Polls!Ended
  BY <1>1, PollConstants, FdFacts
<1>4. QED BY <1>1, <1>2, <1>3

LEMMA SkipOwes ==
  ASSUME AskInv, PollInv', Polls!Skip
  PROVE  PollNet' /\ AnswersOwed'
<1>1. /\ i >= 0 /\ Polls!GoOn(cur_max_fd)
      /\ UNCHANGED <<sock, backlog, peer, inbox, events, revents, ch, since, waiting>>
  BY DEF Polls!Skip, Polls!tcp
<1>2. i \in Fd /\ cur_max_fd \in Fd \cup {Biggest_FD} /\ i # Polls!Ended
  BY <1>1, PollNumbers, PollConstants DEF AskInv, PollInv
<1>3. /\ i' # Polls!Ended
      /\ \A fd \in ConnFd : i' >= 0 /\ fd >= i' => i >= 0 /\ fd >= i
  BY <1>1, <1>2, LaterEntries
<1>4. PollNet'
  BY <1>1 DEF AskInv, PollNet
<1>5. \A fd \in ConnFd : EntryOwes(fd)'
  BY <1>1, <1>2, <1>3, EntryIs DEF EntryOwes
<1>6. QED BY <1>1, <1>4, <1>5 DEF AskInv, AnswersOwed

LEMMA AcceptOwes ==
  ASSUME AskInv, PollInv', Polls!Accept
  PROVE  PollNet' /\ AnswersOwed'
<1> DEFINE new == Polls!Min(Polls!FreeFd)
           max == Polls!Max({cur_max_fd, new + 1})
           c == Head(backlog)
<1>1. new \in ConnFd /\ sock[new] = "nobody"
  <2>1. Polls!FreeFd \in SUBSET Nat /\ Polls!FreeFd # {}
    BY FdFacts, PollConstants DEF Polls!FreeFd, Polls!Accept
  <2>2. new \in Polls!FreeFd
    BY <2>1, LeastExists DEF Polls!Min
  <2>3. QED BY <2>2, PollConstants DEF Polls!FreeFd
<1>2. /\ i = ListenFd /\ i \in Fd /\ i # Polls!Ended /\ revents[i] # {}
      /\ sock' = [sock EXCEPT ![new] = c] /\ backlog' = Tail(backlog)
      /\ UNCHANGED <<peer, inbox, ch, since, waiting>>
      /\ events' = [events EXCEPT ![new] = {"IN"}] /\ revents' = [revents EXCEPT ![new] = {}]
      /\ Polls!GoOn(max)
  BY FdFacts, PollConstants DEF Polls!Accept, Polls!accept
<1>3. /\ backlog # <<>> /\ backlog \in Seq(Conns)
      /\ sock \in [Fd -> Conns \cup {"nobody", Listener}]
      /\ events \in [Fd -> SUBSET {"IN", "OUT"}]
      /\ revents \in [Fd -> SUBSET {"IN", "OUT", "HUP"}]
      /\ cur_max_fd \in Nat /\ cur_max_fd \in Fd \cup {Biggest_FD}
  BY <1>2, PollTypes, PollNumbers, FdFacts DEF AskInv, PollInv
<1>4. max \in Fd \cup {Biggest_FD}
  <2> DEFINE both == {cur_max_fd, new + 1}
  <2>1. new + 1 \in Fd \cup {Biggest_FD} /\ new + 1 \in Nat
    <3> HIDE DEF new
    <3>1. QED BY <1>1, FdFacts DEF Fd
  <2>2. \E x \in both : \A y \in both : x >= y
    <3> HIDE DEF new
    <3>1. QED BY <1>3, <2>1
  <2>3. max \in both
    BY <2>2 DEF Polls!Max
  <2>4. QED BY <1>3, <2>1, <2>3
<1> HIDE DEF new, max
<1>5. /\ i' # Polls!Ended
      /\ \A fd \in ConnFd : i' >= 0 /\ fd >= i' => i >= 0 /\ fd >= i
  BY <1>2, <1>4, LaterEntries
<1>6. /\ c \in Conns /\ Len(backlog) \in Nat /\ Len(backlog) >= 1
      /\ c = backlog[1] /\ Len(backlog') = Len(backlog) - 1
      /\ \A n \in 1 .. Len(backlog') : backlog'[n] = backlog[n + 1]
  BY <1>2, <1>3
<1> HIDE DEF c
<1>7. /\ sock'[new] = c /\ events'[new] = {"IN"} /\ revents'[new] = {}
      /\ \A fd \in ConnFd \ {new} : /\ sock'[fd] = sock[fd] /\ events'[fd] = events[fd]
                                   /\ revents'[fd] = revents[fd]
  BY <1>1, <1>2, <1>3, FdFacts
<1>8. /\ Live(peer, c) /\ \A fd \in ConnFd : sock[fd] # c
      /\ \A n \in 1 .. Len(backlog') : n + 1 \in 1 .. Len(backlog) /\ backlog'[n] # c
  BY <1>6 DEF AskInv, PollNet
<1>9. PollNet'
  <2>1. \A fd \in ConnFd : sock'[fd] \in Conns => Live(peer, sock'[fd])
    BY <1>7, <1>8 DEF AskInv, PollNet
  <2>2. \A f, g \in ConnFd : sock'[f] \in Conns /\ sock'[f] = sock'[g] => f = g
    BY <1>7, <1>8 DEF AskInv, PollNet
  <2>3. \A m, n \in 1 .. Len(backlog') : backlog'[m] = backlog'[n] => m = n
    <3> SUFFICES ASSUME NEW m \in 1 .. Len(backlog'), NEW n \in 1 .. Len(backlog'),
                        backlog'[m] = backlog'[n]
                 PROVE  m = n
      OBVIOUS
    <3>1. m + 1 = n + 1
      BY <1>6, <1>8 DEF AskInv, PollNet
    <3>2. QED BY <3>1
  <2>4. \A n \in 1 .. Len(backlog') : /\ Live(peer, backlog'[n])
                                     /\ \A fd \in ConnFd : sock'[fd] # backlog'[n]
    BY <1>6, <1>7, <1>8 DEF AskInv, PollNet
  <2>5. QED BY <1>2, <2>1, <2>2, <2>3, <2>4 DEF PollNet
<1>10. ASSUME NEW fd \in ConnFd
       PROVE  EntryOwes(fd)'
  <2>1. CASE fd = new
    <3>1. {"IN"} # {"OUT"}
      OBVIOUS
    <3>2. QED BY <1>7, <2>1, <3>1 DEF EntryOwes
  <2>2. CASE fd # new
    BY <1>2, <1>5, <1>7, <2>2, EntryIs DEF EntryOwes
  <2>3. QED BY <2>1, <2>2
<1>11. QED BY <1>2, <1>9, <1>10 DEF AskInv, AnswersOwed

LEMMA CloseOwes ==
  ASSUME AskInv, PollInv', Polls!CloseClient
  PROVE  PollNet' /\ AnswersOwed'
<1>1. i > ListenFd /\ revents[i] # {}
  BY DEF Polls!CloseClient
<1>2. /\ i \in Fd /\ i \in ConnFd /\ i # Polls!Ended /\ sock[i] \in Conns
      /\ cur_max_fd \in Fd \cup {Biggest_FD} /\ i # ListenFd
  BY <1>1, EntryConn, FdFacts DEF AskInv
<1> PICK c \in Conns : c = sock[i]
  BY <1>2
<1>3. /\ sock \in [Fd -> Conns \cup {"nobody", Listener}] /\ peer \in [Conns -> Peers]
      /\ inbox \in [Conns -> {"byte"} \cup {"none"}] /\ events \in [Fd -> SUBSET {"IN", "OUT"}]
      /\ revents \in [Fd -> SUBSET {"IN", "OUT", "HUP"}] /\ backlog \in Seq(Conns)
  BY PollTypes DEF AskInv, PollInv, Peers
<1>4. /\ sock' = [sock EXCEPT ![i] = "nobody"] /\ peer' = [peer EXCEPT ![c] = "gone"]
      /\ inbox' = [inbox EXCEPT ![c] = "none"] /\ UNCHANGED <<backlog, ch, since, waiting>>
      /\ events' = [events EXCEPT ![i] = {}] /\ revents' = [revents EXCEPT ![i] = {}]
      /\ Polls!GoOn(cur_max_fd)
  BY PollConstants DEF Polls!CloseClient, Polls!close
<1>5. /\ i' # Polls!Ended
      /\ \A fd \in ConnFd : i' >= 0 /\ fd >= i' => i >= 0 /\ fd >= i /\ fd # i
  BY <1>2, <1>4, LaterEntries
<1>6. /\ sock'[i] = "nobody" /\ events'[i] = {} /\ revents'[i] = {} /\ inbox'[c] = "none"
      /\ \A fd \in ConnFd \ {i} : /\ sock'[fd] = sock[fd] /\ events'[fd] = events[fd]
                                 /\ revents'[fd] = revents[fd] /\ sock[fd] # c
      /\ \A d \in Conns \ {c} : peer'[d] = peer[d] /\ inbox'[d] = inbox[d]
  BY <1>2, <1>3, <1>4, FdFacts DEF AskInv, PollNet
<1>7. \A n \in 1 .. Len(backlog) : backlog[n] \in Conns \ {c}
  BY <1>2, <1>3 DEF AskInv, PollNet
<1>8. PollNet'
  <2>1. \A fd \in ConnFd : sock'[fd] \in Conns => Live(peer', sock'[fd])
    BY <1>6, FdFacts DEF AskInv, PollNet, Live
  <2>2. \A f, g \in ConnFd : sock'[f] \in Conns /\ sock'[f] = sock'[g] => f = g
    BY <1>6, FdFacts DEF AskInv, PollNet
  <2>3. \A n \in 1 .. Len(backlog) : /\ Live(peer', backlog[n])
                                    /\ \A fd \in ConnFd : sock'[fd] # backlog[n]
    BY <1>6, <1>7, FdFacts DEF AskInv, PollNet, Live
  <2>4. \A m, n \in 1 .. Len(backlog') : backlog'[m] = backlog'[n] => m = n
    BY <1>4 DEF AskInv, PollNet
  <2>5. QED BY <1>4, <2>1, <2>2, <2>3, <2>4 DEF PollNet
<1>9. ASSUME NEW fd \in ConnFd
      PROVE  EntryOwes(fd)'
  <2>1. CASE fd = i
    BY <1>6, <2>1 DEF EntryOwes
  <2>2. CASE fd # i
    <3>1. sock[fd] \in Conns => inbox'[sock[fd]] = inbox[sock[fd]] /\ peer'[sock[fd]] = peer[sock[fd]]
      BY <1>6, <2>2
    <3>2. QED BY <1>2, <1>4, <1>5, <1>6, <2>2, <3>1, EntryIs DEF EntryOwes
  <2>3. QED BY <2>1, <2>2
<1>10. \A d \in Conns : inbox'[d] # "none" => d \in waiting'
  BY <1>4, <1>6 DEF AskInv, AnswersOwed
<1>11. QED BY <1>8, <1>9, <1>10 DEF AnswersOwed

LEMMA ReadOwes ==
  ASSUME AskInv, PollInv', Polls!ReadByte
  PROVE  PollNet' /\ AnswersOwed'
<1>1. /\ i > ListenFd /\ revents[i] # {} /\ "IN" \in revents[i] /\ Polls!GoOn(cur_max_fd)
      /\ events' = [events EXCEPT ![i] = {"OUT"}]
      /\ UNCHANGED <<sock, backlog, revents, waiting>>
  BY DEF Polls!ReadByte, Polls!readData, Polls!callFails
<1>2. /\ i \in Fd /\ i \in ConnFd /\ i >= 0 /\ i # Polls!Ended /\ sock[i] \in Conns
      /\ cur_max_fd \in Fd \cup {Biggest_FD}
  BY <1>1, EntryConn, FdFacts DEF AskInv
<1> PICK c \in Conns : c = sock[i]
  BY <1>2
<1>3. /\ peer \in [Conns -> Peers] /\ inbox \in [Conns -> {"byte"} \cup {"none"}]
      /\ events \in [Fd -> SUBSET {"IN", "OUT"}]
  BY PollTypes DEF AskInv, PollInv, Peers
<1>4. /\ i' # Polls!Ended
      /\ \A fd \in ConnFd : i' >= 0 /\ fd >= i' => i >= 0 /\ fd >= i /\ fd # i
  BY <1>1, <1>2, LaterEntries
<1>5. /\ events'[i] = {"OUT"}
      /\ \A fd \in ConnFd \ {i} : events'[fd] = events[fd] /\ sock[fd] # c
  BY <1>1, <1>2, <1>3 DEF AskInv, PollNet
<1>6. inbox[c] # "none" \/ peer[c] # "open"
  BY <1>1, <1>2, EntryIs, FdFacts DEF EntryOwes
<1>7. CASE Polls!ReadsData(c) /\ Polls!readData(c) /\ ch' = c
             /\ since' = [d \in Conns |-> IF d = c THEN {} ELSE since[d] \cup {c}]
  <2>1. /\ inbox[c] # "none" /\ inbox'[c] = "none" /\ peer' = peer
        /\ \A d \in Conns \ {c} : inbox'[d] = inbox[d] /\ since'[d] # {}
    BY <1>3, <1>7 DEF Polls!ReadsData, Polls!readData
  <2>2. PollNet'
    BY <1>1, <2>1 DEF AskInv, PollNet
  <2>3. ASSUME NEW fd \in ConnFd
        PROVE  EntryOwes(fd)'
    <3>1. CASE fd = i
      <4>1. c \in waiting
        BY <2>1 DEF AskInv, AnswersOwed
      <4>2. QED BY <1>1, <1>4, <1>5, <1>7, <2>1, <3>1, <4>1 DEF EntryOwes
    <3>2. CASE fd # i
      <4>1. sock[fd] \in Conns => inbox'[sock[fd]] = inbox[sock[fd]] /\ since'[sock[fd]] # {}
        BY <1>5, <2>1, <3>2
      <4>2. QED BY <1>1, <1>2, <1>4, <1>5, <2>1, <3>2, <4>1, EntryIs DEF EntryOwes
    <3>3. QED BY <3>1, <3>2
  <2>4. \A d \in Conns : inbox'[d] # "none" => d \in waiting'
    BY <1>1, <2>1 DEF AskInv, AnswersOwed
  <2>5. QED BY <2>2, <2>3, <2>4 DEF AnswersOwed
<1>8. CASE /\ Polls!ReadFails(c) /\ Polls!callFails(c)
           /\ since' = [d \in Conns |-> since[d] \cup {c}]
  <2>1. inbox[c] = "none" /\ inbox' = inbox /\ peer[c] = "reset"
    BY <1>6, <1>8 DEF Polls!ReadFails, Polls!callFails
  <2>2. peer' = [peer EXCEPT ![c] = "broken"]
    BY <1>8, <2>1 DEF Polls!callFails
  <2>3. peer'[c] = "broken" /\ \A d \in Conns \ {c} : peer'[d] = peer[d]
    BY <1>3, <2>2
  <2>4. \A d \in Conns : Live(peer, d) => Live(peer', d)
    BY <2>3 DEF Live
  <2>5. PollNet'
    <3>1. \A n \in 1 .. Len(backlog) : backlog[n] \in Conns
      BY PollTypes DEF AskInv, PollInv
    <3>2. \A n \in 1 .. Len(backlog) : /\ Live(peer', backlog[n])
                                      /\ \A fd \in ConnFd : sock[fd] # backlog[n]
      BY <2>4, <3>1 DEF AskInv, PollNet
    <3>3. \A fd \in ConnFd : sock[fd] \in Conns => Live(peer', sock[fd])
      BY <2>4 DEF AskInv, PollNet
    <3>4. QED BY <1>1, <3>2, <3>3 DEF AskInv, PollNet
  <2>6. ASSUME NEW fd \in ConnFd
        PROVE  EntryOwes(fd)'
    <3>1. CASE fd = i
      BY <1>1, <1>4, <1>5, <2>1, <2>3, <3>1 DEF EntryOwes
    <3>2. CASE fd # i
      <4>1. sock[fd] \in Conns =>
              peer'[sock[fd]] = peer[sock[fd]] /\ since'[sock[fd]] # {}
        BY <1>5, <1>8, <2>3, <3>2
      <4>2. QED BY <1>1, <1>2, <1>4, <1>5, <1>8, <2>1, <3>2, <4>1, EntryIs DEF EntryOwes
    <3>3. QED BY <3>1, <3>2
  <2>7. QED BY <1>1, <2>1, <2>5, <2>6 DEF AskInv, AnswersOwed
<1>9. QED BY <1>7, <1>8 DEF Polls!ReadByte

LEMMA WriteOwes ==
  ASSUME AskInv, PollInv', Polls!WriteByte
  PROVE  PollNet' /\ AnswersOwed' /\ Polls!AnswerAllowed
<1>1. /\ i > ListenFd /\ revents[i] # {} /\ "IN" \notin revents[i] /\ "OUT" \in revents[i]
      /\ Polls!GoOn(cur_max_fd) /\ events' = [events EXCEPT ![i] = {"IN"}]
      /\ UNCHANGED <<sock, backlog, inbox, revents, ch, since>>
  BY DEF Polls!WriteByte, Polls!tcp, Polls!callFails
<1>2. /\ i \in Fd /\ i \in ConnFd /\ i >= 0 /\ i # Polls!Ended /\ sock[i] \in Conns
      /\ cur_max_fd \in Fd \cup {Biggest_FD}
  BY <1>1, EntryConn, FdFacts DEF AskInv
<1> PICK c \in Conns : c = sock[i]
  BY <1>2
<1>3. peer \in [Conns -> Peers] /\ events \in [Fd -> SUBSET {"IN", "OUT"}]
  BY PollTypes DEF AskInv, PollInv, Peers
<1>4. /\ i' # Polls!Ended
      /\ \A fd \in ConnFd : i' >= 0 /\ fd >= i' => i >= 0 /\ fd >= i /\ fd # i
  BY <1>1, <1>2, LaterEntries
<1>5. /\ events'[i] = {"IN"}
      /\ \A fd \in ConnFd \ {i} : events'[fd] = events[fd] /\ sock[fd] # c
  BY <1>1, <1>2, <1>3 DEF AskInv, PollNet
<1>6. /\ inbox[c] = "none"
      /\ peer[c] \in {"open", "fin"} => c \in waiting /\ (since[c] = {} => ch = c)
  <2>1. events[i] = {"OUT"}
    BY <1>1, <1>2, EntryIs, FdFacts DEF EntryOwes
  <2>2. QED BY <1>2, <2>1, EntryIs DEF EntryOwes
<1>7. Polls!AnswerAllowed
  BY <1>6 DEF Polls!AnswerAllowed, Polls!Writes
<1>8. /\ \A d \in Conns \ {c} : peer'[d] = peer[d] /\ (d \in waiting <=> d \in waiting')
      /\ peer'[c] = "none" => peer[c] = "none"
      /\ peer'[c] = "gone" => peer[c] = "gone"
  <2>1. CASE UNCHANGED Polls!tcp /\ waiting' = waiting \ {c}
    BY <2>1 DEF Polls!tcp
  <2>2. CASE Polls!callFails(c) /\ UNCHANGED waiting
    <3> DEFINE end == IF peer[c] = "reset" THEN "broken" ELSE peer[c]
    <3>1. peer' = [peer EXCEPT ![c] = end]
      BY <2>2 DEF Polls!callFails
    <3>2. (end = "none" => peer[c] = "none") /\ (end = "gone" => peer[c] = "gone")
      OBVIOUS
    <3> HIDE DEF end
    <3>3. QED BY <1>3, <2>2, <3>1, <3>2
  <2>3. QED BY <2>1, <2>2 DEF Polls!WriteByte
<1>9. \A d \in Conns : Live(peer, d) => Live(peer', d)
  BY <1>8 DEF Live
<1>10. PollNet'
  <2>1. \A n \in 1 .. Len(backlog) : backlog[n] \in Conns
    BY PollTypes DEF AskInv, PollInv
  <2>2. \A n \in 1 .. Len(backlog) : /\ Live(peer', backlog[n])
                                    /\ \A fd \in ConnFd : sock[fd] # backlog[n]
    BY <1>9, <2>1 DEF AskInv, PollNet
  <2>3. \A fd \in ConnFd : sock[fd] \in Conns => Live(peer', sock[fd])
    BY <1>9 DEF AskInv, PollNet
  <2>4. QED BY <1>1, <2>2, <2>3 DEF AskInv, PollNet
<1>11. ASSUME NEW fd \in ConnFd
       PROVE  EntryOwes(fd)'
  <2>1. CASE fd = i
    <3>1. {"IN"} # {"OUT"}
      OBVIOUS
    <3>2. QED BY <1>4, <1>5, <2>1, <3>1 DEF EntryOwes
  <2>2. CASE fd # i
    <3>1. sock[fd] \in Conns => /\ peer'[sock[fd]] = peer[sock[fd]]
                               /\ (sock[fd] \in waiting => sock[fd] \in waiting')
      BY <1>5, <1>8, <2>2
    <3>2. /\ EntryOwes(fd)
          /\ events[fd] # {} => sock[fd] \in Conns
          /\ i >= 0 /\ fd >= i /\ revents[fd] # {} => sock[fd] \in Conns
      BY <1>2, EntryIs
    <3>3. /\ events'[fd] = events[fd] /\ UNCHANGED <<sock, inbox, revents, ch, since>>
          /\ i' >= 0 /\ fd >= i' => i >= 0 /\ fd >= i
      BY <1>1, <1>4, <1>5, <2>2
    <3>4. events[fd] = {"OUT"} => sock[fd] \in Conns
      <4>1. {} # {"OUT"}
        OBVIOUS
      <4>2. QED BY <3>2, <4>1
    <3>5. /\ "IN" \in revents[fd] \/ "OUT" \in revents[fd] => revents[fd] # {}
          /\ sock'[fd] = sock[fd] /\ inbox'[sock[fd]] = inbox[sock[fd]]
          /\ revents'[fd] = revents[fd] /\ since'[sock[fd]] = since[sock[fd]] /\ ch' = ch
      BY <3>3
    <3>6. events'[fd] \in {{}, {"IN"}, {"OUT"}}
      BY <3>2, <3>3 DEF EntryOwes
    <3>7. i' >= 0 /\ fd >= i' /\ "IN" \in revents'[fd] =>
            inbox'[sock'[fd]] # "none" \/ peer'[sock'[fd]] # "open"
      BY <3>1, <3>2, <3>3, <3>5 DEF EntryOwes
    <3>8. i' >= 0 /\ fd >= i' /\ "IN" \notin revents'[fd] /\ "OUT" \in revents'[fd] =>
            events'[fd] = {"OUT"}
      BY <3>2, <3>3, <3>5 DEF EntryOwes
    <3>9. events'[fd] = {"OUT"} =>
            /\ inbox'[sock'[fd]] = "none"
            /\ (peer'[sock'[fd]] \in {"open", "fin"} =>
                  sock'[fd] \in waiting' /\ (since'[sock'[fd]] = {} => ch' = sock'[fd]))
      BY <3>1, <3>2, <3>3, <3>4, <3>5 DEF EntryOwes
    <3>10. QED BY <3>6, <3>7, <3>8, <3>9 DEF EntryOwes
  <2>3. QED BY <2>1, <2>2
<1>12. \A d \in Conns : inbox'[d] # "none" => d \in waiting'
  BY <1>1, <1>6, <1>8 DEF AskInv, AnswersOwed
<1>13. QED BY <1>7, <1>10, <1>11, <1>12 DEF AnswersOwed

LEMMA KilledOwes ==
  ASSUME AskInv, PollInv', Polls!WriteKilled
  PROVE  PollNet' /\ AnswersOwed'
<1>1. /\ sock' = [fd \in Fd |-> "nobody"] /\ backlog' = <<>>
      /\ inbox' = [c \in Conns |-> "none"] /\ i' = Polls!Ended
  BY PollConstants DEF Polls!WriteKilled, Polls!processEnds
<1>2. Len(backlog') = 0
  BY <1>1
<1>3. PollNet'
  BY <1>1, <1>2, FdFacts DEF PollNet
<1>4. AnswersOwed'
  BY <1>1 DEF AnswersOwed
<1>5. QED BY <1>3, <1>4

LEMMA AskInit == Polls!Init => AskInv
<1> SUFFICES ASSUME Polls!Init PROVE AskInv
  OBVIOUS
<1>1. /\ \A fd \in Fd : sock[fd] = IF fd = ListenFd THEN Listener ELSE "nobody"
      /\ backlog = <<>> /\ \A c \in Conns : inbox[c] = "none"
      /\ \A fd \in Fd : events[fd] = IF fd = ListenFd THEN {"IN"} ELSE {}
      /\ \A fd \in Fd : revents[fd] = {}
  BY PollConstants DEF Polls!Init, Polls!TcpInit
<1>2. Len(backlog) = 0
  BY <1>1
<1>3. PollNet
  BY <1>1, <1>2, FdFacts DEF PollNet
<1>4. AnswersOwed
  BY <1>1, FdFacts DEF AnswersOwed, EntryOwes
<1>5. QED BY <1>3, <1>4, PollsInit DEF AskInv

LEMMA AskStep == AskInv /\ Polls!Next => AskInv' /\ Polls!AnswerAllowed
<1> SUFFICES ASSUME AskInv, Polls!Next PROVE AskInv' /\ Polls!AnswerAllowed
  OBVIOUS
<1>1. PollInv'
  BY PollsStep DEF AskInv
<1>2. PollNet' /\ AnswersOwed'
  BY <1>1, ClientsOwe, pollOwes, SkipOwes, AcceptOwes, CloseOwes, ReadOwes, WriteOwes, KilledOwes
     DEF Polls!Next, Polls!ServerStep
<1>3. Polls!WriteByte => Polls!AnswerAllowed
  BY <1>1, WriteOwes
<1>4. ~Polls!WriteByte => Polls!AnswerAllowed
  BY DEF Polls!AnswerAllowed
<1>5. QED BY <1>1, <1>2, <1>3, <1>4 DEF AskInv

\* A client of the poll server gets a byte when it waits for one, and the successor of
\* its own unless the server has read from another since, or tried, whoever connects,
\* hangs up or resets during a round.  A connection that the libevent server gave up
\* keeps its event out of the base for ever.
THEOREM StepsStayAllowed == Spec => StepsAllowed
<1>1. Init => ProgInv /\ (program = "polls" => AskInv)
  BY ProgInit, AskInit DEF Init
<1>2. /\ ProgInv /\ ProgInv' /\ (program = "polls" => AskInv) /\ [Next]_vars
      => /\ (program = "polls" => AskInv)'
         /\ \/ UNCHANGED vars
            \/ /\ program = "polls" => Polls!AnswerAllowed
               /\ program = "main" => Echo!StaysGivenUp
  <2> SUFFICES ASSUME ProgInv, ProgInv', program = "polls" => AskInv, [Next]_vars
               PROVE  /\ (program = "polls" => AskInv)'
                      /\ \/ UNCHANGED vars
                         \/ /\ program = "polls" => Polls!AnswerAllowed
                            /\ program = "main" => Echo!StaysGivenUp
    OBVIOUS
  <2>1. CASE program = "polls" /\ InPolls /\ Polls!Next
    BY <2>1, AskStep DEF InPolls
  <2>2. CASE program = "main" /\ InEcho /\ Echo!Next
    BY <2>2, EchoGivesUp DEF ProgInv, InEcho
  <2>3. CASE program \notin {"polls", "main"} /\ program' = program
    BY <2>3
  <2>4. CASE UNCHANGED vars
    <3>1. UNCHANGED <<program, sock, backlog, peer, inbox, events, revents, i, ch, since, waiting>>
      BY <2>4 DEF vars, countVars, tcpVars, pollVars
    <3>2. PollInv' \/ program # "polls"
      BY <3>1 DEF ProgInv
    <3>3. QED BY <2>4, <3>1, <3>2 DEF AskInv, PollNet, AnswersOwed, EntryOwes, Live
  <2>5. CASE Next
    BY <2>1, <2>2, <2>3, <2>5 DEF Next, InSems, InLocks, Locking, InBuffer, InDouble, InPolls,
                                  InFrames, InEcho, InForm
  <2>6. QED BY <2>4, <2>5
<1>3. Spec => []ProgInv
  BY ProgInit, ProgStep, PTL DEF Spec
<1>4. QED BY <1>1, <1>2, <1>3, PTL DEF Spec, StepsAllowed

================================================================================
