--------------------------- MODULE ThreadPoolProofs ---------------------------
(***************************************************************************)
(* Proofs about ThreadPool, for any number of workers, posters and tasks   *)
(* and any queue limit.  PoolInv is shown to be inductive, one lemma per   *)
(* action and one step per conjunct; the safety properties follow from it. *)
(***************************************************************************)
EXTENDS ThreadPool, FiniteSetTheorems, SequenceTheorems, TLAPS

\* Sets of workers are finite.
LEMMA SubsetFinite ==
  ASSUME NEW S \in SUBSET Workers
  PROVE  IsFiniteSet(S) /\ Cardinality(S) \in Nat
BY PoolAssumption, FS_Subset, FS_CardinalityType

\* What removing the first task does to the list.
LEMMA TailFacts ==
  ASSUME NEW S, NEW q \in Seq(S), q # <<>>
  PROVE  /\ Len(q) \in Nat \ {0} /\ Len(Tail(q)) = Len(q) - 1
         /\ \A i \in 1..Len(Tail(q)) : Tail(q)[i] = q[i + 1]
         /\ Head(q) = q[1] /\ Tail(q) \in Seq(S)
         /\ Range(q) = Range(Tail(q)) \cup {Head(q)}
<1>1. /\ Len(q) \in Nat \ {0} /\ Tail(q) \in Seq(S) /\ Len(Tail(q)) = Len(q) - 1
      /\ \A i \in 1..Len(Tail(q)) : Tail(q)[i] = q[i + 1]
      /\ Head(q) = q[1] /\ DOMAIN q = 1..Len(q) /\ DOMAIN Tail(q) = 1..Len(Tail(q))
  BY HeadTailProperties, LenProperties, EmptySeq
<1>2. \A i \in 1..Len(q) :
        i # 1 => (i - 1) \in 1..Len(Tail(q)) /\ q[i] = Tail(q)[i - 1]
  <2> SUFFICES ASSUME NEW i \in 1..Len(q), i # 1
               PROVE  (i - 1) \in 1..Len(Tail(q)) /\ q[i] = Tail(q)[i - 1]
    OBVIOUS
  <2>1. (i - 1) \in 1..Len(Tail(q)) /\ (i - 1) + 1 = i
    BY <1>1
  <2>2. QED BY <1>1, <2>1
<1>3. \A i \in 1..Len(Tail(q)) : i + 1 \in 1..Len(q)
  BY <1>1
<1>4. Range(q) \subseteq Range(Tail(q)) \cup {q[1]}
  <2> SUFFICES ASSUME NEW i \in 1..Len(q), i # 1 PROVE q[i] \in Range(Tail(q))
    BY <1>1 DEF Range
  <2>1. QED BY <1>1, <1>2 DEF Range
<1>5. Range(Tail(q)) \subseteq Range(q) /\ q[1] \in Range(q)
  BY <1>1, <1>3 DEF Range
<1>6. QED BY <1>1, <1>4, <1>5

\* What appending a task does to the list.
LEMMA AppendFacts ==
  ASSUME NEW S, NEW q \in Seq(S), NEW e \in S
  PROVE  /\ Len(q) \in Nat /\ Len(Append(q, e)) = Len(q) + 1
         /\ Append(q, e)[Len(q) + 1] = e
         /\ \A i \in 1..Len(q) : Append(q, e)[i] = q[i]
         /\ Range(Append(q, e)) = Range(q) \cup {e}
<1>1. /\ Len(q) \in Nat /\ Len(Append(q, e)) = Len(q) + 1
      /\ Append(q, e)[Len(q) + 1] = e
      /\ \A i \in 1..Len(q) : Append(q, e)[i] = q[i]
      /\ DOMAIN q = 1..Len(q) /\ DOMAIN Append(q, e) = 1..(Len(q) + 1)
  BY AppendProperties, LenProperties
<1>2. QED BY <1>1 DEF Range

LEMMA CreateWorkerKeeps == ASSUME PoolInv, NEW w \in Workers, CreateWorker(w) PROVE PoolInv'
<1> USE PoolAssumption DEF Clients, Nodes, PoolInv
<1> USE DEF CreateWorker, queueVars, workerVars, clientVars, mainVars
<1>1. TypeOK'
  BY DEF HeldInv, MutexInv, TypeOK, WorkerPC, CallPC, MainPC
<1>2. HeldInv'
  BY DEF TypeOK, HeldInv, ExitInv
<1>3. MutexInv'
  BY DEF TypeOK, MutexInv
<1>4. CountInv'
  BY DEF TypeOK, CountInv, WaitingAccounting, Claimed
<1>5. PlaceInv'
  BY DEF TypeOK, HeldInv, PlaceInv, OnePlace, Loose, InList, Range, Running
<1>6. OrderInv'
  BY DEF TypeOK, PlaceInv, OrderInv, FIFO, InList, Running, Range
<1>7. ExitInv'
  BY DEF TypeOK, HeldInv, PlaceInv, ExitInv, InList, Range, Loose
<1>8. DrainInv'
  BY DEF TypeOK, DrainInv, InList, Exited
<1>9. NoSleepOverBacklog'
  BY DEF TypeOK, NoSleepOverBacklog, Asleep, Woken
<1>10. QED
  BY <1>1, <1>2, <1>3, <1>4, <1>5, <1>6, <1>7, <1>8, <1>9 DEF PoolInv

LEMMA SpuriousWakeupKeeps == ASSUME PoolInv, NEW w \in Workers, SpuriousWakeup(w) PROVE PoolInv'
<1> USE PoolAssumption DEF Clients, Nodes, PoolInv
<1> USE DEF SpuriousWakeup, queueVars, workerVars, clientVars, mainVars
<1>1. TypeOK'
  BY DEF HeldInv, MutexInv, TypeOK, WorkerPC, CallPC, MainPC
<1>2. HeldInv'
  BY DEF TypeOK, HeldInv, ExitInv
<1>3. MutexInv'
  BY DEF TypeOK, MutexInv
<1>4. CountInv'
  BY DEF TypeOK, CountInv, WaitingAccounting, Claimed
<1>5. PlaceInv'
  BY DEF TypeOK, HeldInv, PlaceInv, OnePlace, Loose, InList, Range, Running
<1>6. OrderInv'
  BY DEF TypeOK, PlaceInv, OrderInv, FIFO, InList, Running, Range
<1>7. ExitInv'
  BY DEF TypeOK, HeldInv, PlaceInv, ExitInv, InList, Range, Loose
<1>8. DrainInv'
  BY DEF TypeOK, DrainInv, InList, Exited
<1>9. NoSleepOverBacklog'
  <2>1. Woken' = Woken \cup {w} /\ w \notin Woken
    BY DEF TypeOK, Woken, WorkerPC
  <2>2. IsFiniteSet(Woken) /\ Cardinality(Woken) \in Nat
    BY SubsetFinite DEF Woken
  <2>3. Cardinality(Woken') = Cardinality(Woken) + 1
    BY <2>1, <2>2, FS_AddElement
  <2>4. QED BY <2>2, <2>3 DEF NoSleepOverBacklog, Asleep, TypeOK
<1>10. QED
  BY <1>1, <1>2, <1>3, <1>4, <1>5, <1>6, <1>7, <1>8, <1>9 DEF PoolInv

LEMMA WorkerLockKeeps == ASSUME PoolInv, NEW w \in Workers, WorkerLock(w) PROVE PoolInv'
<1> USE PoolAssumption DEF Clients, Nodes, PoolInv
<1> USE DEF WorkerLock, queueVars, workerVars, clientVars, mainVars
<1>1. TypeOK'
  BY DEF HeldInv, MutexInv, TypeOK, WorkerPC, CallPC, MainPC
<1>2. HeldInv'
  BY DEF TypeOK, HeldInv, ExitInv
<1>3. MutexInv'
  BY DEF TypeOK, MutexInv
<1>4. CountInv'
  <2>1. Claimed' = Claimed \cup {w} /\ w \notin Claimed
    BY DEF TypeOK, Claimed, WorkerPC
  <2>2. IsFiniteSet(Claimed) /\ Cardinality(Claimed) \in Nat
    BY SubsetFinite DEF Claimed
  <2>3. Cardinality(Claimed') = Cardinality(Claimed) + 1
    BY <2>1, <2>2, FS_AddElement
  <2>4. QED BY <2>2, <2>3 DEF CountInv, WaitingAccounting, TypeOK
<1>5. PlaceInv'
  BY DEF TypeOK, HeldInv, PlaceInv, OnePlace, Loose, InList, Range, Running
<1>6. OrderInv'
  BY DEF TypeOK, PlaceInv, OrderInv, FIFO, InList, Running, Range
<1>7. ExitInv'
  BY DEF TypeOK, HeldInv, PlaceInv, ExitInv, InList, Range, Loose
<1>8. DrainInv'
  BY DEF TypeOK, DrainInv, InList, Exited
<1>9. NoSleepOverBacklog'
  <2>1. Woken' = Woken \cup {w} /\ w \notin Woken
    BY DEF TypeOK, Woken, WorkerPC
  <2>2. IsFiniteSet(Woken) /\ Cardinality(Woken) \in Nat
    BY SubsetFinite DEF Woken
  <2>3. Cardinality(Woken') = Cardinality(Woken) + 1
    BY <2>1, <2>2, FS_AddElement
  <2>4. QED BY <2>2, <2>3 DEF NoSleepOverBacklog, Asleep, TypeOK
<1>10. QED
  BY <1>1, <1>2, <1>3, <1>4, <1>5, <1>6, <1>7, <1>8, <1>9 DEF PoolInv

LEMMA WorkerWaitKeeps == ASSUME PoolInv, NEW w \in Workers, WorkerWait(w) PROVE PoolInv'
<1> USE PoolAssumption DEF Clients, Nodes, PoolInv
<1> USE DEF WorkerWait, queueVars, workerVars, clientVars, mainVars
<1>1. TypeOK'
  BY DEF HeldInv, MutexInv, TypeOK, WorkerPC, CallPC, MainPC
<1>2. HeldInv'
  BY DEF TypeOK, HeldInv, ExitInv
<1>3. MutexInv'
  BY DEF TypeOK, MutexInv
<1>4. CountInv'
  BY DEF TypeOK, CountInv, WaitingAccounting, Claimed
<1>5. PlaceInv'
  BY DEF TypeOK, HeldInv, PlaceInv, OnePlace, Loose, InList, Range, Running
<1>6. OrderInv'
  BY DEF TypeOK, PlaceInv, OrderInv, FIFO, InList, Running, Range
<1>7. ExitInv'
  BY DEF TypeOK, HeldInv, PlaceInv, ExitInv, InList, Range, Loose
<1>8. DrainInv'
  BY DEF TypeOK, DrainInv, InList, Exited
<1>9. NoSleepOverBacklog'
  <2>1. Cardinality(Woken') \in Nat
    BY SubsetFinite DEF Woken
  <2>2. QED BY <2>1 DEF NoSleepOverBacklog
<1>10. QED
  BY <1>1, <1>2, <1>3, <1>4, <1>5, <1>6, <1>7, <1>8, <1>9 DEF PoolInv

LEMMA WorkerRelockKeeps == ASSUME PoolInv, NEW w \in Workers, WorkerRelock(w) PROVE PoolInv'
<1> USE PoolAssumption DEF Clients, Nodes, PoolInv
<1> USE DEF WorkerRelock, queueVars, workerVars, clientVars, mainVars
<1>1. TypeOK'
  BY DEF HeldInv, MutexInv, TypeOK, WorkerPC, CallPC, MainPC
<1>2. HeldInv'
  BY DEF TypeOK, HeldInv, ExitInv
<1>3. MutexInv'
  BY DEF TypeOK, MutexInv
<1>4. CountInv'
  BY DEF TypeOK, CountInv, WaitingAccounting, Claimed
<1>5. PlaceInv'
  BY DEF TypeOK, HeldInv, PlaceInv, OnePlace, Loose, InList, Range, Running
<1>6. OrderInv'
  BY DEF TypeOK, PlaceInv, OrderInv, FIFO, InList, Running, Range
<1>7. ExitInv'
  BY DEF TypeOK, HeldInv, PlaceInv, ExitInv, InList, Range, Loose
<1>8. DrainInv'
  BY DEF TypeOK, DrainInv, InList, Exited
<1>9. NoSleepOverBacklog'
  BY DEF TypeOK, NoSleepOverBacklog, Asleep, Woken
<1>10. QED
  BY <1>1, <1>2, <1>3, <1>4, <1>5, <1>6, <1>7, <1>8, <1>9 DEF PoolInv

LEMMA WorkerTakeKeeps == ASSUME PoolInv, NEW w \in Workers, WorkerTake(w) PROVE PoolInv'
<1> USE PoolAssumption DEF Clients, Nodes, PoolInv
<1> USE DEF WorkerTake, Unlink, queueVars, workerVars, clientVars, mainVars
<1> DEFINE h == Head(queue)
<1>a. /\ Len(queue) \in Nat \ {0} /\ Len(queue') = Len(queue) - 1
      /\ \A i \in 1..Len(queue') : queue'[i] = queue[i + 1]
      /\ InList = InList' \cup {h} /\ h = queue[1]
  BY TailFacts DEF TypeOK, InList
<1>b. /\ Range(task') \subseteq Range(task) \cup {h}
      /\ h \in Nodes /\ task[w] = NoTask
  BY <1>a, HeldInv DEF TypeOK, Range, HeldInv, InList
<1> HIDE DEF h
<1>1. TypeOK'
  BY DEF HeldInv, MutexInv, TypeOK, WorkerPC, CallPC, MainPC
<1>2. HeldInv'
  BY DEF TypeOK, HeldInv, ExitInv
<1>3. MutexInv'
  BY DEF TypeOK, MutexInv
<1>4. CountInv'
  <2>1. Claimed' = Claimed \ {w} /\ w \in Claimed
    BY DEF TypeOK, Claimed, WorkerPC
  <2>2. IsFiniteSet(Claimed) /\ Cardinality(Claimed) \in Nat
    BY SubsetFinite DEF Claimed
  <2>3. Cardinality(Claimed') = Cardinality(Claimed) - 1
    BY <2>1, <2>2, FS_RemoveElement
  <2>4. QED BY <1>a, <2>2, <2>3 DEF CountInv, WaitingAccounting, TypeOK
<1>5. PlaceInv'
  <2>1. h \notin InList' /\ h \notin done
    BY <1>a DEF PlaceInv, OnePlace, InList, Range, TypeOK
  <2>2. task' = [task EXCEPT ![w] = h]
    BY DEF h
  <2>3. OnePlace'
    BY <1>a, <1>b, <2>1, <2>2 DEF PlaceInv, OnePlace, TypeOK, InList
  <2>4. \A c \in Clients : call[c] # "unlock"
    BY DEF MutexInv, TypeOK
  <2>5. QED BY <1>a, <1>b, <2>1, <2>3, <2>4 DEF PlaceInv, Loose
<1>6. OrderInv'
  <2>1. Running' \subseteq Running \cup {h}
    BY <1>b DEF Running
  <2>2. \A i \in 1..Len(queue') : id[h] < id[queue'[i]]
    BY <1>a DEF OrderInv, FIFO
  <2>3. QED BY <1>a, <2>1, <2>2 DEF OrderInv, FIFO
<1>7. ExitInv'
  <2>1. ExitTask \notin Range(task) /\ ExitTask \in Range(task') => h = ExitTask
    BY <1>b
  <2>2. h = ExitTask => Len(queue) = 1
    <3>1. 1 \in 1..Len(queue)
      BY <1>a
    <3>2. QED BY <1>a, <3>1 DEF ExitInv
  <2>3. Len(queue') = 0 => queue' = <<>>
    BY <1>a, EmptySeq DEF TypeOK
  <2>4. ExitTask \notin Range(task)
    BY DEF ExitInv
  <2>5. ExitTask \in Range(task') => queue' = <<>>
    BY <1>a, <2>1, <2>2, <2>3, <2>4
  <2>6. mpc \notin {"post", "spin"} \/ lock = 0 =>
          ExitTask \notin InList' \cup Range(task')
    BY <1>a, <1>b DEF ExitInv
  <2>7. \A i \in 1..Len(queue') : queue'[i] = ExitTask => i = Len(queue')
    <3> SUFFICES ASSUME NEW i \in 1..Len(queue'), queue'[i] = ExitTask
                 PROVE  i = Len(queue')
      OBVIOUS
    <3>1. i + 1 \in 1..Len(queue) /\ queue[i + 1] = ExitTask
      BY <1>a
    <3>2. i + 1 = Len(queue)
      BY <3>1 DEF ExitInv
    <3>3. i \in Int /\ Len(queue) \in Int /\ Len(queue') = Len(queue) - 1
      BY <1>a
    <3> HIDE DEF WorkerTake, Unlink
    <3>4. QED BY <3>2, <3>3
  <2>8. QED BY <2>5, <2>6, <2>7 DEF ExitInv
<1>8. DrainInv'
  <2>1. Exited' = Exited
    BY DEF Exited, TypeOK
  <2>2. QED BY <1>a, <2>1 DEF DrainInv
<1>9. NoSleepOverBacklog'
  <2>1. Woken' = Woken \ {w} /\ w \in Woken
    BY DEF TypeOK, Woken, WorkerPC
  <2>2. IsFiniteSet(Woken) /\ Cardinality(Woken) \in Nat
    BY SubsetFinite DEF Woken
  <2>3. Cardinality(Woken') = Cardinality(Woken) - 1
    BY <2>1, <2>2, FS_RemoveElement
  <2>4. QED BY <1>a, <2>2, <2>3 DEF NoSleepOverBacklog, Asleep, TypeOK
<1>10. QED
  BY <1>1, <1>2, <1>3, <1>4, <1>5, <1>6, <1>7, <1>8, <1>9 DEF PoolInv

LEMMA WorkerUnlockKeeps == ASSUME PoolInv, NEW w \in Workers, WorkerUnlock(w) PROVE PoolInv'
<1> USE PoolAssumption DEF Clients, Nodes, PoolInv
<1> USE DEF WorkerUnlock, queueVars, workerVars, clientVars, mainVars
<1>1. TypeOK'
  BY DEF HeldInv, MutexInv, TypeOK, WorkerPC, CallPC, MainPC
<1>2. HeldInv'
  BY DEF TypeOK, HeldInv, ExitInv
<1>3. MutexInv'
  BY DEF TypeOK, MutexInv
<1>4. CountInv'
  BY DEF TypeOK, CountInv, WaitingAccounting, Claimed
<1>5. PlaceInv'
  BY DEF TypeOK, HeldInv, PlaceInv, OnePlace, Loose, InList, Range, Running
<1>6. OrderInv'
  BY DEF TypeOK, PlaceInv, OrderInv, FIFO, InList, Running, Range
<1>7. ExitInv'
  BY DEF TypeOK, HeldInv, PlaceInv, ExitInv, InList, Range, Loose
<1>8. DrainInv'
  BY DEF TypeOK, DrainInv, InList, Exited
<1>9. NoSleepOverBacklog'
  BY DEF TypeOK, NoSleepOverBacklog, Asleep, Woken
<1>10. QED
  BY <1>1, <1>2, <1>3, <1>4, <1>5, <1>6, <1>7, <1>8, <1>9 DEF PoolInv

LEMMA RunTaskKeeps == ASSUME PoolInv, NEW w \in Workers, RunTask(w) PROVE PoolInv'
<1> USE PoolAssumption DEF Clients, Nodes, PoolInv
<1> USE DEF RunTask, queueVars, workerVars, clientVars, mainVars
<1>1. TypeOK'
  BY DEF HeldInv, MutexInv, TypeOK, WorkerPC, CallPC, MainPC
<1>2. HeldInv'
  BY DEF TypeOK, HeldInv, ExitInv
<1>3. MutexInv'
  BY DEF TypeOK, MutexInv
<1>4. CountInv'
  BY DEF TypeOK, CountInv, WaitingAccounting, Claimed
<1>5. PlaceInv'
  BY DEF TypeOK, HeldInv, PlaceInv, OnePlace, Loose, InList, Range, Running
<1>6. OrderInv'
  <2>1. Running' \cup done' \subseteq Running \cup done
    BY DEF Running, Range, TypeOK, HeldInv
  <2>2. QED BY <2>1 DEF OrderInv, FIFO, InList, Range
<1>7. ExitInv'
  BY DEF TypeOK, HeldInv, PlaceInv, ExitInv, InList, Range, Loose
<1>8. DrainInv'
  BY DEF TypeOK, DrainInv, InList, Exited
<1>9. NoSleepOverBacklog'
  BY DEF TypeOK, NoSleepOverBacklog, Asleep, Woken
<1>10. QED
  BY <1>1, <1>2, <1>3, <1>4, <1>5, <1>6, <1>7, <1>8, <1>9 DEF PoolInv

LEMMA RunExitKeeps == ASSUME PoolInv, NEW w \in Workers, RunExit(w) PROVE PoolInv'
<1> USE PoolAssumption DEF Clients, Nodes, PoolInv
<1> USE DEF RunExit, queueVars, workerVars, clientVars, mainVars
<1>a. mpc = "spin" /\ lock = 1 /\ queue = <<>>
  <2>1. ExitTask \in Range(task)
    BY DEF Range, TypeOK
  <2>2. mpc \in {"post", "spin"} /\ lock = 1 /\ queue = <<>>
    BY <2>1 DEF ExitInv, TypeOK
  <2>3. ASSUME mpc = "post" PROVE FALSE
    <3>1. arg[Main] = ExitTask /\ call[Main] \in {"lock", "check", "unlock"}
      BY <2>3 DEF ExitInv, HeldInv, TypeOK, CallPC
    <3>2. QED BY <2>1, <2>2, <3>1 DEF PlaceInv, Loose, InList, Range
  <2>4. QED BY <2>2, <2>3
<1>1. TypeOK'
  BY DEF HeldInv, MutexInv, TypeOK, WorkerPC, CallPC, MainPC
<1>2. HeldInv'
  BY DEF TypeOK, HeldInv, ExitInv
<1>3. MutexInv'
  BY DEF TypeOK, MutexInv
<1>4. CountInv'
  BY DEF TypeOK, CountInv, WaitingAccounting, Claimed
<1>5. PlaceInv'
  BY DEF TypeOK, HeldInv, PlaceInv, OnePlace, Loose, InList, Range, Running
<1>6. OrderInv'
  <2>1. Running' \subseteq Running
    BY DEF Running, Range, TypeOK
  <2>2. QED BY <2>1 DEF OrderInv, FIFO, InList
<1>7. ExitInv'
  <2>1. ExitTask \notin Range(task')
    BY DEF PlaceInv, OnePlace, Range, TypeOK
  <2>2. ExitTask \notin InList'
    BY <1>a DEF InList, Range
  <2>3. QED BY <1>a, <2>1, <2>2 DEF ExitInv
<1>8. DrainInv'
  <2>1. Exited' = Exited \cup {w} /\ w \notin Exited
    BY DEF TypeOK, Exited, WorkerPC
  <2>2. IsFiniteSet(Exited) /\ Cardinality(Exited) \in Nat
    BY SubsetFinite DEF Exited
  <2>3. Cardinality(Exited') = Cardinality(Exited) + 1
    BY <2>1, <2>2, FS_AddElement
  <2>4. QED BY <1>a, <2>2, <2>3 DEF DrainInv, InList, TypeOK
<1>9. NoSleepOverBacklog'
  BY DEF TypeOK, NoSleepOverBacklog, Asleep, Woken
<1>10. QED
  BY <1>1, <1>2, <1>3, <1>4, <1>5, <1>6, <1>7, <1>8, <1>9 DEF PoolInv

LEMMA PosterDoneKeeps == ASSUME PoolInv, NEW p \in Posters, PosterDone(p) PROVE PoolInv'
<1> USE PoolAssumption DEF Clients, Nodes, PoolInv
<1> USE DEF PosterDone, queueVars, workerVars, clientVars, mainVars
<1>1. TypeOK'
  BY DEF HeldInv, MutexInv, TypeOK, WorkerPC, CallPC, MainPC
<1>2. HeldInv'
  BY DEF TypeOK, HeldInv, ExitInv
<1>3. MutexInv'
  BY DEF TypeOK, MutexInv
<1>4. CountInv'
  BY DEF TypeOK, CountInv, WaitingAccounting, Claimed
<1>5. PlaceInv'
  BY DEF TypeOK, HeldInv, PlaceInv, OnePlace, Loose, InList, Range, Running
<1>6. OrderInv'
  BY DEF TypeOK, PlaceInv, OrderInv, FIFO, InList, Running, Range
<1>7. ExitInv'
  BY DEF TypeOK, HeldInv, PlaceInv, ExitInv, InList, Range, Loose
<1>8. DrainInv'
  BY DEF TypeOK, DrainInv, InList, Exited
<1>9. NoSleepOverBacklog'
  BY DEF TypeOK, NoSleepOverBacklog, Asleep, Woken
<1>10. QED
  BY <1>1, <1>2, <1>3, <1>4, <1>5, <1>6, <1>7, <1>8, <1>9 DEF PoolInv

LEMMA PostCallKeeps == ASSUME PoolInv, NEW p \in Posters, NEW t \in Tasks, PostCall(p, t) PROVE PoolInv'
<1> USE PoolAssumption DEF Clients, Nodes, PoolInv
<1> USE DEF PostCall, queueVars, workerVars, clientVars, mainVars
<1>1. TypeOK'
  BY DEF HeldInv, MutexInv, TypeOK, WorkerPC, CallPC, MainPC
<1>2. HeldInv'
  BY DEF TypeOK, HeldInv, ExitInv
<1>3. MutexInv'
  BY DEF TypeOK, MutexInv
<1>4. CountInv'
  BY DEF TypeOK, CountInv, WaitingAccounting, Claimed
<1>5. PlaceInv'
  BY DEF TypeOK, HeldInv, PlaceInv, OnePlace, Loose, InList, Range, Running, Used
<1>6. OrderInv'
  <2>1. UNCHANGED <<InList, Running>>
    BY DEF InList, Running
  <2>2. QED BY <2>1 DEF OrderInv, FIFO
<1>7. ExitInv'
  BY DEF TypeOK, HeldInv, PlaceInv, ExitInv, InList, Range, Loose
<1>8. DrainInv'
  BY DEF TypeOK, DrainInv, InList, Exited
<1>9. NoSleepOverBacklog'
  BY DEF TypeOK, NoSleepOverBacklog, Asleep, Woken
<1>10. QED
  BY <1>1, <1>2, <1>3, <1>4, <1>5, <1>6, <1>7, <1>8, <1>9 DEF PoolInv

LEMMA PostLockKeeps == ASSUME PoolInv, NEW c \in Clients, PostLock(c) PROVE PoolInv'
<1> USE PoolAssumption DEF Clients, Nodes, PoolInv
<1> USE DEF PostLock, queueVars, workerVars, clientVars, mainVars
<1>1. TypeOK'
  BY DEF HeldInv, MutexInv, TypeOK, WorkerPC, CallPC, MainPC
<1>2. HeldInv'
  BY DEF TypeOK, HeldInv, ExitInv
<1>3. MutexInv'
  BY DEF TypeOK, MutexInv
<1>4. CountInv'
  BY DEF TypeOK, CountInv, WaitingAccounting, Claimed
<1>5. PlaceInv'
  BY DEF TypeOK, HeldInv, PlaceInv, OnePlace, Loose, InList, Range, Running
<1>6. OrderInv'
  BY DEF TypeOK, PlaceInv, OrderInv, FIFO, InList, Running, Range
<1>7. ExitInv'
  BY DEF TypeOK, HeldInv, PlaceInv, ExitInv, InList, Range, Loose
<1>8. DrainInv'
  BY DEF TypeOK, DrainInv, InList, Exited
<1>9. NoSleepOverBacklog'
  BY DEF TypeOK, NoSleepOverBacklog, Asleep, Woken
<1>10. QED
  BY <1>1, <1>2, <1>3, <1>4, <1>5, <1>6, <1>7, <1>8, <1>9 DEF PoolInv

LEMMA PostOverflowKeeps == ASSUME PoolInv, NEW c \in Clients, PostOverflow(c) PROVE PoolInv'
<1> USE PoolAssumption DEF Clients, Nodes, PoolInv
<1> USE DEF PostOverflow, Full, queueVars, workerVars, clientVars, mainVars
<1>1. TypeOK'
  BY DEF HeldInv, MutexInv, TypeOK, WorkerPC, CallPC, MainPC
<1>2. HeldInv'
  BY DEF TypeOK, HeldInv, ExitInv
<1>3. MutexInv'
  BY DEF TypeOK, MutexInv
<1>4. CountInv'
  BY DEF TypeOK, CountInv, WaitingAccounting, Claimed
<1>5. PlaceInv'
  BY DEF TypeOK, HeldInv, PlaceInv, OnePlace, Loose, InList, Range, Running
<1>6. OrderInv'
  BY DEF TypeOK, PlaceInv, OrderInv, FIFO, InList, Running, Range
<1>7. ExitInv'
  BY DEF TypeOK, HeldInv, PlaceInv, ExitInv, InList, Range, Loose
<1>8. DrainInv'
  <2>1. ASSUME c = Main PROVE n = 0 /\ Exited = {}
    <3>1. mpc = "post" /\ lock = 1 /\ arg[c] = ExitTask /\ ExitTask \notin InList
      BY <2>1 DEF ExitInv, HeldInv, PlaceInv, Loose, TypeOK
    <3>2. IsFiniteSet(Claimed) /\ Cardinality(Claimed) \in Nat
      BY SubsetFinite DEF Claimed
    <3>3. queue # <<>>
      BY <3>2 DEF CountInv, WaitingAccounting, Full
    <3>4. n = 0
      <4>1. queue[1] \in InList
        BY <3>3, EmptySeq, LenProperties DEF InList, Range, TypeOK
      <4>2. QED BY <3>1, <4>1 DEF DrainInv, TypeOK
    <3>5. IsFiniteSet(Exited) /\ Cardinality(Exited) = 0
      BY <3>1, <3>4, SubsetFinite DEF DrainInv, Exited
    <3>6. QED BY <3>4, <3>5, FS_EmptySet
  <2>2. UNCHANGED <<Exited, InList>>
    BY DEF Exited, InList
  <2>3. mpc' \in {mpc, "aborted"} /\ UNCHANGED <<n, lock, queue>>
    OBVIOUS
  <2>4. CASE c = Main
    BY <2>1, <2>2, <2>4 DEF DrainInv
  <2>5. CASE c # Main
    BY <2>2, <2>5 DEF DrainInv
  <2>6. QED BY <2>4, <2>5
<1>9. NoSleepOverBacklog'
  BY DEF TypeOK, NoSleepOverBacklog, Asleep, Woken
<1>10. QED
  BY <1>1, <1>2, <1>3, <1>4, <1>5, <1>6, <1>7, <1>8, <1>9 DEF PoolInv

LEMMA PostEnqueueKeeps == ASSUME PoolInv, NEW c \in Clients, PostEnqueue(c) PROVE PoolInv'
<1> USE PoolAssumption DEF Clients, Nodes, PoolInv
<1> USE DEF PostEnqueue, Full, SignalOne, Link, queueVars, workerVars, clientVars, mainVars
<1>a. /\ wpc' \in [Workers -> WorkerPC]
      /\ \A w \in Workers : \/ wpc'[w] = wpc[w]
                            \/ wpc[w] = "asleep" /\ wpc'[w] = "relock"
  <2>1. CASE Asleep = {}
    BY <2>1 DEF SignalOne, TypeOK
  <2>2. CASE Asleep # {}
    <3>1. PICK v \in Asleep : wpc' = [wpc EXCEPT ![v] = "relock"]
      BY <2>2 DEF SignalOne
    <3>2. QED BY <3>1 DEF Asleep, TypeOK, WorkerPC
  <2>3. QED BY <2>1, <2>2
<1>b. UNCHANGED <<Claimed, Exited>>
  BY <1>a DEF Claimed, Exited, TypeOK
<1>c. arg[c] \in Nodes /\ Loose(arg[c]) /\ mtx = c
  BY DEF TypeOK, HeldInv, PlaceInv, MutexInv
<1>d. /\ Len(queue) \in Nat /\ Len(queue') = Len(queue) + 1
      /\ queue'[Len(queue) + 1] = arg[c]
      /\ \A i \in 1..Len(queue) : queue'[i] = queue[i]
      /\ InList' = InList \cup {arg[c]}
  BY <1>c, AppendFacts DEF TypeOK, Link, InList
<1>e. c # Main => mpc = "ready"
  BY DEF ExitInv, TypeOK, MainPC
<1> HIDE DEF SignalOne, Link
<1>1. TypeOK'
  BY <1>a, <1>c DEF TypeOK, Link, CallPC
<1>2. HeldInv'
  BY <1>a DEF TypeOK, HeldInv
<1>3. MutexInv'
  BY <1>a DEF TypeOK, MutexInv
<1>4. CountInv'
  <2>1. Cardinality(Claimed) \in Nat
    BY SubsetFinite DEF Claimed
  <2>2. QED BY <1>b, <1>d, <2>1 DEF CountInv, WaitingAccounting, TypeOK, Full
<1>5. PlaceInv'
  <2>1. OnePlace'
    <3>1. \A i, j \in 1..Len(queue') : queue'[i] = queue'[j] => i = j
      <4>1. \A i \in 1..Len(queue) : queue[i] # arg[c]
        BY <1>c DEF Loose, InList, Range, TypeOK
      <4>2. \A i \in 1..Len(queue') : i = Len(queue) + 1 \/ i \in 1..Len(queue)
        BY <1>d
      <4>3. QED BY <1>d, <4>1, <4>2 DEF PlaceInv, OnePlace
    <3>2. \A w \in Workers : task[w] \notin InList' \cup done
      BY <1>c, <1>d DEF PlaceInv, OnePlace, Loose, Range, TypeOK, InList
    <3>3. InList' \cap done = {}
      BY <1>c, <1>d DEF PlaceInv, OnePlace, Loose, InList
    <3>4. QED BY <3>1, <3>2, <3>3 DEF PlaceInv, OnePlace, InList
  <2>2. \A d \in Clients : d # c => arg[d] # arg[c]
    BY <1>c DEF PlaceInv
  <2>3. \A d \in Clients \ {c} : call'[d] = call[d]
    BY DEF TypeOK
  <2>4. call'[c] = "unlock"
    BY DEF TypeOK
  <2>5. QED BY <1>c, <1>d, <2>1, <2>2, <2>3, <2>4 DEF PlaceInv, Loose
<1>6. OrderInv'
  <2>1. arg[c] \notin InList \cup Running \cup done
    BY <1>c DEF Loose, Running
  <2>2. \A t \in InList \cup Running \cup done : id'[t] = id[t]
    BY <2>1, <1>c DEF TypeOK
  <2>3. id'[arg[c]] = nextId /\ nextId' = nextId + 1
    BY <1>c DEF TypeOK
  <2>4. UNCHANGED <<Running, done>>
    BY DEF Running
  <2>5. \A i \in 1..Len(queue) : queue[i] \in InList
    BY DEF InList, Range, TypeOK
  <2>6. \A t \in InList \cup Running \cup done : id[t] \in Nat /\ id[t] < nextId
    BY DEF OrderInv, InList, Running, Range, TypeOK
  <2>7. FIFO'
    <3>1. \A i \in 1..Len(queue') : i = Len(queue) + 1 \/ i \in 1..Len(queue)
      BY <1>d
    <3>2. \A i \in 1..Len(queue) : id'[queue'[i]] = id[queue[i]] /\ id[queue[i]] < nextId
      BY <1>d, <2>2, <2>5, <2>6
    <3>3. id'[queue'[Len(queue) + 1]] = nextId
      BY <1>d, <2>3
    <3>4. \A i, j \in 1..Len(queue') : i < j => id'[queue'[i]] < id'[queue'[j]]
      <4> SUFFICES ASSUME NEW i \in 1..Len(queue'), NEW j \in 1..Len(queue'), i < j
                   PROVE  id'[queue'[i]] < id'[queue'[j]]
        OBVIOUS
      <4>1. i \in 1..Len(queue)
        BY <1>d
      <4>2. CASE j \in 1..Len(queue)
        BY <3>2, <4>1, <4>2 DEF OrderInv, FIFO
      <4>3. CASE j = Len(queue) + 1
        BY <3>2, <3>3, <4>1, <4>3
      <4>4. QED BY <3>1, <4>2, <4>3
    <3>5. \A i \in 1..Len(queue') : \A t \in Running \cup done : id'[t] < id'[queue'[i]]
      BY <2>2, <2>6, <3>1, <3>2, <3>3 DEF OrderInv, FIFO
    <3>6. QED BY <2>4, <3>4, <3>5 DEF FIFO
  <2>8. QED BY <1>d, <2>2, <2>3, <2>4, <2>6, <2>7 DEF OrderInv, TypeOK
<1>7. ExitInv'
  <2>1. c # Main => arg[c] # ExitTask
    BY DEF HeldInv
  <2>2. call'[Main] # "out" <=> call[Main] # "out"
    BY DEF TypeOK
  <2>3. \A p \in Posters : call[p] \in {"out", "done"} => call'[p] = call[p]
    BY DEF TypeOK
  <2>4. c = Main => mpc = "post" /\ lock = 1
    BY DEF ExitInv
  <2>5. \A i \in 1..Len(queue) : queue[i] \in InList
    BY DEF InList, Range, TypeOK
  <2>6. \A i \in 1..Len(queue') : queue'[i] = ExitTask => i = Len(queue')
    <3>1. ExitTask \notin InList
      BY <1>c, <1>e, <2>4 DEF ExitInv, Loose, HeldInv, TypeOK
    <3>2. \A i \in 1..Len(queue') : i = Len(queue) + 1 \/ i \in 1..Len(queue)
      BY <1>d
    <3>3. QED BY <1>d, <2>5, <3>1, <3>2
  <2>7. ExitTask \notin Range(task)
    BY <1>c, <1>e, <2>4 DEF ExitInv, Loose, HeldInv, TypeOK
  <2>8. QED BY <1>d, <1>e, <2>1, <2>2, <2>3, <2>4, <2>6, <2>7 DEF ExitInv
<1>8. DrainInv'
  <2>1. c = Main => mpc = "post" /\ lock = 1 /\ arg[c] = ExitTask
    BY <1>c DEF ExitInv, HeldInv, TypeOK
  <2>2. QED BY <1>b, <1>d, <1>e, <2>1 DEF DrainInv
<1>9. NoSleepOverBacklog'
  <2>1. CASE Asleep = {}
    <3>1. Asleep' = {}
      BY <2>1, <1>a DEF Asleep
    <3>2. QED BY <3>1 DEF NoSleepOverBacklog
  <2>2. CASE Asleep # {}
    <3>1. PICK w \in Asleep : wpc' = [wpc EXCEPT ![w] = "relock"]
      BY <2>2 DEF SignalOne
    <3>2. Woken' = Woken \cup {w} /\ w \notin Woken
      BY <3>1 DEF Woken, Asleep, TypeOK
    <3>3. IsFiniteSet(Woken) /\ Cardinality(Woken) \in Nat
      BY SubsetFinite DEF Woken
    <3>4. Cardinality(Woken') = Cardinality(Woken) + 1
      BY <3>2, <3>3, FS_AddElement
    <3>5. QED BY <1>d, <2>2, <3>3, <3>4 DEF NoSleepOverBacklog
  <2>3. QED BY <2>1, <2>2
<1>10. QED
  BY <1>1, <1>2, <1>3, <1>4, <1>5, <1>6, <1>7, <1>8, <1>9 DEF PoolInv

LEMMA PostUnlockKeeps == ASSUME PoolInv, NEW c \in Clients, PostUnlock(c) PROVE PoolInv'
<1> USE PoolAssumption DEF Clients, Nodes, PoolInv
<1> USE DEF PostUnlock, queueVars, workerVars, clientVars, mainVars
<1>1. TypeOK'
  BY DEF HeldInv, MutexInv, TypeOK, WorkerPC, CallPC, MainPC
<1>2. HeldInv'
  BY DEF TypeOK, HeldInv, ExitInv
<1>3. MutexInv'
  BY DEF TypeOK, MutexInv
<1>4. CountInv'
  BY DEF TypeOK, CountInv, WaitingAccounting, Claimed
<1>5. PlaceInv'
  BY DEF TypeOK, HeldInv, PlaceInv, OnePlace, Loose, InList, Range, Running
<1>6. OrderInv'
  BY DEF TypeOK, PlaceInv, OrderInv, FIFO, InList, Running, Range
<1>7. ExitInv'
  BY DEF TypeOK, HeldInv, PlaceInv, ExitInv, InList, Range, Loose
<1>8. DrainInv'
  <2>1. UNCHANGED <<Exited, InList>>
    BY DEF Exited, InList
  <2>2. c = Main => mpc = "post" /\ lock = 1
    BY DEF ExitInv
  <2>3. CASE c = Main
    BY <2>1, <2>2, <2>3 DEF DrainInv
  <2>4. CASE c # Main
    BY <2>1, <2>4 DEF DrainInv
  <2>5. QED BY <2>3, <2>4
<1>9. NoSleepOverBacklog'
  BY DEF TypeOK, NoSleepOverBacklog, Asleep, Woken
<1>10. QED
  BY <1>1, <1>2, <1>3, <1>4, <1>5, <1>6, <1>7, <1>8, <1>9 DEF PoolInv

LEMMA InitFailsKeeps == ASSUME PoolInv, InitFails PROVE PoolInv'
<1> USE PoolAssumption DEF Clients, Nodes, PoolInv
<1> USE DEF InitFails, queueVars, workerVars, clientVars, mainVars
<1>1. TypeOK'
  BY DEF HeldInv, MutexInv, TypeOK, WorkerPC, CallPC, MainPC
<1>2. HeldInv'
  BY DEF TypeOK, HeldInv, ExitInv
<1>3. MutexInv'
  BY DEF TypeOK, MutexInv
<1>4. CountInv'
  BY DEF TypeOK, CountInv, WaitingAccounting, Claimed
<1>5. PlaceInv'
  BY DEF TypeOK, HeldInv, PlaceInv, OnePlace, Loose, InList, Range, Running
<1>6. OrderInv'
  BY DEF TypeOK, PlaceInv, OrderInv, FIFO, InList, Running, Range
<1>7. ExitInv'
  BY DEF TypeOK, HeldInv, PlaceInv, ExitInv, InList, Range, Loose
<1>8. DrainInv'
  BY DEF TypeOK, DrainInv, InList, Exited
<1>9. NoSleepOverBacklog'
  BY DEF TypeOK, NoSleepOverBacklog, Asleep, Woken
<1>10. QED
  BY <1>1, <1>2, <1>3, <1>4, <1>5, <1>6, <1>7, <1>8, <1>9 DEF PoolInv

LEMMA DestroyCallKeeps == ASSUME PoolInv, DestroyCall PROVE PoolInv'
<1> USE PoolAssumption DEF Clients, Nodes, PoolInv
<1> USE DEF DestroyCall, PostExit, queueVars, workerVars, clientVars, mainVars
<1>a. ExitTask \notin InList /\ ExitTask \notin Range(task) /\ ExitTask \notin done
  BY DEF ExitInv, TypeOK
<1>b. call[Main] = "out"
  BY DEF ExitInv
<1>1. TypeOK'
  BY DEF HeldInv, MutexInv, TypeOK, WorkerPC, CallPC, MainPC
<1>2. HeldInv'
  BY DEF TypeOK, HeldInv, ExitInv
<1>3. MutexInv'
  BY DEF TypeOK, MutexInv, ExitInv
<1>4. CountInv'
  BY DEF TypeOK, CountInv, WaitingAccounting, Claimed
<1>5. PlaceInv'
  <2>1. OnePlace'
    BY DEF PlaceInv, OnePlace
  <2>2. UNCHANGED <<InList, Range(task), done>>
    BY DEF InList
  <2>3. \A c \in Posters : call'[c] = call[c] /\ arg'[c] = arg[c]
    BY DEF TypeOK
  <2>4. \A c \in Posters : arg[c] # ExitTask
    BY DEF HeldInv
  <2>5. call'[Main] = "lock" /\ arg'[Main] = ExitTask
    BY DEF TypeOK
  <2>6. QED BY <1>a, <2>1, <2>2, <2>3, <2>4, <2>5 DEF PlaceInv, Loose
<1>6. OrderInv'
  BY DEF TypeOK, PlaceInv, OrderInv, FIFO, InList, Running, Range
<1>7. ExitInv'
  BY DEF TypeOK, HeldInv, PlaceInv, ExitInv, InList, Range, Loose
<1>8. DrainInv'
  <2>1. UNCHANGED <<Exited, InList>>
    BY DEF Exited, InList
  <2>2. Cardinality(Workers) \in Nat \ {0} /\ Cardinality({}) = 0
    BY SubsetFinite, FS_EmptySet
  <2>3. Exited = {}
    BY DEF DrainInv
  <2>4. mpc' = "post" /\ lock' = 1 /\ n' = 0
    OBVIOUS
  <2>5. QED BY <2>1, <2>2, <2>3, <2>4 DEF DrainInv
<1>9. NoSleepOverBacklog'
  BY DEF TypeOK, NoSleepOverBacklog, Asleep, Woken
<1>10. QED
  BY <1>1, <1>2, <1>3, <1>4, <1>5, <1>6, <1>7, <1>8, <1>9 DEF PoolInv

LEMMA DestroyNextKeeps == ASSUME PoolInv, DestroyNext PROVE PoolInv'
<1> USE PoolAssumption DEF Clients, Nodes, PoolInv
<1> USE DEF DestroyNext, PostExit, SpinOver, MoreRounds, queueVars, workerVars, clientVars, mainVars
<1>a. ExitTask \notin InList /\ ExitTask \notin Range(task) /\ ExitTask \notin done
  BY DEF ExitInv, TypeOK
<1>b. call[Main] = "out"
  BY DEF ExitInv
<1>1. TypeOK'
  BY DEF HeldInv, MutexInv, TypeOK, WorkerPC, CallPC, MainPC
<1>2. HeldInv'
  BY DEF TypeOK, HeldInv, ExitInv
<1>3. MutexInv'
  BY DEF TypeOK, MutexInv, ExitInv
<1>4. CountInv'
  BY DEF TypeOK, CountInv, WaitingAccounting, Claimed
<1>5. PlaceInv'
  <2>1. OnePlace'
    BY DEF PlaceInv, OnePlace
  <2>2. UNCHANGED <<InList, Range(task), done>>
    BY DEF InList
  <2>3. \A c \in Posters : call'[c] = call[c] /\ arg'[c] = arg[c]
    BY DEF TypeOK
  <2>4. \A c \in Posters : arg[c] # ExitTask
    BY DEF HeldInv
  <2>5. \/ call'[Main] = "lock" /\ arg'[Main] = ExitTask
        \/ UNCHANGED <<call, arg>>
    BY DEF TypeOK
  <2>6. QED BY <1>a, <2>1, <2>2, <2>3, <2>4, <2>5 DEF PlaceInv, Loose
<1>6. OrderInv'
  BY DEF TypeOK, PlaceInv, OrderInv, FIFO, InList, Running, Range
<1>7. ExitInv'
  BY DEF TypeOK, HeldInv, PlaceInv, ExitInv, InList, Range, Loose
<1>8. DrainInv'
  <2>1. UNCHANGED <<Exited, InList>>
    BY DEF Exited, InList
  <2>2. Cardinality(Workers) \in Nat
    BY SubsetFinite
  <2>3. Cardinality(Exited) = n + 1 /\ n + 1 <= Cardinality(Workers) /\ queue = <<>>
    BY <2>2 DEF DrainInv, TypeOK
  <2>4. CASE MoreRounds
    BY <2>1, <2>3, <2>4 DEF DrainInv, InList, Range, TypeOK
  <2>5. CASE ~MoreRounds
    <3>1. Exited = Workers
      BY <2>2, <2>3, <2>5, FS_Subset DEF Exited, TypeOK
    <3>2. QED BY <2>1, <2>3, <2>5, <3>1 DEF DrainInv, InList, Range, TypeOK
  <2>6. QED BY <2>4, <2>5
<1>9. NoSleepOverBacklog'
  BY DEF TypeOK, NoSleepOverBacklog, Asleep, Woken
<1>10. QED
  BY <1>1, <1>2, <1>3, <1>4, <1>5, <1>6, <1>7, <1>8, <1>9 DEF PoolInv

LEMMA TeardownKeeps == ASSUME PoolInv, Teardown PROVE PoolInv'
<1> USE PoolAssumption DEF Clients, Nodes, PoolInv
<1> USE DEF Teardown, queueVars, workerVars, clientVars, mainVars
<1>1. TypeOK'
  BY DEF HeldInv, MutexInv, TypeOK, WorkerPC, CallPC, MainPC
<1>2. HeldInv'
  BY DEF TypeOK, HeldInv, ExitInv
<1>3. MutexInv'
  BY DEF TypeOK, MutexInv
<1>4. CountInv'
  BY DEF TypeOK, CountInv, WaitingAccounting, Claimed
<1>5. PlaceInv'
  BY DEF TypeOK, HeldInv, PlaceInv, OnePlace, Loose, InList, Range, Running
<1>6. OrderInv'
  BY DEF TypeOK, PlaceInv, OrderInv, FIFO, InList, Running, Range
<1>7. ExitInv'
  BY DEF TypeOK, HeldInv, PlaceInv, ExitInv, InList, Range, Loose
<1>8. DrainInv'
  BY DEF TypeOK, DrainInv, InList, Exited
<1>9. NoSleepOverBacklog'
  BY DEF TypeOK, NoSleepOverBacklog, Asleep, Woken
<1>10. QED
  BY <1>1, <1>2, <1>3, <1>4, <1>5, <1>6, <1>7, <1>8, <1>9 DEF PoolInv

LEMMA FinishedKeeps == ASSUME PoolInv, Finished PROVE PoolInv'
<1> USE PoolAssumption DEF Clients, Nodes, PoolInv
<1> USE DEF Finished, queueVars, workerVars, clientVars, mainVars, vars
<1>1. TypeOK'
  BY DEF HeldInv, MutexInv, TypeOK, WorkerPC, CallPC, MainPC
<1>2. HeldInv'
  BY DEF TypeOK, HeldInv, ExitInv
<1>3. MutexInv'
  BY DEF TypeOK, MutexInv
<1>4. CountInv'
  BY DEF TypeOK, CountInv, WaitingAccounting, Claimed
<1>5. PlaceInv'
  BY DEF TypeOK, HeldInv, PlaceInv, OnePlace, Loose, InList, Range, Running
<1>6. OrderInv'
  BY DEF TypeOK, PlaceInv, OrderInv, FIFO, InList, Running, Range
<1>7. ExitInv'
  BY DEF TypeOK, HeldInv, PlaceInv, ExitInv, InList, Range, Loose
<1>8. DrainInv'
  BY DEF TypeOK, DrainInv, InList, Exited
<1>9. NoSleepOverBacklog'
  BY DEF TypeOK, NoSleepOverBacklog, Asleep, Woken
<1>10. QED
  BY <1>1, <1>2, <1>3, <1>4, <1>5, <1>6, <1>7, <1>8, <1>9 DEF PoolInv

\* PoolInv holds in every reachable state of the pool.
THEOREM PoolInvariant == Spec => []PoolInv
<1>1. Init => PoolInv
  <2> SUFFICES ASSUME Init PROVE PoolInv
    OBVIOUS
  <2> USE PoolAssumption DEF Init, Clients, Nodes
  <2>1. Range(queue) = {} /\ Len(queue) = 0 /\ \A t \in Nodes : t \notin Range(task)
    BY DEF Range
  <2>2. Claimed = {} /\ Asleep = {} /\ Exited = {} /\ Running = {}
    BY DEF Claimed, Asleep, Exited, Running, Range
  <2>3. TypeOK
    BY DEF TypeOK, WorkerPC, CallPC, MainPC
  <2>4. CountInv
    BY <2>1, <2>2, FS_EmptySet DEF CountInv, WaitingAccounting
  <2>5. HeldInv /\ MutexInv
    BY DEF HeldInv, MutexInv
  <2>6. PlaceInv
    BY <2>1 DEF PlaceInv, OnePlace, Loose
  <2>7. OrderInv
    BY <2>1, <2>2 DEF OrderInv, FIFO, InList
  <2>8. ExitInv
    BY <2>1 DEF ExitInv, InList
  <2>9. DrainInv
    BY <2>2 DEF DrainInv
  <2>10. NoSleepOverBacklog
    BY <2>2 DEF NoSleepOverBacklog
  <2>11. QED
    BY <2>3, <2>4, <2>5, <2>6, <2>7, <2>8, <2>9, <2>10 DEF PoolInv
<1>2. PoolInv /\ [Next]_vars => PoolInv'
  <2> SUFFICES ASSUME PoolInv, [Next]_vars PROVE PoolInv'
    OBVIOUS
  <2>1. CASE UNCHANGED vars
    BY <2>1 DEF vars, queueVars, workerVars, clientVars, mainVars, PoolInv,
      TypeOK, HeldInv, MutexInv, CountInv, WaitingAccounting, Claimed, PlaceInv,
      OnePlace, Loose, InList, OrderInv, FIFO, Running, ExitInv, DrainInv,
      Exited, NoSleepOverBacklog, Asleep, Woken
  <2>2. CASE Next
    BY <2>2, CreateWorkerKeeps, SpuriousWakeupKeeps, WorkerLockKeeps,
      WorkerWaitKeeps, WorkerRelockKeeps, WorkerTakeKeeps, WorkerUnlockKeeps,
      RunTaskKeeps, RunExitKeeps, PosterDoneKeeps, PostCallKeeps,
      PostLockKeeps, PostOverflowKeeps, PostEnqueueKeeps, PostUnlockKeeps,
      InitFailsKeeps, DestroyCallKeeps, DestroyNextKeeps, TeardownKeeps,
      FinishedKeeps
      DEF Next, WorkerStep, ClientStep
  <2>3. QED BY <2>1, <2>2
<1>3. QED BY <1>1, <1>2, PTL DEF Spec

\* What a client of the pool and its owner rely on, in every reachable state.
THEOREM PoolSafe == Spec => []PoolSafety
<1>1. PoolInv => PoolSafety
  BY DEF PoolSafety, PoolInv, CountInv, OrderInv, PlaceInv, ExitInv, InList, DrainInv,
    Exited, ExitTaskConfined, AbortKillsNobody
<1>2. QED BY <1>1, PoolInvariant, PTL

\* The list of the pool holds at most max_queue tasks and one more per worker.
THEOREM QueueBounded == Spec => []QueueBound
<1>1. PoolInv => QueueBound
  <2> SUFFICES ASSUME PoolInv PROVE QueueBound
    OBVIOUS
  <2>1. Cardinality(Claimed) \in Nat /\ Cardinality(Workers) \in Nat
    BY SubsetFinite DEF Claimed
  <2>2. Cardinality(Claimed) <= Cardinality(Workers)
    BY PoolAssumption, FS_Subset DEF Claimed
  <2>3. Len(queue) \in Nat
    BY LenProperties DEF PoolInv, TypeOK
  <2>4. QED
    BY <2>1, <2>2, <2>3, PoolAssumption
    DEF PoolInv, CountInv, WaitingAccounting, QueueBound
<1>2. QED BY <1>1, PoolInvariant, PTL

\* thread_pool_destroy frees the pool only when nobody uses it any more.
THEOREM DestroyIsSafe == Spec => []DestroyDrains
<1>1. PoolInv => DestroyDrains
  <2> SUFFICES ASSUME PoolInv, mpc \in {"teardown", "returned"}
               PROVE  /\ queue = <<>> /\ Running = {}
                      /\ \A w \in Workers : wpc[w] = "exited"
                      /\ mtx = NoThread
    BY DEF DestroyDrains
  <2>1. queue = <<>> /\ \A w \in Workers : wpc[w] = "exited"
    BY DEF PoolInv, DrainInv, Exited
  <2>2. \A w \in Workers : task[w] = NoTask
    BY <2>1 DEF PoolInv, HeldInv
  <2>3. Running = {}
    BY <2>2 DEF Running, Range, PoolInv, TypeOK
  <2>4. \A c \in Clients : call[c] \notin {"check", "unlock"}
    BY DEF PoolInv, ExitInv, Clients
  <2>5. mtx = NoThread
    BY <2>1, <2>4 DEF PoolInv, MutexInv, TypeOK
  <2>6. QED BY <2>1, <2>3, <2>5
<1>2. QED BY <1>1, PoolInvariant, PTL

-----------------------------------------------------------------------------
(* The pool implements TaskPool. *)

\* Two states between which neither the list, nor the tasks of the workers
\* change look the same from outside.
LEMMA PoolStutter ==
  ASSUME UNCHANGED <<queue, task, id, done>>,
         mpc' \in {"teardown", "returned"} <=> mpc \in {"teardown", "returned"}
  PROVE  UNCHANGED Pool!vars
BY DEF Pool!vars, Running

\* A task that is linked is accepted, and a task that a worker takes starts.
LEMMA PoolStep ==
  ASSUME PoolInv, [Next]_vars
  PROVE  [Pool!Next]_Pool!vars
<1> USE PoolAssumption DEF PoolInv, queueVars, workerVars, clientVars, mainVars
<1>1. ASSUME NEW c \in Clients, PostEnqueue(c), c # Main
      PROVE  \E t \in Tasks : Pool!Accept(t)
  <2>0. PICK a \in Tasks : a = arg[c]
    BY <1>1 DEF PostEnqueue, HeldInv, TypeOK, Nodes, Clients
  <2>1. arg[c] \in Tasks /\ Loose(arg[c]) /\ arg[c] \in Nodes /\ mpc = "ready"
    BY <1>1 DEF PostEnqueue, PlaceInv, HeldInv, TypeOK, Nodes, ExitInv, Clients, MainPC
  <2>2. InList' = InList \cup {arg[c]}
    BY <1>1, <2>1, AppendFacts DEF PostEnqueue, Link, TypeOK, InList
  <2>3. UNCHANGED <<task, done, mpc, Running>> /\ id' = [id EXCEPT ![arg[c]] = nextId]
    BY <1>1 DEF PostEnqueue, Running
  <2>4. \A t \in (InList \cup Running \cup done) \cap Tasks : id[t] < nextId
    BY DEF OrderInv
  <2>5. Running \subseteq Tasks /\ InList \subseteq Nodes /\ done \subseteq Tasks
    BY DEF Running, TypeOK, Range, Nodes, InList
  <2>6. \A t \in Tasks : t \in Nodes
    BY DEF Nodes
  <2>7. [t \in Tasks |-> id[t]]' = [t \in Tasks |-> id'[t]]
    OBVIOUS
  <2>8. arg[c] # ExitTask
    BY <2>1
  <2>9. id \in [Nodes -> Nat] /\ nextId \in Nat
    BY DEF TypeOK
  <2>10. /\ \A u \in Tasks \ {arg[c]} : id'[u] = id[u]
         /\ id'[arg[c]] = nextId
         /\ [t \in Tasks |-> id'[t]] \in [Tasks -> Nat]
    BY <2>1, <2>3, <2>6, <2>9
  <2>11. \A u \in (InList \ {ExitTask}) \cup Running \cup done :
           u \in Tasks /\ id[u] < nextId
    BY <2>4, <2>5 DEF Nodes
  <2>12. arg[c] \notin (InList \ {ExitTask}) \cup Running \cup done
    BY <2>1 DEF Loose, Running
  <2> HIDE DEF PoolInv
  <2>13. Pool!Accept(a)
    BY <2>0, <2>1, <2>2, <2>3, <2>7, <2>8, <2>10, <2>11, <2>12
    DEF Pool!Accept, InList
  <2>14. QED BY <2>13
<1>2. ASSUME NEW w \in Workers, WorkerTake(w), Head(queue) # ExitTask
      PROVE  Pool!Start(Head(queue))
  <2> DEFINE h == Head(queue)
  <2>1. /\ Len(queue) \in Nat \ {0} /\ Len(queue') = Len(queue) - 1
        /\ \A i \in 1..Len(queue') : queue'[i] = queue[i + 1]
        /\ InList = InList' \cup {h} /\ h = queue[1]
        /\ queue' \in Seq(Nodes)
    BY <1>2, TailFacts DEF WorkerTake, Unlink, TypeOK, InList
  <2>2. task' = [task EXCEPT ![w] = h] /\ UNCHANGED <<done, id, mpc>> /\ wpc[w] = "test"
    BY <1>2 DEF WorkerTake
  <2> HIDE DEF h
  <2>3. h \in InList /\ h # ExitTask /\ h # NoTask /\ h \in Tasks
    BY <1>2, <2>1 DEF h, InList, TypeOK, Range, Nodes
  <2>4. task[w] = NoTask
    BY <2>2 DEF HeldInv
  <2>5. Running' = Running \cup {h}
    BY <2>2, <2>3, <2>4 DEF Running, Range, TypeOK
  <2>6. h \notin InList'
    <3> SUFFICES ASSUME h \in InList' PROVE FALSE
      OBVIOUS
    <3>1. PICK j \in 1..Len(queue') : queue'[j] = h
      BY <2>1 DEF InList, Range
    <3>2. 1 \in 1..Len(queue) /\ j + 1 \in 1..Len(queue) /\ queue[j + 1] = queue[1]
      BY <2>1, <3>1
    <3>3. 1 = j + 1
      BY <3>2 DEF PlaceInv, OnePlace
    <3>4. QED BY <2>1, <3>3
  <2>7. \A u \in InList : id[h] <= id[u]
    <3> SUFFICES ASSUME NEW u \in InList PROVE id[h] <= id[u]
      OBVIOUS
    <3> PICK i \in 1..Len(queue) : u = queue[i]
      BY DEF InList, Range, TypeOK
    <3>1. queue[i] \in Nodes /\ id[queue[i]] \in Nat /\ id[h] \in Nat
      BY <2>1 DEF TypeOK
    <3>2. CASE i = 1
      BY <2>1, <3>1, <3>2
    <3>3. CASE 1 < i
      <4>1. id[queue[1]] < id[queue[i]]
        BY <2>1, <3>3 DEF OrderInv, FIFO
      <4>2. QED BY <2>1, <3>1, <4>1
    <3>4. QED BY <3>2, <3>3
  <2>8. InList \subseteq Tasks \cup {ExitTask}
    BY DEF InList, Range, TypeOK, Nodes
  <2> HIDE DEF PoolInv
  <2>9. QED
    BY <2>1, <2>2, <2>3, <2>5, <2>6, <2>7, <2>8 DEF Pool!Start, InList, h
<1>3. ASSUME NEW w \in Workers, RunTask(w) PROVE Pool!Finish(task[w])
  <2>1. task[w] \in Running
    BY <1>3 DEF RunTask, Running, Range, TypeOK, HeldInv
  <2>2. Running' = Running \ {task[w]}
    BY <1>3 DEF RunTask, Running, Range, TypeOK, PlaceInv, OnePlace
  <2>3. QED BY <1>3, <2>1, <2>2 DEF RunTask, Pool!Finish
<1>4. ASSUME DestroyNext, ~MoreRounds PROVE Pool!Close
  <2>1. Exited = Workers /\ queue = <<>> /\ mpc = "spin"
    <3>1. /\ Cardinality(Workers) \in Nat /\ Exited \in SUBSET Workers
      BY SubsetFinite DEF Exited
    <3>2. Cardinality(Exited) = Cardinality(Workers) /\ queue = <<>> /\ mpc = "spin"
      BY <1>4, <3>1 DEF DestroyNext, SpinOver, MoreRounds, DrainInv, TypeOK
    <3>3. QED BY <3>1, <3>2, FS_Subset
  <2>2. \A w \in Workers : task[w] = NoTask
    BY <2>1 DEF Exited, HeldInv
  <2>3. Running = {} /\ Range(queue) = {}
    BY <2>1, <2>2 DEF Running, Range, TypeOK
  <2>4. UNCHANGED <<queue, Running, done, id>> /\ mpc' = "teardown"
    BY <1>4 DEF DestroyNext, Running
  <2>5. QED BY <2>1, <2>3, <2>4 DEF Pool!Close
<1>5. ASSUME NEW w \in Workers, WorkerTake(w), Head(queue) = ExitTask
      PROVE  UNCHANGED Pool!vars
  <2>1. Range(queue) = Range(queue') \cup {ExitTask}
    BY <1>5, TailFacts DEF WorkerTake, Unlink, TypeOK
  <2>2. task' = [task EXCEPT ![w] = ExitTask] /\ task[w] = NoTask
    BY <1>5 DEF WorkerTake, HeldInv
  <2>3. Running' = Running
    BY <2>2 DEF Running, Range, TypeOK
  <2>4. UNCHANGED <<id, done, mpc>>
    BY <1>5 DEF WorkerTake
  <2>5. QED BY <2>1, <2>3, <2>4 DEF Pool!vars
<1>6. ASSUME NEW w \in Workers, RunExit(w) PROVE UNCHANGED Pool!vars
  <2>1. Running' = Running
    BY <1>6 DEF RunExit, Running, Range, TypeOK
  <2>2. QED BY <1>6, <2>1 DEF RunExit, Pool!vars
<1>7. ASSUME PostEnqueue(Main) PROVE UNCHANGED Pool!vars
  <2>1. arg[Main] = ExitTask /\ Main \in Clients
    BY <1>7 DEF PostEnqueue, HeldInv, TypeOK, Clients
  <2>2. Range(queue') = Range(queue) \cup {ExitTask}
    BY <1>7, <2>1, AppendFacts DEF PostEnqueue, Link, TypeOK, Nodes
  <2>3. \A t \in Tasks : id'[t] = id[t]
    BY <1>7, <2>1 DEF PostEnqueue, TypeOK, Nodes
  <2>4. UNCHANGED <<Running, done, mpc>>
    BY <1>7 DEF PostEnqueue, Running
  <2>5. QED BY <2>2, <2>3, <2>4 DEF Pool!vars
<1>8. ASSUME NEW w \in Workers,
             \/ CreateWorker(w) \/ SpuriousWakeup(w) \/ WorkerLock(w)
             \/ WorkerWait(w) \/ WorkerRelock(w) \/ WorkerUnlock(w)
      PROVE  UNCHANGED Pool!vars
  BY <1>8, PoolStutter DEF CreateWorker, SpuriousWakeup, WorkerLock, WorkerWait,
    WorkerRelock, WorkerUnlock
<1>9. ASSUME NEW c \in Clients, PostLock(c) \/ PostOverflow(c) \/ PostUnlock(c)
      PROVE  UNCHANGED Pool!vars
  BY <1>9, PoolStutter DEF PostLock, PostOverflow, PostUnlock, ExitInv
<1>10. ASSUME NEW p \in Posters, PosterDone(p) \/ \E t \in Tasks : PostCall(p, t)
       PROVE  UNCHANGED Pool!vars
  BY <1>10, PoolStutter DEF PosterDone, PostCall
<1>11. ASSUME InitFails \/ DestroyCall \/ Teardown \/ Finished
       PROVE  UNCHANGED Pool!vars
  BY <1>11, PoolStutter DEF InitFails, DestroyCall, PostExit, Teardown, Finished, vars
<1>12. ASSUME DestroyNext, MoreRounds PROVE UNCHANGED Pool!vars
  BY <1>12, PoolStutter DEF DestroyNext, PostExit
<1>13. CASE UNCHANGED vars
  BY <1>13, PoolStutter DEF vars
<1>14. ASSUME NEW t, Pool!Accept(t) \/ Pool!Start(t) \/ Pool!Finish(t), t \in Tasks
       PROVE  Pool!Next
  BY <1>14 DEF Pool!Next
<1>15. CASE Next
  <2>2. \A w \in Workers : WorkerTake(w) /\ Head(queue) # ExitTask => Head(queue) \in Tasks
    BY TailFacts DEF WorkerTake, TypeOK, Nodes
  <2>3. \A w \in Workers : RunTask(w) => task[w] \in Tasks
    BY DEF RunTask, HeldInv, TypeOK, Nodes
  <2> HIDE DEF PoolInv
  <2>4. ASSUME NEW w \in Workers, CreateWorker(w) \/ SpuriousWakeup(w) \/ WorkerStep(w)
        PROVE  [Pool!Next]_Pool!vars
    <3>1. CASE WorkerTake(w)
      BY <3>1, <1>2, <1>5, <1>14, <2>2
    <3>2. CASE RunTask(w)
      BY <3>2, <1>3, <1>14, <2>3
    <3>3. QED BY <2>4, <3>1, <3>2, <1>6, <1>8 DEF WorkerStep
  <2>5. ASSUME NEW c \in Clients, ClientStep(c) PROVE [Pool!Next]_Pool!vars
    <3>1. CASE PostEnqueue(c)
      <4>1. CASE c = Main
        BY <3>1, <4>1, <1>7
      <4>2. CASE c # Main
        BY <3>1, <4>2, <1>1, <1>14
      <4>3. QED BY <4>1, <4>2
    <3>2. QED BY <2>5, <3>1, <1>9 DEF ClientStep
  <2>6. ASSUME DestroyNext PROVE [Pool!Next]_Pool!vars
    BY <2>6, <1>4, <1>12 DEF Pool!Next
  <2>7. QED
    BY <1>10, <1>11, <1>15, <2>4, <2>5, <2>6 DEF Next
<1>16. QED BY <1>13, <1>15

\* Whatever the threads do, the pool behaves as TaskPool says: each accepted
\* task is run once, oldest first, and the pool is closed when all have run.
THEOREM PoolImplementsTaskPool == Spec => ImplementsTaskPool
<1>1. Init => Pool!Init
  BY PoolAssumption DEF Init, Pool!Init, Running, Range, Nodes
<1>2. QED
  BY <1>1, PoolStep, PoolInvariant, PTL DEF Spec, ImplementsTaskPool, Pool!Spec
=============================================================================
