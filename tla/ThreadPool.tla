------------------------------ MODULE ThreadPool ------------------------------
(***************************************************************************)
(* The thread pool of src/threadpool: detached workers running             *)
(* thread_pool_cycle, callers of thread_task_post, and the owner of the    *)
(* pool, who runs thread_pool_init and thread_pool_destroy.                *)
(*                                                                         *)
(* Everything a thread does between two accesses to what others can see is *)
(* one step: in particular what it does while it holds tp->mtx.            *)
(* pthread_cond_signal wakes one sleeper if there is one; POSIX lets a     *)
(* sleeper wake for no reason, which is SpuriousWakeup.  The pthread calls *)
(* on an initialised mutex and condition do not fail.                      *)
(*                                                                         *)
(* A definition Op_Mistake that stands before Op, and that nothing uses,   *)
(* is a mistaken variant of Op: the checks put it in the place of Op to    *)
(* see a property fail.                                                    *)
(*                                                                         *)
(* The task counter thread_pool_task_id is 64 bits wide in the code and    *)
(* unbounded here.                                                         *)
(***************************************************************************)
EXTENDS Integers, Sequences, FiniteSets, Functions, TLC

CONSTANTS
  Workers,          \* the tp->threads threads of the pool
  Posters,          \* threads that post tasks
  Main,             \* the thread that creates and destroys the pool
  Tasks,            \* the tasks of thread_task_alloc
  ExitTask,         \* the task on the stack of thread_pool_destroy
  NoTask, NoThread,
  MaxQueue,         \* tp->max_queue
  MaxDestroyCalls   \* bound: how often Main calls thread_pool_destroy

Clients == Posters \cup {Main}
Nodes   == Tasks \cup {ExitTask}

ASSUME PoolAssumption ==
  /\ IsFiniteSet(Workers) /\ Workers # {}
  /\ MaxQueue \in Nat \ {0} /\ MaxDestroyCalls \in Nat
  /\ Main \notin Posters
  /\ Clients \cap Workers = {}
  /\ ExitTask \notin Tasks /\ NoTask \notin Nodes
  /\ NoThread \notin Clients \cup Workers

VARIABLES
  mtx,      \* the thread that holds tp->mtx, or NoThread
  queue,    \* the list tp->queue, first task first
  waiting,  \* tp->waiting
  nextId,   \* thread_pool_task_id
  id,       \* task->id
  wpc,      \* where each worker is in thread_pool_cycle
  task,     \* the local variable task of each worker
  call,     \* where each client is in thread_task_post
  arg,      \* the task it passed
  mpc,      \* where Main is in thread_pool_init or thread_pool_destroy
  n,        \* the loop variable of thread_pool_destroy
  lock,     \* its spin flag, cleared by thread_pool_exit_handler
  calls,    \* the calls of thread_pool_destroy so far
  done      \* history: the tasks whose handler has run

queueVars  == <<queue, waiting, nextId, id>>
workerVars == <<wpc, task>>
clientVars == <<call, arg>>
mainVars   == <<mpc, n, lock, calls>>
vars == <<mtx, queueVars, workerVars, clientVars, mainVars, done>>

WorkerPC == {"absent", "lock", "test", "asleep", "relock", "unlock", "run",
             "exited"}
CallPC   == {"out", "lock", "check", "unlock", "done"}
MainPC   == {"create", "nopool", "ready", "post", "spin", "teardown",
             "aborted", "returned"}

Asleep == {w \in Workers : wpc[w] = "asleep"}
\* Workers that have taken one off tp->waiting and have not taken a task yet.
Claimed == {w \in Workers : wpc[w] \in {"test", "asleep", "relock"}}
\* Those of them that are awake, or woken, and about to look at the list.
Woken == {w \in Workers : wpc[w] \in {"test", "relock"}}
\* Tasks that workers hold, from thread_pool_cycle's line 205 to line 226.
Running == Range(task) \ {NoTask, ExitTask}
\* Tasks that were handed to thread_task_post and not refused.
Used == Range(queue) \cup Running \cup Range(arg) \cup done

Init ==
  /\ mtx = NoThread
  /\ queue = <<>>
  /\ waiting = 0
  /\ nextId = 0
  /\ id = [t \in Nodes |-> 0]
  /\ wpc = [w \in Workers |-> "absent"]
  /\ task = [w \in Workers |-> NoTask]
  /\ call = [c \in Clients |-> "out"]
  /\ arg = [c \in Clients |-> NoTask]
  /\ mpc = "create"
  /\ n = 0
  /\ lock = 0
  /\ calls = 0
  /\ done = {}

-----------------------------------------------------------------------------
(* thread_pool_init: the loop that starts the workers. *)

CreateWorker(w) ==
  /\ mpc = "create"
  /\ wpc[w] = "absent"
  /\ wpc' = [wpc EXCEPT ![w] = "lock"]
  /\ mpc' = IF \A v \in Workers \ {w} : wpc[v] # "absent"
            THEN "ready" ELSE "create"
  /\ UNCHANGED <<mtx, queueVars, task, clientVars, n, lock, calls, done>>

\* Any step of thread_pool_init fails: tp is freed and NULL is returned, but
\* the workers already started keep using tp.  What they read there is
\* undefined; the model lets them find the memory as it was.
InitFails ==
  /\ mpc = "create"
  /\ mpc' = "nopool"
  /\ UNCHANGED <<mtx, queueVars, workerVars, clientVars, n, lock, calls, done>>

-----------------------------------------------------------------------------
(* thread_task_post, called by a poster or by thread_pool_destroy. *)

PostCall(p, t) ==
  /\ mpc = "ready"
  /\ call[p] = "out"
  /\ t \notin Used
  /\ call' = [call EXCEPT ![p] = "lock"]
  /\ arg' = [arg EXCEPT ![p] = t]
  /\ UNCHANGED <<mtx, queueVars, workerVars, mainVars, done>>

PostLock(c) ==
  /\ call[c] = "lock"
  /\ mtx = NoThread
  /\ mtx' = c
  /\ call' = [call EXCEPT ![c] = "check"]
  /\ UNCHANGED <<queueVars, workerVars, arg, mainVars, done>>

Full_AboveMax == waiting > MaxQueue
\* The test behind "queue overflow".
Full == waiting >= MaxQueue

PostOverflow_Ignored(c) ==
  /\ call[c] = "check" /\ Full
  /\ mtx' = NoThread
  /\ call' = [call EXCEPT ![c] = "out"]
  /\ arg' = [arg EXCEPT ![c] = NoTask]
  /\ mpc' = IF c = Main THEN "spin" ELSE mpc
  /\ UNCHANGED <<queueVars, workerVars, n, lock, calls, done>>
\* The queue counts as full: unlock and return ERROR.  A poster keeps its
\* task; thread_pool_destroy gives up where it is.
PostOverflow(c) ==
  /\ call[c] = "check" /\ Full
  /\ mtx' = NoThread
  /\ call' = [call EXCEPT ![c] = "out"]
  /\ arg' = [arg EXCEPT ![c] = NoTask]
  /\ mpc' = IF c = Main THEN "aborted" ELSE mpc
  /\ UNCHANGED <<queueVars, workerVars, n, lock, calls, done>>

SignalOne_None == wpc' = wpc
SignalOne_FirstOnly ==
  IF Asleep = {} \/ queue # <<>> THEN wpc' = wpc
  ELSE \E w \in Asleep : wpc' = [wpc EXCEPT ![w] = "relock"]
\* pthread_cond_signal: one sleeper, if any, goes on to take the mutex again.
SignalOne ==
  IF Asleep = {} THEN wpc' = wpc
  ELSE \E w \in Asleep : wpc' = [wpc EXCEPT ![w] = "relock"]

\* The task becomes the last of the list: *last = task, last = &task->next.
Link(t) == queue' = Append(queue, t)

PostEnqueue(c) ==
  /\ call[c] = "check" /\ ~Full
  /\ id' = [id EXCEPT ![arg[c]] = nextId]
  /\ nextId' = nextId + 1
  /\ SignalOne
  /\ Link(arg[c])
  /\ waiting' = waiting + 1
  /\ call' = [call EXCEPT ![c] = "unlock"]
  /\ UNCHANGED <<mtx, task, arg, mainVars, done>>

PostUnlock(c) ==
  /\ call[c] = "unlock"
  /\ mtx' = NoThread
  /\ call' = [call EXCEPT ![c] = "out"]
  /\ arg' = [arg EXCEPT ![c] = NoTask]
  /\ mpc' = IF c = Main THEN "spin" ELSE mpc
  /\ UNCHANGED <<queueVars, workerVars, n, lock, calls, done>>

\* A poster that will post no more; main.c posts everything it has before it
\* destroys the pool.
PosterDone(p) ==
  /\ mpc = "ready"
  /\ call[p] = "out"
  /\ call' = [call EXCEPT ![p] = "done"]
  /\ UNCHANGED <<mtx, queueVars, workerVars, arg, mainVars, done>>

-----------------------------------------------------------------------------
(* thread_pool_cycle. *)

WorkerLock(w) ==
  /\ wpc[w] = "lock"
  /\ mtx = NoThread
  /\ mtx' = w
  /\ waiting' = waiting - 1
  /\ wpc' = [wpc EXCEPT ![w] = "test"]
  /\ UNCHANGED <<queue, nextId, id, task, clientVars, mainVars, done>>

\* pthread_cond_wait releases the mutex and sleeps in one step.
WorkerWait(w) ==
  /\ wpc[w] = "test"
  /\ queue = <<>>
  /\ mtx' = NoThread
  /\ wpc' = [wpc EXCEPT ![w] = "asleep"]
  /\ UNCHANGED <<queueVars, task, clientVars, mainVars, done>>

SpuriousWakeup(w) ==
  /\ wpc[w] = "asleep"
  /\ wpc' = [wpc EXCEPT ![w] = "relock"]
  /\ UNCHANGED <<mtx, queueVars, task, clientVars, mainVars, done>>

WorkerRelock_CountedAgain(w) ==
  /\ wpc[w] = "relock" /\ mtx = NoThread
  /\ mtx' = w
  /\ waiting' = waiting - 1
  /\ wpc' = [wpc EXCEPT ![w] = "test"]
  /\ UNCHANGED <<queue, nextId, id, task, clientVars, mainVars, done>>
\* A woken worker takes the mutex again and goes back to the test of the loop.
WorkerRelock(w) ==
  /\ wpc[w] = "relock"
  /\ mtx = NoThread
  /\ mtx' = w
  /\ wpc' = [wpc EXCEPT ![w] = "test"]
  /\ UNCHANGED <<queueVars, task, clientVars, mainVars, done>>

\* The first task leaves the list: first = task->next.
Unlink == queue' = Tail(queue)

WorkerTake(w) ==
  /\ wpc[w] = "test"
  /\ queue # <<>>
  /\ task' = [task EXCEPT ![w] = Head(queue)]
  /\ Unlink
  /\ wpc' = [wpc EXCEPT ![w] = "unlock"]
  /\ UNCHANGED <<mtx, waiting, nextId, id, clientVars, mainVars, done>>

WorkerUnlock(w) ==
  /\ wpc[w] = "unlock"
  /\ mtx' = NoThread
  /\ wpc' = [wpc EXCEPT ![w] = "run"]
  /\ UNCHANGED <<queueVars, task, clientVars, mainVars, done>>

\* The handler returns, the task is freed, and the worker starts over.
RunTask(w) ==
  /\ wpc[w] = "run"
  /\ task[w] # ExitTask
  /\ done' = done \cup {task[w]}
  /\ task' = [task EXCEPT ![w] = NoTask]
  /\ wpc' = [wpc EXCEPT ![w] = "lock"]
  /\ UNCHANGED <<mtx, queueVars, clientVars, mainVars>>

\* thread_pool_exit_handler: clear the flag and end the thread, so that the
\* free(task) behind the handler is not reached.
RunExit(w) ==
  /\ wpc[w] = "run"
  /\ task[w] = ExitTask
  /\ lock' = 0
  /\ task' = [task EXCEPT ![w] = NoTask]
  /\ wpc' = [wpc EXCEPT ![w] = "exited"]
  /\ UNCHANGED <<mtx, queueVars, clientVars, mpc, n, calls, done>>

-----------------------------------------------------------------------------
(* thread_pool_destroy: one exit task at a time, each one awaited. *)

\* lock = 1 and the call of thread_task_post(tp, &task).
PostExit ==
  /\ lock' = 1
  /\ mpc' = "post"
  /\ call' = [call EXCEPT ![Main] = "lock"]
  /\ arg' = [arg EXCEPT ![Main] = ExitTask]

\* Main calls it when no more tasks are posted, and may call it again after a
\* call that gave up.
DestroyCall ==
  /\ mpc \in {"ready", "aborted"}
  /\ calls < MaxDestroyCalls
  /\ \A p \in Posters : call[p] = "done"
  /\ calls' = calls + 1
  /\ n' = 0
  /\ PostExit
  /\ UNCHANGED <<mtx, queueVars, workerVars, done>>

SpinOver_Always == TRUE
SpinOver == lock = 0
MoreRounds_OneLess == n + 2 < Cardinality(Workers)
MoreRounds == n + 1 < Cardinality(Workers)

\* The spin loop ends: next round, or out of the loop.
DestroyNext ==
  /\ mpc = "spin" /\ SpinOver
  /\ n' = n + 1
  /\ IF MoreRounds
     THEN PostExit
     ELSE /\ mpc' = "teardown"
          /\ UNCHANGED <<lock, clientVars>>
  /\ UNCHANGED <<mtx, queueVars, workerVars, calls, done>>

\* thread_cond_destroy, thread_mutex_destroy and free(tp).
Teardown ==
  /\ mpc = "teardown"
  /\ mpc' = "returned"
  /\ UNCHANGED <<mtx, queueVars, workerVars, clientVars, n, lock, calls, done>>

\* Main is through with the pool: it may stop here for good.
Finished ==
  /\ \/ mpc \in {"nopool", "returned"}
     \/ mpc = "aborted" /\ calls = MaxDestroyCalls
  /\ UNCHANGED vars

-----------------------------------------------------------------------------

ClientStep(c) == PostLock(c) \/ PostOverflow(c) \/ PostEnqueue(c) \/ PostUnlock(c)

WorkerStep(w) ==
  \/ WorkerLock(w) \/ WorkerWait(w) \/ WorkerRelock(w) \/ WorkerTake(w)
  \/ WorkerUnlock(w) \/ RunTask(w) \/ RunExit(w)

Next ==
  \/ \E w \in Workers : CreateWorker(w) \/ SpuriousWakeup(w) \/ WorkerStep(w)
  \/ \E p \in Posters : PosterDone(p) \/ \E t \in Tasks : PostCall(p, t)
  \/ \E c \in Clients : ClientStep(c)
  \/ InitFails \/ DestroyCall \/ DestroyNext \/ Teardown \/ Finished

Spec == Init /\ [][Next]_vars

\* Every thread keeps running and handlers return (weak fairness); a thread
\* that asks for the mutex again and again free gets it (strong fairness).
\* Nobody has to post, to stop posting or to destroy the pool.
Fairness ==
  /\ \A w \in Workers :
       /\ SF_vars(WorkerLock(w)) /\ SF_vars(WorkerRelock(w))
       /\ WF_vars(WorkerWait(w) \/ WorkerTake(w) \/ WorkerUnlock(w)
                  \/ RunTask(w) \/ RunExit(w))
  /\ \A c \in Clients :
       /\ SF_vars(PostLock(c))
       /\ WF_vars(PostOverflow(c) \/ PostEnqueue(c) \/ PostUnlock(c))
  /\ WF_vars(DestroyNext \/ Teardown)

FairSpec == Spec /\ Fairness

-----------------------------------------------------------------------------
(* Properties. *)

\* Every variable has its type; call, mpc and the rest range over the program
\* points of thread_pool.c named above.
TypeOK ==
  /\ mtx \in Clients \cup Workers \cup {NoThread}
  /\ queue \in Seq(Nodes)
  /\ waiting \in Int
  /\ nextId \in Nat
  /\ id \in [Nodes -> Nat]
  /\ wpc \in [Workers -> WorkerPC]
  /\ task \in [Workers -> Nodes \cup {NoTask}]
  /\ call \in [Clients -> CallPC]
  /\ arg \in [Clients -> Nodes \cup {NoTask}]
  /\ mpc \in MainPC
  /\ n \in Nat
  /\ lock \in {0, 1}
  /\ calls \in Nat
  /\ done \subseteq Tasks

\* tp->waiting, which workers decrement before they have a task and posters
\* increment after appending one, is the length of the list less the workers
\* that have claimed a task they do not have yet (negative when all are idle).
WaitingAccounting == waiting = Len(queue) - Cardinality(Claimed)

\* The overflow test of thread_task_post reads tp->waiting, so the list itself
\* can outgrow max_queue, but by no more than one task per worker.
QueueBound == Len(queue) <= MaxQueue + Cardinality(Workers)

\* What the comment on max_queue in thread_pool.h says ("the maximum length of
\* the queue"): the list never holds more tasks.
QueueWithinMax == Len(queue) <= MaxQueue

\* No worker sleeps in pthread_cond_wait while there is more work than woken
\* workers to take it, although thread_task_post signals before it appends,
\* and a running worker may take the task another one was woken for.
NoSleepOverBacklog ==
  Asleep # {} => Len(queue) <= Cardinality(Woken)

\* Tasks leave the list in the order of their ids, the order in which
\* thread_task_post accepted them, whichever thread posted them.
FIFO ==
  /\ \A i, j \in 1..Len(queue) : i < j => id[queue[i]] < id[queue[j]]
  /\ \A i \in 1..Len(queue) : \A t \in Running \cup done : id[t] < id[queue[i]]

\* A task is in one place only: linked in the list once, with one worker, or
\* freed; so no worker runs or frees a task that another one runs or has freed.
OnePlace ==
  /\ \A i, j \in 1..Len(queue) : queue[i] = queue[j] => i = j
  /\ \A v, w \in Workers : task[v] = task[w] /\ task[v] # NoTask => v = w
  /\ \A w \in Workers : task[w] \notin Range(queue) \cup done
  /\ Range(queue) \cap done = {}

\* The exit task lives on the stack of thread_pool_destroy: no list and no
\* worker refers to it once that call has returned or given up.
ExitTaskConfined ==
  mpc \in {"ready", "teardown", "aborted", "returned"} =>
    ExitTask \notin Range(queue) \cup Range(task)

\* When thread_pool_destroy frees the pool, every accepted task has run, the
\* list is empty and every worker has ended: nobody touches tp any more.
DestroyDrains ==
  mpc \in {"teardown", "returned"} =>
    /\ queue = <<>> /\ Running = {}
    /\ \A w \in Workers : wpc[w] = "exited"
    /\ mtx = NoThread

\* thread_pool_destroy gives up on its first exit task or not at all, so a
\* caller that tries again still has every worker to end.
AbortKillsNobody == mpc = "aborted" => \A w \in Workers : wpc[w] # "exited"

\* What a client of the pool and its owner rely on in every state: the count,
\* the wakeups, the order and the place of tasks, and the end of destroy calls.
PoolSafety ==
  /\ TypeOK /\ WaitingAccounting /\ NoSleepOverBacklog /\ FIFO
  /\ OnePlace /\ ExitTaskConfined /\ AbortKillsNobody

\* The pool does what its callers count on: each accepted task is run once, in
\* the order of acceptance, before the pool is closed.
Pool == INSTANCE TaskPool WITH
  pending <- Range(queue) \ {ExitTask},
  running <- Running,
  number  <- [t \in Tasks |-> id[t]],
  open    <- mpc \notin {"teardown", "returned"}

\* ThreadPool implements TaskPool.
ImplementsTaskPool == Pool!Spec

\* An accepted task is run, if every handler returns, also while
\* thread_pool_destroy ends the workers one by one.
AcceptedTaskRuns == \A t \in Tasks : t \in Range(queue) ~> t \in done

\* Each call of thread_pool_destroy comes back: the flag its spin loop waits
\* for is cleared, also when the call follows one that gave up.
DestroyReturns == mpc \in {"post", "spin"} ~> mpc \in {"returned", "aborted"}

-------------------------------------------------------------------------------
(***************************************************************************)
(* The inductive invariant behind the safety properties: what the program  *)
(* points of the threads say about the mutex, the list, the tasks and the  *)
(* flag of thread_pool_destroy.                                            *)
(***************************************************************************)
InList == Range(queue)
Exited == {w \in Workers : wpc[w] = "exited"}
\* The task is not linked, not with a worker and not freed.
Loose(t) == t \notin InList /\ t \notin Range(task) /\ t \notin done

\* A worker has a task from line 205 to the end of the handler, a client from
\* its call of thread_task_post to the return; only Main posts the exit task.
HeldInv ==
  /\ \A w \in Workers : task[w] # NoTask <=> wpc[w] \in {"unlock", "run"}
  /\ \A c \in Clients : arg[c] # NoTask <=> call[c] \in {"lock", "check", "unlock"}
  /\ \A p \in Posters : arg[p] # ExitTask
  /\ arg[Main] \in {NoTask, ExitTask}

\* The program point of a thread tells whether it holds tp->mtx.
MutexInv ==
  /\ \A w \in Workers : mtx = w <=> wpc[w] \in {"test", "unlock"}
  /\ \A c \in Clients : mtx = c <=> call[c] \in {"check", "unlock"}

\* tp->waiting, and what the overflow test makes of it.
CountInv ==
  /\ WaitingAccounting
  /\ waiting <= MaxQueue

\* Where a task is, also while thread_task_post has it.
PlaceInv ==
  /\ OnePlace
  /\ \A c, d \in Clients : arg[c] = arg[d] /\ arg[c] # NoTask => c = d
  /\ \A c \in Clients : call[c] \in {"lock", "check"} => Loose(arg[c])
  /\ \A c \in Clients : call[c] = "unlock" => arg[c] \in InList

OrderInv ==
  /\ FIFO
  /\ \A t \in InList \cup Running \cup done : id[t] < nextId

\* The exit task is the last one ever posted while it is anywhere, and
\* nowhere when the flag is clear or no call of thread_pool_destroy is on.
ExitInv ==
  /\ mpc \notin {"post", "spin"} \/ lock = 0 =>
       ExitTask \notin InList \cup Range(task)
  /\ call[Main] # "done" /\ (mpc = "post" <=> call[Main] # "out")
  /\ mpc = "post" => lock = 1
  /\ \A p \in Posters :
       /\ mpc \in {"create", "nopool"} => call[p] = "out"
       /\ mpc \in {"post", "spin", "teardown", "aborted", "returned"} => call[p] = "done"
  /\ \A i \in 1..Len(queue) : queue[i] = ExitTask => i = Len(queue)
  /\ ExitTask \in Range(task) => queue = <<>>

\* How many workers have ended, and what is left in the list.
DrainInv ==
  /\ mpc \in {"create", "nopool", "ready", "aborted"} => n = 0 /\ Exited = {}
  /\ mpc \in {"post", "spin"} =>
       /\ n < Cardinality(Workers)
       /\ Cardinality(Exited) = IF lock = 1 THEN n ELSE n + 1
  /\ mpc \in {"teardown", "returned"} => Exited = Workers
  /\ n > 0 => InList \subseteq {ExitTask}
  /\ (mpc = "spin" /\ lock = 0) \/ mpc \in {"teardown", "returned"} => queue = <<>>

\* The inductive invariant of the thread pool: all of the above together.
PoolInv ==
  /\ TypeOK /\ HeldInv /\ MutexInv /\ CountInv /\ PlaceInv /\ OrderInv
  /\ ExitInv /\ DrainInv /\ NoSleepOverBacklog

\* Workers, posters and tasks are interchangeable.
Symmetry == Permutations(Workers) \cup Permutations(Posters) \cup Permutations(Tasks)
=============================================================================
