# A verification of OS_Study_Code

The repository collects programs its author wrote while learning how an operating
system is used: a thread pool, an event framework on epoll with an echo server, the same
server on libevent, a small web form server, nginx's memory pool taken out on its own, and
a few dozen shorter exercises with pipes, locks, semaphores, shared memory and signals. It
also carries the sources of libevent 2.1.12, on which two of its servers run, and which is by
far its largest part. This directory holds TLA+ models of the parts with a logic of their
own, the TLC configurations that check them, and machine-checked proofs.

To repeat everything: `tlc -config <cfg> <module>` for a row of the table of runs, and
`tlapm` on the four modules whose names end in `Proofs` for the proofs.

## 1. The system

### 1.1 Parts, what they keep and what they do

| Part | State it keeps | Operations | Talks to |
|---|---|---|---|
| **Thread pool** `src/threadpool` | `tp->mtx`, the list `tp->queue` (`first`, `last`), the counter `tp->waiting`, `thread_pool_task_id` | `thread_pool_init`, `thread_task_post`, `thread_pool_cycle`, `thread_pool_destroy` | posting threads and workers share the pool under one mutex and one condition; `thread_pool_destroy` posts a task that lies on its own stack and spins on a flag beside it |
| **Event framework** `src/epoll/epoll_framework/comm*.c` | `fd_table` (read, write and timeout handler of each descriptor), `epoll_state`, `epoll_fds`, `sys_curtime`, `last_timeout` | `commUpdateReadHandler`, `commUpdateWriteHandler`, `commSetTimeout`, `comm_close`, `comm_select`, `checkTimeouts`, `do_epoll_select` | the kernel's epoll set; calls back the handlers of the server |
| **Echo server** `src/epoll/epoll_framework/main.c` | a `ConnectStat` per connection with its `send_buf` | `accept_connection`, `do_welcome_handler`, `do_echo_handler`, `do_echo_response`, `do_echo_timeout` | the framework, by registering handlers; clients over TCP |
| **Echo server on libevent** `src/libevent/epoll_framework/main.c` | a `ConnectStat` and a one-shot `struct event` per connection | the same handlers, without timers | libevent's `event_base`, which removes an event before it calls it |
| **Form server** `src/epoll/epollserver.c` | a `ConnectStat` per connection with `name`, `age` and the handler of the page asked for; its address is the epoll event's data | `connect_handle`, `do_http_request`, `do_http_respone` with two page handlers | the kernel's epoll set; browsers over TCP |
| **Memory pool** `src/mem_pool` | a list of blocks (`last`, `end`, `failed`), `current`, the list of large allocations, whose entries lie in the blocks | `ngx_create_pool`, `ngx_palloc`, `ngx_pnalloc`, `ngx_pcalloc`, `ngx_pmemalign`, `ngx_pfree`, `ngx_reset_pool`, `ngx_destroy_pool` | `malloc` and `free` |
| **Poll and select servers** `src/mutipleIO` | `fds` or `readfds`, one variable `ch` for all clients | one byte is read, and sent back plus one | clients over TCP |
| **Semaphore section** `src/semaphore/sems.c` | a System V semaphore with SEM_UNDO | initialise, P, V | other processes |
| **Record locks** `src/file_lock` | locks on ranges of one file | `lockf`, `fcntl`, write | other processes |
| **Pipes, threads, shared memory, message queue, signals** | one pipe, buffer, counter, queue or handler each | one exchange each | one partner |
| **Framing** `src/echo_server/TCPfenbao` | nothing between clients; a length in front of the data | one packet each way | one client at a time |
| **libevent: event loop** `event.c`, `evmap.c`, `epoll.c`, `signal.c` | `event_base` with its active queues, timers, counters, the eventfd and the evmap | `event_add`, `event_del`, `event_active`, `event_base_loop`, `loopexit`, `loopbreak`, `loopcontinue` | the kernel; callbacks; other threads, under `th_base_lock` |
| **libevent: evbuffers** `buffer.c` | a list of chains, `last`, `last_with_datap`, `total_len` | add, prepend, expand, reserve and commit, drain, remove, copy, move between buffers, pull up, read, write, read a line | bufferevents and users |
| **libevent: bufferevents** `bufferevent*.c` | two events, two buffers, suspensions, pending callbacks, references, the state of a connection attempt | enable, disable, set marks, connect, read, write, free | the socket, the loop, its user |
| **libevent: rate limits** `bufferevent_ratelim.c` | the token bucket of a bufferevent or of a group | decrement, refill, suspend, unsuspend, change of configuration | bufferevents of several threads |
| **libevent: resolver** `evdns.c` | nameservers in a ring, requests in flight and waiting, probe timers; requests of `evdns_getaddrinfo`; ports of a DNS server | resolve, search, cancel, time out, reissue, probe, suspend, resume; answer, drop, close | nameservers, users, the loop |
| **libevent: http** `http.c` | a connection with its queue of requests, state, retries | make, cancel and free requests; read, reply at once or in chunks | peers, users, bufferevents |
| **libevent: descriptors and backends** `evmap.c`, `epoll.c`, `poll.c`, ... | events of each descriptor, the change list, what the kernel was told | add, delete, apply changes, wait | the loop, the kernel |
| **libevent: listeners, pairs, filters, SSL, rpc** | flags, buffers, pending callbacks, references; requests | enable, disable, flush, free; make, pause, resume, answer | bufferevents, http, users |
| **Messages** `bike.pb.*` | fields and the bits that say which are set | set, clear, merge, copy, swap, parse | programs that speak the protocol |

### 1.2 What is hard in it

*Thread pool.* `waiting` is not the length of the list: a worker decrements it before it
looks, and does not undo that while it sleeps. The signal is sent before the task is
appended; a running worker can take the task that a sleeping one was woken for. The pool is
torn down by tasks that travel through the same list, and nobody counts the workers that
have ended except by counting rounds.

*Servers.* Everything happens on one thread, but between any two system calls a client may
send, finish or reset. A handler works on a batch of events that were true when the batch
was fetched; by then a descriptor may have been closed and accepted again, and a
`ConnectStat` freed and given out again. The framework leaves the old write handler in the
table when a connection turns to reading, so that a hangup calls a handler nobody expects.
Timers are set from a clock that is read once per round and compared once per second.

*Memory pool, evbuffers.* There is no concurrency, but sequences: blocks with different
headers, a reset that restarts all of them alike, failures that are counted while the start
of the search moves, entries that are reused; chains that are split, joined, resized and
freed while three pointers lead into the list, with memory that runs short halfway.

*Event loop.* Other threads add, delete and activate events while the loop sleeps or is in a
callback; an event is in up to three structures at once; the loop must be woken exactly when
it would oversleep.

*Above the loop.* Callbacks are deferred, and by the time they run what they are about may
be freed, moved, cancelled or started again; users call everything from within callbacks;
locks are taken in an order that leaves room only for trying.

### 1.3 What makes each part correct

| Part | Properties |
|---|---|
| Thread pool | tasks run once, in the order of acceptance, and all of them before the pool is freed; no worker sleeps while work waits; nobody uses the pool, the exit task or the flag after they are gone; `thread_pool_destroy` returns |
| Event framework | what it believes to be registered is registered; nothing of a closed descriptor survives in the table; no event reaches the successor of the connection it was reported for; timers are neither late nor early beyond what the clock explains |
| Echo servers | greeting, then message and reply in turns, until the end; each `ConnectStat` is freed exactly when its connection ends; every connection ends |
| Form server | one page per request, with no other client's name; no event leads to freed memory; a reset is noticed |
| Memory pool | pieces never overlap; large allocations are freed once; memory is not wasted by starting the search in the wrong place |
| Small programs | at most one process in the critical section or in the locked range; an exchange that neither loses nor repeats a message |
| Event loop | no lost wakeup; priorities; an event is called for what happened while it was pending; callers of `event_del` return |
| Evbuffers | each is a queue of bytes, whatever its chains look like |
| Bufferevents | what is due is told once, in order; references balance; connection attempts end |
| Rate limits | nobody reads without tokens, and whoever is suspended goes on |
| Resolver, http | counters, queues and timers agree with the requests; each request is answered once, whatever its server, its peer and its user do |

PROJECT.json lists the places in the code where these can go wrong ("hazards"), each with the
properties that watch it.

## 2. The modules

| Module | Models | Kind |
|---|---|---|
| `ThreadPool` | `thread_pool.c` with its mutex and condition | specification, properties, inductive invariant |
| `TaskPool` | what callers of the pool count on | abstract specification |
| `ThreadPoolProofs` | the theorems of section 5 | proofs |
| `Tcp` | clients, sockets, backlog, and what `accept`, `read`, `write`, `close` and readiness mean | shared by the servers |
| `EchoServer` | `comm.c` and `comm_epoll.c` as operators on the framework's state, `main.c` and the loop that calls it; extends `Tcp` | specification, properties |
| `EchoServerProofs` | its theorems (section 5) | proofs |
| `EchoSession` | what one client of an echo server sees | abstract specification |
| `LibeventEcho` | `main.c` on libevent; composes `Tcp` | specification, properties |
| `FormServer` | `epollserver.c`; composes `Tcp` | specification, properties |
| `FormSession` | what a browser sees | abstract specification |
| `MemPool` | `mem_pool_palloc.c` | specification, properties |
| `MemPoolProofs` | its theorems (section 5) | proofs |
| `Arena` | what a caller of any allocator counts on | abstract specification |
| `PollServer` | `polls.c` and its clients; composes `Tcp` | specification, properties |
| `SemSection`, `RecordLock` | `sems.c`; `fcntl_test.c` and `lockf.c` with the kernel's locks | specifications, properties |
| `Handover`, `Framing` | `threadsem.c` and `double.cpp`; `TCPfenbao` | specifications, properties |
| `ProgramsProofs` | the theorems on the programs (section 5) | proofs |
| `EventBase` | `event.c`, `evmap.c`, `epoll.c` and `signal.c` between the loop and other threads | specification, properties |
| `EventBaseProofs` | its theorems (section 5) | proofs |
| `EventLife` | what users of events count on | abstract specification |
| `EvBuffer` | `buffer.c` | specification, properties |
| `ByteQueues` | what users of evbuffers count on | abstract specification |
| `BufferEvent` | `bufferevent.c`, `bufferevent_sock.c` | specification, properties |
| `RateLimit`, `RateGroup` | `bufferevent_ratelim.c`: one bucket, a group's bucket | specifications, properties |
| `EvDns`, `EvGetaddrinfo`, `EvDnsServer` | `evdns.c`: the resolver, `evdns_getaddrinfo`, a server's port | specifications, properties |
| `HttpClient`, `HttpServer` | `http.c`: an outgoing and incoming connections | specifications, properties |
| `EvMap` | `evmap.c` with its change lists; `epoll.c`, `poll.c`, `select.c`, `devpoll.c`, `evport.c`, `kqueue.c`, `win32select.c` as operators on what they tell the kernel | specification, properties |
| `EventTimers` | the timers of `event.c`: the heap (`minheap-internal.h`), common timeouts, persistent events | specification, properties |
| `EventFinal` | the end of events in `event.c`: finalizers, `event_free`, `event_base_once`, freeing the base | specification, properties |
| `Listener`, `IocpListener` | `listener.c` on a loop and another thread; on completion ports | specifications, properties |
| `BevPair` | `bufferevent_pair.c`, `bufferevent_filter.c` | specification, properties |
| `BevOpenssl` | `bufferevent_openssl.c` on a socket and on a bufferevent | specification, properties |
| `RpcPool`, `RpcServer` | `evrpc.c`: a client's pool of connections, a server's requests | specifications, properties |
| `BikeMessages` | the messages of `bike.pb.cc` and `bike.pb.h` | specification, properties |
| `LibeventProofs` | theorems on rate limits and the http server (section 5) | proofs |
| `MCPrograms`, `MCLarge`, `MCLibevent` | several parts side by side; the first state says which part a behaviour is of; the other modules that runs check need only their cfgs | instances for TLC |

A definition `Op_Mistake` in front of `Op` is a mistaken variant of `Op` that no other
definition uses. Putting it in the place of `Op` must break the property PROJECT.json
names: that is how each property was seen to depend on the code.

In the modules of libevent a call of the library is one step, since it holds a lock from
beginning to end or runs in the loop's only thread, and the functions of the source are
operators from one value of the state to the next, named as in the source.

### 2.1 ThreadPool

One action is what a thread does between two accesses to what other threads can see. While it
holds `tp->mtx` nobody else touches the list or `waiting`, so taking the mutex, the work under it
and giving it back are one action each, whatever their number of statements; the branches of the
code are separate actions (`PostOverflow`, `PostEnqueue`). `wpc`, `call` and `mpc` are
the program points of `thread_pool_cycle`, of `thread_task_post` in each client and of
`thread_pool_init` and `thread_pool_destroy`. `pthread_cond_wait` is `WorkerWait` (release
and sleep at once), a wakeup by signal or for no reason, and `WorkerRelock`.

| Code | Actions |
|---|---|
| `thread_pool_init` | `CreateWorker`, `InitFails` |
| `thread_task_post` | `PostCall`, `PostLock`, `PostOverflow`, `PostEnqueue`, `PostUnlock` |
| `thread_pool_cycle` | `WorkerLock`, `WorkerWait`, `SpuriousWakeup`, `WorkerRelock`, `WorkerTake`, `WorkerUnlock`, `RunTask` |
| `thread_pool_exit_handler` | `RunExit` |
| `thread_pool_destroy` | `DestroyCall`, the posting actions by `Main`, `DestroyNext`, `Teardown` |

`main` of `src/threadpool` posts everything before it destroys the pool; the model lets any
number of threads post, and lets the owner destroy once they have stopped
(`PosterDone`). A call of `thread_pool_destroy` that gave up may be repeated.

Assumptions: `pthread_mutex_*` and `pthread_cond_*` succeed on initialised objects; handlers
return; the task counter, 64 bits wide, does not wrap. After a failing `thread_pool_init` the
workers already started use freed memory: the model lets them find it unchanged, which is
the mildest outcome, and no property is claimed to survive a worse one.

### 2.2 Tcp and EchoServer

`Tcp` keeps, for each connection, how far its client has gone (`peer`), what is unread
(`inbox`), whether the socket takes a write (`room`), and the descriptor that leads to it
(`sock`). A message is abstracted to its kind, since the servers look no further. The first
call on a reset connection consumes the error; a later read returns 0 and a later write
raises SIGPIPE, whose default action the servers keep. `accept` returns the lowest free
descriptor.

The first part of `EchoServer` is the framework without its loop: a record of `fd_table`, `epoll_state`, `epoll_fds`
and the kernel's set, and one operator per function. `EchoServer` adds the loop, one action
per system call, so that clients can act in between:

| Code | Actions |
|---|---|
| `comm_select` | `SelectChecks`, `SelectSkips`, `RoundEnd` |
| `checkTimeouts` | `ScanFd`, one descriptor at a time |
| `do_epoll_select` | `WaitReturns`, `WaitEmpty` |
| `comm_call_handlers` | `CallRead`, then `CallWrite` or `CallWriteBroken` |
| the five handlers of `main.c` | operators of their names, called from there |
| time | `Tick` |

Time is in whole seconds; a timer is kept as the seconds it has left by `sys_curtime`. The
real time that is left is the history variable `left`, and `blind` names the descriptors whose
timer was set before the clock was read for the first time.

Assumptions: a process has no more than `Biggest_FD` descriptors; one wait lasts no longer
than a second and handlers take no time; `malloc` of a `ConnectStat` succeeds;
`checkTimeouts`, which reads one entry past the table, finds zeros there, as calloc's last
page holds.

### 2.3 LibeventEcho

The handlers are those of the server above, but an event is one-shot: `CallHandler` removes it
and calls it in one step, and a handler that wants to go on adds it again. `epoll_dispatch`
and `CallHandler` are the three functions of libevent that decide this
(`epoll_dispatch`, `evmap_io_active_`, `event_process_active_single_queue`), for one thread
and one priority. The batch of `epoll_dispatch` is taken to hold all ready events: libevent
starts with room for 32 and grows.

### 2.4 FormServer

Here the kernel keeps the address of a `ConnectStat` with each registration, so the model has
addresses: `Stats` are those `malloc` may return, and freed memory keeps its contents until
it is given out again. `name` stands for both fields of the form. A request is a commit with a
name, a commit without one, or anything else; a read that ends within a commit's header is
left out, since the code then uses a null pointer. Names are shorter than their buffers.

*The result of `stat_init`*, in this program and in both echo servers: it is declared to return a
`ConnectStat *`, which its callers use at once, but ends without a `return`
(`src/epoll/epoll_framework/main.c:69-81`, `src/libevent/epoll_framework/main.c:80-92`; in
`src/epoll/epollserver.c:192` it is a comment). C leaves the value undefined. What a build makes of it can be read off: the last statement of `stat_init` loads `temp` into the
register in which results are returned, in the programs committed beside the sources
and in any build as the Makefiles have it (`gcc -g -w`, not optimised), and so the callers get the
new `ConnectStat`. `Returned` says this in each of the three modules, and everything that is checked or proved
of the three servers holds for these builds. With optimisation gcc may drop the rest of the function's work
(at `-O2` the `ConnectStat` comes back without its contents), and nothing is said of that.

### 2.5 MemPool

Blocks are numbered in the order they were made; a piece is an offset range in one. All sizes
are those of a 64-bit build, and the room left in a block is computed modulo `AddressSpace` as
the code's `size_t` does. `malloc` fails at any call; it is also what bounds the number of
blocks and large allocations. `ngx_destroy_pool` is cut into its two loops, because the first
reads memory that the second frees. Assumptions: `malloc` aligns to `Alignment`; the size of a
pool is at least that of `NGX_MIN_POOL_SIZE` and a multiple of the alignment, as all callers
have it. What the memory contains, and so the zeros of `ngx_pcalloc`, is left out.

### 2.6 The small programs

`SemSection`: a process may set the semaphore when it starts, waits, is inside, leaves, and is
killed anywhere; `adj` is the kernel's SEM_UNDO value of each process. `RecordLock`: the
writers of both programs, with lock ranges, offsets and kills. `Handover`: main reads and
posts, the thread prints, and the buffer may be seen in between; two processes share one
pipe. `PollServer`: the scan over `fds` is one step per entry, so that clients act in between. A read that
fails is served as a byte is (`polls.c:92-107`): `ch` is incremented and the entry waits to write. `ch` is local to a round
(`:45`) and keeps its place on the stack, so a client may be answered in a round after the one that read its byte.
`Framing`: TCP may cut a packet anywhere.

### 2.7 EventBase

`base` is the record of `event_base`; the functions of `event.c` lead from one value of it to the
next. The loop gives its lock up around `epoll_wait` and around callbacks, and these are the
program points of `loop.pc`: `StartLoop`, `WaitReturns`, `WaitInterrupted`, `CallbackDone` and the
closures. A thread's `event_add`, `event_del` and `event_active` are one step each, but for
`event_del`, which may wait for a callback's end (`thr`). Time is relative: `timeout[e]` is what is
left, `tv_cache` the age of the cached time, and `Tick` lets it pass while the loop sleeps or a
callback runs. Assumptions: memory suffices; `epoll_wait` reports what is ready in any order.

### 2.8 EvBuffer and BufferEvent

`EvBuffer` numbers the chains of a buffer by their place; a pointer is a place, and one outside
the list is a pointer to freed memory. The contents are bytes of two values, one of which ends
a line. Each call comes with what `malloc` does. `BufferEvent` keeps the lengths of its buffers
only. `pc` is the callback that runs and what it came from; whatever the user may call in a
callback it may call in between. `RateLimit` and `RateGroup` stand alone: to a bufferevent a limit
is one more reason to be suspended, which `BufferEvent` takes and gives back at any time.

### 2.9 The resolver

`EvDns`: a handle is a query of the user or the probe of a nameserver, and its request waits, is in
flight or has its callback deferred. The functions of `evdns.c` lead from one record of the base to
the next. The network answers any request that was sent, late, twice or never (`sent`). The
composition with the loop is the deferred callback and the timers. `EvGetaddrinfo` has the two
queries of a name as what `EvDns` makes of one, the loop's thread, and a user's thread that
cancels. `EvDnsServer` counts who holds a port: its owner and its requests.

### 2.10 http

`HttpClient`: one outgoing connection. `calls` is the stack of user callbacks that run, with what the
code does when each returns; the user may make, cancel and free requests and the connection in
any of them. When the last attempt to connect fails, the requests are told of one by one, and those that
still wait for it may be cancelled meanwhile. What the parser finds is chosen freely among what it may
report; a server may send `100 Continue` any number of times. `Odd` names what users and servers may do
that leads to a failed assertion, to the use of freed memory or to a connection that is never made
(section 4); `MCLibevent` leaves it out and `MCHttpClient.cfg` puts one in. `HttpServer`: incoming
connections, one after another, whose requests the user answers at once, in parts, in chunks, or
keeps. A server with the default configuration has no timeouts; a client that stops in the middle
of a request then keeps its connection for ever, and only what is complete is promised an end.

### 2.11 Other parts of libevent

`MCLarge` puts these modules side by side; each is small, and the first state says which one a
behaviour is of.

`EvMap`: `map` has the events of each descriptor, what was told to the kernel and what waits in the
change list; `files` says which descriptors are open and what the kernel watches. The backends have one
operator per function of a backend. Descriptors are closed and opened again behind the map's back, as
`event_reinit` after a fork and a careless user do. `EventTimers` keeps the heap as the sequence it is
and times as numbers; `EventFinal` has the loop, and another thread that deletes or frees an event the
loop may be finalizing.

`Listener`: the loop in `listener_read_cb` against calls of another thread under the listener's lock.
`IocpListener`: sockets that wait for a connection, are completed, and are handed to the user later.

`BevPair`: two bufferevents under one lock, and a filter on one of them; finalizers run in the order
in which references ended. `BevOpenssl`: the engine is external; its handshake is a sequence of sendings
and receipts, and either may block. A flag says that reading waits for room (`rbow`) or writing
for records (`wbor`). A handler is a function on a call's state: the bufferevent, the engine, and what is
left in the buckets, since `decrement_buckets` and the mark's callback suspend and enable within it.

`RpcPool`: requests are queued, paused by a hook, on a connection, or gone. `RpcServer`: the same for
requests that come in. `BikeMessages`: each class has its fields, the bits that say which are set, and
the calls that set, clear, merge, swap and parse. What its accessors say and do is an operator of its
own per class; the members, the parser's fields and the bits are tables that the other calls go through.

## 3. The runs

| Run | Configuration | Instance | Shows |
|---|---|---|---|
| `threadpool` | `MCThreadPool.cfg` | 2 workers, 2 posters, 3 tasks, `max_queue` 1, 2 destroy calls | the pool's safety and liveness, and the invariant of the proofs |
| `threadpool_max` | `MCThreadPoolMax.cfg` | the same | finding 1 |
| `echo` | `MCEchoServer.cfg` | 2 connections through one descriptor, timers 1 and 2 | stale events, timers, liveness |
| `echo_killed` | `MCEchoKilled.cfg` | the same, timers 3 and 2 | finding 2 |
| `echo_early` | `MCEchoEarly.cfg` | the same | finding 3 |
| `programs` | `MCPrograms.cfg` | eight programs: see the comment in the configuration | the two other servers and the small programs |
| `eventbase` | `MCEventBase.cfg` | six small programs on one base, one other thread | the event loop |
| `eventbase_add` | `MCEventBaseAdd.cfg` | a persistent event and a timer | finding 4 |
| `large` | `MCLarge.cfg` | memory pool, echo server with 2 descriptors, evbuffers, bufferevents, and the parts of section 2.11 | safety on larger instances |
| `libevent` | `MCLibevent.cfg` | the parts above the loop | safety and liveness of each |
| `http_connect` | `MCHttpClient.cfg` | one retry, two requests | finding 5 |
| `gai_cancel` | `MCGetaddrinfo.cfg` | one request with two queries | finding 6 |

### 3.1 What the properties say

`threadpool`: `PoolInv` (section 5); `PoolSafety` (the counter's meaning, order, no lost wakeup, no
task run or freed twice, nobody refers to the dead stack frame, a refused destroy call has ended no
worker); `QueueBound`; `DestroyDrains`; `ImplementsTaskPool`; and, under fairness,
`AcceptedTaskRuns` and `DestroyReturns`.

`echo`: `TableSound` (table, registrations, kernel, heap, backlog, events and timers agree);
`ImplementsEchoSession`; `NoStaleEvent`; `TimersPunctual` (no timer early by more than a second, none left for more than
one); `ReplyBeforeNextRead` (no read over an unsent reply unless
the connection was reset); `EveryConnectionEnds`.

`programs`: `Sound` (exclusion in the semaphore's section and the locked file, and locks held to the
end; `fds` agrees with the connections; a packet that is answered was served, and one fails only
if it was cut; the libevent server loses a connection's event only by a failed call; no event of
the form server's round points to freed memory); `StepsAllowed` (a client of the poll server gets a
byte when it waits for one, and the successor of its own unless another client's was read, or tried, since; a connection that was given up is never touched again);
`ImplementsEchoSession`, `ImplementsFormSession`; `CustomersServed` (whoever waits is served).

`eventbase`: `BaseSound` (queues, flags, counters and the eventfd agree); `NoLostWakeup`;
`HigherFirst` (what is called goes after no active event of a higher priority, but for the exceptions of section 4);
`ImplementsEventLife`; `CallersReturn`; `ActiveIsCalled`; `PollsAgain`.

`large`: `PoolSound` (pieces apart, the search starts at the first usable block, large ranges are
freed once, entries lie in live blocks, destruction in its order), `ImplementsArena`;
`SessionsKept` (`TableSound` and the stages of `EchoSession` with two connections at a time);
`BuffersSound` (chains, pointers and lengths agree),
`ImplementsByteQueues`; `BevSound` (events, marks, references and pending callbacks agree);
`StepsInOrder` (a block is added only when none has room; the end of file is reported last and no
read passes the high mark). `LibeventSound` says of the parts in section 2.11:

- `EvMap!MapSound`: the map, its change list and the kernel agree, for every backend, unless a
  descriptor was closed behind the map's back.
- `EventTimers!TimersSound`: the heap is a heap and knows every timer's place, common timeouts are in
  order and the earliest is in the heap; `NoneEarly` (in `StepsInOrder`): no timer fires early.
- `EventFinal!FinalSound`: an event is finalized once, freed once, not while it is used.
- `Listener!ListenerSound`, `IocpListener!IocpSound`: a listener's event follows its switches, and a
  socket that was accepted is the user's or is closed.
- `BevPair!PairSound`: what one may write and the other may read has been handed over; marks, callbacks,
  references and the shared lock agree, and nobody's finalizer runs twice.
- `BevOpenssl!SslSound`: whoever waits for the other direction is woken by it; who may read or has
  written is served; a blocked write is retried whole; an end of file is genuine.
- `RpcPool!PoolSound`, `RpcServer!ServerSound`: a request is in one place and its user is told once.
- `BikeMessages!MessagesSound`: a field is set exactly when its bit says so, through copies, merges
  and swaps.

`libevent`: `RatesSound`; `ResolverSound`; `HttpSound`; `RefillFills`; `HeldStays`; `WaitingGoesOn`;
`UserIsTold`. Each is the conjunction of what the modules of the parts say under these names.

### 3.2 Bounds, and why they are enough

*Thread pool.* Two workers are the fewest with which a signal can wake one while the other
takes the task, and with which a destroy call can end one worker and still wait for the
next. Two posters race for the last place. With `max_queue` 1 and three tasks the list grows
past its maximum and posts are refused. Two destroy calls let one follow a refused one. The
safety part does not rest on these bounds: it is proved for all.

*Echo server.* With two descriptors for connections (`Biggest_FD` 4, `ListenFd` 1) a batch
holds the listener and both connections in any order; with one (`Biggest_FD` 3) the second
connection waits in the backlog and takes the descriptor over, also within a batch.
`MaxEvents` 3 is no limit to such batches, as 256 is none to the usual number of clients.
One message exercises every handler; two let a second one arrive before the reply to the first
has gone. `GreetTimeout` and `EchoTimeout` stand for 30 and 10: one or two seconds expire
within a run, and the properties speak of differences of at most two seconds.
`MaxSends` bounds the messages of all clients; ends and resets are not bounded by it.

*Programs.* Two connections let one handler's effects meet another's pending event, and the form
server has two addresses for them, which are used again. Three processes at the semaphore and the
lock let one be killed while another is inside and a third waits. Two packets, cut anywhere, meet
at one server.

*Other parts of libevent.* Two descriptors and three events, so that two events share one; two or six
timers, the six for the heap's shape; two bufferevents with two bytes; two rpc connections and three
requests, so that one is queued, made in the order of their numbers. An SSL connection has a handshake
of three steps, each of which may block; `Setups` has eight kinds of it, so that each stays small: on a socket
or on a bufferevent, with marks and with 0, 1 or plenty of bytes left in the buckets when a call begins, or
without them and with one more connection or renegotiation.

*Memory pool.* 96 bytes leave 40 in the first block and 64 in others. Sizes 20, 40 and 41 leave
`last` unaligned, fill a block, and go to the large list. `FailLimit` and `EntryLimit` are
4 and 3 in the code and 0 here, so that blocks retire, and searches for a free entry give up,
within three blocks and two ranges: the definitions use them as parameters and nothing else
depends on their values.

*Event loop.* Six small programs, each of the events that interact: a persistent event and the
timer that ends the loop, two priorities, a signal, a deferred callback next to a one-shot event, and a
persistent event whose timeout may be zero.
Two signals or two deferred callbacks are pending at once; `MAX_DEFERRED` is 0 instead of 32, so that
the second already has to wait for the next round.

*Evbuffers.* Sizes are scaled down: a chain holds 2 or 4 bytes, so that four bytes lie in up to three
chains, and every threshold (automatic size, copying, realigning) separates sizes that occur. One
instance has one buffer with all ways to make room, the other two buffers that exchange chains
and are not read into.

*Bufferevents.* Two bytes and a high mark of 2 reach the mark, pass the low mark and end. `libevent`
uses one byte and connections only, for liveness.

*Rates.* 12 ticks wrap around within a run, and so does what a bucket beyond its maximum lacks, in a word of 64 values.
A user's calls leave a bucket anywhere between a debt and one token more than a maximum. Three members, one of which
another thread may keep locked, are enough for a member passed over while another is suspended.

*Resolver.* Two servers and one query move a request between servers and probe both; one server and
two queries make one wait for the other (and for the probe), with an error, a full socket and a
suspension. Counts of timeouts, retransmissions and reissues are 1 or 2 instead of 3, 3 and 1.

*http.* Two requests on a client's connection, of which one may be cancelled while the other is told of, one retry; three on a server's, so that a connection
ends and the next begins.

### 3.3 Fairness

*Thread pool* (`ThreadPool!Fairness`): weak fairness for what each thread does next, because
the kernel schedules every thread and handlers return; strong fairness for taking the mutex,
because a thread that finds it free again and again gets it in the end. POSIX does not promise
this last point; without it a single thread could starve and no liveness of any program with a
mutex holds. Nobody is obliged to post, to stop posting, or to destroy the pool.

*Servers*: weak fairness of the loop, which is one thread that never blocks for ever;
`EchoServer` adds strong fairness of `Tick`, since time goes on and not every round is shorter
than a second for ever. Clients owe nothing: they may never send, read or hang up. That is
why `CustomersServed` allows for a client that leaves no room, and why only the server with
timers promises `EveryConnectionEnds`. The kernel gives a semaphore or a lock to each of those
who wait again and again (strong fairness).

*libevent*: callbacks return; the loop calls what is active, and timers run out. In `EventBase` this is
said of the loop's steps; in the modules above it, which do not contain the loop, of what waits for
it: a callback that is deferred does not stay so, a timer does not run for ever, a socket that was
full takes data again. `[]<>~Waiting` says that of a state without naming the action that ends it.
In `EvDns` a nameserver's user resumes after a suspension. In `HttpServer` a client takes what it is
sent, or a timeout ends it.

Deadlock is checked in `threadpool`, where `Finished` marks the places at which the owner
may rightly stop, and in `eventbase`. The other runs do not check it: SIGPIPE may end a server,
programs end, and what is freed is gone.

## 4. Where code and comments disagree

1. `threadpool_max`, `QueueWithinMax`. `thread_pool.h:41` calls `max_queue` the maximum length of
   the queue. The test in `thread_task_post` (`thread_pool.c:142`) reads `waiting`, which workers
   have already decremented, so the list can hold one task more for each such worker. What does
   hold is `QueueBound`.
2. `echo_killed`, `ServerLives`. The loop of `main.c` is meant to run for ever (`main.c:209`). A
   hangup calls both handlers of a connection (`comm.c:60`, `comm.c:70`); the read handler consumes
   the error of the reset and the write handler's `write` then raises SIGPIPE, which ends the
   process.
3. `echo_early`, `NoEarlyTimeout`. `comm.c:101` sets a timeout to "the current time plus" the
   seconds, but `sys_curtime` is 0 until the first round has ended. A connection accepted in that
   round is closed at once by the next check.
4. `eventbase_add`, `AddedIsWatched`. `event_add` of an event that is active because of its timeout
   takes it out of the active queue but does not enter it in the evmap (`event.c:2640`, `event.c:2704`).
5. `http_connect`, `ConnectionStarted`. `retry_cnt` stays above 0 when all retries have failed, and
   `evhttp_make_request` then connects no more (`http.c:2676`).
6. `gai_cancel`, `CancelIsTold`. `evdns_getaddrinfo_cancel` waits in `event_del` for the request's
   timeout callback while it holds the lock that this callback takes (`evdns.c:4840`).

Met while modelling and not in a run:

- `checkTimeouts` (`comm.c:131`) scans up to and including `Biggest_FD`, one entry past the table, which
  `comm.c:87` asserts no descriptor reaches. `polls.c` would index `fds[-1]` if `accept` failed.
- `stat_init` returns nothing where its callers use the result: an unoptimised build hands on the right pointer
  (section 2.4), others need not.
- `fcntl_test.c:25` says that a section of `SECTION_SIZE` is locked; a length of 0 locks to the end of
  the file.
- Rate limits: a bufferevent that gets a configuration with a longer tick keeps `last_updated` counted
  in the old ticks, and its refills add nothing (`bufferevent_ratelim.c:56`, `:81`;
  `RateLimit!NextUpdateAdds` fails when two configurations differ in `len`).
  `ev_token_bucket_cfg_new` does not refuse a tick of less than a millisecond, by which `ev_token_bucket_get_tick_`
  then divides (`:170`), nor does a group refuse a smallest share of 0 (`:719`), with which a member may be allowed
  nothing; the proofs assume the first never and allow for the second. A user may fill a bucket beyond its maximum
  (`bufferevent_decrement_read_limit` with a negative number, which `bufferevent.h:960` offers); then
  `maximum - limit` wraps around in a `size_t` (`:97`), and the bucket is not cut down by the next tick but grows.
- Evbuffers: `evbuffer_commit_space` refuses a reservation of one vector when the chain given out is
  empty and another empty one follows; `evbuffer_remove_buffer` loses bytes and `evbuffer_prepend`
  leaves some when `malloc` fails halfway, which is why `ByteQueues` allows it.
- Bufferevents: a connection that succeeds at once with writing disabled is never reported; one whose
  error was read by the read callback is reported as connected; one that timed out may be too.
- Resolver: a timeout is charged to the server that is picked next (`evdns.c:2196`); a search that goes
  on needs a second place in flight, so that with `max-inflight` 1 it waits for ever; the base frees a
  nameserver whose probe callback is still deferred.
- DNS server: an answer that meets `EAGAIN` is not queued (`evdns.c:2044`) and other errors are.
- http: `Odd` in `HttpClient`: data that nobody asked for on an idle connection, or a request cancelled
  while a retry is due, lead to a failed assertion later. When all attempts to connect have failed the
  requests are moved to a list of their own and told of one by one (`http.c:1435-1451`). One that is cancelled
  before its turn is taken off as if it were still in the connection's queue (`:2722`), whose tail then points
  into that list if it was the last there, and the next request is appended to what is gone; after the
  connection is freed the cancelled request still points to it. A callback that makes a request on a connection
  with `EVHTTP_CON_AUTOFREE` and cancels it frees the connection (`:788`), which `evhttp_connection_done` uses
  when the callback returns (`:886`). Added to `Odd`, each of these violates `ClientSound` (the first with three requests and no retry).
- http: nothing limits the number of `100 Continue` responses (`http.c:2333`): a server that repeats them
  keeps a request for ever, and only then, which is why `UserIsTold` makes an exception.
- Event loop: a persistent event is "removed automatically" (against `event.h:929`) when it times out after a timeout
  of zero: `timeout_process` deletes it from the descriptors, too, and `event_persist_closure` adds again only what has
  an interval (`event.c:1572`). `Lasting` of `EventBase` leaves such events out.
- Event loop: `event_base_once` keeps the base locked when its event cannot be added; `event_add` without
  a timeout keeps the old one of a persistent event that was deleted (`event.h:1216` says no timeout);
  `event_base_foreach_event` misses events that are only active later.
- Event loop: `event.h:1447` says that active events of the lower number are always processed first. The
  loop leaves its queue for one that goes before only if it is told by `event_continue`, and only
  `event_active_nolock_` compares priorities (`event.c:2951`): a callback that is scheduled
  (`event_deferred_cb_schedule_`) waits until the queue that runs is empty, and so does an event that
  `event_active` activates after it has waited for a signal's callback, since it compared before.
  `HigherFirst` without `Unnoticed` fails when a deferred callback goes before two ready events.
- evport: the assertion in `evport_del` fails after 13 steps; `EvMap` stops there.
- Listener: disabling or freeing it in another thread while the loop enters `listener_read_cb` deadlocks.
  IOCP: the socket made by `start_accepting` on a disabled listener leaks.
- Filter: enabling it does not look at bytes that wait below; they stay until the next ones come.
  A pair whose two halves have different priorities may use a freed partner in its finalizer.
- SSL: `consider_reading` and `consider_writing` never end, with the lock held, when the blocked direction
  was suspended after it had blocked (`bufferevent_openssl.c:790`, `:862`: `do_write` and `do_read` return 0);
  `SpinsOnlySuspended` says that there is no other way. A record of which reading was suspended in the
  middle, or which `consider_writing` began to read, stays inside SSL until the socket has another one
  (`:806`). `stop_writing` lets the underlying bufferevent read on (`:443`). A handshake whose event was
  deleted by the rate limiter is not resumed unless the user has enabled that direction.
- rpc: a request that is refused at once leaves its timeout and leaks; the queue behind it waits for the
  next request; a timeout fails whichever request is first on its connection; `evrpc_pool_free` drops
  queued and paused requests without telling.
## 5. What is proved

### 5.1 The thread pool

`ThreadPoolProofs`, checked by TLAPS, for every number of workers (finite, at least one), posters
and tasks, every `max_queue` above 0 and every number of destroy calls (`PoolAssumption`):

| Theorem | States |
|---|---|
| `PoolInvariant` | `Spec => []PoolInv` |
| `PoolSafe` | the safety properties of the run `threadpool` follow |
| `QueueBounded` | `Spec => []QueueBound` |
| `DestroyIsSafe` | `Spec => []DestroyDrains` |
| `PoolImplementsTaskPool` | `Spec => ImplementsTaskPool` |

None of the safety properties is inductive alone. That the pool is drained when it is freed needs
to know how many workers have ended in each round, for which the exit task must be last in the
list, for which nobody else may post any more, for which `waiting` must not let the exit task be
refused in a later round, for which `waiting` must be tied to the program points of the workers.
`PoolInv` says this in parts:

- `HeldInv`: who has a task is a matter of the program point; only `Main` has the exit task.
- `MutexInv`: so is who has the mutex.
- `CountInv`: `waiting` is the length of the list less the claims, and at most `max_queue`.
- `PlaceInv`: a task is with a client, in the list, with a worker, or done, once.
- `OrderInv`: ids grow along the list and are below the next one.
- `ExitInv`: the exit task is last in the list, and nowhere unless a destroy call is on.
- `DrainInv`: how many workers have ended, and that the list has nothing else after the first round.
- `NoSleepOverBacklog` itself.

There is one lemma per action (`PostEnqueueKeeps`, `WorkerTakeKeeps`, ...) with one step per part
the action can disturb; `TailFacts` and `AppendFacts` say once what taking the head and appending do
to the elements of a list. `PoolStep` shows that each step of the pool is a step of `TaskPool` or
changes nothing there: `PostEnqueue` accepts, `WorkerTake` starts (the head has the least number, by
`OrderInv`), `RunTask` finishes, the last `DestroyNext` closes (nothing is left, by `DrainInv`).

### 5.2 The memory pool

`MemPoolProofs`, under `PoolAssumption`: any `pool_size` that can hold the header and two entries, any
page size, header sizes, alignment that divides them, `FailLimit`, `EntryLimit`, any number of blocks and
large ranges.

| Theorem | States |
|---|---|
| `PoolStaysSound` | `Spec => []PoolSound` |
| `BlocksOnlyWhenFull` | `Spec => BlockAddedWhenFull`, checked in `StepsInOrder` |
| `PoolImplementsArena` | `Spec => ImplementsArena` |

`PoolSound` is the invariant of the run `large` and inductive as it stands. Its parts need each other: a
piece is apart from the others because it is cut off behind `last`, which no piece reaches beyond
(`PiecesApart`); it fits because the search asks for what is left *after* aligning; a new block has room
because `max` is bounded by the page and the pool, which `AlignUp` must not carry over the end
(`AlignUpFacts`, from `Division`). `CurrentFirstUsable` orders the blocks by how often they failed, and
so the move of `current` in `ngx_palloc_block` is a move to the first block behind those that failed
`FailLimit + 2` times (`NewBlockCurrent`). `ngx_destroy_pool` needs `FreedInOrder`. For the refinement
`GiveOne` says that one more piece apart from the others is a `Give`; a large allocation is two steps of
memory (a range, an entry) and one of `Arena`.

### 5.3 The echo server on the event framework

`EchoServerProofs`, under `TableAssumption`, `TcpAssumption` and `EchoAssumption`: any table of descriptors, any
number of clients, any timeouts, any `MAX_EVENTS`.

| Theorem | States |
|---|---|
| `TableStaysSound` | `Spec => []TableSound` |
| `EventsNeverStale` | `Spec => []NoStaleEvent` |
| `TimersStayPunctual` | `Spec => []TimersPunctual` |
| `RepliesBeforeReads` | `Spec => ReplyBeforeNextRead` |
| `ServerImplementsSession` | `Spec => ImplementsEchoSession` |

Neither `NoStaleEvent` nor `ReplyBeforeNextRead` is inductive: an event is not stale because within a batch
each descriptor occurs once, `accept` runs at most once and gives out a descriptor whose event, if it had
one, was the one before; a reply is sent first because the registration is exactly `OUT` while it waits.
`TableSound` collects what they need:

- `RegistrationAgrees`: `epoll_state`, `epoll_fds` and the kernel agree.
- `EntryOwnsStat`: which handlers, data and timer a descriptor has, and that the heap holds just the
  `ConnectStat`s of open connections.
- `PlacedOnce`: a connection waits in the backlog or has one descriptor.
- `HandlersInTurn`: handlers are left in the table, so what is registered tells which is next.
- `BatchSound`: each event is of the connection it was reported for and still registered as it was
  then, except that the one being dispatched may have lost its connection to its read handler.
- `TimersKept`: real and table time of a timer differ by what `lag` and `since` allow.

`SetEventsFacts`, `EntryChange` and `CloseFacts` say what the operators of the framework do to one descriptor and
that they leave the others alone; `Echo`, `Accept`, `Welcome`, `Response` and `CloseStep` say so for each
handler; from those the `...Keeps` lemmas, one for each action. The server killed by a write to a broken
connection (finding 2 of section 4) is a state of its own: `BrokenEnds` shows that it is sound and `KilledStays` that it
is final. For `ServerImplementsSession` the `...Moves` lemmas show that an action moves one connection by
a step of `EchoSession` and leaves the stage of the others.

### 5.4 The event loop of libevent

`EventBaseProofs`, under `EventsAssumption`: any finite set of events with any priorities, descriptors, interests and
timeouts, zero among them, any number of threads, any `MAX_DEFERREDS_QUEUED` and bounds. The base has descriptors of its
own for the eventfd and the pipe of signals, and no user has an event on the eventfd's. A deferred callback is an
`event_callback`, which has no interest and no timeout and cannot be added.

| Theorem | States |
|---|---|
| `BaseStaysSound` | `Spec => []BaseSound` |
| `NeverSleepsOverWork` | `Spec => []NoLostWakeup` |
| `BaseImplementsEventLife` | `Spec => ImplementsEventLife` |
| `HigherStayFirst` | `Spec => HigherFirst` |

`BaseSound` is inductive as it stands; `NoLostWakeup` needs it: a call that makes work writes the eventfd only
if `is_notify_pending` is not set, and so the flag must not outlive the write it stands for. `NotifyAgrees`
says when it may: the eventfd is full while its event is reported, active or about to be called, it is
emptied only in its callback, the flag is cleared one step later under the lock, and in between the loop
does not sleep. For the timers, `timeout_next` must be at most the earliest timer and the age of
the cached time (`TimeoutNext`), and a timer added while the loop sleeps must either wake it or be no
earlier than one that is there (`Calmer`).

The functions of the source are operators on the base, so the proof has a lemma for each: `Sound(b)` is
what a base keeps at any time, `Serves(b, c, t)` what any call of thread `t` may do to it, and
`DelServes`, `AddServes`, `ActiveActivates`, ... say that each function does no more. `Fits` and
`Agrees` add what holds of the base and the loop together; the loop's own way is `NextRoundAgrees`,
`CallFirstAgrees`, `CallFromAgrees` and `CallbackDoneAgrees`, and each action has a lemma. Functions that go
over a list (`InTurn`) keep what each turn keeps (`Turns`): with no induction over data at hand, the
least turn that failed is shown not to exist.

The other two theorems need two more parts of `Inv`. `Recalls`: a persistent event that is queued is still in the
evmap or has its interval in `io_timeout`, so that the loop leaves it pending when it calls it; a deferred
callback is only ever queued. `Ranked`: unless `event_continue` is set, an active event that goes
before the running priority is one of those that `event.c` does not notice (`Unnoticed`).
`Moves` says of each step that it keeps both, that it is one of the steps of `EventLife` (`Lives`), and that an
event newly called goes after none that was noticed. `Stirs` and `Adds` say it of the functions
of `event.c`; `Goes` and `Takes` follow the loop from what `epoll_wait` and the timers report to the next callback
(`NextRoundRests`, `CallFirstGoes`, `CallFromGoes`, `ProcessGoes`, `DoneTakes`), and `AddMoves`, `DropMoves` and `ActivateMoves`
cover the calls. Another thread's `event_active` that waits for a signal's callback activates an event that may have been
deleted by then; that is why `Persist` of `EventLife` leaves out signals and the events a program activates itself.
It also leaves out events that may be given a timeout of zero: when one times out, `timeout_process` deletes it, its
`ev_io_timeout` is zero, and `event_persist_closure` (`event.c:1572`) does not add it again. Of these the theorem
says all but that they are pending after the call. `Lasting` is the set of the others.

### 5.5 The programs

`ProgramsProofs`, under `ProgramsAssumption`: any finite sets of processes, senders and connections, any number of
sections, descriptors, sends and events, any `ConnectStat`s and packet sizes; the listener has a descriptor of its
own below `Biggest_FD - 1`.

| Theorem | States |
|---|---|
| `ProgramsStaySound` | `Spec => []Sound` |
| `LibeventImplementsSession` | `Spec => ImplementsEchoSession` |
| `FormImplementsSession` | `Spec => ImplementsFormSession` |
| `StepsStayAllowed` | `Spec => StepsAllowed` |

A behaviour is of one program, so `ProgInv` is one inductive invariant per program, and each program's `...Step`
lemma shows that it is kept:

- `SemInv` (`sems.c`): permits and processes inside are one together at most, and one more for each time the
  semaphore was set while somebody was inside; at its end a process inside never takes a permit away, and one
  outside never gives one back; once the semaphore is set the permits, with those the kernel will give
  back, are more than it will take.
- `LockInv` (`fcntl_test.c`, `lockf.c`): all locks of a program hold one byte, `Key`, which two writers cannot
  lock at once, and a writer keeps its lock as long as it writes.
- `PollInv` (`polls.c`): `Polls!EntriesAgree` at every point of the scan, with what is reported of descriptors
  the scan has yet to reach, and `backlog` not empty while the listener is reported.
- `FrameInv` (`TCPfenbao`): what each side has sent and received follows from its stage, unless TCP was cut.
- `EchoInv` (`main.c` on libevent) and `FormInv` (`epollserver.c`): the parts of `WatchedOrFailed` and `StatsSound`,
  that an event is reported once, and `NetInv`.

`NetInv` says that a connection has one descriptor or waits in the backlog once. The two servers share it, and
its lemmas, one for each call of the kernel (`ClientsKeepNet`, `AcceptKeepsNet`, `CallKeepsNet`,
`CloseKeepsNet`).

The refinements follow from these invariants. The libevent server's `StageOf` a connection is its handler
(`StageIs`), so one `...Moves` lemma per action shows either no connection or one that moves
(`StagesStay`, `StageMoves`). The form server needs one invariant more, `TurnsRight`: a connection that waits
to write has its page chosen, and an event of a connection says what its entry of the kernel now asks for.
Without it a second event of one batch could answer a request that was never read. `Views`
states `Owed` and `NameOf` by the one `ConnectStat` that serves the connection.

`StepsAllowed` of the poll server is about a byte read in one round of the scan and answered in another, with other
clients' bytes read in between into the one `ch`. `AnswersOwed` carries it over: a byte sent and not read, and
one read and not answered, has a client that waits for it, and while `since` of that connection is empty
`ch` is its own byte. What `poll` reported of an entry that the scan has not come to yet must still be so
(`EntryOwes`), whatever the entries before it did. `PollNet` says that no connection has two entries.

### 5.6 Parts of libevent above the loop

`LibeventProofs` is about `MCLibevent`, which holds several parts side by side, a behaviour being of one of them. It
assumes `RatesAssumption` (any finite set of members, any set of configurations whose rates are at least 1
and at most their maximum, any ticks of at least 1 ms, any width of a `size_t`, any bounds on what users take and
give) and `HttpAssumption` (requests are numbered from 1).

| Theorem | States |
|---|---|
| `RatesStaySound` | `Spec => []RatesSound` |
| `OnlyUsersFill` | `Spec => [][part = "bucket" => Bucket!OnlyUsersOverfill, part = "group" => Group!OnlyUsersOverfill]_vars` |
| `ServerStaysSound` | `Spec => [](part = "http server" => Server!ServerSound)` |
| `HeldRequestsStay` | `Spec => HeldStays` |

`PartsInv` has an inductive invariant for each part that is proved about:

- `BucketInv` (`RateLimit`): a direction without tokens is suspended, and the refill timer runs just when something
  is suspended. Users may take and give any number of tokens, so a bucket may hold more than its maximum;
  `OnlyUsersFill` says that nothing else brings it there. That is arithmetic: `ev_token_bucket_update_` compares a
  quotient with the rate instead of multiplying, and `FillBounds` shows, by `QuotientBounds`, that what it adds to
  a bucket within its maximum has room, for any number of ticks that passed and any width of a `size_t`.
- `GroupInv` (`RateGroup`): types of the members' threads besides `GroupSound`. A member that another thread holds
  when the group is suspended or goes on is taken along by `pending`, and what a member was allowed
  (`atmost`) was never less than the share (`ShareIsEnough`).
- `ServerInv` (`HttpServer`): `Serving` of the base. Besides `ServerSound` it needs which states the parser may be
  in while a request is read, and that what is still written while the user has a request can only be its
  `100 Continue`. The functions of `http.c` take a base and give one, so each has a lemma that says what it
  makes of one with a request (`Busy`): `Handled` if it leaves a base that is `Serving` and
  no other request but a new one is touched. The parser is a tree of choices that ends
  in four of them (`WaitsParsed`, `WrongParsed`, `DoneParsed`, `ContinueParsed`), and `ReadParsed` puts them together.
  `HeldStays` follows from the same lemmas: only what `evhttp_send_done` ends is freed by a step that the
  user does not make for a request of its own.

That a refill adds tokens (the rest of `RefillFills`) needs that no bucket is left alone for half of the ticks, and
stays with TLC.

Model-checked only: all liveness, which is out of the prover's reach, and everything said of the parts
without a theorem above.
## 6. Plan

Done: the thread pool with its proofs, the event framework and the servers, the memory pool, the small
programs, libevent's event loop, evbuffers, bufferevents, rate limits, resolver and http, and the parts of
section 2.11.

What is left to model: searching, peeking and file segments of `buffer.c`, `event_tagging.c`, URIs and
virtual hosts of `http.c`, the configuration and the packets of `evdns.c`, the Windows files.

Next theorems, in order:

1. `HttpClient`: `ClientSound` and `ConnectionStarted` without `Odd`, which would give the whole of `HttpSound`.
2. `EvDnsServer` and `EvGetaddrinfo`: `PortSound`, `ToldAndFreedOnce`.

## 7. What is not modelled, and why

- `src/libevent/epoll_framework/comm.c`, `comm_epoll.c`, `globals.h`: the same files as in
  `src/epoll/epoll_framework`, not linked there.
- The clients' terminal and event loop (`src/libevent/client.c` and its copy): to a server they are any
  client, which is what `Tcp` allows. The three callbacks of `src/libevent/server.c` are a user of
  `BufferEvent`.
- `comm_select_shutdown` of the framework: it stands behind an endless loop.
- The logging, the HTML and the addresses of all servers.
- `src/thread/inputm.c`: a data race; what its threads see is undefined, and nothing it promises holds.
- `src/process`, `src/DirectIO`, `src/mysql`, `src/udp`, `src/shared`, `src/msg`, `src/signal`, the
  unframed TCP examples and the one-way pipes: straight-line input and output without state that two
  actors share while both run.
- The samples and tests of libevent, and the wire format of `bike.pb.cc` but for which fields it carries.
- libevent: the Windows files but for the listener and `win32select.c`, and the wrappers in `evutil*.c`, `log.c`,
  `arc4random.c` and `evthread.c`, which have no state that two calls share but for a lock.
