# A TLA+ model of phantom

phantom (`src/phantom`) is a discrete-event network simulator that runs real
programs: a fork of Shadow.  Its hosts execute events; worker threads run the
hosts in parallel, round by round; a round is a window of simulated time that
is short enough for the hosts not to influence one another within it.  This
directory models

* that core: the threads, the scheduler policies and the length of the windows;
* how control passes between Shadow and a managed process, and how the death
  of a process is noticed;
* on a host, how system calls block and are continued, timers and epoll;
* the network of a host: interface, router queues, and a TCP connection.

The two other trees of the repository, `shadow_v1.14.0` and `shadow_enhanced`,
are older baselines and are not modelled.  They are two thirds of the
repository's implementation lines, which is why the map covers a small share of
the whole.

Paths below are relative to `src/phantom/src/main` unless they say otherwise.

## Inventory of the system

| part | state | operations | talks to | what makes it correct |
|---|---|---|---|---|
| Controller (`core/controller.c`) | execution window, `minJumpTime`, `nextMinJumpTime` | compute the next window, take reports of a smaller latency | Manager calls it between rounds, workers through the manager's lock | a window is no longer than the least known latency; windows stop at the stop time |
| Manager (`core/manager.c`) | the loop over rounds | `manager_run`, set-up of hosts | Scheduler, Controller | rounds in order, shutdown after the last |
| Scheduler (`core/scheduler/scheduler.c`) | current round, hosts, the policy | start, push, continue, await, finish | WorkerPool, policy | an event is pushed before its time is reported |
| Policies (`core/scheduler/scheduler_policy_*.c`) | queues per host or thread, lists of hosts per thread, locks | `addHost`, `push`, `pop`, `getNextTime` | called by all workers at once | no host lost or run twice, no event into the past, the round complete, same result as a sequential run |
| WorkerPool (`core/worker.c`), logical processors (`core/logical_processor.rs`), latch (`utility/count_down_latch.c`) | `taskFn`, semaphores, ready and done queues, latch, `minEventTimes` | start a task, run it, chain, await, join | pthreads, semaphores | every worker once per task, one worker per logical processor, no lost wake-up |
| Events (`core/work/event.c`), priority queue | time, hosts, per-source id | create, compare, execute | policies | a total order that does not depend on threads |
| Topology (`routing/topology.c`) | graph, path cache, minimum latency | `getPathEntry`, store, report | workers, Controller | the latency of the edge, the true minimum, no path freed in use |
| Router and its queues, network interface | CoDel state, token buckets | enqueue, dequeue, refill | workers deliver packets, tasks refill | no packet lost without a drop, the refill always comes back |
| TCP, UDP, sockets | connection state, buffers, timers | the system calls, packets, timers | interface, descriptors, tasks | data in order and once, timers that are never cancelled but ignored |
| Descriptors: timer, epoll, eventfd, pipe, table | status bits, listeners | read, write, close, notify | system calls, listeners | a listener hears of every change, nothing after close |
| Blocked system calls (`host/syscall_condition.c`, `status_listener.c`, `futex.c`) | trigger, timeout, `signalPending` | wait, signal, cancel | descriptors, tasks, process | a blocked thread is woken once and for a valid reason |
| Process, thread, shim (`host/thread_preload.c`, `src/lib/shim`) | IPC block, two semaphores | run until blocked, forward a system call | managed programs | strict alternation; no wait on a dead child |
| Shared memory, data structures, child watcher | buddy bitmaps, interval maps, pid table | allocate, free, watch | shim, memory manager | no overlap, exactly one callback |
| ptrace threads, memory manager, files, configuration, logging, DNS | | | the kernel, configuration files | left out: kernel protocol, or pure data and output |

`PROJECT.json` lists all components with their sources, and under `hazards`
what is hard to test at which line.  The hard behaviour of the core is
concurrency without locks where one would expect them: workers wake one
another, the next event's time is kept without a lock, a thief peeks at a list
without a lock, queues are read while others push, and the length of the next
round is reported after the lock that protects it is released.  The hard
behaviour of a host is that everything is a task that cannot be cancelled:
refills, timeouts, delayed acknowledgments, retransmissions and wake-ups all
find out when they run whether they are still wanted.  Beside both runs the
managed process, which may die at any moment.

## Modules

| module | models | extends |
|---|---|---|
| `WorkerPool` | worker pool, logical processors, latch | |
| `WorkerPool_proofs` | theorems about `WorkerPool` | `WorkerPool` |
| `SimEvents` | events, their order, the adjustment at the barrier | |
| `EventSim` | abstract: a conservative parallel simulation | `SimEvents` |
| `Rounds` | what every policy shares: a worker's round, `scheduler_push`, `manager_run` | `SimEvents` |
| `HostSteal` | the work-stealing policy (`steal`) | `Rounds`, instantiates `EventSim` |
| `HostSteal_proofs` | theorems about `HostSteal` | `HostSteal` |
| `HostSingle` | the default policy (`host`) | `Rounds`, instantiates `EventSim` |
| `HostSingle_proofs` | theorems about `HostSingle` | `HostSingle` |
| `Determinism` | `HostSteal` with a log, and a sequential reference | `HostSteal` |
| `Lookahead` | path cache, minimum latency, controller's windows | |
| `Lookahead_proofs` | theorems about `Lookahead` | `Lookahead` |
| `Timer` | the timer object (`host/descriptor/timer.c`) as operators | |
| `TimerFd` | a timer used by a program through a descriptor | `Timer` |
| `BlockedCalls` | conditions, futexes, timeouts, and the threads they block | `Timer` |
| `BlockedCalls_proofs` | theorems about `BlockedCalls` | `BlockedCalls` |
| `ExitNotifier` | abstract: what the child watcher promises | |
| `ChildPidWatcher` | the watcher thread and its clients | instantiates `ExitNotifier` |
| `ChildPidWatcher_proofs` | theorems about `ChildPidWatcher` | `ChildPidWatcher` |
| `ShimIpc` | Shadow and a managed process exchanging control | instantiates `ExitNotifier` |
| `ShimIpc_proofs` | theorems about `ShimIpc` | `ShimIpc` |
| `Loops` | a bounded loop as an operator | |
| `RouterQueue` | the three queue managers of a router | `Loops` |
| `NetworkInterface` | interface, queuing disciplines, router, datagram sockets | `RouterQueue` |
| `TcpTally` | the tally of lost ranges, Reno | `Loops` |
| `Tcp` | a connection and both its ends | `TcpTally` |
| `Epoll` | epolls, watches, waiting threads | |
| `Descriptors_proofs` | theorems about `Epoll` and `TimerFd` | `Epoll`, `TimerFd` |
| `MCHostSteal`, `MCHostSingle`, `MCLookahead`, `MCBlockedCalls`, `MCNetworkInterface`, `MCTcp` | instances for TLC | |
| `MCRuntime` | `WorkerPool`, `Lookahead`, `ShimIpc` and `ChildPidWatcher` in one instance | these |
| `MCDescriptors` | `Epoll` and `TimerFd` in one instance | these |

`MCRuntime` and `MCDescriptors` are sums, not compositions: the variable
`subject` says which of the modules a behaviour is about, and the variables of
the others keep their initial values.  The modules share no state in the code
but what `ExitNotifier` abstracts, and a run of all of them at once would only
multiply their states.  Modules that appear together have definitions with
different names, hence `PoolInit`, `WatcherSpec`, `LookaheadTypeOK` and so on.

Definitions with the comment "Faulty variant" or "Mutant" are bugs that the
code does not have.  `PROJECT.json` pairs one with every property that a
passing run checks; with the faulty definition in place of the right one the
property is violated.

### WorkerPool

One variable per field of `struct _WorkerPool` (`taskFn`, `workerBeginSems`,
`minEventTimes`, ...), one program counter per worker.  A worker's actions
follow the body of `_worker_run`: `BeginTask` (sem_wait and the read of
`taskFn`), `ReportTime`/`StoreTime` (the compare and the store of
`worker_setMinEventTimeNextRound`, two steps), `EndTask`, `DonePush`,
`PickNext`, `PostNext`, `CountDown`.  The main thread's are `PoolCreated`,
`StartTask`, `StartLp` (one iteration of the loop that wakes a worker per
logical processor, interleaved with workers that already run), `StartedAll`,
`AwaitTask`, `JoinAll`.  `MayFollow` is the order in which `manager_run` and
the scheduler hand out tasks.  History variables `timesRun`, `reportedMin`,
`collected` serve the properties only.

Abstracted: the order within a ready queue; a scan of the ready queues is one
step, which is exact because the queues only shrink while workers run.
`lpIdx` starts as the zero that the allocation leaves.
A report earlier than the round's end is ignored by the code and does not
appear; reports while hosts boot are ignored because the round's end is not
set then.  The path for a pool without workers, where the main thread runs the
task itself, cannot be reached: `workerpool_new` asserts at least one worker.

### SimEvents, Rounds and the policies

`Emits(h, e)` is what executing `e` on `h` may send: the managed program, the
network stack and everything else a host does.  It may contain events to the
host itself, so the rescheduling of an event on a busy CPU in `event_execute`
is one of its cases.  Creating the events is one step (`ExecuteEvent`), each
`scheduler_push` another.  `Rounds` keeps `minEventTimes` per thread; in the
code it is per logical processor, and `WorkerPool` shows that the minimum is
the same.  The first window is [0, 1), as in `manager_run`; the lengths of the
later ones are any of `Jumps` (`Lookahead` is about which).

`HostSteal` keeps the threads' locks explicit because a thief holds two.  The
lock of a host's queue is not: its holder waits only for the tables' lock,
whose holders wait for nothing.  `PopLock` to `LockSecond` are
`_schedulerpolicyhoststeal_pop` in order, `PopEvent` and `HostProcessed` one
iteration of `popFromThread` each.  The unlocked `Peek` is a data race in C; on
the machines phantom is built for, the load of the list's head yields the value
before or after a concurrent critical section, which is what a step of its own
gives.  Lists are sets, so the host that runs next is any of the list.

`HostSingle` keeps the lists as sequences, as they are private to a thread.

`EventSim` is what both promise: every host executes its events in event order
with a clock that never goes back, and a window ends when no host has an event
before its end.  `Determinism` adds a log to `HostSteal` and compares it, at
the end, with a sequential execution of the same events.

### Lookahead

`GetPathEntry`, `LookupDirectPath`, `StorePathInCache`, `ReadMinimum`,
`UpdateMinTimeJump`, `PathFound` are the parts of one call of
`_topology_getPathEntry` between its locks; `UsePath` is the caller's use of
the path.  `cache` counts the stores of a path, so that a path that was replaced
(and freed) is another one than the path that a worker has got (`path`).  Latencies are nanoseconds; a millisecond is `MS`
of them.  `ReplacesJump` keeps the code's comparison of milliseconds with
nanoseconds, `UpdateMinTimeJump` the conversion that drops fractions, `NewEnd`
the wrap-around of `SimulationTime`.  The mode with shortest paths is not
modelled.

### Timer and TimerFd

A timer is a record, an operation an operator that yields the timer it leaves
and the expire events it schedules.  Events are never cancelled; `minId` tells
the valid ones.  `OneSecond` is the furthest an event is scheduled ahead.
`TimerFd` adds the queue of events and the program: `SetTimer`, `ReadTimer`,
`CloseTimer` at any moment, `ExpireTimer` for an event that is due, and the
clock.  `first`, `period` and `taken` record what was asked for and read.
`TimerInit` starts at time 1, since `process_schedule` starts no program at time 0,
where an expiration at the current time would read as a disarmed timer.
Left out: overflow of a 64-bit time, and calls that are refused (EINVAL).

### BlockedCalls

One process with several threads on one host.  A host executes one task at a
time, so the state between two steps is that between two tasks, or that of a
thread (`running`) between two of its system calls.  `tasks` is the host's own
queue: start and stop of the process, expire events of the threads' timers, and
signal tasks of conditions, ordered as `event_compare` orders tasks of one
host.  `Arrive` is a packet of another host: by `event_compare` it comes before
all of the host's tasks of that time (`early`) or after them.

`Call` is a new system call of the running thread, with `MakeSyscall` for the
handler; `RunSignal` continues a blocked thread, whose call is handled again by
the same `MakeSyscall` with `WasBlocked`.  `Cond` keeps the references that
`syscall_condition.c` counts; its listeners are the two flags `onTimer` and
`onTrigger`.  A futex is its address in `table` and the conditions that listen;
the order in which `futex_wake` meets them is that of a hash table, here any.

Abstracted: the shared descriptor is the one that is read, polled or waited for
with epoll, with its readable status only (an epoll's own status follows at
once); a futex wait whose value differs returns and changes nothing, so it does
not appear; a continued thread takes no simulated time (CPU delay).  A panic or
failed assertion sets `crash` and ends the run.  Bounds: `MaxCalls`,
`MaxArrivals`, `EndTime`, and `Conds`, of which there are at least as many as
threads and which therefore never run out (`FreeCond` in the proofs).

### ChildPidWatcher and ExitNotifier

`Clients` call `watch` and `unwatch`; both run under the watcher's lock, but
`watch` is two steps (`WatchRegister` is the second), because the child may die
between the opening of its pidfd and the check for a zombie.  The watcher
thread takes its events from epoll before it has the lock: `ThreadStep` has a
step for each, and the events it holds may be stale by then.  A command queue
and an eventfd (`notified`) carry the children found dead by `watch` and the
request to finish (`drop`).  A pid stands for one child: that the kernel gives
it to another one is left out.

`ExitNotifier` states the comments of the source: a callback runs once, after
the exit, also when that came first, and never after `unwatch` has returned.

### ShimIpc

One process, up to `MaxThreads` threads, the worker that runs its host, and the
watcher as `ExitNotifier`.  Every thread has two slots and two semaphores
(`toPlugin`, `toShadow`, `semPlugin`, `semShadow`).  Shadow's side (`spc`)
follows `threadpreload_run` and `threadpreload_resume`: a message from the
plugin, the handler, the answer; handlers that exchange messages themselves
(blocking, `clone`) wait in states of their own.  The plugin's side (`ppc`) is
the loop of `preload_syscall.c`.  `Die` kills the process anywhere;
`MarkPluginExited` is what the watcher's callback does.  `swallowed` records
the threads whose notice of death was read inside a handler.

Shadow is left waiting in two cases, which `Hangs` names and `ControlReturns`
exempts: the notice was swallowed, or a clone failed and the shim spins.

Abstracted: the call a thread makes is one of `Calls`, memory requests of a
handler are left out (their exchange has the form of the one for `BLOCK`), and
spinning is waiting.

### RouterQueue and NetworkInterface

A handler of the interface is one action; the C functions below it are
operators on the record `nic`.  `Tick` advances time to the next moment and
waits until everything due then has been executed.  `RouterQueue` has the three
managers; CoDel's square root is computed on integers as far as its comparison
with a time needs.  `nic.spent`, `nic.wire`, `nic.got`, the `drops` of the
router and `good` are records for the properties.

`Setups` bounds what a behaviour may do: discipline, manager, packets that come
in and go out, their lengths and until when, sockets that may be closed.  The
bootstrap period (no limits before `BootstrapEnd`) is part of every one.  A
datagram is one packet whatever its length, so lengths are not limited by the
MTU; `Consume` charges a packet as much as the bucket has.  `RateLimited` counts
packets up to an MTU in full and longer ones as they are charged.

### TcpTally and Tcp

An end of the connection is a record, every function of `tcp.c` on the way of
a packet, a system call or a timer an operator from record to record:
`ProcessPacket`, `Flush`, `TimerExpired`, `Shutdown` and so on.  Between them,
the path: packets in flight with the ticks left, of which those with a payload
may be lost (`MaxLosses`), and an interface whose bucket may be empty
(`MaxStalls`).  A packet with a payload waits in the socket's buffer for data,
any other, the FIN too, in the one for control packets, which is sent first
(`socket.c:411`, `444`); `finFirst` records that a FIN overtook data.
`DupThresh` is the number of duplicate acknowledgments that start a fast
retransmission (3 in the code), `RestartWindow` the congestion window after a
timeout (10 in the code).  A packet takes at least a tick, so the hosts take
turns within one (`turn`): what they do in it cannot meet.

The applications write as much as fits, read all there is, and shut down or
close; they close only after the end of the stream, or when the peer writes
nothing.  Timers count down; a tick ends only when nothing is due, so the
delays up to a millisecond fall within one.  `Rtos` are the values the
round-trip estimator may yield.

Not modelled: RST, `SHUT_RD` alone, packets read in part, autotuning of
buffers, the table of a server's children, reordering on the path (a path has
one latency), and drops in a router's queue, which unlike the path may drop a
packet without data.

### Epoll

Status bits of two files, an epoll that watches them (`Inner`) and one that may
watch a file and `Inner` (`Outer`).  A change of status runs through the
listeners within one step, as in the code.  `due` is kept for the properties:
for each watch what was switched on since it was reported last.  A waiting
thread is told by a signal that runs later (`RunSignal`), as in `BlockedCalls`.
The order of reports is by age and id, as `_epollwatch_compare` has it.
`Removed` moves up the ids of later watches, since only their order counts.
`Lingering` files are those that stay registered in the descriptor table after
their close (TCP).  Not modelled: the number in the key of a watch, cycles,
`epoll_reset` and the private epoll of `poll`.

## Runs

| run | instance | what it shows |
|---|---|---|
| `runtime` | 3 workers on 2 logical processors, up to 2 rounds | the pool's invariants and that it shuts down |
| | 2 workers, 2 vertices, whole milliseconds | paths are found with their latency, the minimum is the true one, the end is reached in spite of the overflow |
| | a process of 3 threads, 2 calls each | one side runs, no message overwritten or unknown, death noticed and reaped, control returns to Shadow unless it `Hangs` |
| | 2 children, 2 clients, 3 handles | no exit lost, no pidfd left, refinement of `ExitNotifier`, every exit is notified |
| `host_steal` | 2 threads, 3 hosts, up to 3 events created per host, windows of 1 or 3 | placement of hosts, causality, complete rounds, the sequential result, refinement of `EventSim`, termination |
| `host_single` | 2 threads, 3 hosts, windows of 2 | refinement of `EventSim`, termination |
| `blocked_calls` | 3 threads, 1 futex, 1 descriptor, 5 calls, stop at 4 | references, one signal task, no missed wake-up, timeouts belong to their call, sleeps and futex waits end in time, reasons to return |
| `network` | 2 sockets, 5 setups, up to 8 packets, datagrams above the MTU and the bucket | refills, what is charged keeps to the rate, no packet lost or overtaken, CoDel's patience, the interface becomes idle |
| `tcp` | 3 packets one way, 1 loss and 1 empty bucket, receive buffer 2 | data in order and once, unacknowledged packets in one queue, timer armed, all is read, both close, but for the exemptions below |
| `descriptors` | 2 files, 2 epolls, 2 threads, 3 calls of `epoll_ctl` | reports exact, no lost wake-up, no starvation |
| | a timer with 3 settings, times up to 7, `OneSecond` 2 | one valid event, exact count of expirations |
| `lookahead_race` | 2 workers | violated: a larger latency replaces a smaller one |
| `path_overwritten` | 2 workers | violated: a path is replaced, and freed, while a worker uses it |
| `lost_timeout` | as `blocked_calls`, timeouts above zero | violated: a poll goes on past its timeout |
| `tcp_two_way` | 2 packets one way, 1 the other, no loss | violated: received data stays unacknowledged |
| `tcp_fin_first` | 3 packets one way, 1 loss, 1 empty bucket, 3 duplicates | violated: the sender closes while data that was lost is still to be resent |

A property that a run names is often the conjunction of parts, each with its
own definition and comment: `HostsPlaced`, `RoundExact`, `PathCacheExact`,
`CondsExact`, `TimeoutsExact`, `NothingLost`, `Exchange`, `DeathNoticed`,
`RefillsExact`, `PacketsKept`, `QueuesExact`, `EventsExact`.
TLC then names the whole; the part is found by listing the parts in the
configuration instead.  `TypeOK` is one of the parts, except for `WorkerPool`
and `TimerFd`, where it is only proved.

Some properties exempt a case, and say so where they are defined:

* `PathServes` (in `PathCacheExact`) is about latencies in undirected graphs,
  and none of its parts says that a path is stored once.
* `NotOverdue` (in `TimeoutsExact`) is about sleeps and futex waits with a
  timeout above zero.
* `DeathNoticed` and `ControlReturns` exempt a swallowed notice, the latter also
  a clone that failed.
* `RateLimited` (in `RefillsExact`) leaves out the bytes of a datagram above the
  MTU that the bucket did not have.
* `AllRead` exempts data that a FIN has overtaken, `BothClose` an end whose FIN
  waits for data that was left behind.
* `ReportsExact` (in `EventsExact`) is about what epoll_wait reports, not about
  when an epoll is readable.

What the code does in each of them is below, among the findings or the other
disagreements.

### Findings

Five runs state what a comment of the source says, and TLC finds it violated.
`findings` in `PROJECT.json` quotes the comments.

* `LookaheadSafe`: two workers report their minimum in the other order, and
  `controller.c:143` compares milliseconds with nanoseconds.
* `PathsKept`: both workers find the cache empty under the reader lock, the
  first stores its path and gets it back, the second stores its own; the first
  path is freed under its user (`topology.c:1227`).
* `TimeoutsDelivered`: data arrives in the tick in which a poll is due, before
  the timer's event.  The timeout finds `signalPending` set and schedules no
  signal (`syscall_condition.c:352`).  Another thread, signalled first, reads the
  data; the poll's signal is then not valid and is dropped, and the poll blocks
  on without a timeout.  The property is also violated, sooner, with timeouts of
  zero: a futex wait with zero disarms its timer (`timer.c:333`) and blocks until
  it is woken.  The run has no timeouts of zero, in order to show the race.
* `DataIsAcked`: with data both ways, `_tcp_flush` (1181) sends throttled data
  before it takes the new input, and the packet, which carries the old
  acknowledgment, clears the delayed one (1166).
* `ClosesAfterSending`: a shutdown while the bucket is empty lets the FIN
  overtake data.  When that data is then lost, the peer answers the FIN
  nevertheless; in LASTACK the answer closes the socket and clears its
  retransmission queue.

### Other disagreements between code and comments

They are shown by the models with other constants, follow from the exemptions
above, or were met while reading; no run is kept for them.

Scheduling and topology:

* A latency below a millisecond is cut to zero on its way to the controller
  (`controller.c:146`), and the default of ten milliseconds replaces it:
  `LookaheadSafe` with a latency below `MS`.
* In a directed graph the path of one direction answers for the other
  (`topology.c:1195`, `1962`).
* The option `runahead` is a lower bound (`controller.c:134`), where
  `docs/shadow_config_spec.md` says it overrides the computed value.
* The policies `thread`, `threadxthread` and `threadxhost` read a `pthread_t`
  back with `GPOINTER_TO_UINT` (`scheduler_policy_thread_single.c:88`) and fail
  their assertion at the first push; they are not modelled.

Blocked calls:

* A signal task that runs after `exit_group` continues a process that was
  cleared (`syscall_condition.c:305`, `process.c:565`).
* A futex waiter that a wake has counted returns ETIMEDOUT when its timeout
  expires before its signal task runs (`syscall/futex.c:75`).

Shim:

* `thread_preload.c` never stores the handle of `childpidwatcher_watch`
  (lines 183, 358), so the unwatch in its free function (63) is never made.
* After a native `clone` that fails, the shim waits for a child that does not
  exist (`preload_syscall.c:60`, `shim.c:104`).
* The notice of a death that is received inside `clone`, a native call or the
  answer to `BLOCK` is swallowed: the assertion there is not compiled in a
  release build, and the next read does not "return immediately" (`ipc.cc:50`).

Network interface:

* Packets to the own address are charged to the send bucket, where a comment
  (near `network_interface.c:600`) says they do not consume bandwidth.
* A datagram needs an MTU of tokens whatever its length, and one larger than
  the bucket is charged the bucket (`network_interface.c:120`); `udp.c:114` sends
  up to 65507 bytes as one packet.  Bytes on the wire then exceed the rate, where
  a comment says "packets are delayed until they conform with outgoing rate
  limits" (62).  With `Counted` the whole length, `RateLimited` is violated.
* CoDel's control law divides the whole time by the root of the count, not the
  interval as RFC 8289 has it.
* A socket that was bound and then connected leaves its first key in the
  table of associations when it is closed (`network_interface.c:329`); a general
  bind to a port held with a specific peer is allowed (288).
* A datagram without data does not make a socket readable (`socket.c:352`).
* A blocking send to a buffer with some, but too little, room waits for a
  status that is already on.

TCP:

* Data that is acknowledged while it waits in the throttled queue to be sent
  again (after a timeout that was too early, or with a congestion window of one)
  is resent and never released: the output buffer is never empty, and the FIN is
  not sent.  This is `LeftBehind`, and shown with `RestartWindow` 1.  In the other
  direction an old duplicate among the unordered input blocks the loop that moves
  it.
* A FIN that overtakes data makes the receiver ask for data that was not lost,
  and with `DupThresh` 1 it is sent twice.
* A SYN that is lost is not sent again; an acknowledgment of all data stops the
  timer although a FIN is outstanding; a FIN's acknowledgment is not repeated;
  a closed window is not probed (2304), so an update that a router's queue drops
  stops the connection.
* The backlog of a listening socket is not enforced; a reader that comes after
  CLOSED gets ENOTCONN; Reno does not reset its count of duplicate
  acknowledgments in congestion avoidance.

Epoll:

* An edge-triggered or one-shot watch stays in the table of ready watches after
  its report, so the epoll stays readable and `epoll_wait` returns at once
  without an event, where comments say it "is readable when it has events"
  (`syscall/epoll.c:192`) and "can no longer read" when all are consumed
  (`epoll.c:649`).
* An epoll that watches another edge-triggered misses its second event while
  the first keeps it readable.
* A watch of a closed file that is not TCP is left in the table (a FIXME of the
  code, #1101).

### Bounds, and why they are enough

* More workers than logical processors (3 on 2) is the least pool in which one
  processor is used by two workers in turn, and a worker is taken over from
  another processor's queue.  Two rounds are the least in which something can
  be left over from the one before.
* Two threads and three hosts give one thread two hosts, so that a host can be
  stolen while its old thread runs another.  `Emits` contains an event that the
  barrier postpones, one within the round to the host itself and one beyond the
  round; `Jumps` for `HostSteal` has a window shorter and one longer than the
  delays, and hosts receive events of two hosts for the same time.
  Two threads do not form a chain of three locks; the locks are ordered by
  thread number, and the spin waits for a thread that holds no lock.
* `MaxEvents` bounds the events a host creates, `EndTime` the simulation,
  `MaxRounds` the rounds.  The instances of `Emits` stay below `MaxEvents` or
  stop sending, so that no run ends because of the bound; deadlock is checked.
* `MS` is 10 and the latencies are 20 to 50, `TIME_MOD` is 1024: scaled so that
  the mixed comparison and the overflow behave as with 10^6 and 2^64.
* Three settings of a timer are the least in which an event of the first is in
  the queue while the second is replaced; values below and above `OneSecond`
  cover a delay that is checked again, intervals of 1 and 2 several expirations
  between two reads.
* Three threads give a futex two waiters and one that wakes; five calls are
  enough to clone two, block both and wake one, or to block again after a
  timeout.  Timeouts 1 and 2 with `OneSecond` 1 make them meet each other, the
  arrival and the stop at 4; a timeout of zero is among them, too.
* Two children and two clients give a stale event of one child while the other
  is watched; three handles are the least with which a child is watched again
  after its callbacks were removed while the thread holds an event.
* Three threads and two calls per thread: a clone while another thread is
  blocked, and a death in each of the exchanges.
* The interface's sizes are scaled to the packet: an MTU of 3, a refill of 2,
  so that a bucket needs two refills for a packet.  Eight packets under CoDel
  are enough for it to enter its dropping state and drop; the setup that goes on
  until 7 sends after the buckets have filled and the refills have stopped.  A
  bucket holds 5, so that the datagrams of 6 exceed a full one.
* Three packets with a window of two and a receive buffer of two: throttled
  data, a full buffer and a duplicate acknowledgment all occur; one loss may be
  any of them, also of one that was sent again, and the bucket may be empty once
  before or after it.  Two losses are beyond the time of a run.  `DupThresh` is 1
  instead of 3, as two packets cannot yield three duplicates; `tcp_fin_first` has
  3, so that the timeout is what would have to resend.
* Three calls of `epoll_ctl` add both watches and change or delete one, or add
  an epoll to the other; arrays of one event make the order of reports matter.

### Fairness

* The pool and the policies: weak fairness for the main thread and for every
  worker; the operating system runs every thread that can run, and a task ends.
  A mutex in the code is not fair, but every lock is taken for a bounded number
  of steps and requests end, so no run needs strong fairness.  `ReportTime` is
  not under fairness: a task need not report a time.
* `ChildPidWatcher`: a client finishes a `watch` it has begun, and the thread
  runs.  `ShimIpc`: Shadow, the watcher and every thread of the process run;
  that the process dies is not under fairness.
* `NetworkInterface` and `Tcp`: time passes, and what is due at a time is
  executed before it passes: the scheduler executes every event.  In `Tcp` the
  application also reads what it can.
* `Epoll`: signal tasks are run, time passes after a report, and an application
  that has an event waiting asks for it.
* `TimerFd`, `BlockedCalls` and `Lookahead` are checked for safety only.

## Proofs

A run shows a property on a small instance; the theorems below show it for
every value of the constants that the assumptions of the module allow.  Each
proof has the same shape: an inductive invariant `IInv`, first checked by TLC
on the instance of the run; one lemma per action; the theorem.  `PROJECT.json`
lists the results under `theorems`.

| module | theorem | property |
|---|---|---|
| `WorkerPool_proofs` | `TypeCorrect`, `LatchSafe`, `TaskFnStable`, `OneWorkerPerLpHolds`, `EveryWorkerRanOnceHolds`, `NextRoundTimeExactHolds` | `PoolTypeOK`, `LatchNotExhausted`, `TaskFnStableUnderWorkers`, `OneWorkerPerLp`, `EveryWorkerRanOnce`, `NextRoundTimeExact` |
| `HostSteal_proofs` | `HostsArePlaced`, `RoundsAreExact`, `StealImplementsEventSim` | `HostsPlaced`, `RoundExact`, `ImplementsEventSim` |
| `HostSingle_proofs` | `SingleImplementsEventSim` | `ImplementsEventSim` |
| `Lookahead_proofs` | `PathCacheIsExact`, `RunsUntilTheEnd` | `PathCacheExact`, `RunsToTheEnd` |
| `Descriptors_proofs` | `TimerTypeCorrect`, `OneLiveEventHolds`, `TimeLeftAlwaysDefined`, `ReadableExact`, `ExpirationsAreExact` | `TimerTypeOK`, `OneLiveEvent`, `TimeLeftDefined`, `ReadableIfExpired`, `ExpirationsExact` |
| `ChildPidWatcher_proofs` | `ExitsNotLost`, `WatcherImplementsPromise` | `NothingLost`, `ImplementsPromise` |
| `ShimIpc_proofs` | `ExchangeSafe`, `DeathIsNoticed` | `Exchange`, `DeathNoticed` |
| `Descriptors_proofs` | `EventsAreExact`, `WakeupsNotLost` | `EventsExact`, `NoLostWakeup` |
| `BlockedCalls_proofs` | `CondsAlwaysExact`, `WakeNeverMissed`, `TimeoutsAlwaysExact`, `ReturnsForAReason` | `CondsExact`, `NoMissedWake`, `TimeoutsExact`, `ReasonToReturn` |

### WorkerPool_proofs

For every number of workers and logical processors, every number of rounds and
every set of times, assuming only `PoolAssumption` (at least one worker and one
processor; times below `SIMTIME_MAX`).
None of these is inductive.  The inductive invariant `IInv` says where a
worker is: `PlaceInv`, a worker is in exactly one of a ready queue, on its way
(picked by another worker, or with its semaphore posted, or at work) or in a
done queue; `PhaseInv`, what the queues and workers look like in each phase of
the main thread; `TaskInv`, the worker's copy of the task is the pool's;
`LatchInv`, the latch is the number of workers that have not counted down,
which needs the cardinality theorems.  On top of it `LpInv` says who
holds a logical processor: a worker from the moment it is chosen until it has
chosen its successor; holders have different processors (and, while the main
thread still starts workers, only processors it has passed).  `RanInv` relates
the number of runs to the place, and `MinInv` says that `reportedMin` is the
least of `minTimes` and the times about to be stored: it rests on one worker
per processor, which is why the unlocked store is safe.

### HostSteal_proofs and HostSingle_proofs

For every number of threads, every finite set of hosts, whatever the hosts
send and when (`ThreadsAssumption`, `EventsAssumption`).  Both invariants have
the same parts:

* `WorkInv`: where a worker is says what it holds, and what its local
  variables may contain.
* `PlaceInv`: a host is in exactly one list, or with the thread that runs it.
  With stealing this is stated of the two lists and the running host of every
  thread at once; without it the lists are sequences without repetition, and
  the base case is how hosts are dealt (`Dealing`: division of the host's place
  by the number of threads).
* `EventsInv`: what is in a queue is its host's and lies ahead of it, the event
  being executed is the first, and what is on its way lies ahead once it is
  adjusted.  `NoEventInThePast` alone is not inductive: it needs that an event
  being executed is before all others in its queue.
* `RoundInv`: a list found empty after its owner has begun the round stays
  empty until the next round, and the hosts put aside have no event of this
  round.  This is why a thief may leave a victim for good after one look, and
  why `RoundComplete` holds although no lock covers all lists.
* `TimesInv`: every event of a later round is covered by a time that has been
  reported, or will be by a scan that is still to come; every reported time is
  that of an event.  The minimum over the workers is then the next event's time.

The refinement maps the events in the queues, those being executed and those
on their way to the abstract set of pending events.  Popping, migrating,
scanning and waiting are stutters; executing an event, and the step to the next
round, are the abstract steps.  The window that `manager_run` computes is the
one `EventSim` prescribes because of `TimesInv`.  What both policies share is
proved in both modules, since the proofs are about the variables of each.

### Lookahead_proofs

For every set of workers and every graph (`LookaheadAssumption`).  `WorkersInv` says what a worker
knows of the cache at each point of `getPathEntry`; with it a path that was
computed is always found.  `RunsUntilTheEnd` has the hypothesis `NoWrap`: the
stop time plus a latency of the graph, the configured `runahead` or ten
milliseconds is a `SimulationTime`.  Without it the end of a round can wrap
around zero.  The instance of the run satisfies it, and so does every
configuration of less than some centuries; "no event" plus a jump does
wrap, and is covered.

### Descriptors_proofs: timers

For all values, intervals, numbers of settings and every `OneSecond` above zero
(`OneSecondAssumption`, `TimerFdAssumption`).
The inductive invariant `TimerInv` adds `QueueInv` (no event in the past, ids are unique)
to `OneLiveEvent`: the event that is executed is then the only valid one, and
the timer expires exactly at its time.  `CountInv` says that the next
expiration is as many periods after the first as there were expirations, from
which the quotient in `ExpirationsExact` follows.

`PoolTypeOK`, `TimerTypeOK`, `LatchNotExhausted` (the assertion of `countdownlatch_countDown`),
`TimeLeftDefined` (that of `_timer_getCurrentTime`) and `ReadableIfExpired` are
not in the configurations, since they are proved.

### ChildPidWatcher_proofs

For every set of children and of clients, and every number of calls of `watch`
(`WatcherAssumption`).  `watch` holds the lock over two steps, between which
the child has a pidfd and no callback yet; `TablesInv` says what the tables
look like there, `ExitsInv` states `NoLostExit` with that case included,
`HandlesInv` that a handle names one callback, and `DropInv` that nothing is
closed before the thread has ended.  The refinement takes the handles given out
for the abstract `used`: a callback runs once and after the exit of its child,
and none after it was unregistered.

### ShimIpc_proofs

For every number of threads and of calls, with explicit block messages or not
(`ShimAssumption`).  The core is `ThreadsInv`: the thread Shadow waits for is
`Exchanging` (the question under way, or the answer, or the thread at work,
and the answer is the one the code of Shadow at this point expects), every
other is `Resting`.  `EventInv` and `ToShadowInv` carry this over the death of
the process: a message of a thread not known to be dead is the answer, and the
notice of a death stays until it is read.  `WatchInv` says that a thread is
watched from the making of its IPC block until the block is marked.

### Descriptors_proofs: epoll

For every finite set of files, every mask and every number of threads, with
two epolls, one of which may watch the other (`EpollAssumption`).  A call that
changes a descriptor runs through a chain of listeners, and in the middle of it
neither the flags nor the table ready nor the status of an epoll is exact.  The
invariant is therefore stated of such an intermediate state,
`StateInv(s, X, Y)`: the watches in `X` are still to be told, the epolls in `Y`
still to be adjusted.  `SetStatusInv`, `UpdateWatchInv` and `AdjustOwnInv` say
what each link adds to or takes from the two sets; `AdjustInv` and
`DescriptorStatusChangedInv` put the links together, up to the parent of a
nested epoll; between two calls both sets are empty.  `Tracks` relates the
lazily cleared flags of a watch to what was really switched on since the last
report, and `Told` the flags to the status and to the table ready.  With
`WaitersInv` (who is blocked, waits on an epoll that is not readable) both
theorems follow.

### BlockedCalls_proofs

For every finite set of threads, any futexes, timeouts (zero too), numbers of
calls and arrivals, and any time at which the process is stopped
(`BlockedCallsAssumption`, `OneSecondAssumption`).  The assumption that there
are as many conditions as threads stands for an allocation that does not fail:
`FreeCond` shows by the pigeonhole principle that there is always a free one.

None of the four properties is inductive.  `IInv` says where everything that
concerns a blocked call is:

* `BlockedInv`, `CondsInv`: a blocked thread has exactly one condition, and it
  was made for the call the thread is blocked in, has its trigger, its timeout
  and the listeners for both, and as many references as these and the pending
  signal make; a condition without a thread is free, unless the process exits
  and a signal task still holds it.
* `SignalsInv`, `Once`: a signal task is in the queue exactly when
  `signalPending` is set, only once, for the present time, and with a reason.
* `WakesInv`: while no signal is pending, nothing the condition waits for has
  happened; a pending signal for a futex has been counted by a wake, or the
  timeout is over.  This is what makes a result "woken" truthful.
* `ExpiresInv`, `ArmedInv`, `TimersInv`: an armed timer has one expire task that
  counts, the last one scheduled, and it does not come late; what older
  settings left in the queue is ignored.
* `TimeoutsInv`: the timer of a thread is that of its blocked call, and is quiet
  while the thread runs or has not been started.  `NotOverdue` needs that a
  timer with a timeout is not quiet: some event is still to come.
* `ProcInv`, `StartsInv`: which threads are still to be started; a start task of
  a thread that is blocked would continue it without its condition.

A new system call and a call that is handled again after a signal start from
different states: in the second, the condition and the signal task have just
been taken away, and the thread still counts as blocked.  `Ready(t, cs, q)`
describes both, for conditions `cs` and a queue `q` that are not (yet) the
variables; the lemmas about `Block`, `Complete` and the handlers start from it.
The lemmas about the queue (`Enqueue` keeps what is there, in order, and adds
the new tasks once) are proved from the indices, without induction.
`ReturnsForAReason` follows from the invariant by an analysis of `RunSignal`,
the only step by which a blocked call returns.

### Only model-checked

* Liveness (`PoolShutsDown`, `SimulationEnds`, `EveryExitNotified`,
  `ControlReturns`, `BecomesIdle`, `AllRead`, `BothClose`, `NoStarvation`): the
  prover has no rules for fairness.
* `Deterministic`: its reference, the sequential simulation, is recursive.
* `NetworkInterface` (`RefillsExact`, `PacketsKept`, `CoDelPatience`) and `Tcp`
  (`InOrder`, `QueuesExact`, `TimerArmed`): their loops (send
  while there are tokens, drop while the queue is slow, acknowledge a range)
  are recursive functions, and what they compute for every input is an
  induction over data.

## Not modelled

ptrace threads and the memory manager depend on kernel protocols that are not
in the repository; files, configuration, logging, DNS and the tracker are pure
data or output.  The thread policies stop at their first push.  What eventfd,
pipe and channel do with data, unix sockets, the shortest-path mode of the
topology, the buddy allocator, the interval map and the byte queue are within
reach and have not been done; the parts left out of modelled components are
named in `PROJECT.json`.

## Plan

1. Done: worker pool with proofs; host policies with refinement and
   determinism; lookahead and path cache.
2. Done: timers and blocked system calls, both with proofs.  Left of it: an abstract
   specification (a blocked thread is continued once, for a valid reason) that
   `BlockedCalls` implements, and waits for POSIX files.
3. Done: epoll.  Left: eventfd, pipe, the table of descriptors.
4. Done: shim IPC, the child watcher with its promise.
5. Done: a TCP connection, the interface, the router's queues.  Left: several
   children of a server, RST, packets dropped by a router between the ends.
6. Algorithms against a reference: buddy allocator, interval map, byte queue.
7. The shortest-path mode of the topology.
8. Done: proofs about the pool, both host policies with their refinement, the
   path cache, timers, the child watcher with its refinement, shim IPC, epoll,
   blocked system calls.  Left: the parts of `NetworkInterface` and `Tcp` that
   do not depend on their loops.
