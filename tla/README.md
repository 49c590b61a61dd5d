# A TLA+ development for qev

qev is an event loop in C, a continuation of libev: an application registers
*watchers* (an fd, a timer, a signal, ...) with a *loop*, and `ev_run` turns
passes that ask the kernel what happened and call the watchers back. One thread
runs a loop. Two functions may be called from other threads and from signal
handlers: `ev_async_send` and `ev_feed_signal`.

All source references are to `src/`; `PROJECT.json` maps every definition to
the lines it stands for.

## 1. Inventory

| component | state | operations | what makes it correct |
|---|---|---|---|
| wake pipe (`ev.c`) | `pipe_write_wanted`, `pipe_write_skipped`, `sig_pending`, `async_pending`, `sent` / `signals[].pending`, the evpipe | `ev_async_start/stop/send`, `ev_feed_signal`, `evpipe_write`, `pipecb`, `evpipe_pending` | no wake is lost, every pass delivers, nobody depends on a timeout |
| dispatch core (`ev.c`) | `pendings[pri][]`, `pendingpri`, `activecnt`, `idleall`, the prepare/check/idle/fork/cleanup arrays, `loop_done` | `ev_feed_event`, `clear_pending`, `ev_invoke_pending`, the starts and stops, `ev_ref`, `ev_break`, `ev_run` | indices agree with arrays and queues, higher priorities first, callbacks get what was fed, references balance |
| relative timers (`ev.c`) | `timers[]`, `timercnt`, `rfeeds[]`, `mn_now` | `ev_timer_start/stop/again`, `timers_reify`, `timers_reschedule`, the heap functions | the root is the earliest, each expiry is delivered once and in order, reification ends |
| io watchers and the fd table (`ev.c`) | `anfds[]` (watcher list, `events`, `reify`, `emask`, `egen`), `fdchanges[]`, `iocnt` | `ev_io_start/stop/modify`, `fd_change`, `fd_reify`, `fd_event`, `fd_kill`, `fd_rearm_all` | what the watchers want reaches the backend |
| epoll backend (`ev_epoll.c`) | the kernel's interest list, `epoll_eperms[]` | `epoll_modify`, `epoll_poll`, `epoll_fork` | the interest list follows `anfds[]`; events of a file that is gone are not delivered |
| other backends (`ev_iouring.c`, `ev_linuxaio.c`, `ev_kqueue.c`, `ev_port.c`, `ev_poll.c`, `ev_select.c`) | rings and one-shot requests; change lists; arrays and bit vectors | `X_modify`, `X_poll`, `X_init`, `X_fork`, `X_destroy` | as epoll, through partial submission, late completions and interrupted calls |
| time keeping (`ev.c`) | `mn_now`, `ev_rt_now`, `rtmn_diff`, `now_floor`, `now_set`, the timerfd | `time_update`, `ev_now_set`, `ev_now_update`, `ev_suspend/resume`, `timerfdcb` | jumps are noticed, delays keep their length |
| periodics (`ev.c`) | `periodics[]` | `ev_periodic_*`, `periodic_recalc`, `periodics_reify/reschedule` | nothing due is pushed past its fire, next times lie ahead |
| signals, child watchers (`ev.c`) | `signals[]`, `sigfd`, `childs[]` | `ev_signal_*`, `ev_child_*`, `childcb`, `child_reap` | a signal reaches its loop, every child status reaches its watcher |
| stat, embed, once (`ev.c`) | watchers built from other watchers | `ev_stat_*`, `infy_*`, `ev_embed_*`, `ev_once` | inner watchers and references balance; one callback per `ev_once` |
| loop life cycle (`ev.c`) | the descriptors, the loop's own watchers | `loop_init`, `loop_fork`, `ev_loop_destroy` | a fork replaces what is shared, destruction leaves nothing |
| libevent emulation (`event.c`) | `struct event`: two watchers and `ev_flags` | `event_add/del/active`, `event_base_once` | flags and watchers agree, `event_del` is final |
| win32 fd registry (`ev.c`) | handle table, free list, hash chains | acquire, reserve, release | numbers are unique through failed allocations |
| wepoll (`wepoll.c`) | sock states, poll groups, the handle tree and its locks | `epoll_ctl`, `epoll_wait`, `epoll_close`, `init` | a waiting thread hears, memory outlives its users |
| C++ wrapper, platform layer | none | | |

How they interact: `ev_run` is the only driver. A pass runs fork and prepare
watchers, re-creates kernel state after a fork, calls `fd_reify` (which calls
`backend_modify` for changed fds), sizes its sleep, calls `backend_poll` (which
calls `fd_event`), delivers what the wake pipe noted, reifies timers and
periodics, queues idle and check watchers and invokes everything pending.
Callbacks may call any function of the loop, `ev_run` included. The signal,
child, stat, embed and once watchers are made of io watchers, timers and the
wake pipe, and use the loop as an application does.

What is hard here: the wake protocol is lock-free between threads; every array
and queue is changed by callbacks while it is being walked; kernels keep state
about files the loop no longer knows; clocks jump; backends fail half-way; forks
come between any two passes. The list, line by line, is `hazards` in
`PROJECT.json`.

## 2. Modules

| module | role |
|---|---|
| `EvPipe`, `EvPipeProofs` | the wake protocol: senders and the loop thread, one action per load or store of a shared variable; theorems about it |
| `EvRun`, `EvRunProofs` | the dispatch core, with nested runs through callbacks; theorems about it |
| `Heap`, `HeapOps` | the heap functions as operators; all small heaps and every operation on each |
| `TimerQueue`, `TimerQueueProofs` | what relative timers promise, with a set of armed timers; theorems about it |
| `TimerHeap` | the timers as the code keeps them; `INSTANCE TimerQueue`, shown to implement it |
| `Clock`, `ClockProofs` | time keeping and periodics; theorems about them |
| `FdEpoll`, `FdEpollProofs` | io watchers, fd table and epoll backend against a kernel that registers open files; theorems about them |
| `FdTable` | the fd table as the other backends see it; extended by `IoUring`, `LinuxAio` and `ReadyBackends` (poll, select, kqueue, event ports) |
| `BackendProofs` | theorems about `IoUring`, `LinuxAio` and `ReadyBackends` |
| `Signals`, `Child`, `Stat`, `Embed`, `Once` | the composed watcher types |
| `LoopLife` | descriptors, own watchers and references of a loop from creation to destruction |
| `Libevent` | the libevent emulation |
| `WatcherProofs` | theorems about `Signals`, `Child`, `Stat`, `Embed`, `Once` and `Libevent` |
| `Win32Fd` | the registry of socket numbers |
| `Wepoll`, `Reflock`, `RBTree` | wepoll's port, its reference locks and initialisation, its tree |
| `LifetimeProofs` | theorems about `Reflock`, `LoopLife` and `Win32Fd` |
| `MCEvRun`, `MCFdEpoll`, `MCClock`, `MCParts` | what TLC checks: constants, and restrictions of a specification to small groups of watchers |

Definitions that begin with a `Mutant:` comment are wrong variants of the
definition that follows them. Replacing the definition by the variant makes the
property named in `PROJECT.json` fail; they belong to no specification.

### EvPipe

A sender's `Raise` stores `sent`; `LoadFlag` ... `WritePipe` are the statements of
`evpipe_write` in order. The loop's program counter `lpc` walks a pass: `top`,
`size` (after `pipe_write_wanted = 1`), `poll`, `unwant`, the tail, `pipecb`
(`drain` ... `scan`), `invoke`. A non-blocking pass skips the announcement;
`PollSkipped` is the pass that does not poll (`iocnt == 0` or `EVRUN_NOPOLL`). The
evpipe is a counter with a capacity: a full one refuses the write and the
result is ignored, as in the code; a drain takes at most `DrainMax` bytes (an
eventfd is the case where one drain takes all). Two history variables, `owed` and
`promised`, record what must be delivered at all and by the current pass.
Starting `Init` from "all sources started" loses nothing: asyncs stop and start
again freely.

Memory is sequentially consistent. The code puts a full fence between each
store and the load of the other side's flag; the one relaxed store without a
fence (`pipe_write_wanted = 0`) is covered only as far as a sender that loaded the
old value early.

### EvRun

`frames` is the stack of `ev_run` and `ev_invoke_pending` calls, `mode` says who
runs: the application or a callback (`app`), `ev_invoke_pending` (`inv`),
`queue_events` (`feed`), or `ev_run` itself (`run`). In `app`, any call may come. An
event of a backend or timer is `PollFeed` of an active watcher of kind `event`.
Idle watchers have one array per priority, the other array types one; the five
starts and stops differ in `activecnt` (cleanup gives its reference back).
`acc` is history: the events fed to a watcher since it was last invoked or
cleared.

### Heap, TimerQueue, TimerHeap

`Heap` counts places from 1 instead of `HEAP0` and swaps along the path where
the code moves a hole; both give the same array. `TimerQueue` says which timers
expire (deadline before `mn_now`), that they do so earliest first, how they are
rescheduled, and in which order they are called. `TimerHeap` has the heap, the
cached times and the indices instead of the set. The clock is monotonic
(`have_monotonic`), so `mn_now` never goes back; the other case is in `Clock`.
Timers are reified with nothing else pending at their priority; how several
sources share a queue is `EvRun`.

### Clock

Two clocks run beside the loop: `mono` never jumps, `wall` can be set, and either may
happen between any two steps of the loop, so that callbacks take time too; in the poll it
is `PollReturns` that lets time pass. `TimeUpdate` has the three cases of
the code: interpolation, refresh, and a host without a monotonic clock, where
relative timers are shifted with the wall clock. `RunBlocking`, `PollReturns`,
`Reify`, `Invoke` and `TimerfdCb` are the parts of a pass that read or use the
time. Each periodic is of one of the three kinds (interval, reschedule callback,
absolute). `synced` and `must` are history: the offset the loop last measured,
and whether its time comes from a refresh that had to notice a jump. Both clocks
of one refresh are read at once, so the repetitions in `time_update` never differ.

### FdEpoll

`fdtab` and `held` are the process's descriptors: the file open under each number,
and closed files that a child still holds. `kern` is the interest list, keyed
by number *and* file. `Close` with a child keeps the registration alive under a
number that may be opened again. The application keeps two rules of the manual:
it stops watchers before it closes their fd, and calls `ev_io_set` before it
starts one on a reopened number. `Modify*` are the outcomes of `epoll_modify`;
`PollEvent` is one event of `epoll_wait` handled by `epoll_poll`, with the
generation test and the correction of masks. `postfork` stands for both
`postfork = 1` and `postfork |= 2`; in both cases `loop_fork` calls `epoll_fork`.
dup'ed descriptors, which the manual excludes for epoll, are not modelled: each
file is opened once. `RetryUnset` says whether the application also calls
`ev_io_set` before it starts a watcher on a descriptor that got `EV_ERROR`.

### FdTable, IoUring, LinuxAio, ReadyBackends

`FdTable` is the part of `anfds[]` all backends share, with one watcher per fd
standing for all of them, and files as numbers so that a close and a reopen
under one number are told apart. The application may act in callbacks and, when
the loop's lock is released, during the wait. `IoUring` has the submission ring
with enters that take part of it or fail, one-shot polls tagged with a
generation, the completion ring and the overflow backlog. `LinuxAio` has every
result of `io_submit` at every element: accepted, `EINVAL` (handed to epoll),
`EAGAIN` (a larger context), `EBADF`. `ReadyBackends` runs one of the four simple
backends: the pollfd array and its indices, the bit vectors, kqueue's change list
with `EINTR` and per-change errors, associations of event ports that end when
they fire.

### Signals, Child, Stat, Embed, Once

`Signals`: two loops share `signals[]`; a signal is bound to one of them, and
comes through a handler and the evpipe or through a signalfd; the process's
handlers and mask are kept, so that a signal can be blocked, pending or lost.
`Child`: one SIGCHLD stands for many children; `childcb` takes one status per
call and queues itself below the watchers it fed. `Stat`: a file system with one
path that appears, changes and goes, an inotify queue that can overflow, and
timers; `infy_wd` and `infy_fork` go from watcher to watcher, and the path may change
between their turns (`todo`); the kernel may refuse a watch, and the watcher then polls.
`Embed`: the kernel sets of two loops; a set is a number, and a fork makes a new one. Either
loop runs on epoll or not: `epoll_modify` ignores that nothing is wanted any more, so there the
registration of a stopped watcher stays until `epoll_poll` deletes it (`InnerPoll`,
`StaleReported`); with the other backends `fd_reify` removes it. `told` is history: how often
the outer loop was woken since the embed watcher was stopped. `Once`: memory slots that are used again, so that a stale half
would act on another `ev_once`.

### LoopLife

The functions of the code are functions from the loop's state `L` to the next,
composed as the code calls them: each backend's init with every place it can
fail, the lazy creation of evpipe, timerfd, signalfd and inotify descriptors,
`ev_loop_fork` with and without a fork, `loop_fork`, the permanent change from linuxaio to
epoll, `ev_loop_destroy`. `bad` records the backend and the descriptor of a close of what is
not held, and of an open that loses what is. In a forked child the number of a kqueue is
not held (`ProcessForks`); `child` says that `loop_fork` has not run there yet.

### Libevent, Win32Fd, Wepoll, Reflock, RBTree

An event is two watchers (io and signal share memory) and `ev_flags`. The
registry's operations run under its lock; an allocation may fail wherever one is
made, and the storage behind each announced capacity is kept apart from it.
`Wepoll` has sockets, their sock states as memory objects, the kernel's AFD polls,
which complete through a queue, threads between dequeuing a completion and
taking the lock, and poll groups of one socket. `epoll_close` is two steps: `PortClose` closes
the IOCP, after which a thread that found the port before may still come in (`late`), threads
in the wait learn of it one by one, and the kernel goes on completing polls; `PortDelete`,
when the last thread has left, frees the sock states with their polls still out. `Reflock` has the threads of
`epoll_close` and its users around the keyed event, and `init`. `RBTree` is the
tree's insertion and deletion, every sequence over seven keys.

## 3. Runs

| run | instance | shows |
|---|---|---|
| `evpipe` | 2 senders, 1 async, 1 signal, evpipe of 1, with fairness | `IInv` (which types the state), `NoLostWakeup`, `PassDelivers`, `EventuallyDelivered` |
| `evpipe_gate` | 2 senders | `WakePendingShown` fails (finding 1) |
| `dispatch` | an event watcher of any of 2 priorities, or one out of range, and a check watcher, depth 2, queue 2; or prepare, fork, cleanup and idle watchers and a reference of the application's, depth 1; or 3 idle watchers, depth 1 | `PendingAgrees`, `DrainedInOrder`, `CallbackEvents`, `ActiveAgrees`, `RefsBalanced` |
| `timer_queue` | 3 timers, delays 0 and 2, repeats 0 and 1, clock to 2 | `TimerInv`, `ExpiryDelivered`, `EarlierFirst`, `OncePerPass` |
| `timer_heap` | the same on a 2-heap | `HeapSound`, `ImplementsTimerQueue` |
| `fd_epoll` | one number, 2 files, 2 watchers, changed up to generation 2; or 2 numbers, 2 files of which epoll refuses one, up to generation 1 | `WatchedIsRegistered`, `StaleIgnored`, `Listed` |
| `fd_epoll_retry` | 1 watcher, restarted after `EV_ERROR` as it is | `WatchedIsRegistered` fails (finding 2) |
| `fd_epoll_eperm` | 1 file that epoll refuses | `EpermListedOnce` fails (finding 3) |
| `clock` | 1 periodic, of any kind, 1 relative timer, a clock to 5, one setting of the wall clock by more than a jump, both ways | `JumpNoticed`, `TimesSound`, `NeverPushed` |
| `clock_oversleep` | the same, clock to 6 | `NoOversleep` fails (finding 4) |
| `loop_refs` | io_uring, 2 forks | `KeptAlive` fails (finding 5) |
| `parts` | the instances named in `MCParts` | see below |

`MCEvRun` and `MCFdEpoll` extend the module they check and restrict its steps to
those that stay within one group of watchers and files (`OneGroup`, `OneOnly`,
`TwoOnly`): the properties are the module's own, and a behaviour is one of a small
instance that the other watchers do not touch.

`MCParts` is the union of 16 parts: `part`, which never changes, says which
of them a behaviour is of. `Signals`, `Child`, `Stat`, `Embed`, `Once`, `Reflock`, `LoopLife`,
`Libevent`, `IoUring` and `Win32Fd`, about which there are theorems, are extended, and stay in an
initial state while another part runs; the others are instances, and their variables are off
meanwhile (`LinuxAio` and `ReadyBackends` with an fd table of their own). The parts
meet in the program only through the loop, so nothing is lost by checking them
apart; they are in one run because each is small.

| property | part and bounds | what it says |
|---|---|---|
| `SignalsArrive` | 2 loops, 2 signals, 4 watchers | an arrived signal is on its way to its loop; an active watcher's signal can arrive |
| `ChildrenReported` | 2 pids, 3 watchers, one for any child, one hash chain shared | no status is overwritten before its callback; no zombie is forgotten |
| `RingSound` | 2 fds, rings of 2, 4 operations | io_uring: a watched descriptor has its poll or a completion on the way; no event of a closed file reaches a watcher of its successor |
| `BackendSound` | linuxaio, poll, select, kqueue, port: 2 fds, 5 operations | the same of the others: a watched descriptor is requested, registered or on its way; no stale event is heard |
| `StatSound` | 2 watchers on one path, 4 changes, inotify queue of 2 | a watcher can hear of a change, also when a watch is refused; its timer holds no reference |
| `InternalUnreferenced` | all seven backends, 2 forks | the loop's own watchers hold no reference (not for io_uring: finding 5) |
| `NothingLeft`, `ForkedFresh` | all seven backends, 2 forks | descriptors are closed once (but for a kqueue destroyed in a child before `loop_fork`), and replaced after a fork |
| `EmbedFollows` | 4 kernel sets | the outer loop hears the inner one; a stopped embed has no callback, and wakes an epoll once at most, others not at all |
| `OnceSound` | 2 slots, 3 calls | memory lives as long as a half; the callback gets all events |
| `EventSound` | an io, a timeout and a signal event, 2 adds | `event_del` is final, one callback, flags agree |
| `WepollHears`, `WepollMemory` | 2 sockets and 1 thread, or 1 socket and 2 threads; 3 calls of `epoll_ctl` | a waiting thread is woken; `epoll_ctl` frees nothing in use, `port_delete` only what was asked to cancel |
| `PortClosedSafely` | 3 threads, 2 ports, 1 failed initialisation | no use after close, no lost wake-up of the closing thread |
| `TreeSound` | all trees reachable with 7 keys | a balanced search tree of the right keys |
| `RegistrySound` | 3 handles, 2 in one bucket, a first capacity of 1, 1 failure | numbers unique, tables agree |
| `HeapKept` | all 4-heaps of up to 8 entries over 3 times | heap order and indices are restored |
| `PartsTypeOK` | all | types; rings never exceed their size |

Why the bounds are enough to be of use: two senders are what it takes for one to
act on a stale `pipe_write_wanted` while another leaves a note, and one source of
each kind makes both flags matter (the theorems remove this bound altogether).
An evpipe of one byte is at times empty and at times full; larger ones, drained
in part, are covered by the proofs, and were model-checked for safety at a
capacity of two. Two nested calls let an inner drain move `pendingpri` under an
outer one. Eight entries give a 4-heap three levels deep, with a full and a partly
filled node; the 2-heap is the one of `timer_heap`. With a clock to 2 and a repeat
of 1, timers are early, on time and late by more than one period. Two files on
one number and three generations give close, reopen and a stale registration,
twice. The operations allowed in the backends' parts are enough to watch, close,
reopen and watch again while another descriptor is served, and rings of two
overflow. Two forks show what accumulates from one to the next. Seven keys give
trees in which both rebalancing directions recolour upwards and rotate.

Fairness (`evpipe`): weak fairness of the loop's own steps, that is, the
application keeps calling `ev_run` and callbacks return, and of each sender
inside `evpipe_write`, which has no loop and no blocking call. Nothing is
assumed of `PollTimeout`: a sleep may last for ever unless a byte ends it, so
delivery may not depend on `MAX_BLOCKTIME`.

Deadlock is checked in all runs but `parts` and `loop_refs`: there a loop that is
destroyed, or a part whose bounded operations are used up, stops.

### Findings

1. `ev_wake_pending_addr` is documented as set until the pass that delivers, so
   that an embedder may skip passes while it reads 0. `evpipe_write` itself clears
   it on the branch that writes the evpipe, and may do so late: after the pass it
   saw has ended and another sender has left its note. The wake is not lost (its
   flag is up and a byte follows), but the gate does not show it.
2. When `EPOLL_CTL_ADD` fails, `fd_kill` stops the watchers while `anfd->events`
   keeps their mask. A watcher started again before the next `fd_reify`, without
   `ev_io_set`, is then judged unchanged and never registered. The win32 branch of
   `ev_io_stop` resets the recorded state for this reason.
3. `fd_rearm_all` clears the `EV_EMASK_EPERM` mark but `epoll_eperms` keeps the
   descriptor, so it is appended again by every re-creation of the epoll set.
4. `timerfdcb` learns of a jump of the wall clock and sets `ev_rt_now`, but leaves
   `rtmn_diff` and `now_floor`; the next `time_update` interpolates from them and
   has the old time again, and the sleep until a periodic is too long by the jump.
   With the timerfd in place nothing else cuts the sleep short.
5. `iouring_destroy` stops its internal watcher without taking back the reference
   `iouring_init` gave away. Each fork lowers `activecnt` by one, and `ev_run` ends
   while a watcher is active.

### Observations

Met while modelling; none of them is checked by a run of its own.

* The comment on `ev_now_set` ("never steps back", `ev.c:5151`) does not hold after a
  sample from the future; the model bounds samples by the clock (`MaxAhead = 0`).
* `ev_resume` without a monotonic clock shifts the relative timers a second time
  when the wall clock went back during the suspension.
* Changes that an interrupted `kevent` left in `kqueue_changes` survive a fork and
  are applied to the new queue, beside those of `fd_rearm_all`.
* An overflow of the inotify queue can drop an `IN_IGNORED`; a second watcher that
  shared the watch descriptor is then woken by its timer only. `infy_fork` adds
  the watches again without a new `lstat`. A change between the `lstat` of
  `ev_stat_start` and the watch of `infy_add` is not noticed before the next one
  (`stat_timer_cb` guards against this with a second `lstat`).
* A kqueue loop destroyed in a forked child before `loop_fork` closes `backend_fd`
  (`ev.c:4198`), a number the child does not hold, or holds for another file by then.
  `kqueue_fork` remembers the pid to avoid just that (`ev_kqueue.c:174`). `NothingLeft` names
  this as its one exception.
* An embed watcher stopped on an outer epoll loop leaves its registration in the kernel
  until the inner loop is ready once more: `epoll_modify` ignores the removal
  (`ev_epoll.c:126`), `epoll_poll` deletes it at the next report. The outer loop wakes once
  for nothing. The same goes for the inner loop's own watchers.
* An inner loop that replaces its epoll set on its own (a spurious notification)
  leaves an outer loop that embeds it watching the old set, until a fork or a
  restart of the embed watcher (`alone` in `Embed` marks these behaviours). What
  the outer loop then hears of the old number depends on what the number is by then
  (`Reached`).
* `linuxaio_modify` does not bump the generation of an fd it takes back from epoll:
  with a child process that keeps the closed file open, its event could be heard
  under the reopened number. `LinuxAio` has no such child.
* With assertions on, `ev_run` overwrites `loop_done` after the poll
  (`ev.c:5045`), so that an `ev_break` made under the released lock is lost.
* "If the poll request still needs to complete, the sock_state object can't be free()d yet"
  (`wepoll.c:1609`) holds for `sock_delete`; `port_delete` uses `sock_force_delete`, which asks
  the poll to cancel and frees the object that holds its status block, before the AFD handles
  are closed with the poll groups. What the kernel does with such a poll later is outside the
  model; so is a cancellation that fails. `WepollMemory` says what is left of the rule.
* `epoll_ctl` adding a socket while `epoll_close` deletes the port meets an
  assertion (`wepoll.c:1352`) rather than an error.
* The memory of `event_base_once` is not freed when the loop is destroyed before
  it fires; signal events without `EV_PERSIST` are not removed when delivered;
  `event_base_priority_init` returns success where `docs/ev.pod:4286` says it fails.

## 4. Proofs

What a proof assumes of the constants is a named formula of the component's
module, evaluated by TLC for the instances of the runs (an `ASSUME` in the module
itself, or in the MC module that extends it). All theorems are about the
same `Spec` the runs check, without their bounds: any sets of senders, watchers,
descriptors, files, threads or loops, any clock readings, and any value of the
constants that bound the application (`MaxGen`, `MaxChanges`, `MaxQueue`, `MaxDepth`, ...).

| module | assumes | theorems |
|---|---|---|
| `EvPipeProofs` | `PipeAssumption`: positive sizes, asyncs and signals distinct | `Inductive` (`IInv`), `WakeupNotLost` (`NoLostWakeup`), `EveryPassDelivers` (`PassDelivers`) |
| `TimerQueueProofs` | `TimerAssumption`: delays are integers, repeat values naturals, `pending_w` is no timer | `TimersInductive` (`TimerInv`), `ExpiriesDelivered` (`ExpiryDelivered`), `DeadlineOrder` (`EarlierFirst`), `TakenOnce` (`OncePerPass`) |
| `EvRunProofs` | `RunAssumption`: finitely many watchers of the known kinds, at least one priority | `RunInductive`, `PendingsAgree` (`PendingAgrees`), `PrioritiesKept` (`DrainedInOrder`), `CallbacksGetEvents` (`CallbackEvents`), `ActivesAgree` (`ActiveAgrees`), `ReferencesBalance` (`RefsBalanced`) |
| `FdEpollProofs` | `FdAssumption`: at least one number, every watcher has one; and `~RetryUnset` | `FdInductive`, `ChangesAreListed` (`Listed`), `StaleNeverHeard` (`StaleIgnored`), `WatchedAreRegistered` (`WatchedIsRegistered`) |
| `ClockProofs` | `ClockAssumption`: a positive interval, jump threshold and callback step, ordered block times; `NothingPushed` also `SampleFresh` | `ClockInductive`, `TimesStaySound` (`TimesSound`), `JumpsNoticed` (`JumpNoticed`), `NothingPushed` (`NeverPushed`, an action property) |
| `WatcherProofs` | `SignalsAssumption`: every watcher has a loop and a signal; `OnceAssumption`: 0 is no slot of memory; `EventAssumption`: each event has a kind; `ChildAssumption`: finitely many watchers, `childev` not among them; `StatAssumption`: finitely many watchers on the path, and the bounds are numbers; of `Embed` nothing | `SignalsInductive`, `NoSignalLost` (`SignalsArrive`), `EmbedIsFollowed` (`EmbedFollows`), `OnceIsSound` (`OnceSound`), `EventIsSound` (`EventSound`), `ChildrenAreReported` (`ChildrenReported`), `StatIsSound` (`StatSound`) |
| `BackendProofs` | `TableAssumption`: finitely many descriptors, and the bound on operations is a number; `RingAssumption`: so are the sizes of the rings, and the submission ring has an entry (the kernel refuses 0) | `RingIsSound` (`RingSound`), `RingsBounded` (`RingTypeOK`), `AioIsSound` and `ReadyIsSound` (`AioSound` and `ReadySound`, the two parts of `BackendSound`) |
| `LifetimeProofs` | `LockAssumption`: finitely many threads, 0 is no port; of `LoopLife` nothing; `RegistryAssumption`: a hash of the handles and a positive first capacity (64 in the code), as `ev_win32_fd_reserve` doubles it | `LockInductive`, `PortsClosedSafely` (`PortClosedSafely`), `LoopClosesAll` (`NothingLeft`), `LoopForksFresh` (`ForkedFresh`), `LoopOwnUnreferenced` (`InternalUnreferenced`), `RegistryIsSound` (`RegistrySound`) |

Every theorem has the same shape: an inductive invariant with one lemma per
action (or per conjunct, where the actions are many), and the properties as
consequences of it. Each invariant was checked by TLC on the instances of the
runs before it was proved. Why the invariants are what they are:

**EvPipe.** `NoLostWakeup` is not inductive: that nobody is owed a wake when the
loop sleeps depends on where each sender is. `IInv` follows the evidence. What is
owed is in `sent` or in the pending queue (`OwedRecorded`); a `sent` is behind a
raised flag, a sender about to raise it, or the scan in progress (`SentFlagged`);
a raised flag has left a note, a byte, a sender about to leave one, or a `pipecb`
that will load it (`FlagTraced`); while the loop sleeps, its wish is visible and a
note belongs to a sender that has still to see that wish (`SleepSeen`). With all
senders idle and the evpipe empty, the chain breaks at every link, so nothing is
owed. `PromiseHeld` does the same within one pass for `PassDelivers`.

**TimerQueue.** That a timer is taken once per pass depends on the time and on
what is still armed: `ReifiedPast` says that what was taken was due, comes before
everything armed, and, if still armed, has a deadline not before `mn_now`. The
next timer to expire is due, hence none of those taken (`OncePerPass`), and not
earlier than any of them (`EarlierFirst`). `PhaseShape` says which queue is empty
when. The theorems are about the abstract timers; that the heap implements them is
`ImplementsTimerQueue`, checked on the instance of `timer_heap`.

**EvRun.** Three groups, each preserved with little help from the others. The
queues: beside the properties themselves, `AccPending` (a watcher that is not
pending is owed no event), without which a first `ev_feed_event` could make
`CallbackEvents` false. The watchers: `ActiveClamped`, because `ev_start` clamps
the priority of a watcher and an event fed before that would find no queue. The
control: a pass belongs to a call on the stack (`OnStack`), and `queue_events`
walks over watchers that are still active (`FedActive`), which holds because
callbacks run only after it. `HigherDrained`, which makes the order of priorities
a matter of `pendingpri`, survives nested drains because an inner
`ev_invoke_pending` that returns has left every queue empty.

**FdEpoll.** The loop never unregisters on stop, so the truth about a number is
spread over the watchers, `anfds[]`, `fdchanges` and the kernel. `Unarmed(fd)` says
that `epoll_modify` will be called before anybody can hear of `fd`: it has no
events, or carries `EV__IOFDSET`, or has no watcher and the next one will bring the
flag. A registration of a file that is gone is either of an older generation or
under an unarmed number (`OldUnarmed`); an armed number is served (`ArmedServed`).
Both need that registrations of different files have different generations
(`KernSound`) and that the open file's is the newest (`CurrentNewest`). The latter
has an exception that the proof found: the end of `epoll_poll` forgets the mask of a
number that leaves `epoll_eperms`, even if it was registered in the meantime; the
next `epoll_modify` then registers it again where it could have done without.
`WatchedOpen` and `Flagged` carry the manual's rule that watchers are stopped before a
close. `~RetryUnset` is needed: finding 2 is the counterexample without it.

**Clock.** `DelayKept` is about the time the loop believes in; to survive the next
refresh it must hold for the clock that refresh will read too (`RelBounded`), and
the loop's time may run ahead of the clock only by as much as a supplied sample did
(`LeadBounded`). `OffsetBounded` bounds the error of `rtmn_diff` by the age and the lead
of the sample it came from; with it, a refresh that finds more than `MinJump` has
found a real jump, and one that finds less has left the periodics within their
interval. The proof is what put `MaxAhead` into `DelayKept` and into the threshold
from which a jump must be noticed (`must`): with samples from the future both are
looser, by exactly that lead. The runs have `MaxAhead = 0`; with 1, `ev_resume` after
`ev_now_set` can move a relative timer back again and again and the state space is
not finite (it was searched to a bound on that drift). `NothingPushed` needs samples
whose error is below `MinJump`; the manual asks for more (a reading of `ev_clock_now`
made right before the pass, `docs/ev.pod:978`).

**Signals.** A signal can come through a handler or a signalfd; that it is not lost
needs that the way does not change while it is bound (`Settled`, `HandledBy`) and
that a signalfd reads only what is bound to its loop (`SigfdOwn`).

**Embed.** `Linked` says of the two loops, at any point of a callback, what
`EmbedFollows` says when the outer one blocks. The inner kernel set misses a change of the inner
watchers only while the inner loop has that change to do, and holds more than they want only if
it is an epoll (`Given`); an active embed watcher is on the inner loop's kernel set, and the
outer loop's set holds it unless the outer loop has that change, or a fork, still to handle. Of
a stopped one it says when the registration goes: with the outer loop's changes, or, in an
epoll, with the one report that `told` counts, after which `outreg` is 0. It holds of every
intermediate record of `embed_fork_cb` (stop, sweep, start), which is why it is a predicate
of a record, with one lemma per function. `embed_prepare_cb`, and not the sweep alone, is what
empties the list of inner changes before the outer loop blocks.

**Once.** A callback gets everything because nothing of a live `ev_once` is lost from
the queue: what was fed is what waits for its two halves (`AllWaiting`), each of which
is queued once (`Distinct`). A slot can be used again because the memory is live exactly
while a half is active or queued (`Reachable`), so a new `ev_once` finds no old entry
that names it; that is what `once_cb` clears the other half for.

**Reflock.** The count in the lock's word is the number of threads between
acquiring and releasing (`Counted`); what can be found in the tree is live and not
being closed (`Findable`); the destroy mark stands between the closer's decision
and its wake-up (`Marked`, `Signalling`), so that a closer that waits has a user left
or a signaller under way (`Waking`). `InitInv` is the same for `init`.

**Child.** `childev` is at the bottom of the queue of its priority whenever that queue is not
empty (`ChildQueue`): `child_reap` raises the watchers to that priority and queues them
above it, and it leaves when nothing is above. So `childcb` runs when every watcher has been
called, and `rpid` and `rstatus`, one place per watcher, are free for the next status. Both
the priority in `child_reap` and the `ev_feed_event` before it are needed for that, as the
comments there say. The order in which `child_reap` meets the watchers is in the model
(`Before`), but the proof needs only that none is queued twice.

**Stat.** A watcher that does not poll relies on the kernel's watch of the inode its path
has. Only `infy_add` stops a timer, and only on an inode that exists; the watch then goes with
the file, or when another watcher with the same wd calls `infy_del`, and both leave an event
with `IN_IGNORED` for that wd (`Wakes`). So the invariant asks for that kind of event, not for
any, as `StatAwake` does: an event without it makes the watcher look, but does not give it a
watch again. `infy_cb` turns the event into the watcher's turn in `todo`, and finds the
watcher because with inotify every active one that does not poll has a wd (`Placed`). A watch of the parent
directory is of a watcher that polls, which is what keeps a watcher awake when the file is
made, and an inode has one watch and a wd is not used twice, so that the watch that goes is the
watcher's own (`WatchesSound`).

**Libevent.** `FlagsAgree` is not inductive: an event whose descriptor was killed has
lost its watcher while `ev_flags` still says inserted. What saves it is the `EV_ERROR` in
the queue, whose callback will call `event_del`; `Flagged` says that it is an error that is
queued, not any event, so that an event consumed by the callback of a persistent watcher
cannot be mistaken for it. `Silenced` carries `DelIsFinal` and `OneCallback`.

**IoUring.** What is true of a descriptor is true of one *token*: under its present
generation there is at most one of the `POLL_ADD` in the submission ring, the poll in the
kernel and the completion, whichever of ring and backlog that is in (`Unique`; the two are
one sequence, `Done`, which neither an overflow nor a flush reorders). There is none while
`anfds[].events` is 0 (`Nothing`), so that `iouring_modify` may add without removing, and
one for what was asked as long as it is watched (`Armed`), on the file that is open now
(`OfFile`), unless the watcher was stopped since and `EV__IOFDSET` will bring a new
generation. No generation in any of the three is ahead of the table's (`Aged`), and a
queued `POLL_REMOVE` is behind it: so a bump leaves no token, and a remove takes none of
the present poll. `Moved` is the shared lemma of all steps of the kernel: each keeps the
four. The proof needs the order of `iouring_poll` only in that the completions are taken
before their descriptors are armed again.

**LinuxAio.** The same with a queued iocb, a request and an event in the ring; but here
the generation changes only where a request is cancelled. The descriptor that epoll has,
and the one whose iocb is not in use, must have no token for that to be enough
(`AioNothing` in `AioFd`); the iocb that is queued must be its only token, and of the
present generation. `ContextFull` drops everything at once, so that every descriptor with
an iocb in use has to be armed again, and those epoll has are among them (the fifth
conjunct of `AioFd`). An event of the inner epoll is never of a closed file because epoll
forgets files that are closed, and no child holds them here.

**ReadyBackends.** What a backend has follows `anfds[].events`, not the watchers, and the
events follow the watchers except for a changed fd (`Synced`). For poll and select that is
all: the array and its index agree with each other and with the events (`PollAgrees`), kept
by the two cases of `poll_modify` (`PollSet`, `PollCut`); so do the bit vectors. kqueue and
event ports lose filters and associations behind the loop's back, when a file is closed,
when an association fires, or in a fork; there the claim is for an fd that is open, watched
and without `EV__IOFDSET` (`ReadyKept`): the flag makes `fd_reify` call `backend_modify`
even if the events did not change, and a file is closed only when nothing watches it. For
kqueue it is about the change list and the kernel together (`WillWatch`): appending changes
decides the filters they name and no other (`Modified`), giving them to `kevent`, once or
again after an interruption, changes nothing of it (`AppliedWatches`), and the list made
after errors only adds (`AddsSettle`). No stale event: the kernel's entries are of the
files there are, and what a waiting `poll` or `select` was given is of a file that is gone
only if its fd changed since (`OfFiles`), which `fd_event` looks at.

**LoopLife.** The properties speak of the end of calls; inside one, descriptors are closed,
opened and handed on. `Kept` holds of the record at every point of a call, `Sound` between
calls: it ties each descriptor to the watcher on it (`Paired`), says which ones each backend
has (`BackendHolds`, with what a forked child has lost: its kqueue is the one thing
`ev_loop_destroy` closes without holding it), and that only a fork that was not yet
handled leaves descriptors of another process (`Owned`). There is one lemma per function of
the code and per backend, each from records to records, and one more per place where an
init fails and undoes what it made. `s.backend # "iouring"` in the count of references is
finding 5.

**Win32Fd.** `RegOut(s, F)` is the invariant with the indices `F`, at most one, between the
table and the free list, where `ev_win32_fd_alloc_unlocked` or the unlinking of an entry
puts them; `RegInv` is `RegOut(wf, {})`. Its core is the inequality the comment on
`ev_win32_fd_reserve` argues for, next index <= capacity of the table <= capacity of the
free list (`RegTables`), which holds between the two allocations because the free list grows
first; with the distinct entries of the free list it bounds their number, so that an index
that is out has a place there (`RoomForFree`): the assertion of
`ev_win32_fd_push_free_unlocked`. Entries and table name each other (`RegEnts`), and no
chain has a handle twice (`RegChains`), so that unlinking one occurrence unlinks the handle.

Only model-checked:

* liveness (`EventuallyDelivered`): fairness is out of the proof system's reach;
* the heap and the tree (`HeapSound`, `HeapKept`, `TreeSound`), and the refinement
  `ImplementsTimerQueue`: what their recursive operators compute needs induction over data;
* `WepollHears` and `WepollMemory`: the model walks lists of sockets and completions with
  folds, of which the provers know only what an induction over the list would give.

## 5. Not modelled, and the plan

* Not modelled: the C++ wrapper (forwarding only), feature detection, fences,
  allocation and the growth of arrays outside the win32 registry, `ev_verify` (its
  assertions are invariants here), `ev_walk`, the iocp stub, the read-outs of the
  libevent emulation, the NT calls and error codes of wepoll, and the conversions
  of `ev_win32.c`: compile-time selection, system calls, or reads without state.
* `EvPipe` with a store buffer for the relaxed store of `pipe_write_wanted`.
* Files that a child process keeps open, beneath linuxaio; two watchers on one fd
  beneath the backends other than epoll.
* Proofs worth adding next: `WepollHears` and `WepollMemory`, with the walks over updates and
  completions taken one turn at a time, as `Stat` does.
