------------------------------- MODULE FdTable -------------------------------
(***************************************************************************)
(* What every backend shares (src/ev.c): the anfds table, the list of      *)
(* changed descriptors and the events fd_event passes on.  The backends    *)
(* IoUring, LinuxAio and ReadyBackends extend it; FdEpoll has its own, more *)
(* detailed one.  One watcher stands for all the watchers of a descriptor. *)
(***************************************************************************)
EXTENDS Naturals, Sequences, FiniteSets, SequencesExt

CONSTANTS
    Fds,            \* descriptors
    MaxOps          \* bound on what the application, a fork or a fault does

ASSUME TableAssumption == IsFiniteSet(Fds) /\ MaxOps \in Nat

VARIABLES
    want,       \* per fd: the events of its watcher, {} when none is active
    events,     \* anfds[].events: what the backend was last asked for
    changed,    \* fdchanges: the fds with a reify flag
    iofdset,    \* those with EV__IOFDSET
    egen,       \* anfds[].egen
    file,       \* which file the fd is: odd when open; a close and an open add one each
    phase,      \* where ev_run is: "run" (callbacks), "reify", or a phase of backend_poll
    misfed,     \* history: a watcher was given an event of another file
    ops         \* counts towards MaxOps

table == <<want, events, changed, iofdset, egen, file, phase, misfed, ops>>

Ev == {"r", "w"}
IsOpen(fd) == file[fd] % 2 = 1

TableTypeOK ==
    /\ want \in [Fds -> SUBSET Ev] /\ events \in [Fds -> SUBSET Ev]
    /\ changed \subseteq Fds /\ iofdset \subseteq changed
    /\ egen \in [Fds -> Nat] /\ file \in [Fds -> Nat] /\ misfed \in BOOLEAN /\ ops \in 0 .. MaxOps

TableInit ==
    /\ want = [fd \in Fds |-> {}] /\ events = [fd \in Fds |-> {}]
    /\ changed = {} /\ iofdset = {}
    /\ egen = [fd \in Fds |-> 0] /\ file = [fd \in Fds |-> 1]
    /\ phase = "run" /\ misfed = FALSE /\ ops = 0

-----------------------------------------------------------------------------
\* The application acts in a callback or, from another thread, while the loop's lock is
\* released around the wait (ev_set_loop_release_cb).
CanAct == phase \in {"run", "wait"} /\ ops < MaxOps /\ ops' = ops + 1

\* ev_io_start of a new watcher (its EV__IOFDSET set), ev_io_stop, or a stop,
\* ev_io_modify and start: each ends in fd_change.
IoSet(fd, S) ==
    /\ CanAct
    /\ S # want[fd]
    /\ want' = [want EXCEPT ![fd] = S]
    /\ changed' = changed \cup {fd}
    /\ iofdset' = IF want[fd] = {} THEN iofdset \cup {fd} ELSE iofdset
    /\ UNCHANGED <<events, egen, file, phase, misfed>>

\* The descriptor is closed, or given to another file, while nothing watches it.
Reopen(fd) ==
    /\ CanAct
    /\ want[fd] = {}
    /\ file' = [file EXCEPT ![fd] = @ + 1]
    /\ UNCHANGED <<want, events, changed, iofdset, egen, phase, misfed>>

\* fd_reify's condition for calling backend_modify, and what it does to the table.
NeedsModify(fd) == events[fd] # want[fd] \/ fd \in iofdset
Reified(fd) ==
    /\ fd \in changed
    /\ events' = [events EXCEPT ![fd] = want[fd]]
    /\ changed' = changed \ {fd} /\ iofdset' = iofdset \ {fd}

\* Mutant: the reify flag is not looked at.
HeardUnchecked(fd, ev) == ev \cap want[fd] # {}

\* fd_event: the watcher hears of ev, but not if the fd changed during the poll.
Heard(fd, ev) == fd \notin changed /\ ev \cap want[fd] # {}

\* An event of file f is passed to fd_event.
FdEvent(fd, ev, f) == misfed' = (misfed \/ (Heard(fd, ev) /\ f # file[fd]))

\* A one-shot request is used up: events = 0 and fd_change, so that fd_reify asks again.
Rearm(S) ==
    /\ events' = [fd \in Fds |-> IF fd \in S THEN {} ELSE events[fd]]
    /\ changed' = changed \cup S

\* fd_kill.
FdKill(S) ==
    /\ want' = [fd \in Fds |-> IF fd \in S THEN {} ELSE want[fd]]
    /\ changed' = changed \cup {fd \in S : want[fd] # {}}

\* fd_rearm_all, after a fork.
RearmAll ==
    LET armed == {fd \in Fds : events[fd] # {}}
    IN  Rearm(armed) /\ iofdset' = iofdset \cup armed
=============================================================================
