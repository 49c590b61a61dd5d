------------------------------- MODULE LoopLife ------------------------------
(***************************************************************************)
(* A loop from its creation to its destruction (src/ev.c: loop_init,       *)
(* ev_loop_new, ev_default_loop, loop_fork, ev_loop_destroy; the init,     *)
(* fork and destroy functions of the backends): the descriptors it opens,  *)
(* the watchers it starts for itself, which hold no reference to the loop, *)
(* and what a fork replaces.  The functions of the code are functions from *)
(* the state L to the next.                                                *)
(***************************************************************************)
EXTENDS Integers, FiniteSets

CONSTANTS
    Backends,       \* the backends compiled in and asked for
    MaxForks        \* bound on forks and calls of ev_loop_fork

VARIABLE L          \* life     : "none", "up" or "gone";  backend : its name or "none"
                    \* default  : it is the default loop
                    \* active   : the internal watchers that are active
                    \* refs     : activecnt;  users : the application's active watchers
                    \* open     : descriptors and mappings held;  mine : those not inherited
                    \* bad      : history, <<backend, descriptor>> closed while it was not held,
                    \*   or overwritten while it was
                    \* postfork : bit 0, forked; bit 1, epoll asks for a new kernel state
                    \* child    : history, the process forked and loop_fork has not run since
                    \* forks    : counts towards MaxForks

Internal == {"pipe_w", "timerfd_w", "sigfd_w", "childev", "fs_w", "backend_w"}
Descriptors == {"backend_fd", "maps", "tfd", "aio_ctx", "evpipe", "timerfd", "sigfd", "fs_fd"}
AllBackends == {"port", "kqueue", "iouring", "linuxaio", "epoll", "poll", "select"}

LoopTypeOK ==
    /\ L.life \in {"none", "up", "gone"} /\ L.backend \in AllBackends \cup {"none"}
    /\ L.active \subseteq Internal /\ L.open \subseteq Descriptors /\ L.mine \subseteq L.open
    /\ L.refs \in Int /\ L.users \in 0 .. 1 /\ L.postfork \in 0 .. 3

LoopInit ==
    \E def \in BOOLEAN :
    L = [life |-> "none", backend |-> "none", default |-> def, active |-> {}, refs |-> 0,
         users |-> 0, open |-> {}, mine |-> {}, bad |-> {}, postfork |-> 0,
         child |-> FALSE, forks |-> 0]

-----------------------------------------------------------------------------
Noted(s, f, wrong) == s.bad \cup IF wrong THEN {<<s.backend, f>>} ELSE {}
Opened(s, f) ==
    [s EXCEPT !.open = @ \cup {f}, !.mine = @ \cup {f}, !.bad = Noted(s, f, f \in s.open)]
Closed(s, f) ==
    [s EXCEPT !.open = @ \ {f}, !.mine = @ \ {f}, !.bad = Noted(s, f, f \notin s.open)]
\* io_destroy fails, which nobody looks at, on a context that is not the process's.
AioDestroyed(s) == [s EXCEPT !.open = @ \ {"aio_ctx"}, !.mine = @ \ {"aio_ctx"}]
EvRef(s) == [s EXCEPT !.refs = @ + 1]
EvUnref(s) == [s EXCEPT !.refs = @ - 1]
Started(s, w) == IF w \in s.active THEN s ELSE [s EXCEPT !.active = @ \cup {w}, !.refs = @ + 1]
Stopped(s, w) == IF w \in s.active THEN [s EXCEPT !.active = @ \ {w}, !.refs = @ - 1] ELSE s

\* Each backend's init: the states it may leave, successful ones with the backend set.
EpollInit(s) == {s, [Opened(s, "backend_fd") EXCEPT !.backend = "epoll"]}
PortInit(s) == {s, [Opened(s, "backend_fd") EXCEPT !.backend = "port"]}
KqueueInit(s) == {s, [Opened(s, "backend_fd") EXCEPT !.backend = "kqueue"]}
PollInit(s) == {[s EXCEPT !.backend = "poll"]}
SelectInit(s) == {[s EXCEPT !.backend = "select"]}

\* Mutant: the ring stays open when the timerfd cannot be made.
IouringInitLeaks(s) ==
    LET ringed == Opened(s, "backend_fd")  mapped == Opened(ringed, "maps")
        timed == Opened(mapped, "tfd")
    IN  {s, Closed(ringed, "backend_fd"), Closed(mapped, "maps"),
         [EvUnref(Started(timed, "backend_w")) EXCEPT !.backend = "iouring"]}

\* iouring_init: io_uring_setup, the checks of the layout, the mappings, the timerfd; each
\* failure undoes what came before.
IouringInit(s) ==
    LET ringed == Opened(s, "backend_fd")  mapped == Opened(ringed, "maps")
        timed == Opened(mapped, "tfd")
    IN  {s, Closed(ringed, "backend_fd"), Closed(Closed(mapped, "maps"), "backend_fd"),
         [EvUnref(Started(timed, "backend_w")) EXCEPT !.backend = "iouring"]}

\* linuxaio_init: epoll, then a context.
LinuxaioInit(s) ==
    LET epolled == Opened(s, "backend_fd")
    IN  {s, Closed(epolled, "backend_fd"),
         [EvUnref(Started(Opened(epolled, "aio_ctx"), "backend_w")) EXCEPT !.backend = "linuxaio"]}

InitOf(b, s) ==
    CASE b = "port" -> PortInit(s) [] b = "kqueue" -> KqueueInit(s) [] b = "iouring" -> IouringInit(s)
      [] b = "linuxaio" -> LinuxaioInit(s) [] b = "epoll" -> EpollInit(s)
      [] b = "poll" -> PollInit(s) [] b = "select" -> SelectInit(s)

\* loop_init tries the backends in a fixed order until one works.
Tried(S, b) == UNION {IF s.backend = "none" /\ b \in Backends THEN InitOf(b, s) ELSE {s} : s \in S}
AfterInit ==
    LET native == Tried(Tried({L}, "port"), "kqueue")
        linux == Tried(Tried(Tried(native, "iouring"), "linuxaio"), "epoll")
    IN  Tried(Tried(linux, "poll"), "select")

\* ev_loop_new, ev_default_loop: without a backend there is no loop; the default loop
\* starts childev.
LoopNew ==
    /\ L.life = "none"
    /\ \E s \in AfterInit :
         L' = IF s.backend = "none" THEN [s EXCEPT !.life = "gone"]
              ELSE [(IF s.default
                     THEN EvUnref(Started(EvUnref(Started(Opened(s, "evpipe"), "pipe_w")), "childev"))
                     ELSE s) EXCEPT !.life = "up"]

-----------------------------------------------------------------------------
(* What the loop makes for itself when it is first needed.                 *)

EvpipeInit(s) ==
    IF "pipe_w" \in s.active THEN s ELSE EvUnref(Started(Opened(s, "evpipe"), "pipe_w"))
EvtimerfdInit(s) ==
    IF "timerfd_w" \in s.active THEN {s}
    ELSE {s, EvUnref(Started(Opened(s, "timerfd"), "timerfd_w"))}
SigfdInit(s) == EvUnref(Started(Opened(s, "sigfd"), "sigfd_w"))
InfyInit(s) == EvUnref(Started(Opened(s, "fs_fd"), "fs_w"))

Up == L.life = "up"
NeedPipe == Up /\ "pipe_w" \notin L.active /\ L' = EvpipeInit(L)
NeedTimerfd == Up /\ "timerfd_w" \notin L.active /\ L' \in EvtimerfdInit(L) \ {L}
NeedSigfd == Up /\ "sigfd_w" \notin L.active /\ L' = SigfdInit(L)
NeedInotify == Up /\ "fs_w" \notin L.active /\ L' = InfyInit(L)

\* An application's watcher starts or stops.
UserStart == Up /\ L.users = 0 /\ L' = [L EXCEPT !.users = 1, !.refs = @ + 1]
UserStop == Up /\ L.users = 1 /\ L' = [L EXCEPT !.users = 0, !.refs = @ - 1]

\* linuxaio_poll gives up its context and becomes epoll (its watcher is stopped); loop_fork
\* has run by then.
AioToEpoll ==
    /\ Up /\ L.backend = "linuxaio" /\ L.postfork = 0
    /\ L' = [EvRef(Stopped(Closed(L, "aio_ctx"), "backend_w")) EXCEPT !.backend = "epoll"]

\* The process forks (in the child nothing is its own; a kqueue and an aio context are
\* not inherited) and tells the loop; or it calls ev_loop_fork without having forked.
ProcessForks ==
    /\ Up /\ L.forks < MaxForks
    /\ L' = [L EXCEPT !.mine = {}, !.postfork = 1, !.child = TRUE, !.forks = @ + 1,
                      !.open = @ \ ({"aio_ctx"} \cup IF L.backend = "kqueue" THEN {"backend_fd"} ELSE {})]
EvLoopFork == Up /\ L.forks < MaxForks /\ L' = [L EXCEPT !.postfork = 1, !.forks = @ + 1]

\* epoll_poll, which linuxaio runs from a callback, finds registrations stale: postfork |= 2.
EpollSpurious ==
    /\ Up /\ L.backend \in {"epoll", "linuxaio"} /\ L.postfork \in {0, 1}
    /\ L' = [L EXCEPT !.postfork = @ + 2]

-----------------------------------------------------------------------------
(* loop_fork, at the start of a pass.                                      *)

EpollFork(s) == Opened(Closed(s, "backend_fd"), "backend_fd")
PortFork(s) == Opened(Closed(s, "backend_fd"), "backend_fd")
\* The descriptor is closed in the process that made it only.
KqueueFork(s) == Opened(IF "backend_fd" \in s.mine THEN Closed(s, "backend_fd") ELSE s, "backend_fd")

IouringDestroy(s) ==
    Closed(Closed(Closed(Stopped(s, "backend_w"), "maps"), "backend_fd"), "tfd")
\* It tries until it has a ring.
IouringFork(s) ==
    {t \in IouringInit([IouringDestroy(s) EXCEPT !.backend = "none"]) : t.backend = "iouring"}

\* Its watcher moves to the new epoll fd.
LinuxaioFork(s) ==
    Started(Stopped(EpollFork(Opened(AioDestroyed(s), "aio_ctx")), "backend_w"), "backend_w")

BackendFork(s) ==
    CASE s.backend = "epoll" -> {EpollFork(s)} [] s.backend = "port" -> {PortFork(s)}
      [] s.backend = "kqueue" -> {KqueueFork(s)} [] s.backend = "iouring" -> IouringFork(s)
      [] s.backend = "linuxaio" -> {LinuxaioFork(s)} [] OTHER -> {s}

InotifyFork(s) ==
    IF "fs_fd" \notin s.open THEN {s}
    ELSE LET shut == Closed(Stopped(EvRef(s), "fs_w"), "fs_fd") IN {shut, InfyInit(shut)}

TimerfdFork(s) ==
    IF "timerfd_w" \notin s.active THEN {s}
    ELSE EvtimerfdInit(Closed(Stopped(EvRef(s), "timerfd_w"), "timerfd"))

\* Mutant: the watcher is stopped without taking the reference back first.
PipeForkNoRef(s) ==
    IF "pipe_w" \notin s.active THEN s
    ELSE EvpipeInit(Closed(Stopped(s, "pipe_w"), "evpipe"))

PipeFork(s) ==
    IF "pipe_w" \notin s.active THEN s
    ELSE EvpipeInit(Closed(Stopped(EvRef(s), "pipe_w"), "evpipe"))

\* Mutant: a timerfd is left to the child as it is.
LoopForkKeepsTimerfd ==
    /\ Up /\ L.postfork # 0
    /\ \E b \in BackendFork(L) : \E i \in InotifyFork(b) :
         LET t == IF L.postfork = 2 THEN i ELSE PipeFork(i)
         IN  L' = [t EXCEPT !.postfork = 0, !.child = FALSE]

LoopFork ==
    /\ Up /\ L.postfork # 0
    /\ \E b \in BackendFork(L) : \E i \in InotifyFork(b) :
         IF L.postfork = 2 THEN L' = [i EXCEPT !.postfork = 0, !.child = FALSE]
         ELSE \E t \in TimerfdFork(i) : L' = [PipeFork(t) EXCEPT !.postfork = 0, !.child = FALSE]

-----------------------------------------------------------------------------
\* ev_loop_destroy: the watchers are not stopped one by one, their descriptors are closed;
\* io_uring and linuxaio close their own backend_fd.
CloseIf(s, w, f) == IF w \in s.active THEN Closed(s, f) ELSE s
LinuxaioDestroy(s) == Closed(AioDestroyed(Stopped(s, "backend_w")), "backend_fd")
BackendDestroy(s) ==
    CASE s.backend = "iouring" -> IouringDestroy(s)
      [] s.backend = "linuxaio" -> LinuxaioDestroy(s)
      [] s.backend \in {"poll", "select"} -> s
      [] OTHER -> Closed(s, "backend_fd")

LoopDestroy ==
    LET child == IF L.default /\ "childev" \in L.active THEN Stopped(EvRef(L), "childev") ELSE L
        shut == CloseIf(CloseIf(CloseIf(CloseIf(child, "pipe_w", "evpipe"), "sigfd_w", "sigfd"),
                                "timerfd_w", "timerfd"), "fs_w", "fs_fd")
    IN  /\ Up
        /\ L' = [BackendDestroy(shut) EXCEPT !.life = "gone", !.backend = "none"]

LoopNext ==
    \/ LoopNew \/ NeedPipe \/ NeedTimerfd \/ NeedSigfd \/ NeedInotify \/ UserStart \/ UserStop
    \/ AioToEpoll \/ ProcessForks \/ EvLoopFork \/ EpollSpurious \/ LoopFork \/ LoopDestroy

LoopSpec == LoopInit /\ [][LoopNext]_L

-----------------------------------------------------------------------------
(* Properties.                                                             *)

\* The loop closes what it opened, once: nothing is left after it is destroyed or its
\* creation failed, nothing is closed that it does not hold or lost while open, through
\* forks, ev_loop_fork and the change from linuxaio to epoll; with one exception: destroyed
\* in a forked child before loop_fork, a kqueue loop closes the number its kqueue had.
NothingLeft ==
    /\ L.bad \subseteq {<<"kqueue", "backend_fd">>}
    /\ L.bad # {} => L.life = "gone" /\ L.child
    /\ L.life = "gone" => L.open = {}

\* After loop_fork the child shares no descriptor with its parent but the signalfd.
ForkedFresh == (Up /\ L.postfork = 0) => L.open \ {"sigfd"} \subseteq L.mine

\* The loop's own watchers hold no reference, so that activecnt counts the application's,
\* on every backend but io_uring (see KeptAlive).
InternalUnreferenced == (Up /\ L.backend # "iouring") => L.refs = L.users

\* "Every watcher keeps one reference, and as long as the reference count is nonzero,
\* ev_run will not return on its own": an active watcher keeps ev_run in the loop.
KeptAlive == (Up /\ L.users > 0) => L.refs > 0
=============================================================================
