-------------------------------- MODULE Stat ---------------------------------
(***************************************************************************)
(* Stat watchers (src/ev.c: infy_add .. infy_fork, stat_timer_cb,          *)
(* ev_stat_start/stop).  A watcher is woken by inotify, by its timer, or   *)
(* by both; the two hand over to each other as the path, the file system   *)
(* and the process change.  The timer holds no reference to the loop.      *)
(* All watchers here are on one path; a wd stands for an inode, or for the *)
(* parent directory while the path does not exist.                         *)
(***************************************************************************)
EXTENDS Integers, Sequences, FiniteSets, SequencesExt

CONSTANTS
    Stats,          \* ev_stat watchers on the path
    MaxFsOps,       \* bound: changes of the file, starts, stops and forks
    MaxQueue        \* the kernel's bound on queued events

VARIABLE st         \* the state, a record whose fields are:
                    \*   active, pending : sets of watchers
                    \*   wd    : per watcher, 0 when not in fs_hash
                    \*   timer : the watchers with an active timer
                    \*   seen  : w->attr, as the version of the file (0: not there)
                    \*   refs  : activecnt
                    \*   fs    : fs_fd, "unused" (-2), "none" (-1) or "open"
                    \*   local : the file system is known to be local, on a new kernel
                    \*   ino, ver : the file: its inode (0: not there) and version
                    \*   kw    : the kernel's watches, a set of <<wd, inode (0: directory)>>
                    \*   kq    : queued events, <<wd, gone>>; wd -1 is the overflow
                    \*   next  : the next wd;  lost : history, the queue overflowed
                    \*   adding : watchers in ev_stat_start between lstat and infy_add
                    \*   todo  : per watcher, what infy_wd or infy_fork has still to do about
                    \*           it: "look", "gone" (add it again, and look), "fork", or ""
                    \*   ops   : counts towards MaxFsOps

ASSUME StatAssumption == IsFiniteSet(Stats) /\ MaxFsOps \in Nat /\ MaxQueue \in Nat

StatTypeOK ==
    /\ st.active \subseteq Stats /\ st.pending \subseteq st.active /\ st.timer \subseteq Stats
    /\ st.wd \in [Stats -> Nat] /\ st.refs \in Int
    /\ st.fs \in {"unused", "none", "open"} /\ st.todo \in [Stats -> {"", "look", "gone", "fork"}]
    /\ Len(st.kq) <= MaxQueue + 1

StatInit ==
    \E local \in BOOLEAN, fs \in {"unused", "none"}, ino \in {0, 1} :
        st = [active |-> {}, pending |-> {}, wd |-> [w \in Stats |-> 0], timer |-> {},
              seen |-> [w \in Stats |-> 0], refs |-> 0, fs |-> fs, local |-> local,
              ino |-> ino, ver |-> ino, kw |-> {}, kq |-> <<>>, next |-> 1, lost |-> FALSE,
              adding |-> {}, todo |-> [w \in Stats |-> ""], ops |-> 0]

One(b) == IF b THEN 1 ELSE 0

-----------------------------------------------------------------------------
(* The kernel's side (external).                                           *)

Queue(s, wd, gone) ==
    IF Len(s.kq) < MaxQueue THEN [s EXCEPT !.kq = Append(@, <<wd, gone>>)]
    ELSE IF Len(s.kq) = MaxQueue THEN [s EXCEPT !.kq = Append(@, <<-1, FALSE>>), !.lost = TRUE]
    ELSE s

\* An inode has one watch at most.
WatchesOn(s, on) == {k \in s.kw : k[2] = on}
Notify(s, on, gone) ==
    IF WatchesOn(s, on) = {} THEN s
    ELSE LET k == CHOOSE k \in WatchesOn(s, on) : TRUE
         IN  Queue(IF gone THEN [s EXCEPT !.kw = @ \ {k}] ELSE s, k[1], gone)

\* inotify_add_watch answers the wd an inode already has.
AddWatch(s, w, on) ==
    IF WatchesOn(s, on) # {}
    THEN [s EXCEPT !.wd[w] = (CHOOSE k \in WatchesOn(s, on) : TRUE)[1]]
    ELSE [s EXCEPT !.wd[w] = s.next, !.kw = @ \cup {<<s.next, on>>}, !.next = @ + 1]
RmWatch(s, wd) ==
    LET own == {k \in s.kw : k[1] = wd}
    IN  IF own = {} THEN s ELSE Queue([s EXCEPT !.kw = @ \ own], wd, TRUE)

-----------------------------------------------------------------------------
\* Mutant: the reference is dropped again without having been taken.
TimerAgainUnrefOnly(s, w, repeat) ==
    LET was == w \in s.timer
        started == s.refs - One(was) + One(repeat)
    IN  [s EXCEPT !.timer = IF repeat THEN @ \cup {w} ELSE @ \ {w}, !.refs = started - One(repeat)]

\* ev_ref while the timer is active, ev_timer_again with or without a repeat, ev_unref
\* if it is active now.
TimerAgain(s, w, repeat) ==
    LET was == w \in s.timer
        reffed == s.refs + One(was)
        started == reffed - One(was) + One(repeat)
    IN  [s EXCEPT !.timer = IF repeat THEN @ \cup {w} ELSE @ \ {w}, !.refs = started - One(repeat)]

\* infy_add: on the file, polled too unless it is local; or on the parent, polled; or, when
\* the kernel refuses the watch (~ok), polled.
InfyAdd(s, w, ok) ==
    IF ok THEN TimerAgain(AddWatch(s, w, s.ino), w, s.ino = 0 \/ ~s.local)
    ELSE TimerAgain(s, w, TRUE)

\* wlist_del: the watcher leaves fs_hash.
Unhash(s, w) == [s EXCEPT !.wd[w] = 0]

\* infy_del.
InfyDel(s, w) == IF s.wd[w] = 0 THEN s ELSE RmWatch(Unhash(s, w), s.wd[w])

\* ev_stat_stat.
Lstat(s, w) == [s EXCEPT !.seen[w] = s.ver * One(s.ino # 0)]

\* stat_timer_cb.
StatTimerCb(s, w, ok) ==
    LET now == Lstat(s, w)
    IN  IF now.seen[w] = s.seen[w] THEN s
        ELSE [(IF s.fs = "open" THEN Lstat(InfyAdd(InfyDel(now, w), w, ok), w) ELSE now)
              EXCEPT !.pending = @ \cup {w}]

\* Mutant: a watcher of a removed wd is not added again.
InfyWdNoReadd(s, w, readd, ok) == [StatTimerCb(s, w, ok) EXCEPT !.todo[w] = ""]

\* infy_wd, for one watcher: when the wd is gone (its file deleted, or another watcher
\* removed it) it is added again.
InfyWd(s, w, readd, ok) ==
    [StatTimerCb(IF s.todo[w] = "gone" THEN InfyAdd(Unhash(s, w), w, readd) ELSE s, w, ok)
     EXCEPT !.todo[w] = ""]

-----------------------------------------------------------------------------
FsOp(s) == [s EXCEPT !.ops = @ + 1]
CanFsOp == st.ops < MaxFsOps

\* The loop's thread is not in the midst of ev_stat_start, infy_cb or infy_fork.
Idle == st.adding = {} /\ st.todo = [w \in Stats |-> ""]

\* The file is written, deleted, or made.
FileModified ==
    /\ CanFsOp /\ st.ino # 0
    /\ st' = FsOp(Notify([st EXCEPT !.ver = @ + 1], st.ino, FALSE))
FileDeleted ==
    /\ CanFsOp /\ st.ino # 0
    /\ st' = FsOp([Notify(st, st.ino, TRUE) EXCEPT !.ino = 0])
FileCreated ==
    /\ CanFsOp /\ st.ino = 0
    /\ st' = FsOp([Notify(st, 0, FALSE) EXCEPT !.ino = st.ver + 1, !.ver = @ + 1])

\* infy_cb, one event: the watchers of its wd, or all after an overflow, each have their turn
\* in infy_wd, between which the path may change.
InfyCb ==
    /\ st.kq # <<>> /\ st.fs = "open" /\ Idle
    /\ LET e == Head(st.kq)
       IN  st' = [st EXCEPT !.kq = Tail(@),
                            !.todo = [w \in Stats |-> IF st.wd[w] # 0 /\ e[1] \in {st.wd[w], -1}
                                                      THEN IF e[2] THEN "gone" ELSE "look" ELSE ""]]
InfyTurn(w) ==
    /\ st.todo[w] \in {"look", "gone"}
    /\ \E readd, ok \in BOOLEAN : st' = InfyWd(st, w, readd, ok)

\* The poll timer expires.
StatTimer(w) ==
    /\ w \in st.timer /\ Idle
    /\ \E ok \in BOOLEAN : st' = StatTimerCb(st, w, ok)

StatInvoke(w) ==
    /\ w \in st.pending /\ Idle
    /\ st' = [st EXCEPT !.pending = @ \ {w}]

\* ev_stat_start, up to infy_init ...
StatStart(w) ==
    /\ CanFsOp /\ Idle /\ w \notin st.active
    /\ \E ok \in {"open", "none"} :
         /\ st.fs # "unused" => ok = st.fs
         /\ st' = FsOp([Lstat(st, w) EXCEPT !.fs = ok, !.adding = {w}])
\* ... and the rest: the path may change in between.
StatStarted(w) ==
    /\ w \in st.adding
    /\ \E ok \in BOOLEAN :
         st' = [(IF st.fs = "open" THEN InfyAdd(st, w, ok)
                 ELSE [st EXCEPT !.timer = @ \cup {w}])
                EXCEPT !.adding = {}, !.active = @ \cup {w}, !.refs = @ + 1]

\* ev_stat_stop.
StatStop(w) ==
    LET gone == InfyDel([st EXCEPT !.pending = @ \ {w}], w)
    IN  /\ CanFsOp /\ w \in st.active /\ Idle
        /\ st' = FsOp([gone EXCEPT !.timer = @ \ {w}, !.active = @ \ {w},
                                   !.refs = @ + One(w \in gone.timer) - One(w \in gone.timer) - 1])

\* infy_fork in the child: a new inotify fd, or none ...
InfyFork ==
    /\ CanFsOp /\ Idle /\ st.fs = "open"
    /\ \E fs \in {"open", "none"} :
         st' = FsOp([st EXCEPT !.fs = fs, !.kw = {}, !.kq = <<>>, !.wd = [w \in Stats |-> 0],
                               !.todo = [w \in Stats |-> IF st.wd[w] # 0 THEN "fork" ELSE ""]])
\* ... to which each watcher is added again, or else a timer.
InfyForked(w) ==
    /\ st.todo[w] = "fork"
    /\ \E ok \in BOOLEAN :
         st' = [(IF st.fs = "open" THEN InfyAdd(st, w, ok) ELSE TimerAgain(st, w, TRUE))
                EXCEPT !.todo[w] = ""]

StatNext ==
    \/ FileModified \/ FileDeleted \/ FileCreated \/ InfyCb \/ InfyFork
    \/ \E w \in Stats : StatTimer(w) \/ StatInvoke(w) \/ StatStart(w) \/ StatStarted(w) \/ StatStop(w)
                        \/ InfyTurn(w) \/ InfyForked(w)

StatSpec == StatInit /\ [][StatNext]_st

-----------------------------------------------------------------------------
(* Properties.                                                             *)

\* A stat watcher holds one reference to the loop, and its timer none, whichever way
\* start, events, file system, fork and stop followed each other.
StatRefs == st.refs = Cardinality(st.active)

\* A stat watcher goes on hearing of its path: it polls, or the kernel watches the inode
\* the path has now, or an event that will make it look again is queued or handled; in particular
\* after another watcher took their common wd away.  (Not after the kernel's queue
\* overflowed: the lost event may have said that the wd is gone.)
StatAwake ==
    st.lost \/ \A w \in st.active :
        \/ w \in st.timer
        \/ <<st.wd[w], st.ino>> \in st.kw
        \/ \E i \in 1 .. Len(st.kq) : st.kq[i][1] = st.wd[w]
        \/ st.todo[w] # ""

\* Both: an active stat watcher polls, or the kernel watches the inode its path has, or an event
\* for it is queued or handled; whichever way timer and inotify hand over to each other, its
\* timer holds no reference to the loop.
StatSound == StatRefs /\ StatAwake
=============================================================================
