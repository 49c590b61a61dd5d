------------------------------- MODULE FdEpoll -------------------------------
(***************************************************************************)
(* io watchers, the fd table of the loop and the epoll backend (src/ev.c:  *)
(* ev_io_start, ev_io_stop, ev_io_modify, fd_change, fd_reify, fd_event,   *)
(* fd_kill, fd_rearm_all; src/ev_epoll.c), against a model of the kernel's *)
(* interest list.                                                          *)
(*                                                                         *)
(* The kernel registers an open file under an fd number, not the number    *)
(* itself: closing the fd removes the registration only with the last      *)
(* reference to the file, and a forked child may still hold one.  The      *)
(* backend never unregisters on stop, so the same number can be reopened   *)
(* while the old file is still registered under it.                        *)
(***************************************************************************)
EXTENDS Integers, Sequences, FiniteSets

CONSTANTS
    NFD,        \* descriptor numbers are 0..NFD-1
    Files,      \* open files; each is opened once
    EpermFiles, \* those epoll refuses (regular files)
    NoFile,     \* a closed descriptor
    Watchers,
    FdOf,       \* w->fd
    RetryUnset, \* TRUE: the application starts watchers on a descriptor that got
                \* EV_ERROR as they are; FALSE: it calls ev_io_set first
    MaxGen,     \* bound: generation up to which the application changes each fd
    MaxChanges  \* bound: length of fdchanges up to which it does

FDs == 0..(NFD - 1)

\* What the proofs assume of the constants; MCFdEpoll lets TLC evaluate it.
FdAssumption ==
    /\ NFD \in Nat \ {0}
    /\ RetryUnset \in BOOLEAN
    /\ EpermFiles \subseteq Files
    /\ NoFile \notin Files
    /\ FdOf \in [Watchers -> FDs]
    /\ MaxGen \in [FDs -> Nat]
    /\ MaxChanges \in Nat

VARIABLES
    \* kernel
    fdtab,      \* the file open under each number
    used,       \* files opened so far
    held,       \* closed files a child process still holds
    kern,       \* the interest list: [fd, file, mask, gen]
    \* watchers
    active, wevents,
    iofdset,    \* EV__IOFDSET in w->events: set since the last start
    stale,      \* w must go through ev_io_set before it is started
    fed,        \* events pending for w
    \* anfds[] and the backend
    events, reify, emask, egen,
    fdchanges,
    left,       \* entries of fdchanges this fd_reify has still to do
    eperms,     \* how often each fd is in epoll_eperms
    postfork,   \* postfork is non-zero: kernel state must be recreated
    phase       \* "app", "reify", "poll"

kernVars  == <<fdtab, used, held>>
watchVars == <<active, wevents, iofdset, stale>>
vars == <<fdtab, used, held, kern, active, wevents, iofdset, stale, fed, events,
          reify, emask, egen, fdchanges, left, eperms, postfork, phase>>

RW    == {"R", "W"}
Masks == SUBSET RW
EPERM == {"EPERM"}

TypeOK ==
    /\ fdtab \in [FDs -> Files \cup {NoFile}]
    /\ used \in SUBSET Files
    /\ held \in SUBSET Files
    /\ kern \in SUBSET [fd : FDs, file : Files, mask : Masks, gen : Nat]
    /\ active \in SUBSET Watchers
    /\ wevents \in [Watchers -> Masks]
    /\ iofdset \in SUBSET Watchers
    /\ stale \in SUBSET Watchers
    /\ fed \in [Watchers -> SUBSET (RW \cup {"ERROR"})]
    /\ events \in [FDs -> Masks]
    /\ reify \in [FDs -> SUBSET {"REIFY", "IOFDSET"}]
    /\ emask \in [FDs -> Masks \cup {EPERM}]
    /\ egen \in [FDs -> Nat]
    /\ fdchanges \in Seq(FDs)
    /\ left \in 0..Len(fdchanges)
    /\ eperms \in [FDs -> Nat]
    /\ postfork \in BOOLEAN
    /\ phase \in {"app", "reify", "poll"}

Init ==
    /\ fdtab = [fd \in FDs |-> NoFile]
    /\ used = {}
    /\ held = {}
    /\ kern = {}
    /\ active = {}
    /\ wevents = [w \in Watchers |-> {}]
    /\ iofdset = {}
    /\ stale = Watchers
    /\ fed = [w \in Watchers |-> {}]
    /\ events = [fd \in FDs |-> {}]
    /\ reify = [fd \in FDs |-> {}]
    /\ emask = [fd \in FDs |-> {}]
    /\ egen = [fd \in FDs |-> 0]
    /\ fdchanges = <<>>
    /\ left = 0
    /\ eperms = [fd \in FDs |-> 0]
    /\ postfork = FALSE
    /\ phase = "app"

On(fd) == {w \in active : FdOf[w] = fd}

\* What the active watchers of fd want.
Wanted(fd) == UNION {wevents[w] : w \in On(fd)}

Changes == {fdchanges[i] : i \in 1..Len(fdchanges)}

-----------------------------------------------------------------------------
(* The process: files come and go.                                         *)

Open(fd, f) ==
    /\ phase = "app"
    /\ fdtab[fd] = NoFile
    /\ f \notin used
    /\ fdtab' = [fdtab EXCEPT ![fd] = f]
    /\ used' = used \cup {f}
    /\ UNCHANGED <<held, kern, watchVars, fed, events, reify, emask, egen,
                   fdchanges, left, eperms, postfork, phase>>

\* The application stops the watchers of a descriptor before it closes it, and
\* calls ev_io_set before it starts one on the number again.
Close(fd, child) ==
    /\ phase = "app"
    /\ fdtab[fd] # NoFile
    /\ On(fd) = {}
    /\ fdtab' = [fdtab EXCEPT ![fd] = NoFile]
    /\ held' = IF child THEN held \cup {fdtab[fd]} ELSE held
    /\ kern' = IF child THEN kern ELSE {e \in kern : e.file # fdtab[fd]}
    /\ stale' = stale \cup {w \in Watchers : FdOf[w] = fd}
    /\ UNCHANGED <<used, active, wevents, iofdset, fed, events, reify, emask,
                   egen, fdchanges, left, eperms, postfork, phase>>

\* The child drops the last reference.
ChildCloses(f) ==
    /\ f \in held
    /\ held' = held \ {f}
    /\ kern' = {e \in kern : e.file # f}
    /\ UNCHANGED <<fdtab, used, watchVars, fed, events, reify, emask, egen,
                   fdchanges, left, eperms, postfork, phase>>

-----------------------------------------------------------------------------
(* io watchers.                                                            *)

\* fd_change
FdChange(fd, flags) ==
    /\ reify' = [reify EXCEPT ![fd] = @ \cup flags]
    /\ fdchanges' = IF reify[fd] = {} THEN Append(fdchanges, fd) ELSE fdchanges

Room(fd) == egen[fd] < MaxGen[fd] /\ Len(fdchanges) < MaxChanges

\* ev_io_set
Set(w, ev) ==
    /\ phase = "app"
    /\ w \notin active
    /\ wevents' = [wevents EXCEPT ![w] = ev]
    /\ iofdset' = iofdset \cup {w}
    /\ stale' = stale \ {w}
    /\ UNCHANGED <<kernVars, kern, active, fed, events, reify, emask, egen,
                   fdchanges, left, eperms, postfork, phase>>

\* Mutant: ev_io_start forgets that the fd was set.
StartNotSet(w) ==
    /\ phase = "app"
    /\ w \notin active
    /\ w \notin stale
    /\ fdtab[FdOf[w]] # NoFile
    /\ Room(FdOf[w])
    /\ active' = active \cup {w}
    /\ FdChange(FdOf[w], {"REIFY"})
    /\ iofdset' = iofdset \ {w}
    /\ UNCHANGED <<kernVars, kern, wevents, stale, fed, events, emask, egen, left,
                   eperms, postfork, phase>>

Start(w) ==
    /\ phase = "app"
    /\ w \notin active
    /\ w \notin stale
    /\ fdtab[FdOf[w]] # NoFile
    /\ Room(FdOf[w])
    /\ active' = active \cup {w}
    /\ FdChange(FdOf[w], {"REIFY"} \cup (IF w \in iofdset THEN {"IOFDSET"} ELSE {}))
    /\ iofdset' = iofdset \ {w}
    /\ UNCHANGED <<kernVars, kern, wevents, stale, fed, events, emask, egen, left,
                   eperms, postfork, phase>>

Stop(w) ==
    /\ phase = "app"
    /\ fed' = [fed EXCEPT ![w] = {}]
    /\ IF w \in active
       THEN active' = active \ {w} /\ FdChange(FdOf[w], {"REIFY"})
       ELSE UNCHANGED <<active, reify, fdchanges>>
    /\ UNCHANGED <<kernVars, kern, wevents, iofdset, stale, events, emask, egen,
                   left, eperms, postfork, phase>>

\* Mutant: the changed mask is not queued for fd_reify.
ModifySilent(w, ev) ==
    /\ phase = "app"
    /\ wevents[w] # ev
    /\ Room(FdOf[w])
    /\ wevents' = [wevents EXCEPT ![w] = ev]
    /\ UNCHANGED <<kernVars, kern, active, iofdset, stale, fed, events, reify, emask,
                   egen, fdchanges, left, eperms, postfork, phase>>

\* ev_io_modify: fd_change with no flag.
Modify(w, ev) ==
    /\ phase = "app"
    /\ wevents[w] # ev
    /\ Room(FdOf[w])
    /\ wevents' = [wevents EXCEPT ![w] = ev]
    /\ IF w \in active THEN FdChange(FdOf[w], {}) ELSE UNCHANGED <<reify, fdchanges>>
    /\ UNCHANGED <<kernVars, kern, active, iofdset, stale, fed, events, emask, egen,
                   left, eperms, postfork, phase>>

\* The callback runs.
Invoke(w) ==
    /\ phase = "app"
    /\ fed[w] # {}
    /\ fed' = [fed EXCEPT ![w] = {}]
    /\ UNCHANGED <<kernVars, kern, watchVars, events, reify, emask, egen,
                   fdchanges, left, eperms, postfork, phase>>

-----------------------------------------------------------------------------
(* A pass: epoll_fork if asked for, fd_reify with epoll_modify, epoll_poll.*)

\* Mutant: fd_reify looks at one entry too many.
BeginPassOneMore ==
    /\ phase = "app"
    /\ ~postfork
    /\ phase' = "reify"
    /\ left' = Len(fdchanges) + 1
    /\ UNCHANGED <<kernVars, kern, watchVars, fed, events, reify, emask, egen,
                   fdchanges, eperms, postfork>>

BeginPass ==
    /\ phase = "app"
    /\ ~postfork
    /\ phase' = "reify"
    /\ left' = Len(fdchanges)
    /\ UNCHANGED <<kernVars, kern, watchVars, fed, events, reify, emask, egen,
                   fdchanges, eperms, postfork>>

\* ev_loop_fork, called in the child after a fork.
LoopFork ==
    /\ phase = "app"
    /\ ~postfork
    /\ \A fd \in FDs : egen[fd] < MaxGen[fd]
    /\ postfork' = TRUE
    /\ UNCHANGED <<kernVars, kern, watchVars, fed, events, reify, emask, egen,
                   fdchanges, left, eperms, phase>>

\* The descriptors of a set in the order of the table: i - 1 of them come before the i-th.
Ascending(set) ==
    [i \in 1..Cardinality(set) |->
        CHOOSE fd \in set : Cardinality({x \in set : x < fd}) = i - 1]

\* Mutant: the descriptors are queued, their recorded kernel state is kept.
FdRearmAllKeep ==
    LET armed == {fd \in FDs : events[fd] # {}}
    IN  /\ UNCHANGED <<events, emask>>
        /\ reify' = [fd \in FDs |-> IF fd \in armed THEN {"REIFY"} ELSE reify[fd]]
        /\ fdchanges' = fdchanges \o Ascending({fd \in armed : reify[fd] = {}})

\* fd_rearm_all
FdRearmAll ==
    LET armed == {fd \in FDs : events[fd] # {}}
    IN  /\ events' = [fd \in FDs |-> {}]
        /\ emask' = [fd \in FDs |-> IF fd \in armed THEN {} ELSE emask[fd]]
        /\ reify' = [fd \in FDs |-> IF fd \in armed THEN {"REIFY", "IOFDSET"} ELSE reify[fd]]
        /\ fdchanges' = fdchanges \o Ascending({fd \in armed : reify[fd] = {}})

\* A pass that starts with loop_fork: epoll_fork makes a new epoll set.
EpollFork ==
    /\ phase = "app"
    /\ postfork
    /\ postfork' = FALSE
    /\ kern' = {}
    /\ FdRearmAll
    /\ phase' = "reify"
    /\ left' = Len(fdchanges')
    /\ UNCHANGED <<kernVars, watchVars, fed, egen, eperms>>

Registered(fd) == \E e \in kern : e.fd = fd /\ e.file = fdtab[fd]

\* The other registrations, once that of fd's current file is taken out.
Others(fd) == {e \in kern : ~(e.fd = fd /\ e.file = fdtab[fd])}

Entry(fd, mask, gen) == [fd |-> fd, file |-> fdtab[fd], mask |-> mask, gen |-> gen]

\* The registration of fd's current file becomes mask, gen.
Register(fd, mask, gen) == Others(fd) \cup {Entry(fd, mask, gen)}

\* fd_kill: every watcher of fd is stopped and gets EV_ERROR; ev_io_stop queues
\* fd for the next fd_reify (see ReifyOne).
FdKill(fd) ==
    /\ active' = active \ On(fd)
    /\ fed' = [w \in Watchers |-> IF w \in On(fd) THEN {"ERROR"} \cup RW ELSE fed[w]]
    /\ stale' = IF RetryUnset THEN stale ELSE stale \cup {w \in Watchers : FdOf[w] = fd}

\* The errors of epoll_ctl are the kernel's: EPERM for a file it cannot poll;
\* EEXIST when an ADD finds the file registered; ENOENT when a MOD does not find
\* it; ENOMEM or ENOSPC when a registration cannot be made.
IsAdd(fd, oev, nev) == oev = {} \/ emask[fd] = nev

\* EPERM: always ready; epoll_poll makes up the events.
ModifyEperm(fd, nev) ==
    /\ nev # {}
    /\ fdtab[fd] \in EpermFiles
    /\ emask' = [emask EXCEPT ![fd] = EPERM]
    /\ egen' = [egen EXCEPT ![fd] = @ + 1]
    /\ eperms' = IF emask[fd] = EPERM THEN eperms ELSE [eperms EXCEPT ![fd] = @ + 1]
    /\ UNCHANGED <<kern, active, fed, stale>>

\* ADD, EEXIST and the recorded mask is the wanted one: it hasn't changed.
ModifyUnchanged(fd, oev, nev) ==
    /\ nev # {}
    /\ fdtab[fd] \notin EpermFiles
    /\ IsAdd(fd, oev, nev) /\ Registered(fd) /\ emask[fd] = nev
    /\ UNCHANGED <<emask, egen, kern, eperms, active, fed, stale>>

\* Mutant: a new registration keeps the generation.
ModifyDoneSameGen(fd, oev, nev) ==
    /\ nev # {}
    /\ fdtab[fd] \notin EpermFiles
    /\ ~(IsAdd(fd, oev, nev) /\ Registered(fd) /\ emask[fd] = nev)
    /\ emask' = [emask EXCEPT ![fd] = nev]
    /\ kern' = Register(fd, nev, egen[fd])
    /\ UNCHANGED <<egen, eperms, active, fed, stale>>

\* ADD or MOD, or MOD after EEXIST, or ADD after ENOENT, succeeds.
ModifyDone(fd, oev, nev) ==
    /\ nev # {}
    /\ fdtab[fd] \notin EpermFiles
    /\ ~(IsAdd(fd, oev, nev) /\ Registered(fd) /\ emask[fd] = nev)
    /\ emask' = [emask EXCEPT ![fd] = nev]
    /\ egen' = [egen EXCEPT ![fd] = @ + 1]
    /\ kern' = Register(fd, nev, egen[fd] + 1)
    /\ UNCHANGED <<eperms, active, fed, stale>>

\* ADD, the first or the one after ENOENT, fails.
ModifyFailed(fd, nev) ==
    /\ nev # {}
    /\ fdtab[fd] \notin EpermFiles
    /\ ~Registered(fd)
    /\ emask' = [emask EXCEPT ![fd] = nev]
    /\ FdKill(fd)
    /\ UNCHANGED <<egen, kern, eperms>>

\* epoll_modify; a DEL is ignored.
EpollModify(fd, oev, nev) ==
    \/ nev = {} /\ UNCHANGED <<emask, egen, kern, eperms, active, fed, stale>>
    \/ ModifyEperm(fd, nev)
    \/ ModifyUnchanged(fd, oev, nev)
    \/ ModifyDone(fd, oev, nev)
    \/ ModifyFailed(fd, nev)

\* Mutant: reify is reset after backend_modify, so fd_kill does not queue the fd.
ReifyOneDropKilled ==
    /\ phase = "reify"
    /\ left > 0
    /\ LET fd  == Head(fdchanges)
           nev == Wanted(fd)
       IN  /\ events' = [events EXCEPT ![fd] = nev]
           /\ IF "IOFDSET" \in reify[fd] \/ nev # events[fd]
              THEN EpollModify(fd, events[fd], nev)
              ELSE UNCHANGED <<emask, egen, kern, eperms, active, fed, stale>>
           /\ reify' = [reify EXCEPT ![fd] = {}]
    /\ fdchanges' = Tail(fdchanges)
    /\ left' = left - 1
    /\ UNCHANGED <<kernVars, wevents, iofdset, postfork, phase>>

\* One round of fd_reify.
ReifyOne ==
    /\ phase = "reify"
    /\ left > 0
    /\ LET fd   == Head(fdchanges)
           nev  == Wanted(fd)
           kill == active' # active
       IN  /\ events' = [events EXCEPT ![fd] = nev]
           /\ \/ /\ "IOFDSET" \in reify[fd] \/ nev # events[fd]
                 /\ EpollModify(fd, events[fd], nev)
              \/ /\ ~("IOFDSET" \in reify[fd] \/ nev # events[fd])
                 /\ UNCHANGED <<emask, egen, kern, eperms, active, fed, stale>>
           /\ reify' = [reify EXCEPT ![fd] = IF kill THEN {"REIFY"} ELSE {}]
           /\ fdchanges' = IF kill THEN Append(Tail(fdchanges), fd) ELSE Tail(fdchanges)
    /\ left' = left - 1
    /\ UNCHANGED <<kernVars, wevents, iofdset, postfork, phase>>

ReifyDone ==
    /\ phase = "reify"
    /\ left = 0
    /\ phase' = "poll"
    /\ UNCHANGED <<kernVars, kern, watchVars, fed, events, reify, emask, egen,
                   fdchanges, left, eperms, postfork>>

\* fd_event and fd_event_nocheck
FdEvent(fd, got) ==
    fed' = IF reify[fd] # {} THEN fed
           ELSE [w \in Watchers |-> IF w \in On(fd) THEN fed[w] \cup (wevents[w] \cap got)
                                    ELSE fed[w]]

\* epoll_wait reports entry e; got has an event of its mask, or everything (an
\* error or hangup is reported whatever the mask).
PollEvent(e, got) ==
    /\ phase = "poll"
    /\ got \cap e.mask # {} \/ got = RW
    /\ LET fd == e.fd
           want == events[fd]
       IN  \/ /\ e.gen # egen[fd]
              /\ postfork' = TRUE
              /\ UNCHANGED <<emask, kern, fed>>
           \/ /\ e.gen = egen[fd]
              /\ got \subseteq want
              /\ FdEvent(fd, got)
              /\ UNCHANGED <<emask, kern, postfork>>
           \/ /\ e.gen = egen[fd]
              /\ ~(got \subseteq want)
              /\ emask' = [emask EXCEPT ![fd] = want]
              /\ IF Registered(fd)
                 THEN /\ kern' = IF want = {} THEN Others(fd) ELSE Register(fd, want, e.gen)
                      /\ FdEvent(fd, got)
                      /\ UNCHANGED postfork
                 ELSE postfork' = TRUE /\ UNCHANGED <<kern, fed>>
    /\ UNCHANGED <<kernVars, watchVars, events, reify, egen, fdchanges, left,
                   eperms, phase>>

\* The end of epoll_poll: events for the descriptors epoll refused.
EndPoll ==
    /\ phase = "poll"
    /\ LET listed == {fd \in FDs : eperms[fd] > 0}
           still  == {fd \in listed : emask[fd] = EPERM /\ events[fd] # {}}
       IN  /\ eperms' = [fd \in FDs |-> IF fd \in still THEN eperms[fd] ELSE 0]
           /\ emask' = [fd \in FDs |-> IF fd \in listed \ still THEN {} ELSE emask[fd]]
           /\ fed' = [w \in Watchers |->
                        IF w \in active /\ FdOf[w] \in still /\ reify[FdOf[w]] = {}
                        THEN fed[w] \cup (wevents[w] \cap events[FdOf[w]]) ELSE fed[w]]
    /\ phase' = "app"
    /\ UNCHANGED <<kernVars, kern, watchVars, events, reify, egen, fdchanges,
                   left, postfork>>

\* EVRUN_NOPOLL, or a pass that has no fd to poll.
SkipPoll ==
    /\ phase = "poll"
    /\ phase' = "app"
    /\ UNCHANGED <<kernVars, kern, watchVars, fed, events, reify, emask, egen,
                   fdchanges, left, eperms, postfork>>

Next ==
    \/ \E fd \in FDs : \/ \E f \in Files : Open(fd, f)
                       \/ \E child \in BOOLEAN : Close(fd, child)
    \/ \E f \in Files : ChildCloses(f)
    \/ \E w \in Watchers : \/ Start(w) \/ Stop(w) \/ Invoke(w)
                           \/ \E ev \in Masks \ {{}} : Set(w, ev) \/ Modify(w, ev)
    \/ LoopFork \/ BeginPass \/ EpollFork \/ ReifyOne \/ ReifyDone
    \/ \E e \in kern, got \in Masks : PollEvent(e, got)
    \/ EndPoll \/ SkipPoll

Spec == Init /\ [][Next]_vars

-----------------------------------------------------------------------------
(* Properties.                                                             *)

\* When the backend polls, every watched descriptor is known to the kernel: its
\* current file is registered with the wanted mask and the current generation,
\* or the descriptor is on the list of those epoll refuses -- whatever stops,
\* restarts, closes and reopenings came before, although no registration is ever
\* deleted on stop.
WatchedIsRegistered ==
    phase = "poll" /\ ~postfork =>
        \A fd \in FDs : Wanted(fd) # {} /\ fd \notin Changes =>
            IF fdtab[fd] \in EpermFiles
            THEN eperms[fd] > 0 /\ emask[fd] = EPERM
            ELSE Entry(fd, Wanted(fd), egen[fd]) \in kern

\* The generation counter does its work: an event of a file that is no longer
\* open under the number never reaches the watchers of the new file.
StaleIgnored ==
    phase = "poll" =>
        \A e \in kern : e.file # fdtab[e.fd] /\ e.gen = egen[e.fd] =>
            events[e.fd] = {} \/ reify[e.fd] # {}

\* Nothing the watchers want is forgotten between fd_change and fd_reify.
ChangesListed ==
    \A fd \in FDs :
        Wanted(fd) # events[fd] \/ reify[fd] # {} => fd \in Changes

\* ChangesListed, and every field has its type: fd_reify never has more entries to do than
\* fdchanges holds.
Listed == TypeOK /\ ChangesListed

\* epoll_modify: "add fd to epoll_eperms, if not already inside".
EpermListedOnce == \A fd \in FDs : eperms[fd] <= 1
=============================================================================
