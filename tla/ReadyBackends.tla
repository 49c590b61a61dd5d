---------------------------- MODULE ReadyBackends ----------------------------
(***************************************************************************)
(* The poll, select, kqueue and event port backends (src/ev_poll.c,        *)
(* ev_select.c, ev_kqueue.c, ev_port.c), one of which a behaviour uses:    *)
(* what each _modify keeps of the table, and what each _poll makes of what *)
(* the kernel reports.                                                     *)
(***************************************************************************)
EXTENDS FdTable

VARIABLES
    kind,       \* the backend
    pollfds, pollidxs,  \* poll: the array of [fd, ev], and the index of each fd (0: none)
    vec,        \* select: the fds of vec_ri ("r") and vec_wi ("w")
    kchanges,   \* kqueue: changes not yet given to kevent, [fd, ev, add]
    kernel,     \* kqueue filters and port associations: [fd, ev (a set), file]
    asked       \* poll, select: what the waiting call was given

ready == <<kind, pollfds, pollidxs, vec, kchanges, kernel, asked>>
rvars == <<table, ready>>

Kinds == {"poll", "select", "kqueue", "port"}

ReadyTypeOK ==
    /\ TableTypeOK /\ kind \in Kinds
    /\ phase \in {"run", "reify", "poll", "wait"}
    /\ pollidxs \in [Fds -> 0 .. Cardinality(Fds)]
    /\ vec \in [Ev -> SUBSET Fds]
    /\ \A k \in kernel \cup asked : k.fd \in Fds /\ k.file <= file[k.fd]

ReadyInit ==
    /\ TableInit /\ kind \in Kinds
    /\ pollfds = <<>> /\ pollidxs = [fd \in Fds |-> 0]
    /\ vec = [e \in Ev |-> {}] /\ kchanges = <<>> /\ kernel = {} /\ asked = {}

Interest(fd, ev) == [fd |-> fd, ev |-> ev, file |-> file[fd]]

-----------------------------------------------------------------------------
\* Mutant: the index of the entry moved into the hole is not updated.
PollModifyForgetsMoved(fd, oev, nev) ==
    LET idx == IF pollidxs[fd] = 0 THEN Len(pollfds) + 1 ELSE pollidxs[fd]
        grown == IF pollidxs[fd] = 0 THEN Append(pollfds, [fd |-> fd, ev |-> {}]) ELSE pollfds
        last == grown[Len(grown)]
    IN  IF oev = nev THEN UNCHANGED <<pollfds, pollidxs>>
        ELSE IF nev # {}
        THEN /\ pollfds' = [grown EXCEPT ![idx].ev = nev]
             /\ pollidxs' = [pollidxs EXCEPT ![fd] = idx]
        ELSE /\ pollfds' = Front([grown EXCEPT ![idx] = last])
             /\ pollidxs' = [pollidxs EXCEPT ![fd] = 0]

\* poll_modify: a removed entry's place is taken by the last.
PollModify(fd, oev, nev) ==
    LET idx == IF pollidxs[fd] = 0 THEN Len(pollfds) + 1 ELSE pollidxs[fd]
        grown == IF pollidxs[fd] = 0 THEN Append(pollfds, [fd |-> fd, ev |-> {}]) ELSE pollfds
        last == grown[Len(grown)]
    IN  IF oev = nev THEN UNCHANGED <<pollfds, pollidxs>>
        ELSE IF nev # {}
        THEN /\ pollfds' = [grown EXCEPT ![idx].ev = nev]
             /\ pollidxs' = [pollidxs EXCEPT ![fd] = idx]
        ELSE /\ pollfds' = Front([grown EXCEPT ![idx] = last])
             /\ pollidxs' = [[pollidxs EXCEPT ![last.fd] = idx] EXCEPT ![fd] = 0]

\* select_modify.
SelectModify(fd, oev, nev) ==
    vec' = IF oev = nev THEN vec
           ELSE [e \in Ev |-> IF e \in nev THEN vec[e] \cup {fd} ELSE vec[e] \ {fd}]

\* Mutant: an fd whose events did not change is not added again.
KqueueModifyOnlyNew(fd, oev, nev) ==
    LET change(S, add) == SetToSeq({[fd |-> fd, ev |-> e, add |-> add] : e \in S})
    IN  IF oev # nev THEN change(oev, FALSE) \o change(nev, TRUE) ELSE <<>>

\* The changes kqueue_modify appends: an fd is added again even when its events did not
\* change, for it may be another file by now.
KqueueModify(fd, oev, nev) ==
    LET change(S, add) == SetToSeq({[fd |-> fd, ev |-> e, add |-> add] : e \in S})
    IN  (IF oev # nev THEN change(oev, FALSE) ELSE <<>>) \o change(nev, TRUE)

\* port_modify: associated anew whatever was there.  (port_associate of a bad fd is the
\* PortKill below.)
PortModify(fd, oev, nev) ==
    IF nev # {} THEN {k \in kernel : k.fd # fd} \cup {Interest(fd, nev)}
    ELSE IF oev # {} THEN {k \in kernel : k.fd # fd} ELSE kernel

ReadyStartReify ==
    /\ phase = "run" /\ phase' = "reify"
    /\ UNCHANGED <<want, events, changed, iofdset, egen, file, misfed, ops, ready>>

\* fd_reify and backend_modify.
ReadyModify(fd) ==
    LET oev == events[fd]  nev == want[fd]  call == NeedsModify(fd)
    IN  /\ phase = "reify" /\ Reified(fd)
        /\ IF call /\ kind = "poll" THEN PollModify(fd, oev, nev) ELSE UNCHANGED <<pollfds, pollidxs>>
        /\ IF call /\ kind = "select" THEN SelectModify(fd, oev, nev) ELSE UNCHANGED vec
        /\ kchanges' = IF call /\ kind = "kqueue" THEN kchanges \o KqueueModify(fd, oev, nev) ELSE kchanges
        /\ kernel' = IF call /\ kind = "port" THEN PortModify(fd, oev, nev) ELSE kernel
        /\ kind = "port" /\ nev # {} => IsOpen(fd)
        /\ UNCHANGED <<want, egen, file, phase, misfed, ops, kind, asked>>

\* port_associate_and_check finds a bad fd and kills it, which leaves it changed.  (The
\* code reifies it in the next pass, the model in this one.)
PortKill(fd) ==
    /\ phase = "reify" /\ kind = "port" /\ fd \in changed
    /\ want[fd] # {} /\ ~IsOpen(fd)
    /\ want' = [want EXCEPT ![fd] = {}]
    /\ events' = [events EXCEPT ![fd] = want[fd]]
    /\ iofdset' = iofdset \ {fd}
    /\ UNCHANGED <<changed, egen, file, phase, misfed, ops, ready>>

-----------------------------------------------------------------------------
\* What a list of changes does to a filter: nothing, or what the last of its changes says.
Untouched(q, fd, e) == \A i \in 1 .. Len(q) : q[i].fd # fd \/ q[i].ev # e
Settled(q, fd, e, add) ==
    \E i \in 1 .. Len(q) : /\ q[i] = [fd |-> fd, ev |-> e, add |-> add]
                           /\ \A j \in i + 1 .. Len(q) : q[j].fd # fd \/ q[j].ev # e

\* kevent applies the change list (external): a change that fails is reported.
Applied ==
    {k \in kernel : \A e \in k.ev : Untouched(kchanges, k.fd, e)}
    \cup {Interest(x[1], {x[2]}) :
            x \in {y \in Fds \X Ev : Settled(kchanges, y[1], y[2], TRUE) /\ IsOpen(y[1])}}
BadChanges == {i \in 1 .. Len(kchanges) : kchanges[i].add /\ ~IsOpen(kchanges[i].fd)}
Missing == {i \in 1 .. Len(kchanges) :
    LET c == kchanges[i]  before == SubSeq(kchanges, 1, i - 1)
    IN  /\ ~c.add
        /\ \/ Settled(before, c.fd, c.ev, FALSE)
           \/ Untouched(before, c.fd, c.ev) /\ \A k \in kernel : k.fd # c.fd \/ k.ev # {c.ev}}

\* The errors kqueue_poll meets: for a filter that was not there kqueue_modify adds all of its
\* fd again (in one list for all of them), a bad fd is killed; neither for an fd without watchers.
KqueueErrors ==
    LET bad == {kchanges[i].fd : i \in BadChanges}
        again == {kchanges[i].fd : i \in Missing}
    IN  /\ FdKill({fd \in bad : events[fd] # {}})
        /\ kchanges' = SetToSeq({c \in [fd : again, ev : Ev, add : {TRUE}] : c.ev \in events[c.fd]})

\* The call is made: poll and select look up the files now, kevent takes the changes.
CallPoll ==
    /\ phase = "reify" /\ changed = {}
    /\ asked' = CASE kind = "poll" -> {Interest(pollfds[i].fd, pollfds[i].ev) : i \in 1 .. Len(pollfds)}
                  [] kind = "select" -> {Interest(fd, {e \in Ev : fd \in vec[e]}) : fd \in vec["r"] \cup vec["w"]}
                  [] OTHER -> {}
    /\ kernel' = IF kind = "kqueue" THEN Applied ELSE kernel
    /\ IF kind = "kqueue" THEN KqueueErrors ELSE UNCHANGED <<kchanges, want, changed>>
    /\ phase' = IF kind = "kqueue" /\ (BadChanges # {} \/ Missing # {}) THEN "run" ELSE "wait"
    /\ UNCHANGED <<events, iofdset, egen, file, misfed, ops, kind, pollfds, pollidxs, vec>>

\* kevent interrupted 256 times: its changes were taken, and are kept to be given again.
KqueueInterrupted ==
    /\ phase = "reify" /\ changed = {} /\ kind = "kqueue"
    /\ kernel' = Applied /\ phase' = "run"
    /\ UNCHANGED <<want, events, changed, iofdset, egen, file, misfed, ops,
                   kind, pollfds, pollidxs, vec, kchanges, asked>>

\* fd_ebadf: the armed fds that fd_valid finds closed.
FdEbadf == {fd \in Fds : events[fd] # {} /\ ~IsOpen(fd)}

\* The call returns with events R; poll names the bad fds (POLLNVAL), select only says
\* that there is one (EBADF).  An event port
\* forgets the fds it reported, so port_poll marks them for fd_reify.
PollReturns(R) ==
    LET dead == {k.fd : k \in {k \in asked : k.file % 2 = 0}}
    IN  /\ phase = "wait" /\ phase' = "run" /\ asked' = {}
        /\ R \subseteq kernel \cup {k \in asked : k.file % 2 = 1}
        /\ kind = "select" /\ dead # {} => R = {}
        /\ misfed' = (misfed \/ \E k \in R : Heard(k.fd, k.ev) /\ k.file # file[k.fd])
        /\ IF kind = "port"
           THEN /\ kernel' = kernel \ R
                /\ changed' = changed \cup {k.fd : k \in R}
                /\ iofdset' = iofdset \cup {k.fd : k \in R}
                /\ UNCHANGED want
           ELSE /\ FdKill(IF kind = "select" /\ dead # {} THEN FdEbadf ELSE dead)
                /\ UNCHANGED <<kernel, iofdset>>
        /\ UNCHANGED <<events, egen, file, ops, kind, pollfds, pollidxs, vec, kchanges>>

\* fd_enomem: poll or select failed with ENOMEM, the highest fd is given up.
NoMemory ==
    LET armed == {fd \in Fds : events[fd] # {}}
    IN  /\ phase = "wait" /\ kind \in {"poll", "select"} /\ ops < MaxOps
        /\ \E fd \in armed : (\A g \in armed : g <= fd) /\ FdKill({fd})
        /\ phase' = "run" /\ asked' = {} /\ ops' = ops + 1
        /\ UNCHANGED <<events, iofdset, egen, file, misfed, kind, pollfds, pollidxs, vec, kchanges, kernel>>

\* kqueue_fork, port_fork.
ReadyFork ==
    /\ phase = "run" /\ CanAct /\ kind \in {"kqueue", "port"}
    /\ kernel' = {} /\ RearmAll
    /\ UNCHANGED <<want, egen, file, phase, misfed, kind, pollfds, pollidxs, vec, kchanges, asked>>

\* A closed fd loses its filters and associations.
ReadyReopen(fd) ==
    /\ Reopen(fd)
    /\ kernel' = {k \in kernel : k.fd # fd}
    /\ UNCHANGED <<kind, pollfds, pollidxs, vec, kchanges, asked>>

ReadyNext ==
    \/ \E fd \in Fds, S \in {{}, {"r"}, {"r", "w"}} : IoSet(fd, S) /\ UNCHANGED ready
    \/ \E fd \in Fds : ReadyReopen(fd) \/ ReadyModify(fd) \/ PortKill(fd)
    \/ \E R \in SUBSET (kernel \cup asked) : PollReturns(R)
    \/ ReadyStartReify \/ CallPoll \/ KqueueInterrupted \/ NoMemory \/ ReadyFork

ReadySpec == ReadyInit /\ [][ReadyNext]_rvars

-----------------------------------------------------------------------------
(* Properties.                                                             *)

\* What kevent will have registered once it has the pending changes.
WillWatch(fd, e) ==
    \/ Settled(kchanges, fd, e, TRUE)
    \/ Untouched(kchanges, fd, e) /\ Interest(fd, {e}) \in kernel

\* Each backend watches, for every open fd that is not about to be reified, exactly what
\* its watchers ask for, on the file it now is: after reopened descriptors, changes
\* reported missing, interrupted calls and forks.  (kqueue at least that: the changes an
\* interrupted kevent keeps survive a fork, and may add a filter nobody asks for.)
ReadyServed ==
    \A fd \in Fds : (fd \notin changed /\ IsOpen(fd)) =>
        CASE kind = "poll" -> IF want[fd] = {} THEN pollidxs[fd] = 0
                              ELSE pollidxs[fd] # 0 /\ pollfds[pollidxs[fd]] = [fd |-> fd, ev |-> want[fd]]
          [] kind = "select" -> \A e \in Ev : e \in want[fd] <=> fd \in vec[e]
          [] kind = "kqueue" -> \A e \in want[fd] : WillWatch(fd, e)
          [] kind = "port" -> {k \in kernel : k.fd = fd} =
                              IF want[fd] = {} THEN {} ELSE {Interest(fd, want[fd])}

\* poll's array and its index agree, whatever order entries were removed in.
PollIndexSound ==
    /\ \A i \in 1 .. Len(pollfds) : pollidxs[pollfds[i].fd] = i
    /\ Len(pollfds) = Cardinality({fd \in Fds : pollidxs[fd] # 0})

\* An event of a file the fd no longer is does not reach its watcher.
ReadyStaleIgnored == ~misfed

\* The three together: what is proved for any number of descriptors.
ReadySound == PollIndexSound /\ ReadyServed /\ ReadyStaleIgnored
=============================================================================
