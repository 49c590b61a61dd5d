------------------------------- MODULE LinuxAio ------------------------------
(***************************************************************************)
(* The linuxaio backend (src/ev_linuxaio.c): one one-shot poll request     *)
(* (iocb) per watched fd, submitted in a batch that may fail at any        *)
(* element.  An fd the kernel refuses is handed to an inner epoll; when    *)
(* the context is full it is replaced by a larger one or, if there is      *)
(* none, by epoll for good (what that does is FdEpoll).  A closed file is  *)
(* gone: no other process holds it.                                        *)
(***************************************************************************)
EXTENDS FdTable

VARIABLES
    aio_buf,    \* per fd: the events of its iocb, {} when it is not in use
    viaepoll,   \* the fds handed to epoll (aio_reqprio < 0)
    submits,    \* linuxaio_submits: fds queued for io_submit
    agen,       \* the generation in each queued iocb's aio_data
    reqs,       \* the kernel's poll requests: [fd, gen, ev, file]
    aring,      \* completions: [fd, gen, file]
    eregs       \* the inner epoll's registrations: [fd, gen, ev, file]

aio == <<aio_buf, viaepoll, submits, agen, reqs, aring, eregs>>
avars == <<table, aio>>

AioTypeOK ==
    /\ TableTypeOK
    /\ phase \in {"run", "reify", "submit", "wait", "drain", "epoll"}
    /\ aio_buf \in [Fds -> SUBSET Ev] /\ viaepoll \subseteq Fds /\ Range(submits) \subseteq Fds
    /\ \A r \in reqs \cup eregs : r.gen <= egen[r.fd]

AioInit ==
    /\ TableInit
    /\ aio_buf = [fd \in Fds |-> {}] /\ viaepoll = {} /\ submits = <<>>
    /\ agen = [fd \in Fds |-> 0] /\ reqs = {} /\ aring = <<>> /\ eregs = {}

Request(fd, gen, ev) == [fd |-> fd, gen |-> gen, ev |-> ev, file |-> file[fd]]
Event(r) == [fd |-> r.fd, gen |-> r.gen, file |-> r.file]

-----------------------------------------------------------------------------
\* A request completes (external): its file is ready.
AioCompletes(r) ==
    /\ reqs' = reqs \ {r} /\ aring' = Append(aring, Event(r))
    /\ UNCHANGED <<table, aio_buf, viaepoll, submits, agen, eregs>>

\* io_cancel of the request of fd: it completes, unless the retries ran out.
IoCancel(fd) ==
    \/ LET own == {r \in reqs : r.fd = fd /\ r.gen = agen[fd]}
       IN  reqs' = reqs \ own /\ aring' = aring \o SetToSeq({Event(r) : r \in own})
    \/ UNCHANGED <<reqs, aring>>

AioStartReify ==
    /\ phase = "run" /\ phase' = "reify"
    /\ UNCHANGED <<want, events, changed, iofdset, egen, file, misfed, ops, aio>>

\* Mutant: the generation stays the same when a request is cancelled.
AioModifyKeepsGen(fd) ==
    /\ phase = "reify" /\ Reified(fd)
    /\ IF ~NeedsModify(fd) THEN UNCHANGED <<egen, aio>>
       ELSE /\ IF fd \in viaepoll
               THEN /\ eregs' = {r \in eregs : r.fd # fd} /\ viaepoll' = viaepoll \ {fd}
                    /\ UNCHANGED <<reqs, aring>>
               ELSE IF aio_buf[fd] # {} THEN IoCancel(fd) /\ UNCHANGED <<eregs, viaepoll>>
                    ELSE UNCHANGED <<reqs, aring, eregs, viaepoll>>
            /\ UNCHANGED egen
            /\ aio_buf' = [aio_buf EXCEPT ![fd] = want[fd]]
            /\ IF want[fd] = {} THEN UNCHANGED <<agen, submits>>
               ELSE agen' = [agen EXCEPT ![fd] = egen[fd]] /\ submits' = Append(submits, fd)
    /\ UNCHANGED <<want, file, phase, misfed, ops>>

\* fd_reify and linuxaio_modify.
AioModify(fd) ==
    /\ phase = "reify" /\ Reified(fd)
    /\ IF ~NeedsModify(fd) THEN UNCHANGED <<egen, aio>>
       ELSE /\ IF fd \in viaepoll
               THEN /\ eregs' = {r \in eregs : r.fd # fd} /\ viaepoll' = viaepoll \ {fd}
                    /\ UNCHANGED <<egen, reqs, aring>>
               ELSE IF aio_buf[fd] # {}
                    THEN /\ IoCancel(fd)
                         /\ egen' = [egen EXCEPT ![fd] = @ + 1]
                         /\ UNCHANGED <<eregs, viaepoll>>
                    ELSE UNCHANGED <<egen, reqs, aring, eregs, viaepoll>>
            /\ aio_buf' = [aio_buf EXCEPT ![fd] = want[fd]]
            /\ IF want[fd] = {} THEN UNCHANGED <<agen, submits>>
               ELSE agen' = [agen EXCEPT ![fd] = egen'[fd]] /\ submits' = Append(submits, fd)
    /\ UNCHANGED <<want, file, phase, misfed, ops>>

AioEndReify ==
    /\ phase = "reify" /\ changed = {} /\ phase' = "submit"
    /\ UNCHANGED <<want, events, changed, iofdset, egen, file, misfed, ops, aio>>

-----------------------------------------------------------------------------
(* linuxaio_poll, first phase: one iocb of the batch at a time.            *)

Submitting(fd) == phase = "submit" /\ submits # <<>> /\ fd = Head(submits)

Accepted(fd) ==
    /\ Submitting(fd) /\ IsOpen(fd)
    /\ reqs' = reqs \cup {Request(fd, agen[fd], aio_buf[fd])}
    /\ submits' = Tail(submits)
    /\ UNCHANGED <<table, aio_buf, viaepoll, agen, aring, eregs>>

\* EINVAL: epoll_modify registers the fd, under a new generation.
HandedToEpoll(fd) ==
    /\ Submitting(fd) /\ IsOpen(fd) /\ ops < MaxOps /\ ops' = ops + 1
    /\ egen' = [egen EXCEPT ![fd] = @ + 1]
    /\ eregs' = eregs \cup {Request(fd, egen'[fd], events[fd])}
    /\ viaepoll' = viaepoll \cup {fd}
    /\ submits' = Tail(submits)
    /\ UNCHANGED <<want, events, changed, iofdset, file, phase, misfed, aio_buf, agen, reqs, aring>>

\* EBADF: the fd is killed.
Refused(fd) ==
    /\ Submitting(fd) /\ ~IsOpen(fd)
    /\ FdKill({fd})
    /\ submits' = Tail(submits)
    /\ UNCHANGED <<events, iofdset, egen, file, phase, misfed, ops,
                   aio_buf, viaepoll, agen, reqs, aring, eregs>>

\* Mutant: only the fds of the batch are armed again.
ContextFullQueuedOnly ==
    /\ phase = "submit" /\ submits # <<>> /\ ops < MaxOps /\ ops' = ops + 1
    /\ reqs' = {} /\ aring' = <<>> /\ submits' = <<>>
    /\ Rearm(Range(submits))
    /\ aio_buf' = [fd \in Fds |-> IF fd \in Range(submits) THEN {} ELSE aio_buf[fd]]
    /\ \E larger \in BOOLEAN :
         /\ phase' = IF larger THEN "run" ELSE "epoll"
         /\ viaepoll' = IF larger THEN viaepoll ELSE {}
    /\ UNCHANGED <<want, iofdset, egen, file, misfed, agen, eregs>>

\* EAGAIN: the context is destroyed with all its requests, every fd with an iocb in use
\* is armed again, and a larger context, or epoll for good, takes over.
ContextFull ==
    LET inuse == {fd \in Fds : aio_buf[fd] # {}}
    IN  /\ phase = "submit" /\ submits # <<>> /\ ops < MaxOps /\ ops' = ops + 1
        /\ reqs' = {} /\ aring' = <<>> /\ submits' = <<>>
        /\ Rearm(inuse)
        /\ aio_buf' = [fd \in Fds |-> {}]
        /\ \E larger \in BOOLEAN :
             /\ phase' = IF larger THEN "run" ELSE "epoll"
             /\ viaepoll' = IF larger THEN viaepoll ELSE {}
        /\ UNCHANGED <<want, iofdset, egen, file, misfed, agen, eregs>>

\* Second phase, linuxaio_get_events: no wait when the ring has events or the timeout is 0.
AioPoll ==
    /\ phase = "submit" /\ submits = <<>>
    /\ \E blocking \in BOOLEAN :
         phase' = IF aring # <<>> THEN "drain" ELSE IF blocking THEN "wait" ELSE "run"
    /\ UNCHANGED <<want, events, changed, iofdset, egen, file, misfed, ops, aio>>

AioWaitEnds ==
    /\ phase = "wait" /\ phase' = "drain"
    /\ UNCHANGED <<want, events, changed, iofdset, egen, file, misfed, ops, aio>>

\* linuxaio_parse_events, one event, with linuxaio_fd_rearm.
AioDrain ==
    LET e == Head(aring)
    IN  /\ phase = "drain" /\ aring # <<>>
        /\ aring' = Tail(aring)
        /\ IF e.gen = egen[e.fd]
           THEN /\ FdEvent(e.fd, Ev, e.file)
                /\ Rearm({e.fd})
                /\ aio_buf' = [aio_buf EXCEPT ![e.fd] = {}]
           ELSE UNCHANGED <<misfed, events, changed, aio_buf>>
        /\ UNCHANGED <<want, iofdset, egen, file, phase, ops, viaepoll, submits, agen, reqs, eregs>>

AioDrainEnds ==
    /\ phase = "drain" /\ phase' = "run"
    /\ UNCHANGED <<want, events, changed, iofdset, egen, file, misfed, ops, aio>>

\* linuxaio_epoll_cb: an event of the inner epoll (epoll_poll passes those of the present
\* generation on).
EpollCb(r) ==
    /\ phase = "run" /\ r.gen = egen[r.fd]
    /\ FdEvent(r.fd, r.ev, r.file)
    /\ UNCHANGED <<want, events, changed, iofdset, egen, file, phase, ops, aio>>

\* linuxaio_fork in the child: the iocbs are gone, context and epoll are new.
AioFork ==
    /\ phase = "run" /\ CanAct
    /\ aio_buf' = [fd \in Fds |-> {}] /\ viaepoll' = {} /\ submits' = <<>>
    /\ reqs' = {} /\ aring' = <<>> /\ eregs' = {}
    /\ RearmAll
    /\ UNCHANGED <<want, egen, file, phase, misfed, agen>>

\* Closing an fd ends its registration with epoll.
AioReopen(fd) ==
    /\ Reopen(fd)
    /\ eregs' = {r \in eregs : r.fd # fd}
    /\ UNCHANGED <<aio_buf, viaepoll, submits, agen, reqs, aring>>

AioNext ==
    \/ \E fd \in Fds, S \in {{}, {"r"}, {"r", "w"}} : IoSet(fd, S) /\ UNCHANGED aio
    \/ \E fd \in Fds : AioReopen(fd) \/ AioModify(fd) \/ Accepted(fd) \/ HandedToEpoll(fd) \/ Refused(fd)
    \/ \E r \in reqs : AioCompletes(r)
    \/ \E r \in eregs : EpollCb(r)
    \/ AioStartReify \/ AioEndReify \/ ContextFull \/ AioPoll
    \/ AioWaitEnds \/ AioDrain \/ AioDrainEnds \/ AioFork
    \/ phase = "epoll" /\ UNCHANGED avars

AioSpec == AioInit /\ [][AioNext]_avars

-----------------------------------------------------------------------------
(* Properties.                                                             *)

\* No watcher is lost by a partial failure: a watched fd that is not about to be reified
\* is queued, requested, completed or with epoll, under its present generation.
AioServed ==
    \A fd \in Fds : (want[fd] # {} /\ fd \notin changed) =>
        /\ events[fd] = want[fd]
        /\ \/ fd \in Range(submits) /\ agen[fd] = egen[fd] /\ aio_buf[fd] = want[fd]
           \/ Request(fd, egen[fd], want[fd]) \in reqs
           \/ Event(Request(fd, egen[fd], want[fd])) \in Range(aring)
           \/ fd \in viaepoll /\ Request(fd, egen[fd], want[fd]) \in eregs

\* A late completion of a cancelled request, and an event of epoll for an fd that went
\* back to a request, never reach the watcher of another file.
AioStaleIgnored == ~misfed

\* Both: every watched descriptor will be heard of, and of its own file only.
AioSound == AioServed /\ AioStaleIgnored
=============================================================================
