------------------------------- MODULE IoUring -------------------------------
(***************************************************************************)
(* The io_uring backend (src/ev_iouring.c): each watched fd has one        *)
(* one-shot POLL_ADD outstanding, tagged with the fd and its generation.   *)
(* Requests queue in the submission ring until an io_uring_enter takes     *)
(* them; completions go to the completion ring or, when that is full or    *)
(* the kernel defers its work, to a backlog only an enter empties.         *)
(***************************************************************************)
EXTENDS FdTable

CONSTANTS SqEntries, CqEntries    \* the sizes of the rings

ASSUME RingAssumption == SqEntries \in Nat \ {0} /\ CqEntries \in Nat

VARIABLES
    sq,         \* submitted and not consumed: [op, fd, gen, ev]
    polls,      \* polls in the kernel: [fd, gen, ev, file]
    cq,         \* visible completions: [fd, gen, res, file]
    backlog,    \* overflowed or deferred completions (IORING_SQ_CQ_OVERFLOW, _TASKRUN)
    adding      \* iouring_modify between its two requests: the fd still to be added

ring == <<sq, polls, cq, backlog, adding>>
uvars == <<table, ring>>

RingTypeOK ==
    /\ TableTypeOK
    /\ phase \in {"run", "reify", "submit", "wait", "drain", "flush", "redrain"}
    /\ Len(sq) <= SqEntries /\ Len(cq) <= CqEntries
    /\ \A p \in polls : p.fd \in Fds /\ p.gen <= egen[p.fd]
    /\ adding \subseteq Fds /\ Cardinality(adding) <= 1

RingEmpty == sq = <<>> /\ polls = {} /\ cq = <<>> /\ backlog = <<>> /\ adding = {}
RingInit == TableInit /\ RingEmpty

-----------------------------------------------------------------------------
(* The kernel (external).                                                  *)

\* New completions: in the ring while it has room and nothing waits behind it.
Posted(cs) ==
    \/ /\ backlog = <<>> /\ Len(cq) + Len(cs) <= CqEntries
       /\ cq' = cq \o cs /\ UNCHANGED backlog
    \/ backlog' = backlog \o cs /\ UNCHANGED cq

Cqe(p, res) == [fd |-> p.fd, gen |-> p.gen, res |-> res, file |-> p.file]

\* The kernel takes one request.
Consume ==
    LET e == Head(sq)
        own == {p \in polls : p.fd = e.fd /\ p.gen = e.gen}
        this == [fd |-> e.fd, gen |-> e.gen, ev |-> e.ev, file |-> file[e.fd]]
    IN  /\ sq' = Tail(sq)
        /\ IF e.op = "remove"
           THEN /\ polls' = polls \ own
                /\ Posted(SetToSeq({Cqe(p, "cancelled") : p \in own}) \o <<Cqe(this, "removed")>>)
           ELSE IF IsOpen(e.fd)
                THEN polls' = polls \cup {this} /\ UNCHANGED <<cq, backlog>>
                ELSE Posted(<<Cqe(this, "badf")>>) /\ UNCHANGED polls

\* A poll completes: its file is ready, or the kernel ends it without an event.
Completes(p, res) ==
    /\ polls' = polls \ {p}
    /\ Posted(<<Cqe(p, res)>>)
    /\ UNCHANGED <<table, sq, adding>>

-----------------------------------------------------------------------------
\* submit_sqe.
Sqe(op, fd, gen, ev) == sq' = Append(sq, [op |-> op, fd |-> fd, gen |-> gen, ev |-> ev])

\* iouring_get_sqe and iouring_sq_flush: the ring is full, an enter frees a slot.
FlushSq ==
    /\ phase = "reify" /\ Len(sq) = SqEntries
    /\ Consume
    /\ UNCHANGED <<table, adding>>

StartReify ==
    /\ phase = "run" /\ phase' = "reify"
    /\ UNCHANGED <<want, events, changed, iofdset, egen, file, misfed, ops, ring>>

\* Mutant: the generation is left alone.
ModifyKeepsGen(fd) ==
    /\ phase = "reify" /\ adding = {} /\ Reified(fd)
    /\ IF NeedsModify(fd) /\ events[fd] # {}
       THEN /\ Len(sq) < SqEntries
            /\ Sqe("remove", fd, egen[fd], {})
            /\ UNCHANGED egen
       ELSE UNCHANGED <<egen, sq>>
    /\ adding' = IF NeedsModify(fd) /\ want[fd] # {} THEN {fd} ELSE {}
    /\ UNCHANGED <<want, file, phase, misfed, ops, polls, cq, backlog>>

\* fd_reify and the first half of iouring_modify: the old poll is removed under the
\* generation it was added with.
ModifyRemove(fd) ==
    /\ phase = "reify" /\ adding = {} /\ Reified(fd)
    /\ IF NeedsModify(fd) /\ events[fd] # {}
       THEN /\ Len(sq) < SqEntries
            /\ Sqe("remove", fd, egen[fd], {})
            /\ egen' = [egen EXCEPT ![fd] = @ + 1]
       ELSE UNCHANGED <<egen, sq>>
    /\ adding' = IF NeedsModify(fd) /\ want[fd] # {} THEN {fd} ELSE {}
    /\ UNCHANGED <<want, file, phase, misfed, ops, polls, cq, backlog>>

\* Mutant: the request is written without looking for a free slot.
ModifyAddUnchecked(fd) ==
    /\ fd \in adding
    /\ Sqe("add", fd, egen[fd], events[fd])
    /\ adding' = {}
    /\ UNCHANGED <<table, polls, cq, backlog>>

\* The second half: the new poll.
ModifyAdd(fd) ==
    /\ fd \in adding /\ Len(sq) < SqEntries
    /\ Sqe("add", fd, egen[fd], events[fd])
    /\ adding' = {}
    /\ UNCHANGED <<table, polls, cq, backlog>>

EndReify ==
    /\ phase = "reify" /\ adding = {} /\ changed = {}
    /\ phase' = "submit"
    /\ UNCHANGED <<want, events, changed, iofdset, egen, file, misfed, ops, ring>>

\* iouring_poll: everything is submitted (an enter may take less than all of it) ...
Submit ==
    /\ phase = "submit"
    /\ IF sq # <<>> THEN Consume /\ UNCHANGED phase
       ELSE /\ \E blocking \in BOOLEAN :
                 phase' = IF blocking /\ cq = <<>> THEN "wait" ELSE "drain"
            /\ UNCHANGED <<sq, polls, cq, backlog>>
    /\ UNCHANGED <<want, events, changed, iofdset, egen, file, misfed, ops, adding>>

\* ... then poll(2) on the ring fd, which a timeout ends, or a signal (then the
\* completions wait for the next pass).
WaitEnds ==
    /\ phase = "wait" /\ phase' \in {"drain", "run"}
    /\ UNCHANGED <<want, events, changed, iofdset, egen, file, misfed, ops, ring>>

\* Mutant: events is not cleared, so that fd_reify sees no difference.
TakeWithoutRearm(c) ==
    IF c.res = "removed" \/ c.gen # egen[c.fd]
    THEN UNCHANGED <<want, events, changed, misfed>>
    ELSE CASE c.res = "badf" -> FdKill({c.fd}) /\ UNCHANGED <<events, misfed>>
           [] c.res = "cancelled" -> Rearm({c.fd}) /\ UNCHANGED <<want, misfed>>
           [] c.res = "ready" -> /\ FdEvent(c.fd, Ev, c.file)
                                 /\ changed' = changed \cup {c.fd}
                                 /\ UNCHANGED <<want, events>>

\* One completion in iouring_cq_drain.
Take(c) ==
    IF c.res = "removed" \/ c.gen # egen[c.fd]
    THEN UNCHANGED <<want, events, changed, misfed>>
    ELSE CASE c.res = "badf" -> FdKill({c.fd}) /\ UNCHANGED <<events, misfed>>
           [] c.res = "cancelled" -> Rearm({c.fd}) /\ UNCHANGED <<want, misfed>>
           [] c.res = "ready" -> FdEvent(c.fd, Ev, c.file) /\ Rearm({c.fd}) /\ UNCHANGED want

Drain ==
    /\ phase \in {"drain", "redrain"} /\ cq # <<>>
    /\ Take(Head(cq))
    /\ cq' = Tail(cq)
    /\ UNCHANGED <<iofdset, egen, file, phase, ops, sq, polls, backlog, adding>>

\* The drain ends when the ring is empty or its budget is used up.  The kernel's flags
\* then ask for one enter more, which moves the backlog, and one drain more.
DrainEnds ==
    /\ phase \in {"drain", "redrain"}
    /\ phase' = IF phase = "drain" /\ backlog # <<>> THEN "flush" ELSE "run"
    /\ UNCHANGED <<want, events, changed, iofdset, egen, file, misfed, ops, ring>>

GetEvents ==
    LET room == CqEntries - Len(cq)
        n == IF Len(backlog) < room THEN Len(backlog) ELSE room
    IN  /\ phase = "flush" /\ phase' = "redrain"
        /\ cq' = cq \o SubSeq(backlog, 1, n)
        /\ backlog' = SubSeq(backlog, n + 1, Len(backlog))
        /\ UNCHANGED <<want, events, changed, iofdset, egen, file, misfed, ops, sq, polls, adding>>

\* iouring_fork in the child: a new ring.
RingFork ==
    /\ phase = "run" /\ CanAct
    /\ sq' = <<>> /\ polls' = {} /\ cq' = <<>> /\ backlog' = <<>> /\ adding' = {}
    /\ RearmAll
    /\ UNCHANGED <<want, egen, file, phase, misfed>>

RingNext ==
    \/ \E fd \in Fds, S \in {{}, {"r"}, {"r", "w"}} : IoSet(fd, S) /\ UNCHANGED ring
    \/ \E fd \in Fds : (Reopen(fd) /\ UNCHANGED ring) \/ ModifyRemove(fd) \/ ModifyAdd(fd)
    \/ \E p \in polls, res \in {"ready", "cancelled"} : Completes(p, res)
    \/ FlushSq \/ StartReify \/ EndReify \/ Submit \/ WaitEnds
    \/ Drain \/ DrainEnds \/ GetEvents \/ RingFork

RingSpec == RingInit /\ [][RingNext]_uvars

-----------------------------------------------------------------------------
(* Properties.                                                             *)

\* No watcher falls silent: an fd that is watched and not about to be reified has one
\* poll outstanding, for the events wanted and the file it now is, or its completion on
\* the way, through every mix of late, cancelled, deferred and overflowed completions.
WatchedIsArmed ==
    \A fd \in Fds : (want[fd] # {} /\ fd \notin changed /\ fd \notin adding) =>
        /\ events[fd] = want[fd]
        /\ \/ \E i \in 1 .. Len(sq) : sq[i].op = "add" /\ sq[i].fd = fd
                                       /\ sq[i].gen = egen[fd] /\ sq[i].ev = want[fd]
           \/ \E p \in polls : p.fd = fd /\ p.gen = egen[fd] /\ p.ev = want[fd] /\ p.file = file[fd]
           \/ \E c \in Range(cq \o backlog) : c.fd = fd /\ c.gen = egen[fd] /\ c.res # "removed"

\* A completion of a poll that was given up never reaches the watcher of the file that
\* now has the descriptor.
RingStaleIgnored == ~misfed

\* Both: every watched descriptor will be heard of, and of its own file only.
RingSound == WatchedIsArmed /\ RingStaleIgnored
=============================================================================
