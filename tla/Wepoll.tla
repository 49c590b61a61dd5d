-------------------------------- MODULE Wepoll -------------------------------
(***************************************************************************)
(* wepoll's port (src/wepoll.c: port_ctl, port_wait, sock_update,          *)
(* sock_feed_event, poll groups): epoll over AFD polls, which are one-shot *)
(* and complete through an IOCP.  Threads share the port under its lock,   *)
(* which port__poll leaves while it waits.  A registration is an object    *)
(* that outlives EPOLL_CTL_DEL until its poll has completed.  The          *)
(* functions of the code are functions from the state wp to the next.      *)
(***************************************************************************)
EXTENDS Naturals, Sequences, FiniteSets, SequencesExt, FiniteSetsExt

CONSTANTS
    SockKeys,       \* sockets
    Objs,           \* memory for sock_state_t, positive numbers
    WThreads,       \* threads in epoll_wait
    Asked,          \* what is asked for: <<subset of {"IN", "OUT"}, EPOLLONESHOT or not>>
    MaxGroup,       \* POLL_GROUP__MAX_GROUP_SIZE
    MaxCtl          \* bound on calls of epoll_ctl

VARIABLE wp         \* sock[o] : key, user (events; {} after a oneshot), once, pend (pending_events),
                    \*   status, del (delete_pending), grp; live : the objects in use
                    \* op[o] : the kernel's poll: at ("none", "out", "done" in the IOCP, "held" by a
                    \*   thread), mask, cancel, res (conditions, {"close"}, {"cancelled"} or {"failed"})
                    \* updq, delq : the queues;  groups : the queue of [id, n]
                    \* pc, got : what each thread does, and the completions it holds
                    \* open : sockets not closed;  ctls
                    \* up : the port is "open", "closed" (its IOCP is) or "deleted"
                    \* late : a thread found the port before it was closed, and has yet to lock it
                    \* refused : the last port__update_events was refused a request
                    \* bad : history, memory was used or freed while the other side had it

\* sock__events_to_afd_events and back.  "receive" stands for the three conditions that are
\* EPOLLIN; EPOLLHUP, which is always wanted as EPOLLERR is, is left out.
Afd(events) ==
    {"close"} \cup (IF "IN" \in events THEN {"receive"} ELSE {})
              \cup (IF "OUT" \in events THEN {"send"} ELSE {})
              \cup (IF "ERR" \in events THEN {"connect_fail"} ELSE {})
EventsOf(afd) ==
    (IF "receive" \in afd THEN {"IN"} ELSE {}) \cup (IF "send" \in afd THEN {"OUT"} ELSE {})
    \cup (IF "connect_fail" \in afd THEN {"IN", "OUT", "ERR"} ELSE {})

NoSock == [key |-> 0, user |-> {}, once |-> FALSE, pend |-> {}, status |-> "idle", del |-> FALSE, grp |-> 0]
NoOp == [at |-> "none", mask |-> {}, cancel |-> FALSE, res |-> {}]
Polling == {t \in WThreads : wp.pc[t] # "out"}
Registered == {o \in wp.live : ~wp.sock[o].del}

WepollTypeOK ==
    /\ wp.live \subseteq Objs /\ Range(wp.updq) \subseteq Objs /\ wp.delq \subseteq Objs
    /\ \A o \in Objs : /\ wp.sock[o].status \in {"idle", "pending", "cancelled"}
                       /\ wp.op[o].at \in {"none", "out", "done", "held"}
    /\ wp.pc \in [WThreads -> {"out", "wait", "got"}] /\ wp.got \in [WThreads -> SUBSET Objs]
    /\ \A i \in DOMAIN wp.groups : wp.groups[i].n \in 0 .. MaxGroup
    /\ wp.ctls \in 0 .. MaxCtl /\ wp.up \in {"open", "closed", "deleted"} /\ wp.late \in BOOLEAN

WepollInit ==
    wp = [sock |-> [o \in Objs |-> NoSock], live |-> {}, op |-> [o \in Objs |-> NoOp],
          updq |-> <<>>, delq |-> {}, groups |-> <<>>, pc |-> [t \in WThreads |-> "out"],
          got |-> [t \in WThreads |-> {}], open |-> SockKeys, ctls |-> 0, up |-> "open",
          late |-> FALSE, refused |-> FALSE, bad |-> FALSE]

-----------------------------------------------------------------------------
(* Poll groups: full ones are kept at the start of their queue.            *)

GroupAcquire(s) ==
    LET n == Len(s.groups)
        room == n > 0 /\ s.groups[n].n < MaxGroup
        q == IF room THEN s.groups ELSE Append(s.groups, [id |-> n + 1, n |-> 0])
        g == [Last(q) EXCEPT !.n = @ + 1]
    IN  [queue |-> IF g.n = MaxGroup THEN <<g>> \o Front(q) ELSE Append(Front(q), g), id |-> g.id]

\* Mutant: a group that gets room stays where it is.
GroupReleaseInPlace(q, id) ==
    [i \in DOMAIN q |-> IF q[i].id = id THEN [q[i] EXCEPT !.n = @ - 1] ELSE q[i]]
GroupRelease(q, id) ==
    LET g == CHOOSE r \in Range(q) : r.id = id
    IN  Append(SelectSeq(q, LAMBDA r : r.id # id), [g EXCEPT !.n = @ - 1])

-----------------------------------------------------------------------------
(* Sockets.                                                                *)

RequestUpdate(s, o) == IF Contains(s.updq, o) \/ o \in s.delq THEN s ELSE [s EXCEPT !.updq = Append(@, o)]
CancelUpdate(s, o) == [s EXCEPT !.updq = SelectSeq(@, LAMBDA x : x # o)]

\* afd_cancel_poll does nothing to a poll that has completed; the status is CANCELLED in
\* either case.
CancelPoll(s, o) ==
    [s EXCEPT !.op[o].cancel = (s.op[o].at = "out"), !.sock[o].status = "cancelled", !.sock[o].pend = {}]

\* A poll the kernel still has may lose its memory to port_delete only, asked to cancel.
SockFree(s, o, force) ==
    [s EXCEPT !.live = @ \ {o}, !.sock[o] = NoSock, !.delq = @ \ {o},
              !.groups = GroupRelease(@, s.sock[o].grp),
              !.bad = @ \/ o \notin s.live
                        \/ IF force THEN s.op[o].at = "held" \/ (s.op[o].at = "out" /\ ~s.op[o].cancel)
                           ELSE s.op[o].at # "none"]

\* Mutant: an object is freed when its poll was cancelled, not when it has completed.
SockDeleteEarly(s, o, force) ==
    LET gone == [CancelUpdate(IF s.sock[o].status = "pending" THEN CancelPoll(s, o) ELSE s, o)
                 EXCEPT !.sock[o].del = TRUE]
    IN  SockFree(gone, o, force)

\* sock__delete
SockDelete(s, o, force) ==
    LET gone == IF s.sock[o].del THEN s
                ELSE [CancelUpdate(IF s.sock[o].status = "pending" THEN CancelPoll(s, o) ELSE s, o)
                      EXCEPT !.sock[o].del = TRUE]
    IN  IF force \/ gone.sock[o].status = "idle" THEN SockFree(gone, o, force)
        ELSE [gone EXCEPT !.delq = @ \cup {o}]

\* Mutant: only a changed registration of an idle socket is looked at again.
SockSetEventIdle(s, o, events, once) ==
    LET set == [s EXCEPT !.sock[o].user = events \cup {"ERR"}, !.sock[o].once = once]
    IN  IF s.sock[o].status = "idle" THEN RequestUpdate(set, o) ELSE set

\* sock_set_event
SockSetEvent(s, o, events, once) ==
    LET set == [s EXCEPT !.sock[o].user = events \cup {"ERR"}, !.sock[o].once = once]
    IN  IF set.sock[o].user \subseteq s.sock[o].pend THEN set ELSE RequestUpdate(set, o)

\* sock_update: a poll that covers what is wanted stays, another is cancelled (its completion
\* brings the next), an idle socket gets a new one, a closed one leaves the set.
SockUpdate(s, o) ==
    LET k == s.sock[o]
    IN  IF k.status = "pending" /\ k.user \subseteq k.pend THEN CancelUpdate(s, o)
        ELSE IF k.status = "pending" THEN CancelUpdate(CancelPoll(s, o), o)
        ELSE IF k.status = "cancelled" THEN CancelUpdate(s, o)
        ELSE IF k.key \notin s.open THEN SockDelete(s, o, FALSE)
        ELSE CancelUpdate([s EXCEPT !.sock[o].status = "pending", !.sock[o].pend = k.user,
                                    !.op[o] = [NoOp EXCEPT !.at = "out", !.mask = Afd(k.user)]], o)

\* port__update_events: the queue in order; a socket whose request is refused ends it and
\* stays queued.
NeedsCall(s, o) ==
    s.sock[o].status = "idle" \/ (s.sock[o].status = "pending" /\ ~(s.sock[o].user \subseteq s.sock[o].pend))
UpdateEvents(s, fail) ==
    LET calls == {i \in DOMAIN s.updq : NeedsCall(s, s.updq[i])}
    IN  IF fail /\ calls # {}
        THEN [FoldLeft(SockUpdate, s, SubSeq(s.updq, 1, Min(calls) - 1)) EXCEPT !.refused = TRUE]
        ELSE [FoldLeft(SockUpdate, s, s.updq) EXCEPT !.refused = FALSE]
UpdateIfPolling(s, fail) ==
    IF \E t \in WThreads : s.pc[t] # "out" THEN UpdateEvents(s, fail) ELSE s

\* sock_feed_event of one completion; n counts what epoll_wait reports.
SockFeedEvent(c, o) ==
    LET s == c.s  res == s.op[o].res
        idle == [s EXCEPT !.sock[o].status = "idle", !.sock[o].pend = {}, !.op[o] = NoOp,
                          !.bad = @ \/ o \notin s.live]
        told == EventsOf(res) \cup IF res = {"failed"} THEN {"ERR"} ELSE {}
        events == (IF res = {"cancelled"} THEN {} ELSE told) \cap s.sock[o].user
        again == RequestUpdate(idle, o)
    IN  IF o \notin s.live THEN [c EXCEPT !.s = idle]
        ELSE IF s.sock[o].del \/ "close" \in res THEN [c EXCEPT !.s = SockDelete(idle, o, FALSE)]
        ELSE IF events = {} THEN [c EXCEPT !.s = again]
        ELSE [s |-> IF again.sock[o].once THEN [again EXCEPT !.sock[o].user = {}] ELSE again,
              n |-> c.n + 1]

-----------------------------------------------------------------------------
(* epoll_ctl, under the port's lock.                                       *)

\* epoll_close takes the port out of the handle tree; who found it before still gets in.
MayEnter == wp.up = "open" \/ wp.late
Entered(s) == IF s.up = "open" THEN s ELSE [s EXCEPT !.late = FALSE]
CanCtl == MayEnter /\ wp.ctls < MaxCtl
FindSocket(key) == {o \in Registered : wp.sock[o].key = key}
Counted(s) == [Entered(s) EXCEPT !.ctls = @ + 1]

\* A socket that is there already costs a visit to its poll group.  A new group needs the IOCP,
\* which poll_group__new asserts.
CtlAdd(key, events, once, fail) ==
    /\ CanCtl /\ key \in wp.open /\ wp.live # Objs
    /\ LET o == Min(Objs \ wp.live)
           g == GroupAcquire(wp)
           new == [wp EXCEPT !.groups = g.queue, !.live = @ \cup {o},
                             !.sock[o] = [NoSock EXCEPT !.key = key, !.grp = g.id]]
       IN  /\ Len(g.queue) > Len(wp.groups) => wp.up = "open"
           /\ wp' = Counted(IF FindSocket(key) # {} THEN [wp EXCEPT !.groups = GroupRelease(g.queue, g.id)]
                            ELSE UpdateIfPolling(SockSetEvent(new, o, events, once), fail))
CtlMod(key, events, once, fail) ==
    /\ CanCtl
    /\ \E o \in FindSocket(key) :
         wp' = Counted(UpdateIfPolling(SockSetEvent(wp, o, events, once), fail))
CtlDel(key) ==
    /\ CanCtl
    /\ \E o \in FindSocket(key) : wp' = Counted(SockDelete(wp, o, FALSE))

-----------------------------------------------------------------------------
(* epoll_wait.                                                             *)

\* port__poll up to GetQueuedCompletionStatusEx, from a state in the lock; an error ends
\* port_wait, which updates for the others.
Poll(s, t, fail) ==
    LET u == UpdateEvents(s, fail)
    IN  IF u.refused THEN UpdateIfPolling([u EXCEPT !.pc[t] = "out"], fail)
        ELSE [u EXCEPT !.pc[t] = "wait"]

WaitStart(t, fail) == MayEnter /\ wp.pc[t] = "out" /\ wp' = Poll(Entered(wp), t, fail)

\* It returns outside the lock: with completions, or the time is up, or the IOCP was closed.
WaitReturns(t) ==
    /\ wp.pc[t] = "wait"
    /\ \E S \in SUBSET {o \in Objs : wp.op[o].at = "done" /\ wp.up = "open"} :
         wp' = [wp EXCEPT !.pc[t] = "got", !.got[t] = S,
                          !.op = [o \in Objs |-> IF o \in S THEN [@[o] EXCEPT !.at = "held"] ELSE @[o]]]

\* In the lock again: the completions are fed; nothing to report waits again unless the
\* time is up, then the sockets are updated for the threads that still wait.
WaitFeeds(t, late, fail) ==
    /\ wp.pc[t] = "got" /\ (wp.got[t] = {} => late)
    /\ LET fed == FoldLeft(SockFeedEvent, [s |-> [wp EXCEPT !.got[t] = {}], n |-> 0],
                           SetToSeq(wp.got[t]))
       IN  wp' = IF fed.n = 0 /\ ~late THEN Poll(fed.s, t, fail)
                 ELSE UpdateIfPolling([fed.s EXCEPT !.pc[t] = "out"], fail)

\* The kernel completes a poll: a condition it was asked for, a close, a failure or, if it
\* was asked to, as cancelled.  Then it is in the IOCP.
KernelCompletes(o) ==
    /\ wp.up = "open" /\ wp.op[o].at = "out"
    /\ \E res \in {{c} : c \in wp.op[o].mask \ {"close"}} \cup {{"failed"}, {"cancelled"}, {"close"}} :
         /\ res = {"cancelled"} => wp.op[o].cancel
         /\ (res = {"close"}) <=> (wp.sock[o].key # 0 /\ wp.sock[o].key \notin wp.open)
         /\ wp' = [wp EXCEPT !.op[o].at = "done", !.op[o].res = res]

\* The same after port_close: the IOCP has no handle left, so nobody takes it from there.
Untaken == [NoOp EXCEPT !.at = "done"]
KernelLateCompletes(o) ==
    wp.up # "open" /\ wp.op[o].at = "out" /\ wp' = [wp EXCEPT !.op[o] = Untaken]

SocketClosed(key) == wp.up # "deleted" /\ key \in wp.open /\ wp' = [wp EXCEPT !.open = @ \ {key}]

\* epoll_close: port_close closes the IOCP, in the lock; who is inside learns so from its wait.
PortClose ==
    /\ wp.up = "open"
    /\ \E late \in BOOLEAN :
         wp' = [wp EXCEPT !.up = "closed", !.late = late,
                          !.op = [o \in Objs |-> IF @[o].at = "done" THEN Untaken ELSE @[o]]]

\* port_delete frees every sock_state, its poll asked to cancel and not waited for; the poll
\* groups, with their AFD handles, go last.
Emptied(s) ==
    LET force(r, o) == SockDelete(r, o, TRUE)
        freed == FoldLeft(force, s, SetToSeq(Registered) \o SetToSeq(s.delq))
    IN  [freed EXCEPT !.up = "deleted", !.groups = SelectSeq(@, LAMBDA g : g.n # 0)]

\* Mutant: port_delete does not wait for the threads that found the port before.
PortDeleteAtOnce == wp.up = "closed" /\ wp' = Emptied(wp)

\* Once the last thread is out, port_delete.
PortDelete == wp.up = "closed" /\ ~wp.late /\ Polling = {} /\ wp' = Emptied(wp)

WepollNext ==
    \/ \E k \in SockKeys :
         \/ \E a \in Asked, fail \in BOOLEAN : CtlAdd(k, a[1], a[2], fail) \/ CtlMod(k, a[1], a[2], fail)
         \/ CtlDel(k) \/ SocketClosed(k)
    \/ \E t \in WThreads : \/ \E fail \in BOOLEAN : \/ WaitStart(t, fail)
                                                    \/ \E late \in BOOLEAN : WaitFeeds(t, late, fail)
                           \/ WaitReturns(t)
    \/ \E o \in Objs : KernelCompletes(o) \/ KernelLateCompletes(o)
    \/ PortClose \/ PortDelete

-----------------------------------------------------------------------------
\* While a thread waits, whatever a registered socket is asked for can reach it: the poll in
\* the kernel covers it, or a completion (cancelled or not) is on its way and brings the
\* next poll; unless the system refused the last request.
WepollHears ==
    (wp.up = "open" /\ Polling # {} /\ ~wp.refused) =>
        \A o \in Registered :
            \/ wp.op[o].at \in {"done", "held"} \/ (wp.op[o].at = "out" /\ wp.op[o].cancel)
            \/ wp.op[o].at = "out" /\ Afd(wp.sock[o].user) \subseteq wp.op[o].mask

\* A registration's memory lives as long as the kernel has its poll or a thread its
\* completion, across EPOLL_CTL_DEL, a close and a second EPOLL_CTL_ADD.  port_delete leaves none
\* and no group, and no thread with a completion; a poll that is still out then was asked to
\* cancel, whoever started it and when (its memory is gone before it completes).
WepollMemory ==
    /\ ~wp.bad
    /\ wp.up = "deleted" =>
         /\ wp.live = {} /\ wp.groups = <<>> /\ wp.updq = <<>> /\ wp.delq = {}
         /\ \A t \in WThreads : wp.pc[t] = "out" /\ wp.got[t] = {}
         /\ \A o \in Objs : wp.op[o].at = "out" => wp.op[o].cancel

\* Poll groups count their sockets, and a new one is made only when all are full: a group
\* with room is at the end of the queue, where poll_group_acquire looks.
GroupRoom ==
    /\ \A i \in DOMAIN wp.groups :
         wp.groups[i].n = Cardinality({o \in wp.live : wp.sock[o].grp = wp.groups[i].id})
    /\ \A i \in 1 .. Len(wp.groups) - 1 :
         wp.groups[i].n < MaxGroup => wp.groups[i + 1].n < MaxGroup
=============================================================================
