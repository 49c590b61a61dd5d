------------------------------- MODULE Reflock -------------------------------
(***************************************************************************)
(* wepoll's handle tree and its reference locks (src/wepoll.c: init,       *)
(* epoll_close, ts_tree_find_and_ref, reflock_unref_and_destroy): threads  *)
(* use a port under a reference taken while they hold the tree's lock, and *)
(* epoll_close frees the port when the others have left, woken by the last *)
(* of them through a keyed event.                                          *)
(***************************************************************************)
EXTENDS Naturals, FiniteSets

CONSTANTS
    RThreads,       \* threads
    Ports,          \* ports that may be created
    MaxInitFails    \* bound on failures of the initialisation

\* 0 stands for no port; the library is used by finitely many threads.
LockAssumption == IsFiniteSet(RThreads) /\ 0 \notin Ports /\ MaxInitFails \in Nat

VARIABLE rl         \* pc[t] : where a thread is;  on[t] : its port
                    \* stage : how much of init__once_callback is done;  done : init__done
                    \* fails : failures so far;  tree : ports in epoll__handle_tree
                    \* mem[p] : "none", "live" or "freed";  refs[p], destroy[p] : the reflock
                    \* bad : history, an assertion of reflock_* or port_delete failed

\* "ready" is outside the library; "init" in InitOnceExecuteOnce, "in" past init ();
\* "using" has a reference for epoll_ctl or epoll_wait; "signal" in reflock__signal_event;
\* "closing" has taken the port out of the tree, "await" waits for the others.
Places == {"ready", "init", "in", "using", "signal", "closing", "await"}

RefTypeOK ==
    rl \in [pc : [RThreads -> Places], on : [RThreads -> Ports \cup {0}],
            stage : 0 .. 4, done : BOOLEAN, fails : 0 .. MaxInitFails,
            tree : SUBSET Ports, mem : [Ports -> {"none", "live", "freed"}],
            refs : [Ports -> Nat], destroy : [Ports -> BOOLEAN], bad : BOOLEAN]

RefInit ==
    rl = [pc |-> [t \in RThreads |-> "ready"], on |-> [t \in RThreads |-> 0], stage |-> 0,
          done |-> FALSE, fails |-> 0, tree |-> {}, mem |-> [p \in Ports |-> "none"],
          refs |-> [p \in Ports |-> 0], destroy |-> [p \in Ports |-> FALSE], bad |-> FALSE]

-----------------------------------------------------------------------------
Goes(t, to) == [rl EXCEPT !.pc[t] = to]

\* init (): the flag is read first; InitOnceExecuteOnce lets one thread at a time run the
\* callback, and again after a failure.
InitCall(t) ==
    /\ rl.pc[t] = "ready"
    /\ \/ rl.done /\ rl' = Goes(t, "in")
       \/ ~rl.done /\ (\A u \in RThreads : rl.pc[u] # "init") /\ rl' = Goes(t, "init")

\* Mutant: the flag is set before the handle tree is there.
InitStepEarly(t) ==
    /\ rl.pc[t] = "init"
    /\ rl' = IF rl.stage < 4 THEN [rl EXCEPT !.stage = @ + 1, !.done = (rl.stage >= 2)]
             ELSE Goes(t, "in")

\* init__once_callback: winsock, ntdll, the keyed event, the handle tree; then the flag.
InitStep(t) ==
    /\ rl.pc[t] = "init"
    /\ rl' = IF rl.stage < 4 THEN [rl EXCEPT !.stage = @ + 1] ELSE [Goes(t, "in") EXCEPT !.done = TRUE]
InitFails(t) ==
    /\ rl.pc[t] = "init" /\ rl.stage < 4 /\ rl.fails < MaxInitFails
    /\ rl' = [rl EXCEPT !.stage = 0, !.fails = @ + 1, !.pc[t] = "ready"]

\* epoll__create: a port and its node in the tree.
Create(t, p) ==
    /\ rl.pc[t] = "in" /\ rl.mem[p] = "none"
    /\ rl' = [rl EXCEPT !.mem[p] = "live", !.tree = @ \cup {p}, !.pc[t] = "ready"]

\* ts_tree_find_and_ref; a handle that is not in the tree is an error.
FindAndRef(t, p) ==
    /\ rl.pc[t] = "in"
    /\ rl' = IF p \notin rl.tree THEN Goes(t, "ready")
             ELSE [rl EXCEPT !.refs[p] = @ + 1, !.on[t] = p, !.pc[t] = "using",
                             !.bad = @ \/ rl.destroy[p]]

\* Mutant: a thread that leaves wakes the destroyer only if it is not the last.
UnrefNotLast(t) ==
    LET p == rl.on[t]
    IN  /\ rl.pc[t] = "using"
        /\ rl' = [rl EXCEPT !.refs[p] = @ - 1,
                            !.pc[t] = IF rl.refs[p] > 1 /\ rl.destroy[p] THEN "signal" ELSE "ready",
                            !.on[t] = IF rl.refs[p] > 1 /\ rl.destroy[p] THEN @ ELSE 0]

\* reflock_unref: the last reference under a destroyer signals it.
Unref(t) ==
    LET p == rl.on[t]
    IN  /\ rl.pc[t] = "using"
        /\ rl' = [rl EXCEPT !.refs[p] = @ - 1,
                            !.pc[t] = IF rl.refs[p] = 1 /\ rl.destroy[p] THEN "signal" ELSE "ready",
                            !.on[t] = IF rl.refs[p] = 1 /\ rl.destroy[p] THEN @ ELSE 0]

\* Mutant: the node is left in the tree.
DelAndRefFindable(t, p) ==
    /\ rl.pc[t] = "in"
    /\ rl' = IF p \notin rl.tree THEN Goes(t, "ready")
             ELSE [rl EXCEPT !.refs[p] = @ + 1, !.on[t] = p, !.pc[t] = "closing"]

\* ts_tree_del_and_ref, with port_close.
DelAndRef(t, p) ==
    /\ rl.pc[t] = "in"
    /\ rl' = IF p \notin rl.tree THEN Goes(t, "ready")
             ELSE [rl EXCEPT !.tree = @ \ {p}, !.refs[p] = @ + 1, !.on[t] = p, !.pc[t] = "closing"]

Freed(p) == [rl EXCEPT !.mem[p] = "freed"]

\* reflock_unref_and_destroy, then port_delete: at once if no other thread has a reference.
UnrefAndDestroy(t) ==
    LET p == rl.on[t]
    IN  /\ rl.pc[t] = "closing"
        /\ rl' = IF rl.refs[p] = 1
                 THEN [Freed(p) EXCEPT !.refs[p] = 0, !.destroy[p] = TRUE, !.pc[t] = "ready", !.on[t] = 0,
                                       !.bad = @ \/ rl.destroy[p]]
                 ELSE [rl EXCEPT !.refs[p] = @ - 1, !.destroy[p] = TRUE, !.pc[t] = "await",
                                 !.bad = @ \/ rl.destroy[p]]

\* A keyed event is a rendezvous: the signaller waits for the waiter.
Rendezvous(t, u) ==
    LET p == rl.on[t]
    IN  /\ rl.pc[t] = "signal" /\ rl.pc[u] = "await" /\ rl.on[u] = p
        /\ rl' = [Freed(p) EXCEPT !.pc[t] = "ready", !.on[t] = 0, !.pc[u] = "ready", !.on[u] = 0,
                                  !.bad = @ \/ rl.refs[p] # 0]

RefNext ==
    \E t \in RThreads :
       \/ InitCall(t) \/ InitStep(t) \/ InitFails(t) \/ Unref(t) \/ UnrefAndDestroy(t)
       \/ \E p \in Ports : Create(t, p) \/ FindAndRef(t, p) \/ DelAndRef(t, p)
       \/ \E u \in RThreads : Rendezvous(t, u)

RefSpec == RefInit /\ [][RefNext]_rl

-----------------------------------------------------------------------------
\* No thread uses a port that epoll_close has freed, no assertion of the lock fails.
PortAlive ==
    /\ ~rl.bad
    /\ \A t \in RThreads : rl.on[t] # 0 => rl.mem[rl.on[t]] = "live"

\* The destroyer is woken: while it waits, a thread still has a reference or is about to
\* signal, and a signaller has a destroyer to meet.
DestroyerWoken ==
    /\ \A u \in RThreads : rl.pc[u] = "await" =>
          \E t \in RThreads : rl.on[t] = rl.on[u] /\ rl.pc[t] \in {"using", "signal"}
    /\ \A t \in RThreads : rl.pc[t] = "signal" =>
          \E u \in RThreads : rl.on[u] = rl.on[t] /\ rl.pc[u] = "await"

\* A thread that got past init () finds everything the callback sets up, whichever thread
\* ran it and however often it failed before.
InitPublished == \A t \in RThreads : rl.pc[t] \notin {"ready", "init"} => rl.stage = 4

\* The three together: epoll_close frees a port when its last user has left and not
\* before, and does not wait for ever.
PortClosedSafely == PortAlive /\ DestroyerWoken /\ InitPublished
=============================================================================
