-------------------------------- MODULE Embed --------------------------------
(***************************************************************************)
(* ev_embed (src/ev.c): an outer loop watches the kernel set of an inner   *)
(* one.  A kernel object (an epoll set, a kqueue, a ring) is a number; the *)
(* inner loop replaces its own in loop_fork.  The passes of the outer loop *)
(* are the steps fork, prepare, block and callbacks of ev_run.  Either     *)
(* loop may run on epoll, which leaves a registration nobody wants in the  *)
(* kernel until it is reported once; the other backends remove it.         *)
(***************************************************************************)
EXTENDS Naturals, FiniteSets

CONSTANTS
    MaxKernels,     \* bound on kernel sets the inner loop makes
    Spurious        \* TRUE: the inner epoll may find its registrations stale (postfork 2)

VARIABLE em         \* active : the embed watcher, with its io, prepare and fork watchers
                    \* cb : it has a callback;  pend : pending ones among "io" and "embed"
                    \* fd : the kernel set its io watcher was given;  outreg : the one the outer
                    \* loop's kernel set holds (0: none);  outchg : the outer loop has to reify it
                    \* kern, made : the inner loop's kernel set, and how many there were
                    \* want, inreg : the inner io watcher is active, is in the inner kernel set
                    \* inchg, inpost : the inner fdchangecnt > 0, and its postfork
                    \* outpost : the outer loop's postfork;  pc : where its pass is
                    \* inepoll, outepoll : the inner and the outer loop's backend is epoll
                    \* alone : history, the inner loop replaced its kernel set by itself
                    \* since the embed watcher was started
                    \* told : history, how often (at most 2) the outer loop was told of the
                    \* inner one since the embed watcher was stopped

EmbedTypeOK ==
    /\ {em.active, em.cb, em.outchg, em.want, em.inreg, em.inchg, em.outpost, em.alone,
        em.inepoll, em.outepoll} \subseteq BOOLEAN
    /\ em.pend \subseteq {"io", "embed"} /\ {em.fd, em.outreg} \subseteq 0 .. MaxKernels
    /\ em.kern \in 1 .. MaxKernels /\ em.inpost \in 0 .. 2 /\ em.told \in 0 .. 2
    /\ em.pc \in {"fork", "prepare", "block", "callbacks"}

EmbedInit ==
    \E cb, ie, oe \in BOOLEAN :
    em = [active |-> FALSE, cb |-> cb, pend |-> {}, fd |-> 0, outreg |-> 0, outchg |-> FALSE,
          kern |-> 1, want |-> FALSE, inreg |-> FALSE, inchg |-> FALSE, inpost |-> 0,
          outpost |-> FALSE, pc |-> "callbacks", alone |-> FALSE,
          inepoll |-> ie, outepoll |-> oe, told |-> 0]

-----------------------------------------------------------------------------
\* The inner loop's fd_reify (epoll_modify ignores a change to no events) and its loop_fork: a
\* new kernel set, the old one closed and so gone from the outer one, all to be registered again.
InnerReify(e) ==
    IF e.inchg THEN [e EXCEPT !.inreg = e.want \/ (e.inepoll /\ @), !.inchg = FALSE] ELSE e
InnerFork(e) ==
    IF e.inpost = 0 THEN e
    ELSE [e EXCEPT !.kern = @ + 1, !.inreg = FALSE, !.inchg = @ \/ e.want, !.inpost = 0,
                   !.outreg = IF @ = e.kern THEN 0 ELSE @,
                   !.alone = @ \/ (e.active /\ e.fd = e.kern)]

\* epoll_poll of the inner loop, beyond the events it feeds: an event nobody wants any more
\* deletes its registration, one of another generation asks for a new kernel set.
InnerPoll(e) ==
    {e} \cup (IF e.inepoll /\ e.inreg /\ ~e.want THEN {[e EXCEPT !.inreg = FALSE]} ELSE {})
        \cup (IF Spurious /\ e.inepoll /\ e.inreg /\ e.kern < MaxKernels
              THEN {[e EXCEPT !.inpost = 2]} ELSE {})

\* What a pass of the inner ev_run with EVRUN_NOWAIT may lead to.
Sweep(e) == InnerPoll(InnerReify(InnerFork(e)))

\* Mutant: the prepare watcher leaves the inner changes to the next sweep.
EmbedPrepareCbNothing(e) == {e}
\* embed_prepare_cb: reify, and run the inner loop, while it has changes.
EmbedPrepareCb(e) == IF e.inchg THEN Sweep(InnerReify(e)) ELSE {e}

\* Mutant: the io watcher's pending event survives.
EmbedStoppedKeeps(e) ==
    IF ~e.active THEN [e EXCEPT !.pend = @ \ {"embed"}]
    ELSE [e EXCEPT !.active = FALSE, !.pend = @ \ {"embed"}, !.outchg = TRUE, !.fd = 0, !.told = 0]
EmbedStopped(e) ==
    IF ~e.active THEN [e EXCEPT !.pend = @ \ {"embed"}]
    ELSE [e EXCEPT !.active = FALSE, !.pend = {}, !.outchg = TRUE, !.fd = 0, !.told = 0]
EmbedStarted(e) ==
    IF e.active THEN e
    ELSE [e EXCEPT !.active = TRUE, !.fd = e.kern, !.outchg = TRUE, !.alone = FALSE]

\* embed_fork_cb
EmbedForkCb(e) == {EmbedStarted(x) : x \in Sweep([EmbedStopped(e) EXCEPT !.inpost = 1])}

-----------------------------------------------------------------------------
\* ev_run of the outer loop.  A forked process runs its fork watchers first.
RunFork ==
    /\ em.pc = "fork"
    /\ em.outpost /\ em.active => em.kern < MaxKernels
    /\ \E p \in IF em.outpost /\ em.active THEN EmbedForkCb(em) ELSE {em} :
         em' = [p EXCEPT !.pc = "prepare"]

\* The outer loop reifies the io watcher's descriptor: a new kernel set is filled from the active
\* watchers, the one it has keeps (epoll) or loses what is not wanted.
Rearmed(e) == e.outpost \/ (e.outchg /\ (e.active \/ ~e.outepoll))
\* What it then holds.  The number of a set that was closed since may be the next one's, or
\* nothing's: then the call fails and the io watcher is killed, that is, called.
Reached(e) == IF ~e.active THEN {0} ELSE IF e.fd = e.kern THEN {e.kern} ELSE {0, e.kern}

\* The prepare watchers, loop_fork, fd_reify; then the loop blocks.
RunPrepare ==
    /\ em.pc = "prepare"
    /\ em.inchg /\ em.inpost # 0 => em.kern < MaxKernels
    /\ \E p \in IF em.active THEN EmbedPrepareCb(em) ELSE {em} :
       \E r \in IF Rearmed(p) THEN Reached(p) ELSE {p.outreg} :
         em' = [p EXCEPT !.pc = "block", !.outpost = FALSE, !.outchg = FALSE, !.outreg = r,
                         !.pend = IF Rearmed(p) /\ p.active /\ r = 0 THEN @ \cup {"io"} ELSE @]

\* Mutant: the outer loop's epoll_poll leaves the registration nobody wants.
StaleReportedKept(e) == [e EXCEPT !.told = IF @ = 0 THEN 1 ELSE 2]
\* The outer loop's epoll_poll deletes a registration nobody wants, once it was reported.
StaleReported(e) == [e EXCEPT !.outreg = 0, !.told = IF @ = 0 THEN 1 ELSE 2]

\* The outer loop polls.  The inner kernel set, when it is ready, is reported if it is held.
RunBlock ==
    /\ em.pc = "block"
    /\ \/ em' = [em EXCEPT !.pc = "callbacks"]
       \/ /\ em.inreg /\ em.outreg = em.kern /\ em.active
          /\ em' = [em EXCEPT !.pc = "callbacks", !.pend = @ \cup {"io"}]
       \/ /\ em.inreg /\ em.outreg = em.kern /\ ~em.active
          /\ em' = [StaleReported(em) EXCEPT !.pc = "callbacks"]

\* embed_io_cb, or the application's callback, which sweeps.
RunCallback ==
    /\ em.pc = "callbacks"
    /\ em.inpost # 0 => em.kern < MaxKernels
    /\ \/ /\ "io" \in em.pend /\ em.cb
          /\ em' = [em EXCEPT !.pend = (@ \ {"io"}) \cup {"embed"}]
       \/ /\ "io" \in em.pend /\ ~em.cb
          /\ em' \in Sweep([em EXCEPT !.pend = @ \ {"io"}])
       \/ /\ "embed" \in em.pend
          /\ em' \in Sweep([em EXCEPT !.pend = @ \ {"embed"}])
       \/ em.pend = {} /\ em' = [em EXCEPT !.pc = "fork"]

\* What callbacks do: run the inner loop (ev_embed_sweep, or ev_run), start and stop the embed
\* watcher and inner watchers; fork.
InnerRuns ==
    /\ em.pc = "callbacks"
    /\ em.inpost # 0 => em.kern < MaxKernels
    /\ em' \in Sweep(em)
EmbedStart == em.pc = "callbacks" /\ ~em.active /\ em' = EmbedStarted(em)
EmbedStop == em.pc = "callbacks" /\ em.active /\ em' = EmbedStopped(em)
InnerIo == em.pc \in {"callbacks", "prepare"} /\ ~em.inchg /\ em' = [em EXCEPT !.want = ~@, !.inchg = TRUE]
OuterForks ==
    em.pc = "callbacks" /\ ~em.outpost /\ em.kern < MaxKernels /\ em' = [em EXCEPT !.outpost = TRUE]

EmbedNext ==
    \/ RunFork \/ RunPrepare \/ RunBlock \/ RunCallback \/ InnerRuns
    \/ EmbedStart \/ EmbedStop \/ InnerIo \/ OuterForks

EmbedSpec == EmbedInit /\ [][EmbedNext]_em

-----------------------------------------------------------------------------
\* While the outer loop blocks with an active embed watcher, every inner change has been
\* given to the inner kernel set, and the outer one holds that set, also after forks: an inner
\* event can wake the outer loop, unless an inner epoll replaced its kernel set by itself.
EmbedHears ==
    (em.pc = "block" /\ em.active /\ ~em.alone) =>
        /\ ~em.inchg /\ em.outreg = em.kern
        /\ em.want => em.inreg
        /\ ~em.inepoll => em.inreg = em.want

\* A stopped embed watcher leaves little behind: no callback of it is pending, its own or its
\* io watcher's, and the inner loop wakes the outer one once at most, and only an epoll.
EmbedGone ==
    ~em.active =>
        /\ em.pend = {} /\ em.told <= 1
        /\ ~em.outepoll => em.told = 0 /\ (em.pc = "block" => em.outreg = 0)

\* Both: the outer loop hears of the inner one as long as the embed watcher is active, and
\* once more at most.
EmbedFollows == EmbedHears /\ EmbedGone
=============================================================================
