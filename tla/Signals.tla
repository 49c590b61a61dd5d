------------------------------- MODULE Signals -------------------------------
(***************************************************************************)
(* Signal watchers (src/ev.c: ev_signal_start/stop, ev_feed_signal,        *)
(* ev_sighandler, ev_feed_signal_event, sigfdcb and the scan of pipecb):   *)
(* the signals[] table is shared by all loops of the process, a signal is  *)
(* bound to one loop at a time and reaches it through a handler and the    *)
(* evpipe or, in a loop made with EVFLAG_SIGNALFD, through a signalfd.     *)
(* The handler is one step here; how it interleaves with the loop thread   *)
(* is EvPipe.                                                              *)
(***************************************************************************)
EXTENDS FiniteSets

CONSTANTS
    Loops, NoLoop,
    Sigs,           \* signal numbers
    Watchers,       \* ev_signal watchers
    LoopOf, SigOf   \* where each watcher is started, and its signum

SignalsAssumption ==
    /\ NoLoop \notin Loops
    /\ LoopOf \in [Watchers -> Loops] /\ SigOf \in [Watchers -> Sigs]

VARIABLES
    sloop,      \* signals[].loop
    spending,   \* the signals with signals[].pending
    active,     \* active watchers (signals[].head lists those of one signal)
    sig_pending,\* the loops with sig_pending
    pend,       \* pending watchers
    sigfd,      \* per loop: "unused" (-2), "none" (-1), "open"
    sigfd_set,  \* per loop: the signals its signalfd reads
    nomask,     \* per loop: EVFLAG_NOSIGMASK
    handled,    \* signals whose disposition is ev_sighandler
    blocked,    \* signals in the thread's mask
    kpend,      \* blocked signals that arrived
    owed        \* history: watchers whose signal arrived and was not delivered

sigtable == <<sloop, spending, active, sig_pending>>
mask == <<handled, blocked, kpend>>
fds == <<sigfd, sigfd_set>>
vars == <<sigtable, pend, fds, nomask, mask, owed>>

TypeOK ==
    /\ sloop \in [Sigs -> Loops \cup {NoLoop}] /\ spending \subseteq Sigs
    /\ active \subseteq Watchers /\ pend \subseteq Watchers /\ owed \subseteq Watchers
    /\ sig_pending \subseteq Loops
    /\ sigfd \in [Loops -> {"unused", "none", "open"}]
    /\ sigfd_set \in [Loops -> SUBSET Sigs] /\ nomask \in [Loops -> BOOLEAN]
    /\ handled \subseteq Sigs /\ blocked \subseteq Sigs /\ kpend \subseteq blocked

Init ==
    /\ sloop = [s \in Sigs |-> NoLoop] /\ spending = {} /\ active = {} /\ sig_pending = {}
    /\ pend = {} /\ owed = {}
    /\ sigfd \in [Loops -> {"unused", "none"}]
    /\ sigfd_set = [l \in Loops |-> {}]
    /\ nomask \in [Loops -> BOOLEAN]
    /\ handled = {} /\ blocked = {} /\ kpend = {}

\* signals[].head
ListOf(s) == {w \in active : SigOf[w] = s}

-----------------------------------------------------------------------------
\* ev_feed_signal, for the signals in S: they are noted for the loop they are bound to.
FeedSignal(S) ==
    LET bound == {s \in S : sloop[s] # NoLoop}
    IN  /\ spending' = spending \cup bound
        /\ sig_pending' = sig_pending \cup {sloop[s] : s \in bound}

\* A signal arrives: blocked, it waits in the kernel; else its handler runs.  (The
\* default action is the end of the process.)
Raise(s) ==
    /\ s \in blocked \cup handled
    /\ IF s \in blocked
       THEN kpend' = kpend \cup {s} /\ UNCHANGED <<spending, sig_pending>>
       ELSE FeedSignal({s}) /\ UNCHANGED kpend
    /\ owed' = owed \cup ListOf(s)
    /\ UNCHANGED <<sloop, active, pend, fds, nomask, handled, blocked>>

\* The application blocks a signal nobody watches, or, where the loop leaves the mask
\* to it, any.
AppBlock(s) ==
    /\ s \notin blocked
    /\ sloop[s] # NoLoop => nomask[sloop[s]]
    /\ blocked' = blocked \cup {s}
    /\ UNCHANGED <<sigtable, pend, fds, nomask, handled, kpend, owed>>

\* Mutant: the flag is cleared before the loop is compared.
FeedClearsFirst(l, S) ==
    LET mine == {s \in S : sloop[s] = l}
    IN  /\ spending' = spending \ S
        /\ pend' = pend \cup UNION {ListOf(s) : s \in mine}

\* ev_feed_signal_event on loop l, for the signals in S.
FeedSignalEvents(l, S) ==
    LET mine == {s \in S : sloop[s] = l}
    IN  /\ spending' = spending \ mine
        /\ pend' = pend \cup UNION {ListOf(s) : s \in mine}

-----------------------------------------------------------------------------
\* The signalfd of a loop that asked for one is made at its first ev_signal_start.
SigfdAfter(l) == IF sigfd[l] = "unused" THEN {"open", "none"} ELSE {sigfd[l]}

\* sigprocmask (SIG_UNBLOCK) of s: what waited is delivered to its disposition.  (Where
\* that is the default action it is taken to ignore the signal: the other one ends
\* the process.)
Unblock(s) ==
    /\ blocked' = blocked \ {s}
    /\ kpend' = kpend \ {s}

\* Mutant: EVFLAG_NOSIGMASK is read the other way round.
StartInverted(w) ==
    LET l == LoopOf[w]  s == SigOf[w]
    IN  /\ w \notin active
        /\ sloop[s] \in {NoLoop, l}
        /\ sloop' = [sloop EXCEPT ![s] = l]
        /\ active' = active \cup {w}
        /\ \E fd \in SigfdAfter(l) :
             /\ sigfd' = [sigfd EXCEPT ![l] = fd]
             /\ IF fd = "open"
                THEN /\ sigfd_set' = [sigfd_set EXCEPT ![l] = @ \cup {s}]
                     /\ blocked' = IF nomask[l] THEN blocked \cup sigfd_set'[l] ELSE blocked
                     /\ UNCHANGED <<handled, kpend, spending, sig_pending>>
                ELSE /\ handled' = IF ListOf(s) = {} THEN handled \cup {s} ELSE handled
                     /\ UNCHANGED <<sigfd_set, blocked, kpend, spending, sig_pending>>
        /\ UNCHANGED <<pend, nomask, owed>>

\* ev_signal_start.  The assertion that no other loop holds the signal is a guard.
SignalStart(w) ==
    LET l == LoopOf[w]  s == SigOf[w]
    IN  /\ w \notin active
        /\ sloop[s] \in {NoLoop, l}
        /\ sloop' = [sloop EXCEPT ![s] = l]
        /\ active' = active \cup {w}
        /\ \E fd \in SigfdAfter(l) :
             /\ sigfd' = [sigfd EXCEPT ![l] = fd]
             /\ IF fd = "open"
                THEN /\ sigfd_set' = [sigfd_set EXCEPT ![l] = @ \cup {s}]
                     /\ blocked' = IF nomask[l] THEN blocked ELSE blocked \cup sigfd_set'[l]
                     /\ UNCHANGED <<handled, kpend, spending, sig_pending>>
                ELSE /\ UNCHANGED sigfd_set
                     /\ IF ListOf(s) # {}
                        THEN UNCHANGED <<mask, spending, sig_pending>>
                        ELSE /\ handled' = handled \cup {s}
                             /\ IF nomask[l]
                                THEN UNCHANGED <<blocked, kpend, spending, sig_pending>>
                                ELSE /\ Unblock(s)
                                     /\ spending' = spending \cup (kpend \cap {s})
                                     /\ sig_pending' = IF s \in kpend THEN sig_pending \cup {l}
                                                       ELSE sig_pending
        /\ UNCHANGED <<pend, nomask, owed>>

\* ev_signal_stop; the last watcher of a signal gives the signal back.
SignalStop(w) ==
    LET l == LoopOf[w]  s == SigOf[w]  last == ListOf(s) = {w}
    IN  /\ w \in active
        /\ active' = active \ {w} /\ pend' = pend \ {w} /\ owed' = owed \ {w}
        /\ sloop' = IF last THEN [sloop EXCEPT ![s] = NoLoop] ELSE sloop
        /\ IF ~last THEN UNCHANGED <<sigfd_set, mask>>
           ELSE IF sigfd[l] = "open"
                THEN /\ sigfd_set' = [sigfd_set EXCEPT ![l] = @ \ {s}]
                     /\ IF nomask[l] THEN UNCHANGED <<blocked, kpend>> ELSE Unblock(s)
                     /\ UNCHANGED handled
                ELSE handled' = handled \ {s} /\ UNCHANGED <<sigfd_set, blocked, kpend>>
        /\ UNCHANGED <<spending, sig_pending, sigfd, nomask>>

-----------------------------------------------------------------------------
\* pipecb: all noted signals, whichever loop they are for.
PipeCb(l) ==
    /\ l \in sig_pending
    /\ sig_pending' = sig_pending \ {l}
    /\ FeedSignalEvents(l, spending)
    /\ UNCHANGED <<sloop, active, fds, nomask, mask, owed>>

\* sigfdcb reads until the signalfd is empty.
SigfdCb(l) ==
    /\ sigfd[l] = "open"
    /\ kpend \cap sigfd_set[l] # {}
    /\ kpend' = kpend \ sigfd_set[l]
    /\ FeedSignalEvents(l, kpend \cap sigfd_set[l])
    /\ UNCHANGED <<sloop, active, sig_pending, fds, nomask, handled, blocked, owed>>

Invoke(w) ==
    /\ w \in pend
    /\ pend' = pend \ {w} /\ owed' = owed \ {w}
    /\ UNCHANGED <<sigtable, fds, nomask, mask>>

Next ==
    \/ \E s \in Sigs : Raise(s) \/ AppBlock(s)
    \/ \E w \in Watchers : SignalStart(w) \/ SignalStop(w) \/ Invoke(w)
    \/ \E l \in Loops : PipeCb(l) \/ SigfdCb(l)

Spec == Init /\ [][Next]_vars

-----------------------------------------------------------------------------
(* Properties.                                                             *)

\* A signal that arrived while its watcher was active is on its way to that watcher:
\* pending, noted for the loop with a scan to come, or waiting in the signalfd (in the
\* kernel, where the application keeps it blocked).  A scan by another loop does not
\* take it.
SignalNotLost ==
    \A w \in owed :
        LET s == SigOf[w]  l == LoopOf[w]
        IN  \/ w \in pend
            \/ s \in spending /\ l \in sig_pending /\ sloop[s] = l
            \/ s \in kpend /\ (s \in sigfd_set[l] \/ s \in handled)

\* The signal of an active watcher can reach it: by the handler, unblocked, or by the
\* signalfd, blocked, unless the loop was told to leave the mask to the application.
\* A signal nobody watches keeps no trace of the loop.
CanArrive ==
    \A s \in Sigs :
        IF sloop[s] = NoLoop THEN ListOf(s) = {} /\ s \notin handled
        ELSE LET l == sloop[s]
             IN  /\ ListOf(s) # {} /\ \A w \in ListOf(s) : LoopOf[w] = l
                 /\ IF sigfd[l] = "open"
                    THEN s \in sigfd_set[l] /\ (nomask[l] \/ s \in blocked)
                    ELSE s \in handled /\ (nomask[l] \/ s \notin blocked)

\* Both: no signal is lost, whichever loop it is bound to and by whichever way it comes.
SignalsArrive == SignalNotLost /\ CanArrive
=============================================================================
