-------------------------------- MODULE Child --------------------------------
(***************************************************************************)
(* Child watchers (src/ev.c: child_reap, childcb, ev_child_start/stop):    *)
(* SIGCHLD does not count, so one signal stands for any number of changed  *)
(* children.  childcb takes one status per call and queues itself again    *)
(* underneath the child watchers it queues, so that their callbacks see    *)
(* rpid and rstatus before the next status is taken.                       *)
(***************************************************************************)
EXTENDS Naturals, Sequences, FiniteSets, SequencesExt

CONSTANTS
    Pids,           \* positive process ids
    HashSize,       \* EV_PID_HASHSIZE
    Childs,         \* ev_child watchers
    PidOf,          \* w->pid, 0 for any
    Traced          \* the watchers with flags & 1

ASSUME ChildAssumption == "childev" \notin Childs /\ IsFiniteSet(Childs)

VARIABLES
    kstat,      \* the kernel: what waitpid would report of each pid
    sigchld,    \* a SIGCHLD on its way to childev
    maxq, lowq, \* pendings [EV_MAXPRI] and those of the watchers' own priority
    childs,     \* the hash chains
    result,     \* <<rpid, rstatus>>
    reports     \* history: what was reaped for a watcher and not yet seen by its callback

cvars == <<kstat, sigchld, maxq, lowq, childs, result, reports>>

Statuses == {"exited", "stopped"}
Results == Pids \X Statuses
chldev == "childev"
Chain(n) == n % HashSize
PendingChilds == Range(maxq) \cup Range(lowq)
ActiveChilds == UNION {Range(childs[c]) : c \in DOMAIN childs}

ChildTypeOK ==
    /\ kstat \in [Pids -> Statuses \cup {"none"}] /\ sigchld \in BOOLEAN
    /\ Range(maxq) \subseteq Childs \cup {chldev} /\ Range(lowq) \subseteq Childs
    /\ IsInjective(maxq \o lowq)
    /\ DOMAIN childs = 0 .. HashSize - 1 /\ ActiveChilds \subseteq Childs
    /\ result \in [Childs -> Results \cup {<<0, "none">>}]
    /\ reports \in [Childs -> SUBSET Results]

ChildInit ==
    /\ kstat = [p \in Pids |-> "none"] /\ sigchld = FALSE
    /\ maxq = <<>> /\ lowq = <<>>
    /\ childs = [c \in 0 .. HashSize - 1 |-> <<>>]
    /\ result = [w \in Childs |-> <<0, "none">>]
    /\ reports = [w \in Childs |-> {}]

-----------------------------------------------------------------------------
\* A child exits, or is stopped (external: the kernel keeps its latest status).
ChildChanges(p, st) ==
    /\ kstat[p] # "exited" /\ kstat[p] # st
    /\ kstat' = [kstat EXCEPT ![p] = st] /\ sigchld' = TRUE
    /\ UNCHANGED <<maxq, lowq, childs, result, reports>>

\* SIGCHLD reaches childev by way of the evpipe; ev_feed_event ignores a second one.
SigchldFed ==
    /\ sigchld
    /\ sigchld' = FALSE
    /\ maxq' = IF chldev \in Range(maxq) THEN maxq ELSE Append(maxq, chldev)
    /\ UNCHANGED <<kstat, lowq, childs, result, reports>>

\* The order in which childcb's calls of child_reap meet the watchers: those in the pid's chain
\* and then, for the watchers of any pid, those in chain 0 (a watcher in both is met twice).
Walk(pid) == childs[Chain(pid)] \o (IF HashSize > 1 THEN childs[0] ELSE <<>>)
Before(walk, v, w) == \E k \in 1 .. Len(walk) : walk[k] = v /\ \A l \in 1 .. k : walk[l] # w

\* Those that child_reap selects.
Reaped(pid, st) ==
    {w \in Childs : /\ Contains(Walk(pid), w)
                    /\ PidOf[w] \in {pid, 0} /\ (st = "stopped" => w \in Traced)}

\* ev_feed_event of each of S as it is met; the ones already pending are left where they are.
Fed(q, S, walk) ==
    LET new == S \ Range(q)
    IN  {q \o r : r \in {r \in [1 .. Cardinality(new) -> new] :
            new = Range(r) /\ \A i, j \in DOMAIN r : i < j => Before(walk, r[i], r[j])}}

\* Mutant: the watcher keeps the priority the application gave it.
ReapAtOwnPriority(q, pid, st) ==
    LET hit == Reaped(pid, st)
    IN  /\ maxq' = q
        /\ lowq' \in Fed(lowq, hit, Walk(pid))
        /\ result' = [w \in Childs |-> IF w \in hit THEN <<pid, st>> ELSE result[w]]
        /\ reports' = [w \in Childs |-> IF w \in hit THEN reports[w] \cup {<<pid, st>>} ELSE reports[w]]

\* Both calls of child_reap.
ChildReap(q, pid, st) ==
    LET hit == Reaped(pid, st)
    IN  /\ maxq' \in Fed(q, hit, Walk(pid))
        /\ UNCHANGED lowq
        /\ result' = [w \in Childs |-> IF w \in hit THEN <<pid, st>> ELSE result[w]]
        /\ reports' = [w \in Childs |-> IF w \in hit THEN reports[w] \cup {<<pid, st>>} ELSE reports[w]]

\* Mutant: childcb takes one status for each signal.
ChildCbOnce ==
    /\ maxq # <<>> /\ Last(maxq) = chldev
    /\ IF \A p \in Pids : kstat[p] = "none"
       THEN maxq' = Front(maxq) /\ UNCHANGED <<kstat, lowq, result, reports>>
       ELSE \E p \in {q \in Pids : kstat[q] # "none"} :
                 /\ ChildReap(Front(maxq), p, kstat[p])
                 /\ kstat' = [kstat EXCEPT ![p] = "none"]
    /\ UNCHANGED <<sigchld, childs>>

\* childcb, popped from the queue: one status, itself again, then the watchers.
ChildCb ==
    /\ maxq # <<>> /\ Last(maxq) = chldev
    /\ IF \A p \in Pids : kstat[p] = "none"
       THEN maxq' = Front(maxq) /\ UNCHANGED <<kstat, lowq, result, reports>>
       ELSE \E p \in {q \in Pids : kstat[q] # "none"} :
                 /\ ChildReap(Append(Front(maxq), chldev), p, kstat[p])
                 /\ kstat' = [kstat EXCEPT ![p] = "none"]
    /\ UNCHANGED <<sigchld, childs>>

\* ev_invoke_pending calls the last of the highest priority.
ChildInvoke(w) ==
    /\ LET q == IF maxq # <<>> THEN maxq ELSE lowq IN q # <<>> /\ Last(q) = w
    /\ maxq' = IF maxq # <<>> THEN Front(maxq) ELSE maxq
    /\ lowq' = IF maxq = <<>> THEN Front(lowq) ELSE lowq
    /\ reports' = [reports EXCEPT ![w] = @ \ {result[w]}]
    /\ UNCHANGED <<kstat, sigchld, childs, result>>

\* ev_child_start and ev_child_stop, from any callback.
ChildStart(w) ==
    /\ w \notin ActiveChilds
    /\ childs' = [childs EXCEPT ![Chain(PidOf[w])] = <<w>> \o @]
    /\ UNCHANGED <<kstat, sigchld, maxq, lowq, result, reports>>

ChildStop(w) ==
    /\ w \in ActiveChilds
    /\ childs' = [childs EXCEPT ![Chain(PidOf[w])] = RemoveFirst(@, w)]
    /\ maxq' = RemoveFirst(maxq, w) /\ lowq' = RemoveFirst(lowq, w)
    /\ reports' = [reports EXCEPT ![w] = {}]
    /\ UNCHANGED <<kstat, sigchld, result>>

ChildNext ==
    \/ \E p \in Pids, st \in Statuses : ChildChanges(p, st)
    \/ SigchldFed \/ ChildCb
    \/ \E w \in Childs : ChildInvoke(w) \/ ChildStart(w) \/ ChildStop(w)

ChildSpec == ChildInit /\ [][ChildNext]_cvars

-----------------------------------------------------------------------------
(* Properties.                                                             *)

\* Every status reaped for a watcher reaches its callback: it is still in rpid and
\* rstatus while the watcher is pending, however many children changed meanwhile.
StatusNotOverwritten ==
    \A w \in Childs : reports[w] \subseteq (IF w \in PendingChilds THEN {result[w]} ELSE {})

\* A child that changed is not forgotten, though signals coalesce: while waitpid has
\* something to report a SIGCHLD is on its way or childcb is queued.
NoZombieForgotten ==
    (\E p \in Pids : kstat[p] # "none") => sigchld \/ chldev \in Range(maxq)

\* Both: no status reaped by childcb is overwritten before the watcher's callback has seen it,
\* and none is left with the kernel for want of a signal.
ChildrenReported == StatusNotOverwritten /\ NoZombieForgotten
=============================================================================
