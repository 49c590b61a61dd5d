---------------------------- MODULE LifetimeProofs ---------------------------
(***************************************************************************)
(* Proofs about what is opened, closed and freed.  Reflock, for any number *)
(* of threads and ports and any number of failed initialisations: a port   *)
(* is freed only when no thread has it, no assertion of the lock fails,    *)
(* and a thread that waits in epoll_close has another thread that will     *)
(* wake it.  LoopLife, for any set of backends and any number of forks: a  *)
(* loop closes each descriptor it opened once, shares none with the parent *)
(* after loop_fork, and its own watchers hold no reference to it.          *)
(* Win32Fd, for any sockets, hash and sequence of failed allocations: each *)
(* number is used once or free once, and both tables lead to its entry.    *)
(***************************************************************************)
EXTENDS Reflock, LoopLife, Win32Fd, SequenceTheorems, FiniteSetTheorems, TLAPS

(***************************************************************************)
(* The ports of wepoll and their reflock.                                  *)
(***************************************************************************)
Outside == {"ready", "init", "in"}

\* The threads whose references the count of a port is made of.
Users(p) == {t \in RThreads : rl.on[t] = p /\ rl.pc[t] \in {"using", "closing"}}

Counted == \A p \in Ports : rl.refs[p] = Cardinality(Users(p))

Placed == \A t \in RThreads : rl.on[t] = 0 <=> rl.pc[t] \in Outside

\* What can be found in the tree is live, and nobody is closing it.
Findable ==
    \A p \in rl.tree :
        /\ rl.mem[p] = "live" /\ ~rl.destroy[p]
        /\ \A t \in RThreads : rl.on[t] = p => rl.pc[t] = "using"

\* What is not live is out of the tree and out of every thread's hands.
Unused ==
    \A p \in Ports : rl.mem[p] # "live" =>
        /\ p \notin rl.tree /\ (rl.destroy[p] <=> rl.mem[p] = "freed")
        /\ \A t \in RThreads : rl.on[t] # p

OneCloser ==
    \A t, u \in RThreads :
        /\ rl.on[t] = rl.on[u]
        /\ rl.pc[t] \in {"closing", "await"} /\ rl.pc[u] \in {"closing", "await"}
        => t = u

\* The destroy mark is set when, and only when, the closer begins to wait or frees.
Marked ==
    /\ \A t \in RThreads :
          /\ rl.pc[t] = "closing" => ~rl.destroy[rl.on[t]]
          /\ rl.pc[t] = "await" => rl.destroy[rl.on[t]]
    /\ \A p \in Ports : rl.destroy[p] /\ rl.mem[p] = "live" =>
          \E u \in RThreads : rl.on[u] = p /\ rl.pc[u] = "await"

\* One thread signals, after the last reference is gone.
Signalling ==
    \A t \in RThreads : rl.pc[t] = "signal" =>
        /\ rl.refs[rl.on[t]] = 0 /\ rl.destroy[rl.on[t]]
        /\ \A u \in RThreads : rl.on[u] = rl.on[t] /\ rl.pc[u] = "signal" => t = u

Waking ==
    \A u \in RThreads : rl.pc[u] = "await" =>
        \/ rl.refs[rl.on[u]] > 0
        \/ \E t \in RThreads : rl.on[t] = rl.on[u] /\ rl.pc[t] = "signal"

PortInv ==
    /\ ~rl.bad
    /\ Counted /\ Placed /\ Findable /\ Unused /\ OneCloser /\ Marked /\ Signalling /\ Waking

\* One thread at a time runs the initialisation, and nobody is past it before it is done.
InitInv ==
    /\ rl.done => rl.stage = 4
    /\ \A t \in RThreads : rl.pc[t] = "init" =>
          ~rl.done /\ \A u \in RThreads : rl.pc[u] = "init" => t = u
    /\ \A t \in RThreads : rl.pc[t] \notin {"ready", "init"} => rl.done

\* The inductive invariant.
LockInv == RefTypeOK /\ PortInv /\ InitInv

-----------------------------------------------------------------------------
(* The count.                                                              *)

LEMMA UsersFinite ==
    ASSUME LockAssumption, NEW p
    PROVE  IsFiniteSet(Users(p)) /\ Cardinality(Users(p)) \in Nat
<1>1. Users(p) \in SUBSET RThreads
  BY DEF Users
<1> QED
  BY <1>1, FS_Subset, FS_CardinalityType DEF LockAssumption

\* A count of zero means that nobody has a reference, a count of one that the only
\* reference is the caller's.
LEMMA NoUsers ==
    ASSUME LockAssumption, Counted, NEW p \in Ports, NEW t \in RThreads,
           rl.on[t] = p, rl.pc[t] \in {"using", "closing"}
    PROVE  /\ rl.refs[p] \in Nat /\ rl.refs[p] > 0
           /\ rl.refs[p] = 1 => Users(p) = {t}
<1>1. IsFiniteSet(Users(p)) /\ Cardinality(Users(p)) \in Nat /\ t \in Users(p)
  BY UsersFinite DEF Users
<1>2. Cardinality(Users(p)) # 0
  BY <1>1, FS_EmptySet
<1>3. Cardinality(Users(p)) = 1 => Users(p) = {t}
  <2> SUFFICES ASSUME Cardinality(Users(p)) = 1 PROVE Users(p) = {t}
    OBVIOUS
  <2>1. PICK x : Users(p) = {x}
    BY <1>1, FS_Singleton
  <2> QED
    BY <1>1, <2>1
<1> QED
  BY <1>1, <1>2, <1>3 DEF Counted

LEMMA CountMoves ==
    ASSUME LockAssumption, Counted, NEW p \in Ports, NEW t
    PROVE  /\ Users(p)' = Users(p) => Cardinality(Users(p)') = rl.refs[p]
           /\ Users(p)' = Users(p) \cup {t} /\ t \notin Users(p)
              => Cardinality(Users(p)') = rl.refs[p] + 1
           /\ Users(p)' = Users(p) \ {t} /\ t \in Users(p)
              => Cardinality(Users(p)') = rl.refs[p] - 1
<1>1. IsFiniteSet(Users(p)) /\ rl.refs[p] = Cardinality(Users(p))
  BY UsersFinite DEF Counted
<1> QED
  BY <1>1, FS_AddElement, FS_RemoveElement

-----------------------------------------------------------------------------
(* The steps.                                                              *)

LEMMA InitialInv ==
    ASSUME LockAssumption, RefInit
    PROVE  LockInv
<1>1. RefTypeOK
  BY DEF RefInit, RefTypeOK, LockAssumption, Places
<1>2. \A p \in Ports : Users(p) = {}
  BY DEF RefInit, Users
<1>3. Counted
  BY <1>2, FS_EmptySet DEF Counted, RefInit
<1>4. PortInv
  BY <1>3 DEF PortInv, RefInit, LockAssumption, Placed, Findable, Unused, OneCloser, Marked,
     Signalling, Waking, Outside
<1>5. InitInv
  BY DEF InitInv, RefInit
<1> QED
  BY <1>1, <1>4, <1>5 DEF LockInv

\* A step of a thread that has no port and takes none.
LEMMA OutsideStep ==
    ASSUME LockAssumption, LockInv, RefTypeOK', NEW t \in RThreads, NEW q \in Outside,
           rl.pc[t] \in Outside, rl'.pc = [rl.pc EXCEPT ![t] = q],
           rl'.on = rl.on, rl'.tree = rl.tree, rl'.mem = rl.mem, rl'.refs = rl.refs,
           rl'.destroy = rl.destroy, rl'.bad = rl.bad
    PROVE  PortInv'
<1> USE DEF Outside
<1>1. RefTypeOK /\ PortInv
  BY DEF LockInv
<1>2. \A u \in RThreads : rl'.pc[u] = rl.pc[u] \/ (u = t /\ rl'.pc[u] \in Outside)
  BY <1>1 DEF RefTypeOK
<1>3. \A u \in RThreads : rl'.pc[u] \in Outside <=> rl.pc[u] \in Outside
  BY <1>2
<1>4. \A p \in Ports : Users(p)' = Users(p)
  BY <1>2 DEF Users
<1>5. Counted'
  BY <1>1, <1>4 DEF PortInv, Counted
<1>6. Placed'
  BY <1>1, <1>3 DEF PortInv, Placed
<1>7. Findable' /\ Unused'
  BY <1>1, <1>2, <1>3 DEF PortInv, Findable, Unused, Placed, RefTypeOK, LockAssumption
<1>8. OneCloser'
  BY <1>1, <1>2 DEF PortInv, OneCloser
<1>9. Marked' /\ Signalling' /\ Waking'
  BY <1>1, <1>2 DEF PortInv, Marked, Signalling, Waking
<1> QED
  BY <1>1, <1>5, <1>6, <1>7, <1>8, <1>9 DEF PortInv

\* Steps that are not of the initialisation leave what it did.
LEMMA InitKept ==
    ASSUME LockInv, rl'.done = rl.done, rl'.stage = rl.stage,
           \A u \in RThreads : rl'.pc[u] = "init" => rl.pc[u] = "init",
           \A u \in RThreads : rl'.pc[u] \notin {"ready", "init"} =>
                                  rl.pc[u] \notin {"ready", "init"}
    PROVE  InitInv'
BY DEF LockInv, InitInv

LEMMA InitSteps ==
    ASSUME LockAssumption, LockInv, NEW t \in RThreads,
           InitCall(t) \/ InitStep(t) \/ InitFails(t)
    PROVE  LockInv'
<1> USE DEF LockAssumption
<1>1. RefTypeOK
  BY DEF LockInv
<1>2. RefTypeOK'
  <2>1. CASE InitCall(t)
    BY <1>1, <2>1 DEF InitCall, Goes, RefTypeOK, Places
  <2>2. CASE InitStep(t)
    <3>1. CASE rl.stage < 4
      BY <1>1, <2>2, <3>1 DEF InitStep, RefTypeOK
    <3>2. CASE ~(rl.stage < 4)
      BY <1>1, <2>2, <3>2 DEF InitStep, Goes, RefTypeOK, Places
    <3> QED
      BY <3>1, <3>2
  <2>3. CASE InitFails(t)
    <3>1. /\ rl.fails + 1 \in 0 .. MaxInitFails
          /\ [rl.pc EXCEPT ![t] = "ready"] \in [RThreads -> Places]
      BY <1>1, <2>3 DEF InitFails, RefTypeOK, Places
    <3>2. 0 \in 0 .. 4
      OBVIOUS
    <3> HIDE DEF LockAssumption
    <3> QED
      BY <1>1, <2>3, <3>1, <3>2, Zenon DEF InitFails, RefTypeOK
  <2> QED
    BY <2>1, <2>2, <2>3
<1>3. PICK q \in Outside :
        /\ rl'.pc = [rl.pc EXCEPT ![t] = q]
        /\ rl.pc[t] \in Outside
        /\ rl'.on = rl.on /\ rl'.tree = rl.tree /\ rl'.mem = rl.mem /\ rl'.refs = rl.refs
        /\ rl'.destroy = rl.destroy /\ rl'.bad = rl.bad
  <2>1. CASE InitCall(t)
    BY <1>1, <2>1 DEF InitCall, Goes, RefTypeOK, Outside
  <2>2. CASE InitStep(t)
    <3>1. CASE rl.stage < 4
      <4>1. rl.pc = [rl.pc EXCEPT ![t] = "init"]
        BY <1>1, <2>2 DEF InitStep, RefTypeOK
      <4> QED
        BY <1>1, <2>2, <3>1, <4>1 DEF InitStep, RefTypeOK, Outside
    <3>2. CASE ~(rl.stage < 4)
      BY <1>1, <2>2, <3>2 DEF InitStep, Goes, RefTypeOK, Outside
    <3> QED
      BY <3>1, <3>2
  <2>3. CASE InitFails(t)
    BY <1>1, <2>3 DEF InitFails, RefTypeOK, Outside
  <2> QED
    BY <2>1, <2>2, <2>3
<1>4. PortInv'
  BY <1>2, <1>3, OutsideStep
<1>5. InitInv'
  <2>1. CASE InitCall(t)
    BY <1>1, <2>1 DEF InitCall, Goes, RefTypeOK, LockInv, InitInv
  <2>2. CASE InitStep(t)
    BY <1>1, <2>2 DEF InitStep, Goes, RefTypeOK, LockInv, InitInv
  <2>3. CASE InitFails(t)
    BY <1>1, <2>3 DEF InitFails, RefTypeOK, LockInv, InitInv
  <2> QED
    BY <2>1, <2>2, <2>3
<1> QED
  BY <1>2, <1>4, <1>5 DEF LockInv

\* A handle that is not in the tree: the call fails.
LEMMA NotFound ==
    ASSUME LockAssumption, LockInv, NEW t \in RThreads, rl.pc[t] = "in", rl' = Goes(t, "ready")
    PROVE  LockInv'
<1>1. RefTypeOK
  BY DEF LockInv
<1>2. RefTypeOK'
  BY <1>1 DEF Goes, RefTypeOK, Places
<1>3. /\ rl'.pc = [rl.pc EXCEPT ![t] = "ready"]
      /\ rl'.on = rl.on /\ rl'.tree = rl.tree /\ rl'.mem = rl.mem /\ rl'.refs = rl.refs
      /\ rl'.destroy = rl.destroy /\ rl'.bad = rl.bad /\ rl'.done = rl.done /\ rl'.stage = rl.stage
  BY <1>1 DEF Goes, RefTypeOK
<1>4. PortInv'
  BY <1>2, <1>3, OutsideStep DEF Outside
<1>5. InitInv'
  BY <1>1, <1>3, InitKept DEF RefTypeOK
<1> QED
  BY <1>2, <1>4, <1>5 DEF LockInv

LEMMA CreateStep ==
    ASSUME LockAssumption, LockInv, NEW t \in RThreads, NEW p \in Ports, Create(t, p)
    PROVE  LockInv'
<1> USE DEF Outside
<1>1. RefTypeOK /\ PortInv
  BY DEF LockInv
<1>2. RefTypeOK'
  BY <1>1 DEF Create, RefTypeOK, Places
<1>3. /\ rl.pc[t] = "in" /\ rl.mem[p] = "none"
      /\ rl'.pc = [rl.pc EXCEPT ![t] = "ready"] /\ rl'.mem = [rl.mem EXCEPT ![p] = "live"]
      /\ rl'.tree = rl.tree \cup {p}
      /\ rl'.on = rl.on /\ rl'.refs = rl.refs /\ rl'.destroy = rl.destroy /\ rl'.bad = rl.bad
      /\ rl'.done = rl.done /\ rl'.stage = rl.stage
  BY <1>1 DEF Create, RefTypeOK
<1>4. /\ \A u \in RThreads : rl'.pc[u] = IF u = t THEN "ready" ELSE rl.pc[u]
      /\ \A r \in Ports : rl'.mem[r] = IF r = p THEN "live" ELSE rl.mem[r]
  BY <1>1, <1>3 DEF RefTypeOK
<1>5. ~rl.destroy[p] /\ \A u \in RThreads : rl.on[u] # p
  BY <1>1, <1>3 DEF PortInv, Unused, RefTypeOK
<1>6. \A r \in Ports : Users(r)' = Users(r)
  BY <1>3, <1>4 DEF Users
<1>7. Counted' /\ Placed'
  BY <1>1, <1>3, <1>4, <1>6 DEF PortInv, Counted, Placed
<1>8. Findable'
  BY <1>1, <1>2, <1>3, <1>4, <1>5 DEF PortInv, Findable, RefTypeOK, Placed, LockAssumption
<1>9. Unused'
  BY <1>1, <1>3, <1>4 DEF PortInv, Unused
<1>10. OneCloser' /\ Signalling' /\ Waking'
  BY <1>1, <1>3, <1>4 DEF PortInv, OneCloser, Signalling, Waking
<1>11. Marked'
  BY <1>1, <1>3, <1>4, <1>5 DEF PortInv, Marked
<1>12. InitInv'
  BY <1>3, <1>4, InitKept
<1> QED
  BY <1>1, <1>2, <1>3, <1>7, <1>8, <1>9, <1>10, <1>11, <1>12 DEF LockInv, PortInv

\* ts_tree_find_and_ref and ts_tree_del_and_ref on a handle of the tree: one more
\* reference, on a port that nobody is closing yet.
LEMMA TakeStep ==
    ASSUME LockAssumption, LockInv, RefTypeOK', NEW t \in RThreads, NEW p \in rl.tree,
           NEW q \in {"using", "closing"}, rl.pc[t] = "in",
           rl'.pc = [rl.pc EXCEPT ![t] = q], rl'.on = [rl.on EXCEPT ![t] = p],
           rl'.refs = [rl.refs EXCEPT ![p] = @ + 1],
           rl'.tree \subseteq rl.tree, q = "closing" => p \notin rl'.tree,
           rl'.mem = rl.mem, rl'.destroy = rl.destroy, ~rl'.bad,
           rl'.done = rl.done, rl'.stage = rl.stage
    PROVE  LockInv'
<1> USE DEF Outside
<1>1. RefTypeOK /\ PortInv
  BY DEF LockInv
<1>2. p \in Ports /\ rl.mem[p] = "live" /\ ~rl.destroy[p] /\ rl.on[t] = 0 /\ p # 0
  BY <1>1 DEF PortInv, Findable, Placed, RefTypeOK, LockAssumption
<1>3. /\ \A u \in RThreads : rl'.pc[u] = IF u = t THEN q ELSE rl.pc[u]
      /\ \A u \in RThreads : rl'.on[u] = IF u = t THEN p ELSE rl.on[u]
      /\ \A r \in Ports : rl'.refs[r] = IF r = p THEN rl.refs[p] + 1 ELSE rl.refs[r]
  BY <1>1 DEF RefTypeOK
<1>4. \A u \in RThreads : rl.on[u] = p => rl.pc[u] = "using"
  BY <1>1 DEF PortInv, Findable
<1>5. Counted'
  <2>1. t \notin Users(p) /\ Users(p)' = Users(p) \cup {t}
    BY <1>3 DEF Users
  <2>2. ASSUME NEW r \in Ports, r # p PROVE Users(r)' = Users(r)
    BY <1>3, <2>2 DEF Users
  <2> QED
    BY <1>1, <1>2, <1>3, <2>1, <2>2, CountMoves DEF Counted, PortInv
<1>6. Placed'
  BY <1>1, <1>2, <1>3 DEF PortInv, Placed
<1>7. Findable' /\ Unused'
  BY <1>1, <1>2, <1>3 DEF PortInv, Findable, Unused
<1>8. OneCloser'
  BY <1>1, <1>3, <1>4 DEF PortInv, OneCloser
<1>9. Marked'
  BY <1>1, <1>2, <1>3 DEF PortInv, Marked
<1>10. ASSUME NEW u \in RThreads, rl'.pc[u] \in {"signal", "await"}
       PROVE  u # t /\ rl'.pc[u] = rl.pc[u] /\ rl'.on[u] = rl.on[u] /\ rl.on[u] \in Ports \ {p}
  <2>1. u # t /\ rl'.pc[u] = rl.pc[u] /\ rl'.on[u] = rl.on[u]
    BY <1>3, <1>10
  <2>2. rl.on[u] # p /\ rl.on[u] # 0
    BY <1>1, <1>4, <1>10, <2>1 DEF PortInv, Placed
  <2> QED
    BY <1>1, <2>1, <2>2 DEF RefTypeOK
<1>11. Signalling'
  BY <1>1, <1>3, <1>10 DEF PortInv, Signalling
<1>12. Waking'
  <2> SUFFICES ASSUME NEW u \in RThreads, rl'.pc[u] = "await"
               PROVE  \/ rl'.refs[rl'.on[u]] > 0
                      \/ \E v \in RThreads : rl'.on[v] = rl'.on[u] /\ rl'.pc[v] = "signal"
    BY DEF Waking
  <2>1. rl.pc[u] = "await" /\ rl'.on[u] = rl.on[u] /\ rl.on[u] \in Ports \ {p}
    BY <1>10
  <2> QED
    BY <1>1, <1>3, <2>1 DEF PortInv, Waking
<1>13. InitInv'
  BY <1>3, InitKept
<1> QED
  BY <1>5, <1>6, <1>7, <1>8, <1>9, <1>11, <1>12, <1>13 DEF LockInv, PortInv

LEMMA FindStep ==
    ASSUME LockAssumption, LockInv, NEW t \in RThreads, NEW p \in Ports, FindAndRef(t, p)
    PROVE  LockInv'
<1>1. RefTypeOK /\ PortInv
  BY DEF LockInv
<1>2. CASE p \notin rl.tree
  BY <1>2, NotFound DEF FindAndRef
<1>3. CASE p \in rl.tree
  <2>1. /\ rl.pc[t] = "in"
        /\ rl' = [rl EXCEPT !.refs[p] = @ + 1, !.on[t] = p, !.pc[t] = "using",
                            !.bad = @ \/ rl.destroy[p]]
    BY <1>3 DEF FindAndRef
  <2>2. /\ rl'.pc = [rl.pc EXCEPT ![t] = "using"] /\ rl'.on = [rl.on EXCEPT ![t] = p]
        /\ rl'.refs = [rl.refs EXCEPT ![p] = @ + 1]
        /\ rl'.tree = rl.tree /\ rl'.mem = rl.mem /\ rl'.destroy = rl.destroy
        /\ rl'.done = rl.done /\ rl'.stage = rl.stage
        /\ rl'.bad = (rl.bad \/ rl.destroy[p])
    BY <1>1, <2>1 DEF RefTypeOK
  <2>3. rl'.bad \in BOOLEAN /\ ~rl'.bad
    BY <1>1, <1>3, <2>2 DEF PortInv, Findable
  <2>4. RefTypeOK'
    <3>1. /\ [rl.pc EXCEPT ![t] = "using"] \in [RThreads -> Places]
          /\ [rl.on EXCEPT ![t] = p] \in [RThreads -> Ports \cup {0}]
          /\ [rl.refs EXCEPT ![p] = @ + 1] \in [Ports -> Nat]
      BY <1>1 DEF RefTypeOK, Places
    <3>2. (rl.bad \/ rl.destroy[p]) \in BOOLEAN
      OBVIOUS
    <3> QED
      BY <1>1, <2>1, <3>1, <3>2 DEF RefTypeOK
  <2> QED
    BY <1>3, <2>1, <2>2, <2>3, <2>4, TakeStep
<1> QED
  BY <1>2, <1>3

LEMMA DelStep ==
    ASSUME LockAssumption, LockInv, NEW t \in RThreads, NEW p \in Ports, DelAndRef(t, p)
    PROVE  LockInv'
<1>1. RefTypeOK /\ PortInv
  BY DEF LockInv
<1>2. CASE p \notin rl.tree
  BY <1>2, NotFound DEF DelAndRef
<1>3. CASE p \in rl.tree
  <2>1. /\ rl.pc[t] = "in"
        /\ rl' = [rl EXCEPT !.tree = @ \ {p}, !.refs[p] = @ + 1, !.on[t] = p,
                            !.pc[t] = "closing"]
    BY <1>3 DEF DelAndRef
  <2>2. /\ rl'.pc = [rl.pc EXCEPT ![t] = "closing"] /\ rl'.on = [rl.on EXCEPT ![t] = p]
        /\ rl'.refs = [rl.refs EXCEPT ![p] = @ + 1]
        /\ rl'.tree = rl.tree \ {p} /\ rl'.mem = rl.mem /\ rl'.destroy = rl.destroy
        /\ rl'.done = rl.done /\ rl'.stage = rl.stage /\ rl'.bad = rl.bad
    BY <1>1, <2>1 DEF RefTypeOK
  <2>3. RefTypeOK' /\ ~rl'.bad
    <3>1. /\ [rl.pc EXCEPT ![t] = "closing"] \in [RThreads -> Places]
          /\ [rl.on EXCEPT ![t] = p] \in [RThreads -> Ports \cup {0}]
          /\ [rl.refs EXCEPT ![p] = @ + 1] \in [Ports -> Nat]
          /\ rl.tree \ {p} \in SUBSET Ports
      BY <1>1 DEF RefTypeOK, Places
    <3>2. RefTypeOK'
      BY <1>1, <2>1, <3>1 DEF RefTypeOK
    <3> QED
      BY <1>1, <2>2, <3>2 DEF PortInv
  <2> QED
    BY <1>3, <2>1, <2>2, <2>3, TakeStep
<1> QED
  BY <1>2, <1>3

\* reflock_unref: the thread that drops the last reference under a destroyer becomes the
\* one that signals it.
LEMMA UnrefStep ==
    ASSUME LockAssumption, LockInv, NEW t \in RThreads, Unref(t)
    PROVE  LockInv'
<1> USE DEF Outside
<1>1. RefTypeOK /\ PortInv /\ rl.pc[t] = "using"
  BY DEF LockInv, Unref
<1>2. PICK p \in Ports : p = rl.on[t] /\ p # 0 /\ rl.mem[p] = "live"
  BY <1>1 DEF PortInv, Placed, Unused, RefTypeOK, LockAssumption
<1> DEFINE last == rl.refs[p] = 1 /\ rl.destroy[p]
<1>3. rl.refs[p] \in Nat /\ rl.refs[p] > 0
  BY <1>1, <1>2, NoUsers DEF PortInv
<1>4. /\ rl'.pc = [rl.pc EXCEPT ![t] = IF last THEN "signal" ELSE "ready"]
      /\ rl'.on = [rl.on EXCEPT ![t] = IF last THEN p ELSE 0]
      /\ rl'.refs = [rl.refs EXCEPT ![p] = @ - 1]
      /\ rl'.tree = rl.tree /\ rl'.mem = rl.mem /\ rl'.destroy = rl.destroy
      /\ rl'.done = rl.done /\ rl'.stage = rl.stage /\ rl'.bad = rl.bad
  BY <1>1, <1>2 DEF Unref, RefTypeOK
<1>5. RefTypeOK'
  <2>1. /\ [rl.pc EXCEPT ![t] = IF last THEN "signal" ELSE "ready"] \in [RThreads -> Places]
        /\ [rl.on EXCEPT ![t] = IF last THEN p ELSE 0] \in [RThreads -> Ports \cup {0}]
        /\ [rl.refs EXCEPT ![p] = @ - 1] \in [Ports -> Nat]
    BY <1>1, <1>2, <1>3 DEF RefTypeOK, Places
  <2> QED
    BY <1>1, <1>2, <2>1 DEF Unref, RefTypeOK
<1>6. /\ \A u \in RThreads : rl'.pc[u] = IF u = t THEN IF last THEN "signal" ELSE "ready"
                                         ELSE rl.pc[u]
      /\ \A u \in RThreads : rl'.on[u] = IF u = t THEN IF last THEN p ELSE 0 ELSE rl.on[u]
      /\ \A r \in Ports : rl'.refs[r] = IF r = p THEN rl.refs[p] - 1 ELSE rl.refs[r]
  BY <1>1, <1>4 DEF RefTypeOK
<1>8. Counted'
  <2>1. t \in Users(p) /\ Users(p)' = Users(p) \ {t}
    BY <1>1, <1>2, <1>6 DEF Users
  <2>2. ASSUME NEW r \in Ports, r # p PROVE Users(r)' = Users(r)
    BY <1>1, <1>2, <1>6, <2>2 DEF Users
  <2> QED
    BY <1>1, <1>2, <1>6, <2>1, <2>2, CountMoves DEF Counted, PortInv
<1>9. Placed'
  BY <1>1, <1>2, <1>6 DEF PortInv, Placed
<1>10. Findable' /\ Unused'
  BY <1>1, <1>2, <1>4, <1>6 DEF PortInv, Findable, Unused, RefTypeOK, LockAssumption
<1>11. OneCloser' /\ Marked'
  BY <1>1, <1>4, <1>6 DEF PortInv, OneCloser, Marked
<1>12. \A u \in RThreads : rl.pc[u] = "signal" => rl.on[u] # p /\ rl.on[u] \in Ports
  BY <1>1, <1>3 DEF PortInv, Signalling, Placed, RefTypeOK
<1>13. Signalling'
  BY <1>1, <1>3, <1>4, <1>6, <1>12 DEF PortInv, Signalling
<1>14. Waking'
  <2> SUFFICES ASSUME NEW u \in RThreads, rl'.pc[u] = "await"
               PROVE  \/ rl'.refs[rl'.on[u]] > 0
                      \/ \E v \in RThreads : rl'.on[v] = rl'.on[u] /\ rl'.pc[v] = "signal"
    BY DEF Waking
  <2>1. u # t /\ rl.pc[u] = "await" /\ rl'.on[u] = rl.on[u] /\ rl.on[u] \in Ports
    BY <1>1, <1>6 DEF PortInv, Placed, RefTypeOK
  <2>2. CASE rl.on[u] = p
    <3>1. rl.destroy[p]
      BY <1>1, <2>1, <2>2 DEF PortInv, Marked
    <3>2. last => rl'.on[t] = p /\ rl'.pc[t] = "signal"
      BY <1>6
    <3>3. ~last => rl'.refs[p] > 0
      BY <1>2, <1>3, <1>6, <3>1
    <3> QED
      BY <2>1, <2>2, <3>2, <3>3
  <2>3. CASE rl.on[u] # p
    BY <1>1, <1>6, <2>1, <2>3 DEF PortInv, Waking
  <2> QED
    BY <2>2, <2>3
<1>15. InitInv'
  BY <1>1, <1>4, <1>6, InitKept
<1> QED
  BY <1>1, <1>4, <1>5, <1>8, <1>9, <1>10, <1>11, <1>13, <1>14, <1>15 DEF LockInv, PortInv

\* port_delete: the port leaves the hands of the threads gone, the only ones that had it.
LEMMA FreeStep ==
    ASSUME LockAssumption, LockInv, RefTypeOK', NEW p \in Ports, NEW gone \in SUBSET RThreads,
           rl.mem[p] = "live", p \notin rl.tree,
           \A u \in RThreads : rl.on[u] = p <=> u \in gone,
           \A u \in RThreads : rl'.pc[u] = IF u \in gone THEN "ready" ELSE rl.pc[u],
           \A u \in RThreads : rl'.on[u] = IF u \in gone THEN 0 ELSE rl.on[u],
           rl'.mem = [rl.mem EXCEPT ![p] = "freed"], rl'.refs = [rl.refs EXCEPT ![p] = 0],
           rl'.destroy = [rl.destroy EXCEPT ![p] = TRUE], rl'.tree = rl.tree, ~rl'.bad,
           rl'.done = rl.done, rl'.stage = rl.stage
    PROVE  LockInv'
<1> USE DEF Outside
<1>1. RefTypeOK /\ PortInv
  BY DEF LockInv
<1>2. /\ \A r \in Ports : rl'.mem[r] = IF r = p THEN "freed" ELSE rl.mem[r]
      /\ \A r \in Ports : rl'.refs[r] = IF r = p THEN 0 ELSE rl.refs[r]
      /\ rl'.destroy[p] /\ \A r \in Ports \ {p} : rl'.destroy[r] = rl.destroy[r]
      /\ p # 0 /\ rl.tree \subseteq Ports /\ 0 \notin Ports
  BY <1>1 DEF RefTypeOK, LockAssumption
<1>3. Counted'
  <2>1. Users(p)' = {}
    BY <1>2 DEF Users
  <2>2. ASSUME NEW r \in Ports, r # p PROVE Users(r)' = Users(r)
    BY <1>2, <2>2 DEF Users
  <2> QED
    BY <1>1, <1>2, <2>1, <2>2, CountMoves, FS_EmptySet DEF Counted, PortInv
<1>4. Placed'
  BY <1>1 DEF PortInv, Placed
<1>5. Findable'
  BY <1>1, <1>2 DEF PortInv, Findable
<1>6. Unused'
  BY <1>1, <1>2 DEF PortInv, Unused
<1>7. OneCloser'
  BY <1>1 DEF PortInv, OneCloser
<1>8. ASSUME NEW u \in RThreads, rl'.pc[u] # "ready", rl'.on[u] # 0
      PROVE  u \notin gone /\ rl'.pc[u] = rl.pc[u] /\ rl'.on[u] = rl.on[u]
             /\ rl.on[u] \in Ports \ {p}
  BY <1>1, <1>8 DEF RefTypeOK
<1>9. \A u \in RThreads : rl'.pc[u] \in {"closing", "await", "signal"} => rl'.on[u] # 0
  BY <1>4 DEF Placed
<1>10. Marked'
  BY <1>1, <1>2, <1>8, <1>9 DEF PortInv, Marked
<1>11. Signalling'
  BY <1>1, <1>2, <1>8, <1>9 DEF PortInv, Signalling
<1>12. Waking'
  BY <1>1, <1>2, <1>8, <1>9 DEF PortInv, Waking
<1>13. InitInv'
  BY InitKept
<1> QED
  BY <1>3, <1>4, <1>5, <1>6, <1>7, <1>10, <1>11, <1>12, <1>13 DEF LockInv, PortInv

\* reflock_unref_and_destroy: the closer frees the port if its reference was the only
\* one, and otherwise waits, with at least one other thread left to signal it.
LEMMA DestroyStep ==
    ASSUME LockAssumption, LockInv, NEW t \in RThreads, UnrefAndDestroy(t)
    PROVE  LockInv'
<1> USE DEF Outside
<1>1. RefTypeOK /\ PortInv /\ rl.pc[t] = "closing"
  BY DEF LockInv, UnrefAndDestroy
<1>2. PICK p \in Ports : p = rl.on[t] /\ p # 0 /\ rl.mem[p] = "live"
  BY <1>1 DEF PortInv, Placed, Unused, RefTypeOK, LockAssumption
<1>3. /\ rl.refs[p] \in Nat /\ rl.refs[p] > 0
      /\ rl.refs[p] = 1 => Users(p) = {t}
  BY <1>1, <1>2, NoUsers DEF PortInv
<1>4. ~rl.destroy[p] /\ p \notin rl.tree
  BY <1>1, <1>2 DEF PortInv, Marked, Findable
<1>5. ASSUME NEW u \in RThreads, u # t, rl.on[u] = p PROVE rl.pc[u] = "using"
  <2>1. rl.pc[u] \notin Outside /\ rl.pc[u] \in Places
    BY <1>1, <1>2, <1>5 DEF PortInv, Placed, RefTypeOK
  <2>2. rl.pc[u] \notin {"closing", "await"}
    BY <1>1, <1>2, <1>5 DEF PortInv, OneCloser
  <2>3. rl.pc[u] # "signal"
    BY <1>1, <1>4, <1>5 DEF PortInv, Signalling
  <2> QED
    BY <2>1, <2>2, <2>3 DEF Places
<1>6. CASE rl.refs[p] = 1
  <2>1. rl' = [Freed(p) EXCEPT !.refs[p] = 0, !.destroy[p] = TRUE, !.pc[t] = "ready",
                               !.on[t] = 0, !.bad = @ \/ rl.destroy[p]]
    BY <1>2, <1>6 DEF UnrefAndDestroy
  <2>2. /\ [rl.pc EXCEPT ![t] = "ready"] \in [RThreads -> Places]
        /\ [rl.on EXCEPT ![t] = 0] \in [RThreads -> Ports \cup {0}]
        /\ [rl.refs EXCEPT ![p] = 0] \in [Ports -> Nat]
        /\ [rl.mem EXCEPT ![p] = "freed"] \in [Ports -> {"none", "live", "freed"}]
        /\ [rl.destroy EXCEPT ![p] = TRUE] \in [Ports -> BOOLEAN]
    BY <1>1 DEF RefTypeOK, Places
  <2>3. (rl.bad \/ rl.destroy[p]) \in BOOLEAN /\ ~(rl.bad \/ rl.destroy[p])
    BY <1>1, <1>4 DEF PortInv
  <2>4. /\ rl'.pc = [rl.pc EXCEPT ![t] = "ready"] /\ rl'.on = [rl.on EXCEPT ![t] = 0]
        /\ rl'.mem = [rl.mem EXCEPT ![p] = "freed"] /\ rl'.refs = [rl.refs EXCEPT ![p] = 0]
        /\ rl'.destroy = [rl.destroy EXCEPT ![p] = TRUE] /\ rl'.tree = rl.tree
        /\ rl'.bad = (rl.bad \/ rl.destroy[p]) /\ rl'.done = rl.done /\ rl'.stage = rl.stage
    BY <1>1, <2>1 DEF Freed, RefTypeOK
  <2>5. RefTypeOK'
    BY <1>1, <2>1, <2>2, <2>3 DEF Freed, RefTypeOK
  <2>6. \A u \in RThreads : rl.on[u] = p <=> u \in {t}
    BY <1>2, <1>3, <1>5, <1>6 DEF Users
  <2>7. /\ \A u \in RThreads : rl'.pc[u] = IF u \in {t} THEN "ready" ELSE rl.pc[u]
        /\ \A u \in RThreads : rl'.on[u] = IF u \in {t} THEN 0 ELSE rl.on[u]
    BY <1>1, <2>4 DEF RefTypeOK
  <2>8. ~rl'.bad /\ {t} \in SUBSET RThreads
    BY <2>3, <2>4, Zenon
  <2> QED
    BY <1>2, <1>4, <2>4, <2>5, <2>6, <2>7, <2>8, FreeStep
<1>7. CASE rl.refs[p] # 1
  <2>1. rl' = [rl EXCEPT !.refs[p] = @ - 1, !.destroy[p] = TRUE, !.pc[t] = "await",
                         !.bad = @ \/ rl.destroy[p]]
    BY <1>2, <1>7 DEF UnrefAndDestroy
  <2>2. /\ [rl.pc EXCEPT ![t] = "await"] \in [RThreads -> Places]
        /\ [rl.refs EXCEPT ![p] = @ - 1] \in [Ports -> Nat]
        /\ [rl.destroy EXCEPT ![p] = TRUE] \in [Ports -> BOOLEAN]
    BY <1>1, <1>3 DEF RefTypeOK, Places
  <2>3. (rl.bad \/ rl.destroy[p]) \in BOOLEAN /\ ~(rl.bad \/ rl.destroy[p])
    BY <1>1, <1>4 DEF PortInv
  <2>4. /\ rl'.pc = [rl.pc EXCEPT ![t] = "await"] /\ rl'.on = rl.on /\ rl'.mem = rl.mem
        /\ rl'.refs = [rl.refs EXCEPT ![p] = @ - 1]
        /\ rl'.destroy = [rl.destroy EXCEPT ![p] = TRUE] /\ rl'.tree = rl.tree
        /\ rl'.bad = (rl.bad \/ rl.destroy[p]) /\ rl'.done = rl.done /\ rl'.stage = rl.stage
    BY <1>1, <2>1 DEF RefTypeOK
  <2>5. RefTypeOK'
    BY <1>1, <2>1, <2>2, <2>3 DEF RefTypeOK
  <2>6. /\ \A u \in RThreads : rl'.pc[u] = IF u = t THEN "await" ELSE rl.pc[u]
        /\ \A r \in Ports : rl'.refs[r] = IF r = p THEN rl.refs[p] - 1 ELSE rl.refs[r]
        /\ rl'.destroy[p] /\ \A r \in Ports \ {p} : rl'.destroy[r] = rl.destroy[r]
    BY <1>1, <2>4 DEF RefTypeOK
  <2>7. rl'.refs[p] > 0 /\ ~rl'.bad
    <3>1. rl'.refs[p] > 0
      BY <1>3, <1>7, <2>6
    <3>2. ~rl'.bad
      BY <2>3, <2>4, Zenon
    <3> QED
      BY <3>1, <3>2
  <2>8. Counted'
    <3>1. t \in Users(p) /\ Users(p)' = Users(p) \ {t}
      BY <1>1, <1>2, <2>4, <2>6 DEF Users
    <3>2. ASSUME NEW r \in Ports, r # p PROVE Users(r)' = Users(r)
      BY <1>2, <2>4, <2>6, <3>2 DEF Users
    <3> QED
      BY <1>1, <2>6, <3>1, <3>2, CountMoves DEF Counted, PortInv
  <2>9. Placed'
    BY <1>1, <2>4, <2>6 DEF PortInv, Placed
  <2>10. Findable' /\ Unused'
    BY <1>1, <1>2, <1>4, <2>4, <2>6 DEF PortInv, Findable, Unused, RefTypeOK
  <2>11. OneCloser'
    BY <1>1, <2>4, <2>6 DEF PortInv, OneCloser
  <2>12. \A u \in RThreads : rl.pc[u] \in {"closing", "await", "signal"} =>
            rl.on[u] \in Ports /\ (rl.on[u] = p => u = t)
    BY <1>1, <1>5 DEF PortInv, Placed, RefTypeOK
  <2>13. Marked'
    <3>1. ASSUME NEW u \in RThreads
          PROVE  /\ rl'.pc[u] = "closing" => ~rl'.destroy[rl'.on[u]]
                 /\ rl'.pc[u] = "await" => rl'.destroy[rl'.on[u]]
      BY <1>1, <1>2, <2>4, <2>6, <2>12 DEF PortInv, Marked
    <3>2. ASSUME NEW r \in Ports, rl'.destroy[r], rl'.mem[r] = "live"
          PROVE  \E u \in RThreads : rl'.on[u] = r /\ rl'.pc[u] = "await"
      BY <1>1, <1>2, <2>4, <2>6, <3>2 DEF PortInv, Marked
    <3> QED
      BY <3>1, <3>2 DEF Marked
  <2>14. Signalling'
    BY <1>1, <2>4, <2>6, <2>12 DEF PortInv, Signalling
  <2>15. Waking'
    <3> SUFFICES ASSUME NEW u \in RThreads, rl'.pc[u] = "await"
                 PROVE  \/ rl'.refs[rl'.on[u]] > 0
                        \/ \E v \in RThreads : rl'.on[v] = rl'.on[u] /\ rl'.pc[v] = "signal"
      BY DEF Waking
    <3>1. CASE u = t
      BY <1>2, <2>4, <2>7, <3>1
    <3>2. CASE u # t
      <4>1. rl.pc[u] = "await" /\ rl.on[u] \in Ports \ {p} /\ rl'.on[u] = rl.on[u]
        BY <2>4, <2>6, <2>12, <3>2
      <4> QED
        BY <1>1, <2>4, <2>6, <4>1 DEF PortInv, Waking
    <3> QED
      BY <3>1, <3>2
  <2>16. InitInv'
    BY <1>1, <2>4, <2>6, InitKept
  <2> QED
    BY <2>5, <2>7, <2>8, <2>9, <2>10, <2>11, <2>13, <2>14, <2>15, <2>16 DEF LockInv, PortInv
<1> QED
  BY <1>6, <1>7

\* The rendezvous of the signaller with the closer: nobody else has the port.
LEMMA RendezvousStep ==
    ASSUME LockAssumption, LockInv, NEW t \in RThreads, NEW u \in RThreads, Rendezvous(t, u)
    PROVE  LockInv'
<1> USE DEF Outside
<1>1. RefTypeOK /\ PortInv /\ rl.pc[t] = "signal" /\ rl.pc[u] = "await" /\ rl.on[u] = rl.on[t]
  BY DEF LockInv, Rendezvous
<1>2. PICK p \in Ports : p = rl.on[t] /\ p # 0 /\ rl.mem[p] = "live"
  BY <1>1 DEF PortInv, Placed, Unused, RefTypeOK, LockAssumption
<1>3. rl.refs[p] = 0 /\ rl.destroy[p] /\ p \notin rl.tree
  BY <1>1, <1>2 DEF PortInv, Signalling, Findable
<1>4. Users(p) = {}
  BY <1>1, <1>2, <1>3, UsersFinite, FS_EmptySet DEF PortInv, Counted
<1>5. \A v \in RThreads : rl.on[v] = p <=> v \in {t, u}
  <2>1. ASSUME NEW v \in RThreads, rl.on[v] = p PROVE v \in {t, u}
    <3>1. rl.pc[v] \in Places /\ rl.pc[v] \notin Outside
      BY <1>1, <1>2, <2>1 DEF PortInv, Placed, RefTypeOK
    <3>2. rl.pc[v] \notin {"using", "closing"}
      BY <1>4, <2>1 DEF Users
    <3>3. rl.pc[v] = "signal" => v = t
      BY <1>1, <1>2, <2>1 DEF PortInv, Signalling
    <3>4. rl.pc[v] = "await" => v = u
      BY <1>1, <1>2, <2>1 DEF PortInv, OneCloser
    <3> QED
      BY <3>1, <3>2, <3>3, <3>4 DEF Places
  <2> QED
    BY <1>1, <1>2, <2>1
<1>6. rl' = [Freed(p) EXCEPT !.pc[t] = "ready", !.on[t] = 0, !.pc[u] = "ready", !.on[u] = 0,
                             !.bad = @ \/ rl.refs[p] # 0]
  BY <1>2 DEF Rendezvous
<1>7. /\ [[rl.pc EXCEPT ![t] = "ready"] EXCEPT ![u] = "ready"] \in [RThreads -> Places]
      /\ [[rl.on EXCEPT ![t] = 0] EXCEPT ![u] = 0] \in [RThreads -> Ports \cup {0}]
      /\ [rl.mem EXCEPT ![p] = "freed"] \in [Ports -> {"none", "live", "freed"}]
  BY <1>1 DEF RefTypeOK, Places
<1>8. (rl.bad \/ rl.refs[p] # 0) \in BOOLEAN /\ ~(rl.bad \/ rl.refs[p] # 0)
  BY <1>1, <1>3 DEF PortInv
<1>9. /\ rl'.pc = [[rl.pc EXCEPT ![t] = "ready"] EXCEPT ![u] = "ready"]
      /\ rl'.on = [[rl.on EXCEPT ![t] = 0] EXCEPT ![u] = 0]
      /\ rl'.mem = [rl.mem EXCEPT ![p] = "freed"] /\ rl'.refs = rl.refs
      /\ rl'.destroy = rl.destroy /\ rl'.tree = rl.tree
      /\ rl'.bad = (rl.bad \/ rl.refs[p] # 0) /\ rl'.done = rl.done /\ rl'.stage = rl.stage
  BY <1>1, <1>6 DEF Freed, RefTypeOK
<1>10. RefTypeOK'
  BY <1>1, <1>6, <1>7, <1>8 DEF Freed, RefTypeOK
<1>11. /\ \A v \in RThreads : rl'.pc[v] = IF v \in {t, u} THEN "ready" ELSE rl.pc[v]
       /\ \A v \in RThreads : rl'.on[v] = IF v \in {t, u} THEN 0 ELSE rl.on[v]
       /\ rl'.refs = [rl.refs EXCEPT ![p] = 0]
       /\ rl'.destroy = [rl.destroy EXCEPT ![p] = TRUE]
  BY <1>1, <1>3, <1>9 DEF RefTypeOK
<1>12. ~rl'.bad /\ {t, u} \in SUBSET RThreads
  BY <1>8, <1>9
<1> QED
  BY <1>2, <1>3, <1>5, <1>9, <1>10, <1>11, <1>12, FreeStep

LEMMA LockNext ==
    ASSUME LockAssumption, LockInv, [RefNext]_rl
    PROVE  LockInv'
<1>1. CASE UNCHANGED rl
  BY <1>1 DEF LockInv, RefTypeOK, PortInv, Counted, Users, Placed, Findable, Unused, OneCloser,
     Marked, Signalling, Waking, InitInv
<1>2. CASE RefNext
  BY <1>2, InitSteps, CreateStep, FindStep, DelStep, UnrefStep, DestroyStep, RendezvousStep
     DEF RefNext
<1> QED
  BY <1>1, <1>2

-----------------------------------------------------------------------------
\* The counts, the marks and the places of the threads fit together in every reachable
\* state of init, the handle tree and the reference locks.
THEOREM LockInductive ==
    ASSUME LockAssumption
    PROVE  RefSpec => []LockInv
<1>1. RefInit => LockInv
  BY InitialInv
<1>2. LockInv /\ [RefNext]_rl => LockInv'
  BY LockNext
<1> QED
  BY <1>1, <1>2, PTL DEF RefSpec

\* For any number of threads that create, use and close ports at once: epoll_close frees
\* a port only when no thread uses it, no assertion of the lock fails, a closer that waits
\* has a thread left to wake it and a signaller a closer to meet, and nobody gets past
\* init () before it is complete.
THEOREM PortsClosedSafely ==
    ASSUME LockAssumption
    PROVE  RefSpec => []PortClosedSafely
<1>1. LockInv => PortClosedSafely
  <2> SUFFICES ASSUME LockInv PROVE PortClosedSafely
    OBVIOUS
  <2>1. RefTypeOK /\ PortInv /\ InitInv
    BY DEF LockInv
  <2>2. PortAlive
    BY <2>1 DEF PortAlive, PortInv, Unused, RefTypeOK
  <2>3. ASSUME NEW u \in RThreads, rl.pc[u] = "await"
        PROVE  \E t \in RThreads : rl.on[t] = rl.on[u] /\ rl.pc[t] \in {"using", "signal"}
    <3>1. PICK p \in Ports : p = rl.on[u]
      BY <2>1, <2>3 DEF PortInv, Placed, RefTypeOK, Outside
    <3>2. CASE rl.refs[p] > 0
      <4>1. Cardinality(Users(p)) # 0
        BY <2>1, <3>2 DEF PortInv, Counted
      <4>2. PICK t \in Users(p) : TRUE
        BY <4>1, FS_EmptySet
      <4>3. t \in RThreads /\ rl.on[t] = rl.on[u] /\ rl.pc[t] \in {"using", "closing"}
        BY <3>1, <4>2 DEF Users
      <4>4. rl.pc[t] # "closing"
        BY <2>1, <2>3, <4>3 DEF PortInv, OneCloser
      <4> QED
        BY <4>3, <4>4
    <3>3. CASE ~(rl.refs[p] > 0)
      BY <2>1, <2>3, <3>1, <3>3 DEF PortInv, Waking
    <3> QED
      BY <3>2, <3>3
  <2>4. ASSUME NEW t \in RThreads, rl.pc[t] = "signal"
        PROVE  \E u \in RThreads : rl.on[u] = rl.on[t] /\ rl.pc[u] = "await"
    <3>1. rl.on[t] \in Ports /\ rl.mem[rl.on[t]] = "live"
      BY <2>1, <2>4 DEF PortInv, Placed, Unused, RefTypeOK, Outside
    <3> QED
      BY <2>1, <2>4, <3>1 DEF PortInv, Signalling, Marked
  <2>5. InitPublished
    BY <2>1 DEF InitPublished, InitInv
  <2> QED
    BY <2>2, <2>3, <2>4, <2>5 DEF PortClosedSafely, DestroyerWoken
<1> QED
  BY <1>1, LockInductive, PTL

(***************************************************************************)
(* The life of a loop.                                                     *)
(***************************************************************************)
Mishaps == SUBSET ((AllBackends \cup {"none"}) \X Descriptors)
LoopState ==
    [life : {"none", "up", "gone"}, backend : AllBackends \cup {"none"}, default : BOOLEAN,
     active : SUBSET Internal, refs : Int, users : 0 .. 1, open : SUBSET Descriptors,
     mine : SUBSET Descriptors, bad : Mishaps,
     postfork : 0 .. 3, child : BOOLEAN, forks : Nat]

\* Nothing was made yet.
Blank(s) ==
    /\ s.open = {} /\ s.mine = {} /\ s.active = {} /\ s.bad = {}
    /\ s.postfork = 0 /\ ~s.child /\ s.refs = s.users

\* What the backend holds: epoll, port, io_uring, linuxaio and kqueue a descriptor, which a
\* kqueue loses in a forked child as linuxaio does its context; io_uring and linuxaio a watcher.
BackendHolds(s, lost) ==
    /\ "backend_fd" \in s.open <=>
          (s.backend \in {"port", "iouring", "linuxaio", "epoll"} \/ (s.backend = "kqueue" /\ ~lost))
    /\ "maps" \in s.open <=> s.backend = "iouring"
    /\ "tfd" \in s.open <=> s.backend = "iouring"
    /\ "aio_ctx" \in s.open <=> (s.backend = "linuxaio" /\ ~lost)
    /\ "backend_w" \in s.active <=> s.backend \in {"iouring", "linuxaio"}

\* A descriptor is open exactly while the watcher on it is active.
Paired(s) ==
    /\ "pipe_w" \in s.active <=> "evpipe" \in s.open
    /\ "timerfd_w" \in s.active <=> "timerfd" \in s.open
    /\ "sigfd_w" \in s.active <=> "sigfd" \in s.open
    /\ "fs_w" \in s.active <=> "fs_fd" \in s.open

\* Those of D that are open are the process's own.
Owned(s, D) == \A f \in D : f \in s.open => f \in s.mine
Renewable == Descriptors \ {"sigfd"}

\* What holds of the loop at every point of a call.
Kept(s) ==
    /\ s.backend # "none" /\ s.bad = {} /\ Paired(s) /\ s.mine \subseteq s.open
    /\ s.backend # "iouring" => s.refs = s.users

\* Between calls only a fork of the process leaves it with descriptors that are not its own.
Sound(s) ==
    /\ Kept(s) /\ BackendHolds(s, s.child)
    /\ s.child => s.postfork \in {1, 3}
    /\ ~s.child => Owned(s, Renewable)
    /\ s.postfork = 2 => s.backend \in {"epoll", "linuxaio"}

\* A kqueue that the process lost in a fork was closed with the loop.
Excused(s) == s.bad \subseteq {<<"kqueue", "backend_fd">>} /\ (s.bad # {} => s.child)

\* The inductive invariant.
LoopInv ==
    /\ L \in LoopState
    /\ L.life = "none" => L.backend = "none" /\ Blank(L)
    /\ L.life = "up" => Sound(L)
    /\ L.life = "gone" => L.open = {} /\ Excused(L)

\* The fields that neither a descriptor nor a watcher of the loop's own concerns.
SameLoop(s, t) ==
    /\ t.life = s.life /\ t.backend = s.backend /\ t.default = s.default
    /\ t.users = s.users /\ t.postfork = s.postfork /\ t.child = s.child /\ t.forks = s.forks

LEMMA OpenedIs ==
    ASSUME NEW s \in LoopState, NEW f \in Descriptors
    PROVE  LET t == Opened(s, f) IN
           /\ t \in LoopState /\ SameLoop(s, t) /\ t.active = s.active /\ t.refs = s.refs
           /\ t.open = s.open \cup {f} /\ t.mine = s.mine \cup {f}
           /\ f \notin s.open => t.bad = s.bad
<1> DEFINE b == Noted(s, f, f \in s.open)  o == s.open \cup {f}  m == s.mine \cup {f}
           t == [s EXCEPT !.open = o, !.mine = m, !.bad = b]
<1>1. b \in Mishaps
  <2>1. <<s.backend, f>> \in (AllBackends \cup {"none"}) \X Descriptors
    BY DEF LoopState
  <2> QED
    BY <2>1 DEF Noted, LoopState, Mishaps
<1>6. o \in SUBSET Descriptors /\ m \in SUBSET Descriptors
  BY DEF LoopState
<1>2. Opened(s, f) = t
  BY DEF Opened, LoopState
<1>3. f \notin s.open => b = s.bad
  BY DEF Noted
<1>4. o = s.open \cup {f} /\ m = s.mine \cup {f}
  OBVIOUS
<1> HIDE DEF b, o, m
<1>5. t \in LoopState /\ SameLoop(s, t) /\ t.active = s.active /\ t.refs = s.refs
      /\ t.open = o /\ t.mine = m /\ t.bad = b
  BY <1>1, <1>6 DEF LoopState, SameLoop
<1> QED
  BY <1>2, <1>3, <1>4, <1>5

LEMMA ClosedIs ==
    ASSUME NEW s \in LoopState, NEW f \in Descriptors
    PROVE  LET t == Closed(s, f) IN
           /\ t \in LoopState /\ SameLoop(s, t) /\ t.active = s.active /\ t.refs = s.refs
           /\ t.open = s.open \ {f} /\ t.mine = s.mine \ {f}
           /\ f \in s.open => t.bad = s.bad
<1> DEFINE b == Noted(s, f, f \notin s.open)  o == s.open \ {f}  m == s.mine \ {f}
           t == [s EXCEPT !.open = o, !.mine = m, !.bad = b]
<1>1. b \in Mishaps
  <2>1. <<s.backend, f>> \in (AllBackends \cup {"none"}) \X Descriptors
    BY DEF LoopState
  <2> QED
    BY <2>1 DEF Noted, LoopState, Mishaps
<1>6. o \in SUBSET Descriptors /\ m \in SUBSET Descriptors
  BY DEF LoopState
<1>2. Closed(s, f) = t
  BY DEF Closed, LoopState
<1>3. f \in s.open => b = s.bad
  BY DEF Noted
<1>4. o = s.open \ {f} /\ m = s.mine \ {f}
  OBVIOUS
<1> HIDE DEF b, o, m
<1>5. t \in LoopState /\ SameLoop(s, t) /\ t.active = s.active /\ t.refs = s.refs
      /\ t.open = o /\ t.mine = m /\ t.bad = b
  BY <1>1, <1>6 DEF LoopState, SameLoop
<1> QED
  BY <1>2, <1>3, <1>4, <1>5

LEMMA ClosedNotes ==
    ASSUME NEW s \in LoopState, NEW f \in Descriptors
    PROVE  Closed(s, f).bad \subseteq s.bad \cup {<<s.backend, f>>}
<1> DEFINE b == Noted(s, f, f \notin s.open)  o == s.open \ {f}  m == s.mine \ {f}
<1>1. Closed(s, f) = [s EXCEPT !.open = o, !.mine = m, !.bad = b]
  BY DEF Closed, LoopState
<1>2. b \subseteq s.bad \cup {<<s.backend, f>>}
  BY DEF Noted
<1> HIDE DEF b, o, m
<1>3. Closed(s, f).bad = b
  BY <1>1 DEF LoopState
<1> QED
  BY <1>2, <1>3

\* What ev_ref, ev_unref, a start and a stop leave alone.
SameFiles(s, t) == t.open = s.open /\ t.mine = s.mine /\ t.bad = s.bad

LEMMA RefIs ==
    ASSUME NEW s \in LoopState
    PROVE  /\ EvRef(s) \in LoopState /\ SameLoop(s, EvRef(s)) /\ SameFiles(s, EvRef(s))
           /\ EvRef(s).active = s.active /\ EvRef(s).refs = s.refs + 1
           /\ EvUnref(s) \in LoopState /\ SameLoop(s, EvUnref(s)) /\ SameFiles(s, EvUnref(s))
           /\ EvUnref(s).active = s.active /\ EvUnref(s).refs = s.refs - 1
<1> DEFINE u == s.refs + 1  d == s.refs - 1
<1>1. u \in Int /\ d \in Int
  BY DEF LoopState
<1>2. EvRef(s) = [s EXCEPT !.refs = u] /\ EvUnref(s) = [s EXCEPT !.refs = d]
  BY DEF EvRef, EvUnref, LoopState
<1>3. u = s.refs + 1 /\ d = s.refs - 1
  OBVIOUS
<1> HIDE DEF u, d
<1> QED
  BY <1>1, <1>2, <1>3 DEF LoopState, SameLoop, SameFiles

LEMMA StartedIs ==
    ASSUME NEW s \in LoopState, NEW w \in Internal
    PROVE  LET t == Started(s, w) IN
           /\ t \in LoopState /\ SameLoop(s, t) /\ SameFiles(s, t)
           /\ t.active = s.active \cup {w}
           /\ w \in s.active => t.refs = s.refs
           /\ w \notin s.active => t.refs = s.refs + 1
<1> DEFINE u == s.refs + 1  a == s.active \cup {w}
<1>1. u \in Int /\ a \in SUBSET Internal
  BY DEF LoopState
<1>2. Started(s, w) = IF w \in s.active THEN s ELSE [s EXCEPT !.active = a, !.refs = u]
  BY DEF Started, LoopState
<1>3. u = s.refs + 1 /\ a = s.active \cup {w} /\ (w \in s.active => s.active = a)
  OBVIOUS
<1> HIDE DEF u, a
<1>4. CASE w \in s.active
  BY <1>2, <1>3, <1>4 DEF SameLoop, SameFiles
<1>5. CASE w \notin s.active
  BY <1>1, <1>2, <1>3, <1>5 DEF LoopState, SameLoop, SameFiles
<1> QED
  BY <1>4, <1>5

LEMMA StoppedIs ==
    ASSUME NEW s \in LoopState, NEW w \in Internal
    PROVE  LET t == Stopped(s, w) IN
           /\ t \in LoopState /\ SameLoop(s, t) /\ SameFiles(s, t)
           /\ t.active = s.active \ {w}
           /\ w \in s.active => t.refs = s.refs - 1
           /\ w \notin s.active => t.refs = s.refs
<1> DEFINE d == s.refs - 1  a == s.active \ {w}
<1>1. d \in Int /\ a \in SUBSET Internal
  BY DEF LoopState
<1>2. Stopped(s, w) = IF w \in s.active THEN [s EXCEPT !.active = a, !.refs = d] ELSE s
  BY DEF Stopped, LoopState
<1>3. d = s.refs - 1 /\ a = s.active \ {w} /\ (w \notin s.active => s.active = a)
  OBVIOUS
<1> HIDE DEF d, a
<1>4. CASE w \notin s.active
  BY <1>2, <1>3, <1>4 DEF SameLoop, SameFiles
<1>5. CASE w \in s.active
  BY <1>1, <1>2, <1>3, <1>5 DEF LoopState, SameLoop, SameFiles
<1> QED
  BY <1>4, <1>5

SameOwn(s, t) == SameFiles(s, t) /\ t.active = s.active /\ t.refs = s.refs

\* Assignments to backend, postfork and life.
LEMMA BackendSet ==
    ASSUME NEW s \in LoopState, NEW b \in AllBackends \cup {"none"}
    PROVE  LET t == [s EXCEPT !.backend = b] IN
           /\ t \in LoopState /\ SameOwn(s, t) /\ t.backend = b /\ t.life = s.life
           /\ t.default = s.default /\ t.users = s.users /\ t.postfork = s.postfork /\ t.child = s.child
  BY DEF LoopState, SameOwn, SameFiles

LEMMA ForkEnds ==
    ASSUME NEW s \in LoopState
    PROVE  LET t == [s EXCEPT !.postfork = 0, !.child = FALSE] IN
           /\ t \in LoopState /\ SameOwn(s, t) /\ t.backend = s.backend /\ t.life = s.life
           /\ t.users = s.users /\ t.postfork = 0 /\ t.child = FALSE
<1>1. 0 \in 0 .. 3 /\ FALSE \in BOOLEAN
  OBVIOUS
<1> QED
  BY <1>1 DEF LoopState, SameOwn, SameFiles

LEMMA LifeSet ==
    ASSUME NEW s \in LoopState, NEW l \in {"none", "up", "gone"}
    PROVE  LET t == [s EXCEPT !.life = l] IN
           /\ t \in LoopState /\ SameOwn(s, t) /\ t.backend = s.backend /\ t.life = l
           /\ t.default = s.default /\ t.users = s.users /\ t.postfork = s.postfork /\ t.child = s.child
  BY DEF LoopState, SameOwn, SameFiles

\* A descriptor is opened and a watcher started on it that holds no reference ...
LEMMA MadeIs ==
    ASSUME NEW s \in LoopState, NEW f \in Descriptors, NEW w \in Internal,
           f \notin s.open, w \notin s.active
    PROVE  LET t == EvUnref(Started(Opened(s, f), w)) IN
           /\ t \in LoopState /\ SameLoop(s, t) /\ t.bad = s.bad
           /\ t.active = s.active \cup {w} /\ t.refs = s.refs
           /\ t.open = s.open \cup {f} /\ t.mine = s.mine \cup {f}
<1> DEFINE o == Opened(s, f)  a == Started(o, w)  t == EvUnref(a)
<1>1. /\ o \in LoopState /\ SameLoop(s, o) /\ o.active = s.active /\ o.refs = s.refs
      /\ o.open = s.open \cup {f} /\ o.mine = s.mine \cup {f} /\ o.bad = s.bad
  BY OpenedIs
<1>2. o.bad = s.bad
  BY <1>1 DEF LoopState
<1> HIDE DEF o
<1>3. /\ a \in LoopState /\ SameLoop(o, a) /\ SameFiles(o, a)
      /\ a.active = o.active \cup {w} /\ a.refs = o.refs + 1
  BY <1>1, StartedIs
<1> HIDE DEF a
<1>4. /\ t \in LoopState /\ SameLoop(a, t) /\ SameFiles(a, t)
      /\ t.active = a.active /\ t.refs = a.refs - 1
  BY <1>3, RefIs
<1> HIDE DEF t
<1>5. t.refs = s.refs
  BY <1>1, <1>3, <1>4 DEF LoopState
<1>6. SameLoop(s, t)
  BY <1>1, <1>3, <1>4 DEF SameLoop
<1>7. t.open = s.open \cup {f} /\ t.mine = s.mine \cup {f} /\ t.bad = s.bad
      /\ t.active = s.active \cup {w}
  BY <1>1, <1>2, <1>3, <1>4 DEF SameFiles
<1> QED
  BY <1>4, <1>5, <1>6, <1>7 DEF t, a, o

\* ... and the reverse.
LEMMA UnmadeIs ==
    ASSUME NEW s \in LoopState, NEW f \in Descriptors, NEW w \in Internal,
           f \in s.open, w \in s.active
    PROVE  LET t == Closed(Stopped(EvRef(s), w), f) IN
           /\ t \in LoopState /\ SameLoop(s, t) /\ t.bad = s.bad
           /\ t.active = s.active \ {w} /\ t.refs = s.refs
           /\ t.open = s.open \ {f} /\ t.mine = s.mine \ {f}
<1> DEFINE r == EvRef(s)  a == Stopped(r, w)  t == Closed(a, f)
<1>1. /\ r \in LoopState /\ SameLoop(s, r) /\ SameFiles(s, r)
      /\ r.active = s.active /\ r.refs = s.refs + 1
  BY RefIs
<1> HIDE DEF r
<1>2. /\ a \in LoopState /\ SameLoop(r, a) /\ SameFiles(r, a)
      /\ a.active = r.active \ {w} /\ a.refs = r.refs - 1
  BY <1>1, StoppedIs
<1> HIDE DEF a
<1>3. f \in a.open
  BY <1>1, <1>2 DEF SameFiles
<1>4. /\ t \in LoopState /\ SameLoop(a, t) /\ t.active = a.active /\ t.refs = a.refs
      /\ t.open = a.open \ {f} /\ t.mine = a.mine \ {f} /\ t.bad = a.bad
  BY <1>2, <1>3, ClosedIs
<1> HIDE DEF t
<1>5. t.refs = s.refs
  BY <1>1, <1>2, <1>4 DEF LoopState
<1>6. SameLoop(s, t)
  BY <1>1, <1>2, <1>4 DEF SameLoop
<1>7. t.bad = s.bad
  BY <1>1, <1>2, <1>4 DEF SameFiles, LoopState
<1>8. t.open = s.open \ {f} /\ t.mine = s.mine \ {f} /\ t.active = s.active \ {w}
  BY <1>1, <1>2, <1>4 DEF SameFiles
<1> QED
  BY <1>4, <1>5, <1>6, <1>7, <1>8 DEF t, a, r

\* The watchers with a descriptor of their own.
OwnPairs == {<<"pipe_w", "evpipe">>, <<"timerfd_w", "timerfd">>, <<"sigfd_w", "sigfd">>, <<"fs_w", "fs_fd">>}

LEMMA PairTypes ==
    ASSUME NEW w, NEW f, <<w, f>> \in OwnPairs
    PROVE  w \in Internal /\ f \in Descriptors
  BY DEF OwnPairs, Internal, Descriptors

\* Making such a pair.
LEMMA MadeKept ==
    ASSUME NEW s \in LoopState, Kept(s), NEW w, NEW f, <<w, f>> \in OwnPairs, w \notin s.active,
           NEW t, t = EvUnref(Started(Opened(s, f), w))
    PROVE  /\ t \in LoopState /\ SameLoop(s, t) /\ Kept(t)
           /\ \A lost \in BOOLEAN : BackendHolds(s, lost) => BackendHolds(t, lost)
           /\ \A D : Owned(s, D) => Owned(t, D \cup {f})
<1>1. f \notin s.open
  BY DEF Kept, Paired, OwnPairs
<1>2. /\ t \in LoopState /\ SameLoop(s, t) /\ t.bad = s.bad
      /\ t.active = s.active \cup {w} /\ t.refs = s.refs
      /\ t.open = s.open \cup {f} /\ t.mine = s.mine \cup {f}
  BY <1>1, PairTypes, MadeIs
<1>3. Paired(t)
  BY <1>2 DEF Kept, Paired, OwnPairs
<1>4. Kept(t)
  BY <1>2, <1>3 DEF Kept, SameLoop
<1>5. \A lost \in BOOLEAN : BackendHolds(s, lost) => BackendHolds(t, lost)
  BY <1>2 DEF BackendHolds, SameLoop, OwnPairs
<1>6. \A D : Owned(s, D) => Owned(t, D \cup {f})
  BY <1>2 DEF Owned
<1> QED
  BY <1>2, <1>4, <1>5, <1>6

\* Closing one.
LEMMA UnmadeKept ==
    ASSUME NEW s \in LoopState, Kept(s), NEW w, NEW f, <<w, f>> \in OwnPairs, w \in s.active,
           NEW t, t = Closed(Stopped(EvRef(s), w), f)
    PROVE  /\ t \in LoopState /\ SameLoop(s, t) /\ Kept(t) /\ w \notin t.active /\ f \notin t.open
           /\ \A lost \in BOOLEAN : BackendHolds(s, lost) => BackendHolds(t, lost)
           /\ \A D : Owned(s, D) => Owned(t, D \cup {f})
<1>1. f \in s.open
  BY DEF Kept, Paired, OwnPairs
<1>2. /\ t \in LoopState /\ SameLoop(s, t) /\ t.bad = s.bad
      /\ t.active = s.active \ {w} /\ t.refs = s.refs
      /\ t.open = s.open \ {f} /\ t.mine = s.mine \ {f}
  BY <1>1, PairTypes, UnmadeIs
<1>3. Paired(t)
  BY <1>2 DEF Kept, Paired, OwnPairs
<1>4. Kept(t)
  BY <1>2, <1>3 DEF Kept, SameLoop
<1>5. \A lost \in BOOLEAN : BackendHolds(s, lost) => BackendHolds(t, lost)
  BY <1>2 DEF BackendHolds, SameLoop, OwnPairs
<1>6. \A D : Owned(s, D) => Owned(t, D \cup {f})
  BY <1>2 DEF Owned
<1> QED
  BY <1>2, <1>4, <1>5, <1>6

\* NeedPipe, NeedTimerfd, NeedSigfd and NeedInotify.
LEMMA MadeSound ==
    ASSUME NEW s \in LoopState, Sound(s), NEW w, NEW f, <<w, f>> \in OwnPairs, w \notin s.active,
           NEW t, t = EvUnref(Started(Opened(s, f), w))
    PROVE  t \in LoopState /\ SameLoop(s, t) /\ Sound(t)
<1>1. Kept(s) /\ BackendHolds(s, s.child) /\ s.child \in BOOLEAN
  BY DEF Sound, LoopState
<1>2. /\ t \in LoopState /\ SameLoop(s, t) /\ Kept(t) /\ BackendHolds(t, s.child)
      /\ \A D : Owned(s, D) => Owned(t, D \cup {f})
  BY <1>1, MadeKept
<1>3. ~s.child => Owned(t, Renewable)
  BY <1>2 DEF Sound, Owned
<1> QED
  BY <1>2, <1>3 DEF Sound, SameLoop

LEMMA NeedsSound ==
    ASSUME LoopInv, NeedPipe \/ NeedTimerfd \/ NeedSigfd \/ NeedInotify
    PROVE  LoopInv'
<1>1. L \in LoopState /\ Sound(L) /\ L.life = "up"
  BY DEF LoopInv, NeedPipe, NeedTimerfd, NeedSigfd, NeedInotify, Up
<1>2. \E p \in OwnPairs : p[1] \notin L.active /\ L' = EvUnref(Started(Opened(L, p[2]), p[1]))
  <2>1. CASE NeedPipe
    BY <2>1 DEF NeedPipe, EvpipeInit, OwnPairs
  <2>2. CASE NeedTimerfd
    BY <2>2 DEF NeedTimerfd, EvtimerfdInit, OwnPairs
  <2>3. CASE NeedSigfd
    BY <2>3 DEF NeedSigfd, SigfdInit, OwnPairs
  <2>4. CASE NeedInotify
    BY <2>4 DEF NeedInotify, InfyInit, OwnPairs
  <2> QED
    BY <2>1, <2>2, <2>3, <2>4
<1>3. PICK p \in OwnPairs : p[1] \notin L.active /\ L' = EvUnref(Started(Opened(L, p[2]), p[1]))
  BY <1>2
<1>4. <<p[1], p[2]>> \in OwnPairs
  BY DEF OwnPairs
<1>5. L' \in LoopState /\ SameLoop(L, L') /\ Sound(L')
  BY <1>1, <1>3, <1>4, MadeSound
<1> QED
  BY <1>1, <1>5 DEF LoopInv, SameLoop

\* What loop_init may leave behind: nothing, or a working backend and only its own watcher.
Initialised(s) ==
    /\ s \in LoopState /\ s.life = "none" /\ s.postfork = 0
    /\ s.backend = "none" => Blank(s)
    /\ s.backend # "none" => Sound(s) /\ s.active \subseteq {"backend_w"}

LEMMA DescriptorInit ==
    ASSUME NEW s, Initialised(s), s.backend = "none", NEW b \in {"port", "kqueue", "epoll"}
    PROVE  Initialised([Opened(s, "backend_fd") EXCEPT !.backend = b])
<1> DEFINE o == Opened(s, "backend_fd")  t == [o EXCEPT !.backend = b]
<1>1. s \in LoopState /\ Blank(s) /\ s.life = "none" /\ s.postfork = 0
  BY DEF Initialised
<1>2. /\ o \in LoopState /\ SameLoop(s, o) /\ o.active = s.active /\ o.refs = s.refs
      /\ o.open = s.open \cup {"backend_fd"} /\ o.mine = s.mine \cup {"backend_fd"}
      /\ o.bad = s.bad
  BY <1>1, OpenedIs DEF Descriptors, Blank
<1> HIDE DEF o
<1>3. b \in AllBackends \cup {"none"}
  BY DEF AllBackends
<1>4. /\ t \in LoopState /\ SameOwn(o, t) /\ t.backend = b /\ t.life = o.life
      /\ t.default = o.default /\ t.users = o.users /\ t.postfork = o.postfork /\ t.child = o.child
  BY <1>2, <1>3, BackendSet
<1> HIDE DEF t
<1>5. /\ t.open = {"backend_fd"} /\ t.mine = {"backend_fd"} /\ t.active = {} /\ t.bad = {}
      /\ t.refs = t.users /\ t.postfork = 0 /\ ~t.child /\ t.life = "none"
  BY <1>1, <1>2, <1>4 DEF Blank, SameLoop, SameOwn, SameFiles
<1>6. BackendHolds(t, t.child) /\ Paired(t) /\ Owned(t, Renewable)
  BY <1>4, <1>5 DEF BackendHolds, Paired, Owned
<1>7. Sound(t)
  BY <1>4, <1>5, <1>6 DEF Sound, Kept
<1>8. Initialised(t)
  BY <1>4, <1>5, <1>7 DEF Initialised
<1> QED
  BY <1>8 DEF t, o

LEMMA NoDescriptorInit ==
    ASSUME NEW s, Initialised(s), s.backend = "none", NEW b \in {"poll", "select"}
    PROVE  Initialised([s EXCEPT !.backend = b])
<1> DEFINE t == [s EXCEPT !.backend = b]
<1>1. s \in LoopState /\ Blank(s) /\ s.life = "none" /\ s.postfork = 0
  BY DEF Initialised
<1>2. b \in AllBackends \cup {"none"}
  BY DEF AllBackends
<1>3. /\ t \in LoopState /\ SameOwn(s, t) /\ t.backend = b /\ t.life = s.life
      /\ t.default = s.default /\ t.users = s.users /\ t.postfork = s.postfork /\ t.child = s.child
  BY <1>1, <1>2, BackendSet
<1> HIDE DEF t
<1>4. /\ t.open = {} /\ t.mine = {} /\ t.active = {} /\ t.bad = {}
      /\ t.refs = t.users /\ t.postfork = 0 /\ ~t.child /\ t.life = "none"
  BY <1>1, <1>3 DEF Blank, SameOwn, SameFiles
<1>5. BackendHolds(t, t.child) /\ Paired(t) /\ Owned(t, Renewable)
  BY <1>3, <1>4 DEF BackendHolds, Paired, Owned
<1>6. Sound(t)
  BY <1>3, <1>4, <1>5 DEF Sound, Kept
<1> QED
  BY <1>3, <1>4, <1>6 DEF Initialised, t

\* An init that fails gives back what it opened.
LEMMA UndoneInit ==
    ASSUME NEW s, Initialised(s), s.backend = "none", NEW t \in LoopState, SameLoop(s, t),
           t.active = {}, t.open = {}, t.mine = {}, t.refs = s.refs, t.bad = {}
    PROVE  Initialised(t)
  BY DEF Initialised, SameLoop, Blank

\* s with more descriptors and the backend's watcher.
Gained(s, t, D) ==
    /\ t \in LoopState /\ t.open = s.open \cup D /\ t.mine = s.mine \cup D /\ t.bad = s.bad
    /\ t.active = s.active \cup {"backend_w"} /\ t.refs = s.refs
    /\ t.life = s.life /\ t.default = s.default /\ t.users = s.users /\ t.postfork = s.postfork /\ t.child = s.child

\* Both ways iouring_init fails after io_uring_setup.
LEMMA IouringUndone ==
    ASSUME NEW s \in LoopState, {"backend_fd", "maps"} \cap s.open = {}, s.mine \subseteq s.open,
           NEW t, \/ t = Closed(Opened(s, "backend_fd"), "backend_fd")
                  \/ t = Closed(Closed(Opened(Opened(s, "backend_fd"), "maps"), "maps"), "backend_fd")
    PROVE  /\ t \in LoopState /\ SameLoop(s, t) /\ t.open = s.open /\ t.mine = s.mine
           /\ t.active = s.active /\ t.refs = s.refs /\ t.bad = s.bad
<1> DEFINE r == Opened(s, "backend_fd")  m == Opened(r, "maps")  c == Closed(m, "maps")
<1>0. "backend_fd" \in Descriptors /\ "maps" \in Descriptors
  BY DEF Descriptors
<1>1. /\ r \in LoopState /\ SameLoop(s, r) /\ r.active = s.active /\ r.refs = s.refs
      /\ r.open = s.open \cup {"backend_fd"} /\ r.mine = s.mine \cup {"backend_fd"}
      /\ r.bad = s.bad
  BY <1>0, OpenedIs
<1> HIDE DEF r
<1>2. CASE t = Closed(r, "backend_fd")
  <2>1. /\ t \in LoopState /\ SameLoop(r, t) /\ t.active = r.active /\ t.refs = r.refs
        /\ t.open = r.open \ {"backend_fd"} /\ t.mine = r.mine \ {"backend_fd"}
        /\ t.bad = r.bad
    BY <1>0, <1>1, <1>2, ClosedIs
  <2>2. t.open = s.open /\ t.mine = s.mine
    BY <1>1, <2>1
  <2> QED
    BY <1>1, <2>1, <2>2 DEF SameLoop
<1>3. CASE t = Closed(c, "backend_fd")
  <2>1. /\ m \in LoopState /\ SameLoop(r, m) /\ m.active = r.active /\ m.refs = r.refs
        /\ m.open = r.open \cup {"maps"} /\ m.mine = r.mine \cup {"maps"}
        /\ m.bad = r.bad
    BY <1>0, <1>1, OpenedIs
  <2> HIDE DEF m
  <2>2. /\ c \in LoopState /\ SameLoop(m, c) /\ c.active = m.active /\ c.refs = m.refs
        /\ c.open = m.open \ {"maps"} /\ c.mine = m.mine \ {"maps"}
        /\ c.bad = m.bad
    BY <1>0, <2>1, ClosedIs
  <2>3. c.open = r.open /\ c.mine = r.mine
    BY <1>1, <2>1, <2>2
  <2> HIDE DEF c
  <2>4. /\ t \in LoopState /\ SameLoop(c, t) /\ t.active = c.active /\ t.refs = c.refs
        /\ t.open = c.open \ {"backend_fd"} /\ t.mine = c.mine \ {"backend_fd"}
        /\ t.bad = c.bad
    BY <1>0, <1>1, <1>3, <2>2, <2>3, ClosedIs
  <2>5. t.open = s.open /\ t.mine = s.mine
    BY <1>1, <2>3, <2>4
  <2> QED
    BY <1>1, <2>1, <2>2, <2>4, <2>5 DEF SameLoop
<1> QED
  BY <1>2, <1>3 DEF r, m, c

\* iouring_init succeeds.
LEMMA IouringMade ==
    ASSUME NEW s \in LoopState, {"backend_fd", "maps", "tfd"} \cap s.open = {}, "backend_w" \notin s.active
    PROVE  LET m == Opened(Opened(s, "backend_fd"), "maps")
               t == [EvUnref(Started(Opened(m, "tfd"), "backend_w")) EXCEPT !.backend = "iouring"]
           IN  Gained(s, t, {"backend_fd", "maps", "tfd"}) /\ t.backend = "iouring"
<1> DEFINE r == Opened(s, "backend_fd")  m == Opened(r, "maps")
           u == EvUnref(Started(Opened(m, "tfd"), "backend_w"))
           t == [u EXCEPT !.backend = "iouring"]
<1>0. {"backend_fd", "maps", "tfd"} \subseteq Descriptors /\ "backend_w" \in Internal
      /\ "iouring" \in AllBackends
  BY DEF Descriptors, Internal, AllBackends
<1>1. /\ r \in LoopState /\ SameLoop(s, r) /\ r.active = s.active /\ r.refs = s.refs
      /\ r.open = s.open \cup {"backend_fd"} /\ r.mine = s.mine \cup {"backend_fd"}
      /\ r.bad = s.bad
  BY <1>0, OpenedIs
<1> HIDE DEF r
<1>2. /\ m \in LoopState /\ SameLoop(r, m) /\ m.active = r.active /\ m.refs = r.refs
      /\ m.open = r.open \cup {"maps"} /\ m.mine = r.mine \cup {"maps"}
      /\ m.bad = r.bad
  BY <1>0, <1>1, OpenedIs
<1> HIDE DEF m
<1>3. "tfd" \notin m.open /\ "backend_w" \notin m.active
  BY <1>1, <1>2
<1>4. /\ u \in LoopState /\ SameLoop(m, u) /\ u.bad = m.bad
      /\ u.active = m.active \cup {"backend_w"} /\ u.refs = m.refs
      /\ u.open = m.open \cup {"tfd"} /\ u.mine = m.mine \cup {"tfd"}
  BY <1>0, <1>2, <1>3, MadeIs
<1> HIDE DEF u
<1>5. /\ t \in LoopState /\ SameOwn(u, t) /\ t.backend = "iouring" /\ t.life = u.life
      /\ t.default = u.default /\ t.users = u.users /\ t.postfork = u.postfork /\ t.child = u.child
  BY <1>0, <1>4, BackendSet
<1> HIDE DEF t
<1>6. t.open = s.open \cup {"backend_fd", "maps", "tfd"} /\ t.mine = s.mine \cup {"backend_fd", "maps", "tfd"}
  BY <1>1, <1>2, <1>4, <1>5 DEF SameOwn, SameFiles
<1>7. t.bad = s.bad
  BY <1>1, <1>2, <1>4, <1>5 DEF SameOwn, SameFiles, LoopState
<1>8. Gained(s, t, {"backend_fd", "maps", "tfd"})
  BY <1>1, <1>2, <1>4, <1>5, <1>6, <1>7 DEF Gained, SameLoop, SameOwn
<1> QED
  BY <1>5, <1>8 DEF t, u, m, r

\* linuxaio_init succeeds.
LEMMA LinuxaioMade ==
    ASSUME NEW s \in LoopState, {"backend_fd", "aio_ctx"} \cap s.open = {}, "backend_w" \notin s.active
    PROVE  LET t == [EvUnref(Started(Opened(Opened(s, "backend_fd"), "aio_ctx"), "backend_w"))
                     EXCEPT !.backend = "linuxaio"]
           IN  Gained(s, t, {"backend_fd", "aio_ctx"}) /\ t.backend = "linuxaio"
<1> DEFINE r == Opened(s, "backend_fd")
           u == EvUnref(Started(Opened(r, "aio_ctx"), "backend_w"))
           t == [u EXCEPT !.backend = "linuxaio"]
<1>0. {"backend_fd", "aio_ctx"} \subseteq Descriptors /\ "backend_w" \in Internal
      /\ "linuxaio" \in AllBackends
  BY DEF Descriptors, Internal, AllBackends
<1>1. /\ r \in LoopState /\ SameLoop(s, r) /\ r.active = s.active /\ r.refs = s.refs
      /\ r.open = s.open \cup {"backend_fd"} /\ r.mine = s.mine \cup {"backend_fd"}
      /\ r.bad = s.bad
  BY <1>0, OpenedIs
<1> HIDE DEF r
<1>2. "aio_ctx" \notin r.open /\ "backend_w" \notin r.active
  BY <1>1
<1>3. /\ u \in LoopState /\ SameLoop(r, u) /\ u.bad = r.bad
      /\ u.active = r.active \cup {"backend_w"} /\ u.refs = r.refs
      /\ u.open = r.open \cup {"aio_ctx"} /\ u.mine = r.mine \cup {"aio_ctx"}
  BY <1>0, <1>1, <1>2, MadeIs
<1> HIDE DEF u
<1>4. /\ t \in LoopState /\ SameOwn(u, t) /\ t.backend = "linuxaio" /\ t.life = u.life
      /\ t.default = u.default /\ t.users = u.users /\ t.postfork = u.postfork /\ t.child = u.child
  BY <1>0, <1>3, BackendSet
<1> HIDE DEF t
<1>5. t.open = s.open \cup {"backend_fd", "aio_ctx"} /\ t.mine = s.mine \cup {"backend_fd", "aio_ctx"}
  BY <1>1, <1>3, <1>4 DEF SameOwn, SameFiles
<1>6. t.bad = s.bad
  BY <1>1, <1>3, <1>4 DEF SameOwn, SameFiles, LoopState
<1>7. Gained(s, t, {"backend_fd", "aio_ctx"})
  BY <1>1, <1>3, <1>4, <1>5, <1>6 DEF Gained, SameLoop, SameOwn
<1> QED
  BY <1>4, <1>7 DEF t, u, r

LEMMA GainedInitialised ==
    ASSUME NEW s, Initialised(s), s.backend = "none", NEW t, NEW D,
           Gained(s, t, D), \/ t.backend = "iouring" /\ D = {"backend_fd", "maps", "tfd"}
                            \/ t.backend = "linuxaio" /\ D = {"backend_fd", "aio_ctx"}
    PROVE  Initialised(t)
<1>1. /\ t.open = D /\ t.mine = D /\ t.active = {"backend_w"} /\ t.bad = {}
      /\ t.refs = t.users /\ t.postfork = 0 /\ ~t.child /\ t.life = "none" /\ t \in LoopState
  BY DEF Initialised, Gained, Blank
<1>2. BackendHolds(t, t.child) /\ Paired(t) /\ Owned(t, Renewable)
  BY <1>1 DEF BackendHolds, Paired, Owned
<1>3. Sound(t)
  BY <1>1, <1>2 DEF Sound, Kept
<1> QED
  BY <1>1, <1>3 DEF Initialised

LEMMA InitOfInitialised ==
    ASSUME NEW s, Initialised(s), s.backend = "none", NEW b \in AllBackends, NEW t \in InitOf(b, s)
    PROVE  Initialised(t)
<1>1. s \in LoopState /\ s.open = {} /\ s.mine = {} /\ s.active = {} /\ s.bad = {}
  BY DEF Initialised, Blank
<1>2. CASE b \in {"port", "kqueue", "epoll"}
  BY <1>2, DescriptorInit DEF InitOf, PortInit, KqueueInit, EpollInit
<1>3. CASE b \in {"poll", "select"}
  BY <1>3, NoDescriptorInit DEF InitOf, PollInit, SelectInit
<1>4. CASE b = "iouring"
  <2> DEFINE m == Opened(Opened(s, "backend_fd"), "maps")
             u == [EvUnref(Started(Opened(m, "tfd"), "backend_w")) EXCEPT !.backend = "iouring"]
  <2>1. \/ t = s \/ t = u
        \/ t = Closed(Opened(s, "backend_fd"), "backend_fd") \/ t = Closed(Closed(m, "maps"), "backend_fd")
    BY <1>4 DEF InitOf, IouringInit
  <2>2. CASE t = u
    BY <1>1, <2>2, IouringMade, GainedInitialised
  <2>3. CASE \/ t = Closed(Opened(s, "backend_fd"), "backend_fd")
             \/ t = Closed(Closed(m, "maps"), "backend_fd")
    <3>1. /\ t \in LoopState /\ SameLoop(s, t) /\ t.open = {} /\ t.mine = {}
          /\ t.active = {} /\ t.refs = s.refs /\ t.bad = {}
      BY <1>1, <2>3, IouringUndone
    <3> QED
      BY <3>1, UndoneInit
  <2> HIDE DEF m, u
  <2> QED
    BY <2>1, <2>2, <2>3
<1>5. CASE b = "linuxaio"
  <2> DEFINE u == [EvUnref(Started(Opened(Opened(s, "backend_fd"), "aio_ctx"), "backend_w"))
                   EXCEPT !.backend = "linuxaio"]
  <2>1. t = s \/ t = u \/ t = Closed(Opened(s, "backend_fd"), "backend_fd")
    BY <1>5 DEF InitOf, LinuxaioInit
  <2>2. CASE t = u
    BY <1>1, <2>2, LinuxaioMade, GainedInitialised
  <2>3. CASE t = Closed(Opened(s, "backend_fd"), "backend_fd")
    <3>1. /\ t \in LoopState /\ SameLoop(s, t) /\ t.open = {} /\ t.mine = {}
          /\ t.active = {} /\ t.refs = s.refs /\ t.bad = {}
      BY <1>1, <2>3, IouringUndone
    <3> QED
      BY <3>1, UndoneInit
  <2> HIDE DEF u
  <2> QED
    BY <2>1, <2>2, <2>3
<1> QED
  BY <1>2, <1>3, <1>4, <1>5 DEF AllBackends

LEMMA TriedInitialised ==
    ASSUME NEW S, \A s \in S : Initialised(s), NEW b \in AllBackends
    PROVE  \A t \in Tried(S, b) : Initialised(t)
<1> SUFFICES ASSUME NEW t \in Tried(S, b) PROVE Initialised(t)
  OBVIOUS
<1>1. PICK s \in S : t \in IF s.backend = "none" /\ b \in Backends THEN InitOf(b, s) ELSE {s}
  BY DEF Tried
<1> QED
  BY <1>1, InitOfInitialised

LEMMA AfterInitInitialised ==
    ASSUME LoopInv, L.life = "none"
    PROVE  \A s \in AfterInit : Initialised(s)
<1> DEFINE a == Tried({L}, "port")  native == Tried(a, "kqueue")  c == Tried(native, "iouring")
           d == Tried(c, "linuxaio")  linux == Tried(d, "epoll")  f == Tried(linux, "poll")
<1>0. {"port", "kqueue", "iouring", "linuxaio", "epoll", "poll", "select"} \subseteq AllBackends
  BY DEF AllBackends
<1>1. \A s \in {L} : Initialised(s)
  BY DEF LoopInv, Initialised, Blank
<1>2. \A s \in a : Initialised(s)
  BY <1>0, <1>1, TriedInitialised
<1> HIDE DEF a
<1>3. \A s \in native : Initialised(s)
  BY <1>0, <1>2, TriedInitialised
<1> HIDE DEF native
<1>4. \A s \in c : Initialised(s)
  BY <1>0, <1>3, TriedInitialised
<1> HIDE DEF c
<1>5. \A s \in d : Initialised(s)
  BY <1>0, <1>4, TriedInitialised
<1> HIDE DEF d
<1>6. \A s \in linux : Initialised(s)
  BY <1>0, <1>5, TriedInitialised
<1> HIDE DEF linux
<1>7. \A s \in f : Initialised(s)
  BY <1>0, <1>6, TriedInitialised
<1> HIDE DEF f
<1>8. \A s \in Tried(f, "select") : Initialised(s)
  BY <1>0, <1>7, TriedInitialised
<1> QED
  BY <1>8 DEF AfterInit, f, linux, d, c, native, a

\* ev_loop_new, ev_default_loop.
LEMMA NewSound ==
    ASSUME LoopInv, LoopNew
    PROVE  LoopInv'
<1>1. PICK s \in AfterInit :
         L' = IF s.backend = "none" THEN [s EXCEPT !.life = "gone"]
              ELSE [(IF s.default
                     THEN EvUnref(Started(EvUnref(Started(Opened(s, "evpipe"), "pipe_w")), "childev"))
                     ELSE s) EXCEPT !.life = "up"]
  BY DEF LoopNew
<1>2. Initialised(s) /\ s \in LoopState
  BY AfterInitInitialised DEF LoopNew, Initialised
<1>3. CASE s.backend = "none"
  <2>1. L' \in LoopState /\ SameOwn(s, L') /\ L'.life = "gone"
    BY <1>1, <1>2, <1>3, LifeSet
  <2> QED
    BY <1>2, <1>3, <2>1 DEF LoopInv, Initialised, Blank, SameOwn, SameFiles, Excused
<1>4. CASE s.backend # "none"
  <2> DEFINE p == EvUnref(Started(Opened(s, "evpipe"), "pipe_w"))
             a == Started(p, "childev")  c == EvUnref(a)
             t == IF s.default THEN c ELSE s
  <2>1. Sound(s) /\ s.active \subseteq {"backend_w"} /\ s.postfork = 0
    BY <1>2, <1>4 DEF Initialised
  <2>2. <<"pipe_w", "evpipe">> \in OwnPairs /\ "childev" \in Internal /\ "pipe_w" \notin s.active
    BY <2>1 DEF OwnPairs, Internal
  <2>3. p \in LoopState /\ SameLoop(s, p) /\ Sound(p)
    BY <1>2, <2>1, <2>2, MadeSound
  <2>4. "childev" \notin p.active
    <3>1. p.active = s.active \cup {"pipe_w"}
      <4>1. "evpipe" \notin s.open
        BY <2>1 DEF Sound, Kept, Paired
      <4> QED
        BY <1>2, <2>2, <4>1, MadeIs DEF Descriptors, Internal
    <3> QED
      BY <2>1, <3>1
  <2> HIDE DEF p
  <2>5. /\ a \in LoopState /\ SameLoop(p, a) /\ SameFiles(p, a)
        /\ a.active = p.active \cup {"childev"} /\ a.refs = p.refs + 1
    BY <2>2, <2>3, <2>4, StartedIs
  <2> HIDE DEF a
  <2>6. /\ c \in LoopState /\ SameLoop(a, c) /\ SameFiles(a, c)
        /\ c.active = a.active /\ c.refs = a.refs - 1
    BY <2>5, RefIs
  <2>7. c.refs = p.refs
    BY <2>3, <2>5, <2>6 DEF LoopState
  <2> HIDE DEF c
  <2>8. Sound(c)
    <3>1. BackendHolds(c, c.child)
      BY <2>3, <2>5, <2>6 DEF Sound, BackendHolds, SameLoop, SameFiles
    <3>2. Paired(c) /\ (~c.child => Owned(c, Renewable))
      BY <2>3, <2>5, <2>6 DEF Sound, Kept, Paired, Owned, SameLoop, SameFiles
    <3> QED
      BY <2>3, <2>5, <2>6, <2>7, <3>1, <3>2 DEF Sound, Kept, SameLoop, SameFiles
  <2>9. t \in LoopState /\ Sound(t)
    BY <1>2, <2>1, <2>6, <2>8
  <2>10. L' = [t EXCEPT !.life = "up"]
    BY <1>1, <1>4 DEF c, a, p
  <2> HIDE DEF t
  <2>11. /\ L' \in LoopState /\ SameOwn(t, L') /\ L'.backend = t.backend /\ L'.life = "up"
         /\ L'.default = t.default /\ L'.users = t.users /\ L'.postfork = t.postfork /\ L'.child = t.child
    BY <2>9, <2>10, LifeSet
  <2>12. Sound(L')
    <3>1. BackendHolds(L', L'.child)
      BY <2>9, <2>11 DEF Sound, BackendHolds, SameOwn, SameFiles
    <3>2. Paired(L') /\ (~L'.child => Owned(L', Renewable))
      BY <2>9, <2>11 DEF Sound, Kept, Paired, Owned, SameOwn, SameFiles
    <3> QED
      BY <2>9, <2>11, <3>1, <3>2 DEF Sound, Kept, SameOwn, SameFiles
  <2> QED
    BY <2>11, <2>12 DEF LoopInv
<1> QED
  BY <1>3, <1>4

\* backend_fd is replaced.
LEMMA ReplacedIs ==
    ASSUME NEW s \in LoopState, "backend_fd" \in s.open
    PROVE  LET t == Opened(Closed(s, "backend_fd"), "backend_fd") IN
           /\ t \in LoopState /\ SameLoop(s, t) /\ t.active = s.active /\ t.refs = s.refs
           /\ t.open = s.open /\ t.mine = s.mine \cup {"backend_fd"} /\ t.bad = s.bad
<1> DEFINE c == Closed(s, "backend_fd")  t == Opened(c, "backend_fd")
<1>0. "backend_fd" \in Descriptors
  BY DEF Descriptors
<1>1. /\ c \in LoopState /\ SameLoop(s, c) /\ c.active = s.active /\ c.refs = s.refs
      /\ c.open = s.open \ {"backend_fd"} /\ c.mine = s.mine \ {"backend_fd"}
      /\ c.bad = s.bad
  BY <1>0, ClosedIs
<1> HIDE DEF c
<1>2. /\ t \in LoopState /\ SameLoop(c, t) /\ t.active = c.active /\ t.refs = c.refs
      /\ t.open = c.open \cup {"backend_fd"} /\ t.mine = c.mine \cup {"backend_fd"}
      /\ t.bad = c.bad
  BY <1>0, <1>1, OpenedIs
<1> HIDE DEF t
<1>3. t.open = s.open /\ t.mine = s.mine \cup {"backend_fd"}
  BY <1>1, <1>2
<1>4. SameLoop(s, t)
  BY <1>1, <1>2 DEF SameLoop
<1> QED
  BY <1>1, <1>2, <1>3, <1>4 DEF t, c

\* iouring_destroy takes its watcher's reference although the watcher holds none.
LEMMA IouringDestroyed ==
    ASSUME NEW s \in LoopState, {"backend_fd", "maps", "tfd"} \subseteq s.open, "backend_w" \in s.active
    PROVE  LET t == IouringDestroy(s) IN
           /\ t \in LoopState /\ SameLoop(s, t) /\ t.active = s.active \ {"backend_w"}
           /\ t.open = s.open \ {"backend_fd", "maps", "tfd"}
           /\ t.mine = s.mine \ {"backend_fd", "maps", "tfd"} /\ t.bad = s.bad
<1> DEFINE a == Stopped(s, "backend_w")  b == Closed(a, "maps")  c == Closed(b, "backend_fd")
           t == Closed(c, "tfd")
<1>0. {"backend_fd", "maps", "tfd"} \subseteq Descriptors /\ "backend_w" \in Internal
  BY DEF Descriptors, Internal
<1>1. a \in LoopState /\ SameLoop(s, a) /\ SameFiles(s, a) /\ a.active = s.active \ {"backend_w"}
  BY <1>0, StoppedIs
<1>10. "maps" \in a.open
  BY <1>1 DEF SameFiles
<1> HIDE DEF a
<1>2. /\ b \in LoopState /\ SameLoop(a, b) /\ b.active = a.active
      /\ b.open = a.open \ {"maps"} /\ b.mine = a.mine \ {"maps"} /\ b.bad = a.bad
  BY <1>0, <1>1, <1>10, ClosedIs
<1> HIDE DEF b
<1>3. "backend_fd" \in b.open
  BY <1>1, <1>2 DEF SameFiles
<1>4. /\ c \in LoopState /\ SameLoop(b, c) /\ c.active = b.active
      /\ c.open = b.open \ {"backend_fd"} /\ c.mine = b.mine \ {"backend_fd"} /\ c.bad = b.bad
  BY <1>0, <1>2, <1>3, ClosedIs
<1> HIDE DEF c
<1>5. "tfd" \in c.open
  BY <1>1, <1>2, <1>4 DEF SameFiles
<1>6. /\ t \in LoopState /\ SameLoop(c, t) /\ t.active = c.active
      /\ t.open = c.open \ {"tfd"} /\ t.mine = c.mine \ {"tfd"} /\ t.bad = c.bad
  BY <1>0, <1>4, <1>5, ClosedIs
<1> HIDE DEF t
<1>7. t.open = s.open \ {"backend_fd", "maps", "tfd"} /\ t.mine = s.mine \ {"backend_fd", "maps", "tfd"}
  BY <1>1, <1>2, <1>4, <1>6 DEF SameFiles
<1>8. SameLoop(s, t)
  BY <1>1, <1>2, <1>4, <1>6 DEF SameLoop
<1>9. t.bad = s.bad /\ t.active = s.active \ {"backend_w"}
  BY <1>1, <1>2, <1>4, <1>6 DEF SameFiles
<1> QED
  BY <1>6, <1>7, <1>8, <1>9 DEF IouringDestroy, t, c, b, a

BackendFds == {"backend_fd", "maps", "tfd", "aio_ctx"}

\* Between the steps of loop_fork: the kernel state is whole again, D belongs to the child.
Forked(s, t, D) ==
    /\ t \in LoopState /\ t.life = s.life /\ t.postfork = s.postfork /\ t.child = s.child
    /\ Kept(t) /\ BackendHolds(t, FALSE) /\ Owned(t, D)

\* s and t differ in descriptors of the backend only.
LEMMA KeptBy ==
    ASSUME NEW s \in LoopState, Kept(s), NEW t \in LoopState,
           t.backend = s.backend, t.users = s.users, t.bad = s.bad, t.mine \subseteq t.open,
           s.backend # "iouring" => t.refs = s.refs,
           \A f \in Descriptors \ BackendFds : f \in t.open <=> f \in s.open,
           \A w \in Internal \ {"backend_w"} : w \in t.active <=> w \in s.active
    PROVE  Kept(t)
<1>1. Paired(t)
  BY DEF Kept, Paired, Descriptors, BackendFds, Internal
<1> QED
  BY <1>1 DEF Kept

LEMMA EpollForked ==
    ASSUME NEW s \in LoopState, Sound(s), s.backend \in {"epoll", "port"},
           NEW t, t = Opened(Closed(s, "backend_fd"), "backend_fd")
    PROVE  Forked(s, t, BackendFds) /\ (s.postfork = 2 => Owned(t, Renewable))
<1>1. "backend_fd" \in s.open /\ Kept(s)
  BY DEF Sound, BackendHolds
<1>2. /\ t \in LoopState /\ SameLoop(s, t) /\ t.active = s.active /\ t.refs = s.refs
      /\ t.open = s.open /\ t.mine = s.mine \cup {"backend_fd"} /\ t.bad = s.bad
  BY <1>1, ReplacedIs
<1>3. t.mine \subseteq t.open
  BY <1>1, <1>2 DEF Kept
<1>4. Kept(t)
  BY <1>1, <1>2, <1>3, KeptBy DEF SameLoop
<1>5. BackendHolds(t, FALSE)
  BY <1>2 DEF Sound, BackendHolds, SameLoop
<1>6. Owned(t, BackendFds)
  BY <1>2, <1>5 DEF Owned, BackendHolds, BackendFds, SameLoop
<1>7. s.postfork = 2 => Owned(t, Renewable)
  BY <1>2 DEF Sound, Owned
<1> QED
  BY <1>2, <1>4, <1>5, <1>6, <1>7 DEF Forked, SameLoop

\* A child has lost its kqueue; the process that made it closes it.
LEMMA KqueueForked ==
    ASSUME NEW s \in LoopState, Sound(s), s.backend = "kqueue"
    PROVE  Forked(s, KqueueFork(s), BackendFds)
<1> DEFINE t == KqueueFork(s)
<1>0. /\ Kept(s) /\ ("backend_fd" \in s.open <=> ~s.child) /\ "backend_fd" \in Descriptors
      /\ (~s.child => "backend_fd" \in s.mine) /\ s.mine \subseteq s.open
  BY DEF Sound, BackendHolds, Owned, Renewable, Descriptors, Kept
<1>1. /\ t \in LoopState /\ SameLoop(s, t) /\ t.active = s.active /\ t.refs = s.refs
      /\ t.open = s.open \cup {"backend_fd"} /\ t.mine = s.mine \cup {"backend_fd"}
      /\ t.bad = s.bad
  <2>1. CASE s.child
    <3>1. t = Opened(s, "backend_fd") /\ "backend_fd" \notin s.open
      BY <1>0, <2>1 DEF KqueueFork
    <3> HIDE DEF t
    <3> QED
      BY <1>0, <3>1, OpenedIs
  <2>2. CASE ~s.child
    <3>1. t = Opened(Closed(s, "backend_fd"), "backend_fd") /\ "backend_fd" \in s.open
      BY <1>0, <2>2 DEF KqueueFork
    <3> HIDE DEF t
    <3>2. /\ t \in LoopState /\ SameLoop(s, t) /\ t.active = s.active /\ t.refs = s.refs
          /\ t.open = s.open /\ t.mine = s.mine \cup {"backend_fd"} /\ t.bad = s.bad
      BY <3>1, ReplacedIs
    <3> QED
      BY <3>1, <3>2
  <2> QED
    BY <2>1, <2>2
<1> HIDE DEF t
<1>3. t.mine \subseteq t.open /\ \A f \in Descriptors \ BackendFds : f \in t.open <=> f \in s.open
  BY <1>0, <1>1 DEF BackendFds
<1>4. Kept(t)
  BY <1>0, <1>1, <1>3, KeptBy DEF SameLoop
<1>5. BackendHolds(t, FALSE)
  BY <1>1 DEF Sound, BackendHolds, SameLoop
<1>6. Owned(t, BackendFds)
  BY <1>1, <1>5 DEF Owned, BackendHolds, BackendFds, SameLoop
<1> QED
  BY <1>1, <1>4, <1>5, <1>6 DEF Forked, SameLoop, t

LEMMA AioDestroyedIs ==
    ASSUME NEW s \in LoopState
    PROVE  LET t == AioDestroyed(s) IN
           /\ t \in LoopState /\ SameLoop(s, t) /\ t.active = s.active /\ t.refs = s.refs
           /\ t.open = s.open \ {"aio_ctx"} /\ t.mine = s.mine \ {"aio_ctx"} /\ t.bad = s.bad
<1> DEFINE o == s.open \ {"aio_ctx"}  m == s.mine \ {"aio_ctx"}
<1>1. o \in SUBSET Descriptors /\ m \in SUBSET Descriptors
  BY DEF LoopState
<1>2. AioDestroyed(s) = [s EXCEPT !.open = o, !.mine = m]
  BY DEF AioDestroyed, LoopState
<1>3. o = s.open \ {"aio_ctx"} /\ m = s.mine \ {"aio_ctx"}
  OBVIOUS
<1> HIDE DEF o, m
<1> QED
  BY <1>1, <1>2, <1>3 DEF LoopState, SameLoop

LEMMA LinuxaioForked ==
    ASSUME NEW s \in LoopState, Sound(s), s.backend = "linuxaio"
    PROVE  Forked(s, LinuxaioFork(s), BackendFds)
           /\ (s.postfork = 2 => Owned(LinuxaioFork(s), Renewable))
<1> DEFINE x == AioDestroyed(s)  o == Opened(x, "aio_ctx")  e == Opened(Closed(o, "backend_fd"), "backend_fd")
           d == Stopped(e, "backend_w")  t == Started(d, "backend_w")
<1>0. "aio_ctx" \in Descriptors /\ "backend_w" \in Internal
  BY DEF Descriptors, Internal
<1>1. /\ "backend_fd" \in s.open /\ "backend_w" \in s.active /\ Kept(s)
      /\ "maps" \notin s.open /\ "tfd" \notin s.open
  BY DEF Sound, BackendHolds
<1>12. /\ x \in LoopState /\ SameLoop(s, x) /\ x.active = s.active /\ x.refs = s.refs
       /\ x.open = s.open \ {"aio_ctx"} /\ x.mine = s.mine \ {"aio_ctx"} /\ x.bad = s.bad
  BY AioDestroyedIs
<1> HIDE DEF x
<1>13. /\ o \in LoopState /\ SameLoop(x, o) /\ o.active = x.active /\ o.refs = x.refs
       /\ o.open = x.open \cup {"aio_ctx"} /\ o.mine = x.mine \cup {"aio_ctx"} /\ o.bad = x.bad
  BY <1>0, <1>12, OpenedIs
<1> HIDE DEF o
<1>2. /\ o \in LoopState /\ SameLoop(s, o) /\ o.active = s.active /\ o.refs = s.refs
      /\ o.open = s.open \cup {"aio_ctx"} /\ o.mine = s.mine \cup {"aio_ctx"}
      /\ o.bad = s.bad
  BY <1>12, <1>13 DEF SameLoop
<1>3. "backend_fd" \in o.open
  BY <1>1, <1>2
<1>4. /\ e \in LoopState /\ SameLoop(o, e) /\ e.active = o.active /\ e.refs = o.refs
      /\ e.open = o.open /\ e.mine = o.mine \cup {"backend_fd"} /\ e.bad = o.bad
  BY <1>2, <1>3, ReplacedIs
<1> HIDE DEF e
<1>5. /\ d \in LoopState /\ SameLoop(e, d) /\ SameFiles(e, d)
      /\ d.active = e.active \ {"backend_w"} /\ d.refs = e.refs - 1
  BY <1>0, <1>1, <1>2, <1>4, StoppedIs
<1> HIDE DEF d
<1>6. /\ t \in LoopState /\ SameLoop(d, t) /\ SameFiles(d, t)
      /\ t.active = d.active \cup {"backend_w"} /\ t.refs = d.refs + 1
  BY <1>0, <1>5, StartedIs
<1> HIDE DEF t
<1>7. t.refs = s.refs /\ SameLoop(s, t)
  BY <1>2, <1>4, <1>5, <1>6 DEF SameLoop, LoopState
<1>8. /\ t.open = s.open \cup {"aio_ctx"} /\ t.mine = s.mine \cup {"aio_ctx", "backend_fd"}
      /\ t.bad = s.bad /\ t.active = s.active
  BY <1>1, <1>2, <1>4, <1>5, <1>6 DEF SameFiles
<1>9. Kept(t)
  <2>1. t.mine \subseteq t.open /\ \A f \in Descriptors \ BackendFds : f \in t.open <=> f \in s.open
    BY <1>1, <1>8 DEF Kept, BackendFds
  <2> QED
    BY <1>1, <1>6, <1>7, <1>8, <2>1, KeptBy DEF SameLoop
<1>10. BackendHolds(t, FALSE)
  BY <1>1, <1>7, <1>8 DEF BackendHolds, SameLoop
<1>11. Owned(t, BackendFds)
  BY <1>1, <1>8 DEF Owned, BackendFds
<1>14. s.postfork = 2 => Owned(t, Renewable)
  BY <1>8 DEF Sound, Owned
<1>15. Forked(s, t, BackendFds)
  BY <1>6, <1>7, <1>9, <1>10, <1>11 DEF Forked, SameLoop
<1> QED
  BY <1>14, <1>15 DEF LinuxaioFork, EpollFork, t, d, e, o, x

LEMMA IouringForked ==
    ASSUME NEW s \in LoopState, Sound(s), s.backend = "iouring", NEW t \in IouringFork(s)
    PROVE  Forked(s, t, BackendFds)
<1> DEFINE d == IouringDestroy(s)  n == [d EXCEPT !.backend = "none"]
           m == Opened(Opened(n, "backend_fd"), "maps")
           u == [EvUnref(Started(Opened(m, "tfd"), "backend_w")) EXCEPT !.backend = "iouring"]
<1>1. /\ {"backend_fd", "maps", "tfd"} \subseteq s.open /\ "aio_ctx" \notin s.open
      /\ "backend_w" \in s.active /\ Kept(s)
  BY DEF Sound, BackendHolds
<1>2. /\ d \in LoopState /\ SameLoop(s, d) /\ d.active = s.active \ {"backend_w"}
      /\ d.open = s.open \ {"backend_fd", "maps", "tfd"}
      /\ d.mine = s.mine \ {"backend_fd", "maps", "tfd"} /\ d.bad = s.bad
  BY <1>1, IouringDestroyed
<1>3. t \in IouringInit(n) /\ t.backend = "iouring"
  BY DEF IouringFork
<1> HIDE DEF d
<1>4. /\ n \in LoopState /\ SameOwn(d, n) /\ n.backend = "none" /\ n.life = d.life
      /\ n.default = d.default /\ n.users = d.users /\ n.postfork = d.postfork /\ n.child = d.child
  BY <1>2, BackendSet
<1>5. /\ {"backend_fd", "maps", "tfd"} \cap n.open = {} /\ "backend_w" \notin n.active
      /\ n.mine \subseteq n.open
  BY <1>1, <1>2, <1>4 DEF SameOwn, SameFiles, Kept
<1>6. \/ t = n \/ t = u
      \/ t = Closed(Opened(n, "backend_fd"), "backend_fd") \/ t = Closed(Closed(m, "maps"), "backend_fd")
  BY <1>3 DEF IouringInit
<1> HIDE DEF n
<1>7. {"backend_fd", "maps"} \cap n.open = {}
  BY <1>5
<1>8. t = u
  <2>1. CASE \/ t = Closed(Opened(n, "backend_fd"), "backend_fd")
             \/ t = Closed(Closed(m, "maps"), "backend_fd")
    <3>1. SameLoop(n, t)
      BY <1>4, <1>5, <1>7, <2>1, IouringUndone
    <3> QED
      BY <1>3, <1>4, <3>1 DEF SameLoop
  <2> HIDE DEF u, m
  <2> QED
    BY <1>3, <1>4, <1>6, <2>1
<1>9. Gained(n, t, {"backend_fd", "maps", "tfd"})
  BY <1>4, <1>5, <1>8, IouringMade
<1> HIDE DEF u, m
<1>10. /\ t \in LoopState /\ t.open = s.open /\ t.active = s.active
       /\ t.mine = s.mine \cup {"backend_fd", "maps", "tfd"} /\ t.bad = s.bad
       /\ t.life = s.life /\ t.users = s.users /\ t.postfork = s.postfork /\ t.child = s.child
  <2>1. t.open = s.open /\ t.active = s.active
    BY <1>1, <1>2, <1>4, <1>9 DEF Gained, SameOwn, SameFiles
  <2>2. t.mine = s.mine \cup {"backend_fd", "maps", "tfd"} /\ t.bad = s.bad
    BY <1>1, <1>2, <1>4, <1>9 DEF Gained, SameOwn, SameFiles
  <2> QED
    BY <1>2, <1>4, <1>9, <2>1, <2>2 DEF Gained, SameLoop
<1>11. t.mine \subseteq t.open
  BY <1>1, <1>10 DEF Kept
<1>12. Kept(t)
  BY <1>1, <1>3, <1>10, <1>11, KeptBy
<1>13. BackendHolds(t, FALSE)
  BY <1>1, <1>3, <1>10 DEF BackendHolds
<1>14. Owned(t, BackendFds)
  BY <1>1, <1>10 DEF Owned, BackendFds
<1> QED
  BY <1>10, <1>12, <1>13, <1>14 DEF Forked

LEMMA BackendForked ==
    ASSUME NEW s \in LoopState, Sound(s), s.postfork # 0, NEW t \in BackendFork(s)
    PROVE  Forked(s, t, BackendFds) /\ (s.postfork = 2 => Owned(t, Renewable))
<1>1. s.backend \in AllBackends /\ (s.postfork # 2 \/ s.backend \in {"epoll", "linuxaio"})
  BY DEF Sound, Kept, LoopState
<1>2. CASE s.backend \in {"epoll", "port"}
  BY <1>2, EpollForked DEF BackendFork, EpollFork, PortFork
<1>3. CASE s.backend = "kqueue"
  BY <1>1, <1>3, KqueueForked DEF BackendFork
<1>4. CASE s.backend = "iouring"
  BY <1>1, <1>4, IouringForked DEF BackendFork
<1>5. CASE s.backend = "linuxaio"
  BY <1>1, <1>5, LinuxaioForked DEF BackendFork
<1>6. CASE s.backend \in {"poll", "select"}
  <2>1. t = s /\ s.postfork # 2
    BY <1>1, <1>6 DEF BackendFork
  <2>2. BackendHolds(s, FALSE)
    BY <1>6 DEF Sound, BackendHolds
  <2>3. Owned(s, BackendFds)
    BY <1>6, <2>2 DEF Owned, BackendHolds, BackendFds
  <2>4. Kept(s)
    BY DEF Sound
  <2>5. Forked(s, s, BackendFds)
    BY <2>2, <2>3, <2>4 DEF Forked
  <2> QED
    BY <2>1, <2>5
<1> QED
  BY <1>1, <1>2, <1>3, <1>4, <1>5, <1>6 DEF AllBackends

\* infy_fork, and the timerfd's and the pipe's part of loop_fork: each closes what there is and
\* makes it anew, or not at all.
LEMMA PairForked ==
    ASSUME NEW s, NEW b, NEW D, Forked(s, b, D), NEW w, NEW f, <<w, f>> \in OwnPairs, NEW t,
           LET shut == Closed(Stopped(EvRef(b), w), f) IN
           \/ t = b /\ w \notin b.active
           \/ w \in b.active /\ (t = shut \/ t = EvUnref(Started(Opened(shut, f), w)))
    PROVE  Forked(s, t, D \cup {f})
<1> DEFINE shut == Closed(Stopped(EvRef(b), w), f)
<1>1. b \in LoopState /\ Kept(b) /\ BackendHolds(b, FALSE) /\ Owned(b, D)
  BY DEF Forked
<1>2. CASE t = b /\ w \notin b.active
  <2>1. f \notin b.open
    BY <1>1, <1>2 DEF Kept, Paired, OwnPairs
  <2> QED
    BY <1>2, <2>1 DEF Forked, Owned
<1>3. CASE w \in b.active
  <2>1. /\ shut \in LoopState /\ SameLoop(b, shut) /\ Kept(shut) /\ w \notin shut.active
        /\ BackendHolds(shut, FALSE) /\ Owned(shut, D \cup {f})
    BY <1>1, <1>3, UnmadeKept
  <2>2. CASE t = shut
    BY <2>1, <2>2 DEF Forked, SameLoop
  <2>3. CASE t = EvUnref(Started(Opened(shut, f), w))
    <3> HIDE DEF shut
    <3>1. /\ t \in LoopState /\ SameLoop(shut, t) /\ Kept(t) /\ BackendHolds(t, FALSE)
          /\ Owned(t, (D \cup {f}) \cup {f})
      BY <2>1, <2>3, MadeKept
    <3>2. Owned(t, D \cup {f})
      BY <3>1 DEF Owned
    <3> QED
      BY <2>1, <3>1, <3>2 DEF Forked, SameLoop
  <2> QED
    BY <1>3, <2>2, <2>3
<1> QED
  BY <1>2, <1>3

LEMMA ForkStepSound ==
    ASSUME NEW s, NEW t, NEW D, Forked(s, t, D), Renewable \subseteq D, s.life = "up",
           NEW u, u = [t EXCEPT !.postfork = 0, !.child = FALSE]
    PROVE  u \in LoopState /\ u.life = "up" /\ Sound(u)
<1>1. t \in LoopState /\ Kept(t) /\ BackendHolds(t, FALSE) /\ Owned(t, Renewable) /\ t.life = "up"
  BY DEF Forked, Owned
<1>2. /\ u \in LoopState /\ SameOwn(t, u) /\ u.backend = t.backend /\ u.life = t.life
      /\ u.users = t.users /\ u.postfork = 0 /\ u.child = FALSE
  BY <1>1, ForkEnds
<1>3. BackendHolds(u, u.child)
  BY <1>1, <1>2 DEF BackendHolds, SameOwn, SameFiles
<1>4. Owned(u, Renewable) /\ Paired(u)
  BY <1>1, <1>2 DEF Kept, Paired, Owned, SameOwn, SameFiles
<1>5. Kept(u)
  BY <1>1, <1>2, <1>4 DEF Kept, SameOwn, SameFiles
<1>6. ~u.child /\ u.postfork # 2
  BY <1>2
<1> QED
  BY <1>1, <1>2, <1>3, <1>4, <1>5, <1>6, Zenon DEF Sound

LEMMA LoopForkSound ==
    ASSUME LoopInv, LoopFork
    PROVE  LoopInv'
<1>1. L \in LoopState /\ Sound(L) /\ L.life = "up" /\ L.postfork # 0
  BY DEF LoopInv, LoopFork, Up
<1>2. PICK b \in BackendFork(L) : \E i \in InotifyFork(b) :
         IF L.postfork = 2 THEN L' = [i EXCEPT !.postfork = 0, !.child = FALSE]
         ELSE \E t \in TimerfdFork(i) : L' = [PipeFork(t) EXCEPT !.postfork = 0, !.child = FALSE]
  BY DEF LoopFork
<1>3. PICK i \in InotifyFork(b) :
         IF L.postfork = 2 THEN L' = [i EXCEPT !.postfork = 0, !.child = FALSE]
         ELSE \E t \in TimerfdFork(i) : L' = [PipeFork(t) EXCEPT !.postfork = 0, !.child = FALSE]
  BY <1>2
<1>4. Forked(L, b, BackendFds) /\ (L.postfork = 2 => Owned(b, Renewable))
  BY <1>1, BackendForked
<1>5. <<"fs_w", "fs_fd">> \in OwnPairs /\ <<"timerfd_w", "timerfd">> \in OwnPairs
      /\ <<"pipe_w", "evpipe">> \in OwnPairs
  BY DEF OwnPairs
<1>6. LET shut == Closed(Stopped(EvRef(b), "fs_w"), "fs_fd") IN
      \/ i = b /\ "fs_w" \notin b.active
      \/ "fs_w" \in b.active /\ (i = shut \/ i = EvUnref(Started(Opened(shut, "fs_fd"), "fs_w")))
  <2>1. "fs_w" \in b.active <=> "fs_fd" \in b.open
    BY <1>4 DEF Forked, Kept, Paired
  <2> QED
    BY <2>1 DEF InotifyFork, InfyInit
<1>7. CASE L.postfork = 2
  <2>1. Forked(L, b, Renewable)
    BY <1>4, <1>7 DEF Forked
  <2>2. Forked(L, i, Renewable \cup {"fs_fd"})
    BY <1>5, <1>6, <2>1, PairForked
  <2>4. L' = [i EXCEPT !.postfork = 0, !.child = FALSE] /\ Renewable \subseteq Renewable \cup {"fs_fd"}
    BY <1>3, <1>7
  <2>3. L' \in LoopState /\ L'.life = "up" /\ Sound(L')
    BY <1>1, <2>2, <2>4, ForkStepSound, Zenon
  <2> QED
    BY <2>3 DEF LoopInv
<1>8. CASE L.postfork # 2
  <2>1. Forked(L, i, BackendFds \cup {"fs_fd"})
    BY <1>4, <1>5, <1>6, PairForked
  <2>2. PICK t \in TimerfdFork(i) : L' = [PipeFork(t) EXCEPT !.postfork = 0, !.child = FALSE]
    BY <1>3, <1>8
  <2>3. LET shut == Closed(Stopped(EvRef(i), "timerfd_w"), "timerfd") IN
        \/ t = i /\ "timerfd_w" \notin i.active
        \/ /\ "timerfd_w" \in i.active
           /\ t = shut \/ t = EvUnref(Started(Opened(shut, "timerfd"), "timerfd_w"))
    BY DEF TimerfdFork, EvtimerfdInit
  <2>4. Forked(L, t, (BackendFds \cup {"fs_fd"}) \cup {"timerfd"})
    BY <1>5, <2>1, <2>3, PairForked
  <2>5. LET shut == Closed(Stopped(EvRef(t), "pipe_w"), "evpipe") IN
        \/ PipeFork(t) = t /\ "pipe_w" \notin t.active
        \/ /\ "pipe_w" \in t.active
           /\ PipeFork(t) = shut \/ PipeFork(t) = EvUnref(Started(Opened(shut, "evpipe"), "pipe_w"))
    BY DEF PipeFork, EvpipeInit
  <2>6. Forked(L, PipeFork(t), ((BackendFds \cup {"fs_fd"}) \cup {"timerfd"}) \cup {"evpipe"})
    BY <1>5, <2>4, <2>5, PairForked
  <2>7. Renewable \subseteq ((BackendFds \cup {"fs_fd"}) \cup {"timerfd"}) \cup {"evpipe"}
    BY DEF Renewable, Descriptors, BackendFds
  <2>8. L' \in LoopState /\ L'.life = "up" /\ Sound(L')
    BY <1>1, <2>2, <2>6, <2>7, ForkStepSound
  <2> QED
    BY <2>8 DEF LoopInv
<1> QED
  BY <1>7, <1>8

LEMMA CloseIfIs ==
    ASSUME NEW s \in LoopState, NEW w, NEW f \in Descriptors, w \in s.active <=> f \in s.open
    PROVE  LET t == CloseIf(s, w, f) IN
           /\ t \in LoopState /\ SameLoop(s, t) /\ t.active = s.active
           /\ t.open = s.open \ {f} /\ t.bad = s.bad
<1>1. CASE w \in s.active
  BY <1>1, ClosedIs DEF CloseIf
<1>2. CASE w \notin s.active
  BY <1>2 DEF CloseIf, SameLoop
<1> QED
  BY <1>1, <1>2

\* The backend's part of ev_loop_destroy.
LEMMA BackendDestroyed ==
    ASSUME NEW s \in LoopState, s.backend # "none", BackendHolds(s, s.child),
           s.open \subseteq BackendFds, s.bad = {}
    PROVE  /\ BackendDestroy(s) \in LoopState /\ BackendDestroy(s).open = {}
           /\ BackendDestroy(s).child = s.child /\ Excused(BackendDestroy(s))
<1>0. /\ "backend_fd" \in Descriptors /\ "aio_ctx" \in Descriptors /\ "backend_w" \in Internal
      /\ s.backend \in AllBackends
  BY DEF Descriptors, Internal, LoopState
<1>1. CASE s.backend = "iouring"
  <2>1. s.open = {"backend_fd", "maps", "tfd"} /\ "backend_w" \in s.active
    BY <1>1 DEF BackendHolds, BackendFds
  <2>2. /\ IouringDestroy(s) \in LoopState /\ IouringDestroy(s).bad = s.bad
        /\ SameLoop(s, IouringDestroy(s))
        /\ IouringDestroy(s).open = s.open \ {"backend_fd", "maps", "tfd"}
    BY <2>1, IouringDestroyed
  <2> QED
    BY <1>1, <2>1, <2>2 DEF BackendDestroy, Excused, SameLoop
<1>2. CASE s.backend = "linuxaio"
  <2> DEFINE a == Stopped(s, "backend_w")  c == AioDestroyed(a)  t == Closed(c, "backend_fd")
  <2>1. "backend_fd" \in s.open /\ s.open \subseteq {"backend_fd", "aio_ctx"}
    BY <1>2 DEF BackendHolds, BackendFds
  <2>2. a \in LoopState /\ SameLoop(s, a) /\ a.open = s.open /\ a.bad = s.bad
    BY <1>0, StoppedIs DEF SameFiles
  <2> HIDE DEF a
  <2>3. c \in LoopState /\ SameLoop(a, c) /\ c.open = a.open \ {"aio_ctx"} /\ c.bad = a.bad
    BY <2>2, AioDestroyedIs
  <2> HIDE DEF c
  <2>4. "backend_fd" \in c.open
    BY <2>1, <2>2, <2>3
  <2>5. t \in LoopState /\ SameLoop(c, t) /\ t.open = c.open \ {"backend_fd"} /\ t.bad = c.bad
    BY <1>0, <2>3, <2>4, ClosedIs
  <2> HIDE DEF t
  <2>6. t.open = {} /\ t.child = s.child /\ t.bad = {}
    BY <2>1, <2>2, <2>3, <2>5 DEF SameLoop
  <2>7. BackendDestroy(s) = t
    BY <1>2 DEF BackendDestroy, LinuxaioDestroy, t, c, a
  <2> QED
    BY <2>5, <2>6, <2>7 DEF Excused
<1>3. CASE s.backend \in {"poll", "select"}
  BY <1>3 DEF BackendDestroy, BackendHolds, BackendFds, Excused
<1>4. CASE s.backend \in {"port", "kqueue", "epoll"}
  <2> DEFINE t == Closed(s, "backend_fd")
  <2>1. s.open \subseteq {"backend_fd"} /\ ("backend_fd" \notin s.open => s.backend = "kqueue" /\ s.child)
    BY <1>4 DEF BackendHolds, BackendFds
  <2>2. BackendDestroy(s) = t
    BY <1>4 DEF BackendDestroy
  <2> HIDE DEF t
  <2>3. /\ t \in LoopState /\ SameLoop(s, t) /\ t.open = s.open \ {"backend_fd"}
        /\ ("backend_fd" \in s.open => t.bad = s.bad)
    BY <1>0, ClosedIs DEF t
  <2>6. t.bad \subseteq s.bad \cup {<<s.backend, "backend_fd">>}
    BY <1>0, ClosedNotes DEF t
  <2>4. t.open = {} /\ t.child = s.child
    BY <2>1, <2>3 DEF SameLoop
  <2>5. Excused(t)
    BY <2>1, <2>3, <2>4, <2>6 DEF Excused
  <2> QED
    BY <2>2, <2>3, <2>4, <2>5
<1> QED
  BY <1>0, <1>1, <1>2, <1>3, <1>4 DEF AllBackends

LEMMA DestroySound ==
    ASSUME LoopInv, LoopDestroy
    PROVE  LoopInv'
<1> DEFINE child == IF L.default /\ "childev" \in L.active THEN Stopped(EvRef(L), "childev") ELSE L
           p == CloseIf(child, "pipe_w", "evpipe")  g == CloseIf(p, "sigfd_w", "sigfd")
           t == CloseIf(g, "timerfd_w", "timerfd")  shut == CloseIf(t, "fs_w", "fs_fd")
<1>1. L \in LoopState /\ Sound(L)
  BY DEF LoopInv, LoopDestroy, Up
<1>2. L' = [BackendDestroy(shut) EXCEPT !.life = "gone", !.backend = "none"]
  BY DEF LoopDestroy
<1>3. {"evpipe", "sigfd", "timerfd", "fs_fd"} \subseteq Descriptors /\ "childev" \in Internal
  BY DEF Descriptors, Internal
<1>4. /\ child \in LoopState /\ SameLoop(L, child) /\ SameFiles(L, child)
      /\ L.active \ {"childev"} \subseteq child.active /\ child.active \subseteq L.active
  <2>1. CASE L.default /\ "childev" \in L.active
    <3>1. EvRef(L) \in LoopState /\ SameLoop(L, EvRef(L)) /\ SameFiles(L, EvRef(L)) /\ EvRef(L).active = L.active
      BY <1>1, RefIs
    <3>2. /\ child \in LoopState /\ SameLoop(EvRef(L), child) /\ SameFiles(EvRef(L), child)
          /\ child.active = EvRef(L).active \ {"childev"}
      BY <1>3, <2>1, <3>1, StoppedIs
    <3> HIDE DEF child
    <3> QED
      BY <3>1, <3>2 DEF SameLoop, SameFiles
  <2>2. CASE ~(L.default /\ "childev" \in L.active)
    BY <1>1, <2>2 DEF SameLoop, SameFiles
  <2> QED
    BY <2>1, <2>2
<1> HIDE DEF child
<1>5. Paired(child) /\ BackendHolds(child, child.child) /\ child.bad = {} /\ child.backend # "none"
  <2>1. Paired(child) /\ child.bad = {} /\ child.backend # "none"
    BY <1>1, <1>4 DEF Sound, Kept, Paired, SameLoop, SameFiles
  <2>2. BackendHolds(child, child.child)
    BY <1>1, <1>4 DEF Sound, BackendHolds, SameLoop, SameFiles
  <2> QED
    BY <2>1, <2>2
<1>6. /\ p \in LoopState /\ SameLoop(child, p) /\ p.active = child.active
      /\ p.open = child.open \ {"evpipe"} /\ p.bad = child.bad
  BY <1>3, <1>4, <1>5, CloseIfIs DEF Paired
<1> HIDE DEF p
<1>7. /\ g \in LoopState /\ SameLoop(p, g) /\ g.active = p.active
      /\ g.open = p.open \ {"sigfd"} /\ g.bad = p.bad
  <2>1. "sigfd_w" \in p.active <=> "sigfd" \in p.open
    BY <1>5, <1>6 DEF Paired
  <2> QED
    BY <1>3, <1>6, <2>1, CloseIfIs
<1> HIDE DEF g
<1>8. /\ t \in LoopState /\ SameLoop(g, t) /\ t.active = g.active
      /\ t.open = g.open \ {"timerfd"} /\ t.bad = g.bad
  <2>1. "timerfd_w" \in g.active <=> "timerfd" \in g.open
    BY <1>5, <1>6, <1>7 DEF Paired
  <2> QED
    BY <1>3, <1>7, <2>1, CloseIfIs
<1> HIDE DEF t
<1>9. /\ shut \in LoopState /\ SameLoop(t, shut) /\ shut.active = t.active
      /\ shut.open = t.open \ {"fs_fd"} /\ shut.bad = t.bad
  <2>1. "fs_w" \in t.active <=> "fs_fd" \in t.open
    BY <1>5, <1>6, <1>7, <1>8 DEF Paired
  <2> QED
    BY <1>3, <1>8, <2>1, CloseIfIs
<1> HIDE DEF shut
<1>10. /\ shut.active = child.active /\ shut.bad = child.bad
       /\ shut.open = child.open \ {"evpipe", "sigfd", "timerfd", "fs_fd"}
  BY <1>6, <1>7, <1>8, <1>9
<1>11. shut.backend = child.backend /\ shut.postfork = child.postfork /\ shut.child = child.child
  BY <1>6, <1>7, <1>8, <1>9 DEF SameLoop
<1>12. BackendHolds(shut, shut.child)
  BY <1>5, <1>10, <1>11 DEF BackendHolds
<1>13. shut.open \subseteq BackendFds
  BY <1>4, <1>10 DEF LoopState, Descriptors, BackendFds
<1>14. /\ BackendDestroy(shut) \in LoopState /\ BackendDestroy(shut).open = {}
       /\ Excused(BackendDestroy(shut))
  BY <1>5, <1>9, <1>10, <1>11, <1>12, <1>13, BackendDestroyed
<1> DEFINE d == BackendDestroy(shut)
<1> HIDE DEF d
<1>15. L' = [d EXCEPT !.life = "gone", !.backend = "none"] /\ d \in LoopState /\ d.open = {} /\ Excused(d)
  BY <1>2, <1>14 DEF d, shut, t, g, p, child
<1>16. /\ L' \in LoopState /\ L'.open = {} /\ L'.life = "gone"
       /\ L'.bad = d.bad /\ L'.child = d.child
  BY <1>15 DEF LoopState
<1> QED
  BY <1>15, <1>16 DEF LoopInv, Excused

\* linuxaio becomes epoll.
LEMMA AioToEpollSound ==
    ASSUME LoopInv, AioToEpoll
    PROVE  LoopInv'
<1> DEFINE c == Closed(L, "aio_ctx")  a == Stopped(c, "backend_w")  r == EvRef(a)
<1>1. L \in LoopState /\ Sound(L) /\ L.life = "up" /\ L.backend = "linuxaio" /\ L.postfork = 0
  BY DEF LoopInv, AioToEpoll, Up
<1>2. L' = [r EXCEPT !.backend = "epoll"]
  BY DEF AioToEpoll
<1>3. /\ "aio_ctx" \in Descriptors /\ "backend_w" \in Internal /\ "epoll" \in AllBackends
  BY DEF Descriptors, Internal, AllBackends
<1>4. "aio_ctx" \in L.open /\ "backend_w" \in L.active /\ ~L.child
  BY <1>1 DEF Sound, BackendHolds
<1>5. /\ c \in LoopState /\ SameLoop(L, c) /\ c.active = L.active /\ c.refs = L.refs
      /\ c.open = L.open \ {"aio_ctx"} /\ c.mine = L.mine \ {"aio_ctx"} /\ c.bad = L.bad
  BY <1>1, <1>3, <1>4, ClosedIs
<1> HIDE DEF c
<1>6. /\ a \in LoopState /\ SameLoop(c, a) /\ SameFiles(c, a)
      /\ a.active = c.active \ {"backend_w"} /\ a.refs = c.refs - 1
  BY <1>3, <1>4, <1>5, StoppedIs
<1> HIDE DEF a
<1>7. /\ r \in LoopState /\ SameLoop(a, r) /\ SameFiles(a, r)
      /\ r.active = a.active /\ r.refs = a.refs + 1
  BY <1>6, RefIs
<1> HIDE DEF r
<1>8. /\ L' \in LoopState /\ SameOwn(r, L') /\ L'.backend = "epoll" /\ L'.life = r.life
      /\ L'.default = r.default /\ L'.users = r.users /\ L'.postfork = r.postfork /\ L'.child = r.child
  BY <1>2, <1>3, <1>7, BackendSet
<1>9. /\ L'.open = L.open \ {"aio_ctx"} /\ L'.mine = L.mine \ {"aio_ctx"} /\ L'.bad = L.bad
      /\ L'.active = L.active \ {"backend_w"}
  BY <1>5, <1>6, <1>7, <1>8 DEF SameFiles, SameOwn
<1>10. L'.life = "up" /\ L'.users = L.users /\ L'.postfork = 0 /\ ~L'.child
  BY <1>1, <1>4, <1>5, <1>6, <1>7, <1>8 DEF SameLoop
<1>11. L'.refs = L.refs
  BY <1>1, <1>5, <1>6, <1>7, <1>8 DEF SameOwn, LoopState
<1>12. Paired(L') /\ Owned(L', Renewable) /\ L'.mine \subseteq L'.open
  BY <1>1, <1>4, <1>9 DEF Sound, Kept, Paired, Owned
<1>13. Kept(L')
  BY <1>1, <1>8, <1>9, <1>10, <1>11, <1>12 DEF Sound, Kept
<1>14. BackendHolds(L', L'.child)
  BY <1>1, <1>8, <1>9, <1>10 DEF Sound, BackendHolds
<1> QED
  BY <1>8, <1>10, <1>12, <1>13, <1>14 DEF LoopInv, Sound

\* The process forks.
LEMMA ProcessForksSound ==
    ASSUME LoopInv, ProcessForks
    PROVE  LoopInv'
<1> DEFINE n == L.forks + 1
           lost == {"aio_ctx"} \cup IF L.backend = "kqueue" THEN {"backend_fd"} ELSE {}
           o == L.open \ lost
<1>1. L \in LoopState /\ Sound(L) /\ L.life = "up"
  BY DEF LoopInv, ProcessForks, Up
<1>2. L' = [L EXCEPT !.mine = {}, !.postfork = 1, !.child = TRUE, !.forks = n, !.open = o]
  BY <1>1 DEF ProcessForks, LoopState
<1>3. n \in Nat /\ o \in SUBSET Descriptors /\ {} \in SUBSET Descriptors /\ 1 \in 0 .. 3
  BY <1>1 DEF LoopState
<1>4. /\ \A f : f \in o <=> (f \in L.open /\ f # "aio_ctx" /\ ~(f = "backend_fd" /\ L.backend = "kqueue"))
  OBVIOUS
<1> HIDE DEF n, o
<1>5. /\ L' \in LoopState /\ L'.mine = {} /\ L'.open = o /\ L'.postfork = 1 /\ L'.child /\ L'.life = "up"
      /\ L'.backend = L.backend /\ L'.active = L.active /\ L'.bad = L.bad /\ L'.refs = L.refs
      /\ L'.users = L.users
  BY <1>1, <1>2, <1>3 DEF LoopState
<1>6. BackendHolds(L', L'.child)
  BY <1>1, <1>4, <1>5 DEF Sound, BackendHolds
<1>7. Paired(L')
  BY <1>1, <1>4, <1>5 DEF Sound, Kept, Paired
<1>8. Kept(L')
  BY <1>1, <1>5, <1>7 DEF Sound, Kept
<1>9. Sound(L')
  <2>1. L'.postfork \in {1, 3} /\ L'.postfork # 2
    BY <1>5
  <2> QED
    BY <1>5, <1>6, <1>8, <2>1, Zenon DEF Sound
<1> QED
  BY <1>5, <1>9 DEF LoopInv

\* A user's watcher starts or stops, ev_loop_fork is called, or epoll asks for a new kernel
\* state.
LEMMA OtherSound ==
    ASSUME LoopInv, UserStart \/ UserStop \/ EvLoopFork \/ EpollSpurious
    PROVE  LoopInv'
<1>1. L \in LoopState /\ Sound(L) /\ L.life = "up"
  BY DEF LoopInv, UserStart, UserStop, EvLoopFork, EpollSpurious, Up
<1>2. SUFFICES /\ L' \in LoopState /\ L'.life = "up" /\ SameFiles(L, L') /\ L'.active = L.active
               /\ L'.backend = L.backend /\ L'.child = L.child
               /\ L.refs = L.users => L'.refs = L'.users
               /\ \/ L'.postfork \in {L.postfork, 1}
                  \/ /\ L.postfork \in {0, 1} /\ L'.postfork = L.postfork + 2
                     /\ L.backend \in {"epoll", "linuxaio"}
  <2>1. BackendHolds(L', L'.child)
    BY <1>1, <1>2 DEF Sound, BackendHolds, SameFiles
  <2>2. Paired(L') /\ (~L'.child => Owned(L', Renewable))
    BY <1>1, <1>2 DEF Sound, Kept, Paired, Owned, SameFiles
  <2>3. Kept(L')
    BY <1>1, <1>2, <2>2 DEF Sound, Kept, SameFiles
  <2>4. /\ L'.postfork = 2 => L'.backend \in {"epoll", "linuxaio"}
        /\ L'.child => L'.postfork \in {1, 3}
    BY <1>1, <1>2 DEF Sound
  <2> QED
    BY <1>2, <2>1, <2>2, <2>3, <2>4 DEF LoopInv, Sound
<1>3. CASE UserStart
  <2> DEFINE n == L.refs + 1
  <2>1. n \in Int /\ L' = [L EXCEPT !.users = 1, !.refs = n] /\ L.users = 0 /\ (L.refs = L.users => n = 1)
    BY <1>1, <1>3 DEF UserStart, LoopState
  <2>2. 1 \in 0 .. 1
    OBVIOUS
  <2> HIDE DEF n
  <2>3. /\ L' \in LoopState /\ SameFiles(L, L') /\ L'.life = L.life /\ L'.active = L.active
        /\ L'.backend = L.backend /\ L'.postfork = L.postfork /\ L'.child = L.child /\ L'.refs = n /\ L'.users = 1
    BY <1>1, <2>1, <2>2 DEF LoopState, SameFiles
  <2> QED
    BY <1>1, <2>1, <2>3
<1>4. CASE UserStop
  <2> DEFINE n == L.refs - 1
  <2>1. n \in Int /\ L' = [L EXCEPT !.users = 0, !.refs = n] /\ L.users = 1 /\ (L.refs = L.users => n = 0)
    BY <1>1, <1>4 DEF UserStop, LoopState
  <2>2. 0 \in 0 .. 1
    OBVIOUS
  <2> HIDE DEF n
  <2>3. /\ L' \in LoopState /\ SameFiles(L, L') /\ L'.life = L.life /\ L'.active = L.active
        /\ L'.backend = L.backend /\ L'.postfork = L.postfork /\ L'.child = L.child /\ L'.refs = n /\ L'.users = 0
    BY <1>1, <2>1, <2>2 DEF LoopState, SameFiles
  <2> QED
    BY <1>1, <2>1, <2>3
<1>5. CASE EvLoopFork
  <2> DEFINE n == L.forks + 1
  <2>1. n \in Nat /\ 1 \in 0 .. 3 /\ L' = [L EXCEPT !.postfork = 1, !.forks = n]
    BY <1>1, <1>5 DEF EvLoopFork, LoopState
  <2> HIDE DEF n
  <2>2. /\ L' \in LoopState /\ SameFiles(L, L') /\ L'.life = L.life /\ L'.active = L.active
        /\ L'.backend = L.backend /\ L'.postfork = 1 /\ L'.child = L.child
        /\ L'.refs = L.refs /\ L'.users = L.users
    BY <1>1, <2>1 DEF LoopState, SameFiles
  <2> QED
    BY <1>1, <2>2
<1>6. CASE EpollSpurious
  <2> DEFINE n == L.postfork + 2
  <2>1. /\ n \in 0 .. 3 /\ n = L.postfork + 2 /\ L' = [L EXCEPT !.postfork = n]
        /\ L.postfork \in {0, 1} /\ L.backend \in {"epoll", "linuxaio"}
    BY <1>1, <1>6 DEF EpollSpurious, LoopState
  <2> HIDE DEF n
  <2> QED
    BY <1>1, <2>1 DEF LoopState, SameFiles
<1> QED
  BY <1>3, <1>4, <1>5, <1>6

LEMMA LoopInvInit == LoopInit => LoopInv
<1> SUFFICES ASSUME LoopInit PROVE LoopInv
  OBVIOUS
<1>1. PICK def \in BOOLEAN :
         L = [life |-> "none", backend |-> "none", default |-> def, active |-> {}, refs |-> 0,
              users |-> 0, open |-> {}, mine |-> {}, bad |-> {}, postfork |-> 0,
              child |-> FALSE, forks |-> 0]
  BY DEF LoopInit
<1>2. {} \in Mishaps
  BY DEF Mishaps
<1>3. L \in LoopState
  BY <1>1, <1>2 DEF LoopState
<1>4. L.life = "none" /\ L.backend = "none" /\ Blank(L)
  BY <1>1 DEF Blank
<1> QED
  BY <1>3, <1>4 DEF LoopInv

LEMMA LoopInvStep == LoopInv /\ [LoopNext]_L => LoopInv'
<1> SUFFICES ASSUME LoopInv, [LoopNext]_L PROVE LoopInv'
  OBVIOUS
<1>1. CASE LoopNew
  BY <1>1, NewSound
<1>2. CASE NeedPipe \/ NeedTimerfd \/ NeedSigfd \/ NeedInotify
  BY <1>2, NeedsSound
<1>3. CASE UserStart \/ UserStop \/ EvLoopFork \/ EpollSpurious
  BY <1>3, OtherSound
<1>4. CASE AioToEpoll
  BY <1>4, AioToEpollSound
<1>5. CASE ProcessForks
  BY <1>5, ProcessForksSound
<1>6. CASE LoopFork
  BY <1>6, LoopForkSound
<1>7. CASE LoopDestroy
  BY <1>7, DestroySound
<1>8. CASE UNCHANGED L
  BY <1>8 DEF LoopInv
<1> QED
  BY <1>1, <1>2, <1>3, <1>4, <1>5, <1>6, <1>7, <1>8 DEF LoopNext

LEMMA LoopInvHolds == LoopSpec => []LoopInv
  BY LoopInvInit, LoopInvStep, PTL DEF LoopSpec

LEMMA LoopInvImplies == LoopInv => NothingLeft /\ ForkedFresh /\ InternalUnreferenced
<1> SUFFICES ASSUME LoopInv PROVE NothingLeft /\ ForkedFresh /\ InternalUnreferenced
  OBVIOUS
<1>1. L \in LoopState /\ (L.life = "none" => Blank(L)) /\ (L.life = "up" => Sound(L))
      /\ (L.life = "gone" => L.open = {} /\ Excused(L))
  BY DEF LoopInv
<1>2. L.life \in {"none", "up", "gone"} /\ L.open \subseteq Descriptors
  BY <1>1 DEF LoopState
<1>3. NothingLeft
  BY <1>1, <1>2 DEF NothingLeft, Blank, Sound, Kept, Excused
<1>4. ForkedFresh
  <2> SUFFICES ASSUME Up, L.postfork = 0 PROVE L.open \ {"sigfd"} \subseteq L.mine
    BY DEF ForkedFresh
  <2>1. Owned(L, Renewable)
    BY <1>1 DEF Up, Sound
  <2> QED
    BY <1>2, <2>1 DEF Owned, Renewable
<1>5. InternalUnreferenced
  BY <1>1 DEF InternalUnreferenced, Up, Sound, Kept
<1> QED
  BY <1>3, <1>4, <1>5

\* The loop closes what it opened, once: nothing is left when it is destroyed or its creation
\* failed, whichever backend's init failed half-way, and through forks and the change from
\* linuxaio to epoll (loop_init, loop_fork, ev_loop_destroy).  One close is of a number that is
\* not held: of a kqueue loop that is destroyed in a forked child before loop_fork.
THEOREM LoopClosesAll == LoopSpec => []NothingLeft
  BY LoopInvHolds, LoopInvImplies, PTL

\* After loop_fork no descriptor but the signalfd is shared with the parent.
THEOREM LoopForksFresh == LoopSpec => []ForkedFresh
  BY LoopInvHolds, LoopInvImplies, PTL

\* The loop's own watchers hold no reference on any backend but io_uring: activecnt counts the
\* application's watchers.
THEOREM LoopOwnUnreferenced == LoopSpec => []InternalUnreferenced
  BY LoopInvHolds, LoopInvImplies, PTL

-----------------------------------------------------------------------------
(***************************************************************************)
(* The win32 registry.  F is the set of the indices that are between the   *)
(* table and the free list: at most one, within a call.                    *)
(***************************************************************************)
RegFields(s) ==
    s = [byfd |-> s.byfd, freelist |-> s.freelist, bymax |-> s.bymax, freemax |-> s.freemax,
         freecnt |-> s.freecnt, next |-> s.next, ents |-> s.ents, chain |-> s.chain,
         fails |-> s.fails, wild |-> s.wild]

\* The storage is what is announced; the free list can hold every index issued.
RegTables(s) ==
    /\ s.bymax \in Nat /\ s.freemax \in Nat /\ s.freecnt \in Nat /\ s.next \in Nat /\ s.fails \in Nat
    /\ s.wild = FALSE
    /\ DOMAIN s.byfd = 0 .. s.bymax - 1 /\ DOMAIN s.freelist = 0 .. s.freemax - 1
    /\ s.next <= s.bymax /\ s.bymax <= s.freemax
    /\ \A i \in 0 .. s.bymax - 1 : s.byfd[i] \in Handles \cup {"none"}
    /\ \A i \in 0 .. s.bymax - 1 : s.byfd[i] # "none" => i < s.next

\* The free list has exactly the indices that are neither used nor out, each once.
FreeIdx(s) == 0 .. s.freecnt - 1
FreeSet(s) == {s.freelist[i] : i \in FreeIdx(s)}
RegFree(s, F) ==
    /\ \A i \in FreeIdx(s) : /\ s.freelist[i] \in 0 .. s.next - 1
                             /\ s.byfd[s.freelist[i]] = "none" /\ s.freelist[i] \notin F
    /\ \A i, j \in FreeIdx(s) : s.freelist[i] = s.freelist[j] => i = j
    /\ \A fd \in 0 .. s.next - 1 : s.byfd[fd] = "none" => fd \in F \/ fd \in FreeSet(s)
    /\ \A fd \in F : fd \in 0 .. s.next - 1 /\ s.byfd[fd] = "none"
    /\ IsFiniteSet(FreeSet(s)) /\ Cardinality(FreeSet(s)) = s.freecnt

EntSet == [fd : Nat, refs : Nat, owned : BOOLEAN]
RegEnts(s) ==
    /\ s.ents \in [Handles -> EntSet]
    /\ \A h \in Handles : s.ents[h].refs > 0 =>
          s.ents[h].fd \in 0 .. s.bymax - 1 /\ s.byfd[s.ents[h].fd] = h
    /\ \A i \in 0 .. s.bymax - 1 : s.byfd[i] # "none" =>
          s.ents[s.byfd[i]].refs > 0 /\ s.ents[s.byfd[i]].fd = i

ChainOnce(q) == \A i, j \in 1 .. Len(q) : q[i] = q[j] => i = j
RegChains(s) ==
    /\ s.chain \in [Buckets -> Seq(Handles)]
    /\ \A h \in Handles : Contains(s.chain[Bucket[h]], h) <=> s.ents[h].refs > 0
    /\ \A b \in Buckets : ChainOnce(s.chain[b])

RegOut(s, F) == RegFields(s) /\ RegTables(s) /\ RegFree(s, F) /\ RegEnts(s) /\ RegChains(s)

\* The inductive invariant.
RegInv == RegOut(wf, {})

LEMMA BucketIn == \A h \in Handles : Bucket[h] \in Buckets
  BY RegistryAssumption DEF Buckets, Range

\* An index that is out has a place on the free list: what EV_ASSERT_MSG asks for in
\* ev_win32_fd_push_free_unlocked.
LEMMA RoomForFree ==
    ASSUME NEW s, NEW fd, RegOut(s, {fd})
    PROVE  s.freecnt < s.next /\ s.freecnt \in DOMAIN s.freelist
<1>1. /\ s.freecnt \in Nat /\ s.next \in Nat /\ fd \in 0 .. s.next - 1 /\ s.next <= s.bymax
      /\ s.bymax <= s.freemax /\ s.bymax \in Nat /\ s.freemax \in Nat
      /\ DOMAIN s.freelist = 0 .. s.freemax - 1
  BY DEF RegOut, RegTables, RegFree
<1>2. FreeSet(s) \subseteq (0 .. s.next - 1) \ {fd}
  BY DEF RegOut, RegFree, FreeSet
<1> DEFINE issued == 0 .. s.next - 1
<1>3. IsFiniteSet(issued) /\ Cardinality(issued) = s.next
  <2>1. \A b \in Int : IsFiniteSet(0 .. b) /\ Cardinality(0 .. b) = IF 0 > b THEN 0 ELSE b - 0 + 1
    BY FS_Interval, SMT
  <2>2. s.next - 1 \in Int /\ 0 <= s.next - 1 /\ (s.next - 1) - 0 + 1 = s.next
    BY <1>1
  <2> QED
    BY <2>1, <2>2
<1>4. fd \in issued
  BY <1>1
<1> HIDE DEF issued
<1>5. IsFiniteSet(issued \ {fd}) /\ Cardinality(issued \ {fd}) = s.next - 1
  <2>1. IsFiniteSet(issued \ {fd})
        /\ Cardinality(issued \ {fd}) = IF fd \in issued THEN Cardinality(issued) - 1 ELSE Cardinality(issued)
    BY <1>3, FS_RemoveElement, Zenon
  <2> QED
    BY <1>3, <1>4, <2>1
<1>6. Cardinality(FreeSet(s)) <= s.next - 1
  <2>1. FreeSet(s) \in SUBSET (issued \ {fd})
    BY <1>2 DEF issued
  <2>2. Cardinality(FreeSet(s)) <= Cardinality(issued \ {fd})
    BY <1>5, <2>1, FS_Subset, Zenon
  <2> QED
    BY <1>5, <2>2
<1>7. Cardinality(FreeSet(s)) = s.freecnt
  BY DEF RegOut, RegFree
<1> QED
  BY <1>1, <1>6, <1>7

LEMMA PushIn ==
    ASSUME NEW s, NEW fd, RegOut(s, {fd})
    PROVE  LET t == PushFree(s, fd) IN
           /\ RegOut(t, {}) /\ t.fails = s.fails
<1> DEFINE t == PushFree(s, fd)  n == s.freecnt
<1>1. n < s.next /\ n \in DOMAIN s.freelist
  BY RoomForFree
<1>2. RegFields(s) /\ RegTables(s) /\ RegFree(s, {fd}) /\ RegEnts(s) /\ RegChains(s)
  BY DEF RegOut
<1>3. /\ RegFields(t)
      /\ t.byfd = s.byfd /\ t.freelist = [s.freelist EXCEPT ![n] = fd] /\ t.bymax = s.bymax
      /\ t.freemax = s.freemax /\ t.freecnt = n + 1 /\ t.next = s.next /\ t.ents = s.ents
      /\ t.chain = s.chain /\ t.fails = s.fails /\ t.wild = s.wild
  <2>1. t = [s EXCEPT !.freelist[n] = fd, !.freecnt = @ + 1]
    BY <1>1 DEF PushFree
  <2> QED
    BY <1>2, <2>1 DEF RegFields
<1> HIDE DEF t
<1>4. RegTables(t)
  BY <1>2, <1>3 DEF RegTables
<1>5. /\ \A i \in FreeIdx(t) : i \in FreeIdx(s) \/ i = n
      /\ \A i \in FreeIdx(s) : i \in FreeIdx(t) /\ i # n /\ t.freelist[i] = s.freelist[i]
      /\ n \in FreeIdx(t) /\ t.freelist[n] = fd
  BY <1>1, <1>2, <1>3 DEF FreeIdx, RegTables
<1>6. FreeSet(t) = FreeSet(s) \cup {fd} /\ fd \notin FreeSet(s)
  BY <1>2, <1>5 DEF FreeSet, RegFree
<1>7. IsFiniteSet(FreeSet(t)) /\ Cardinality(FreeSet(t)) = n + 1
  <2>1. IsFiniteSet(FreeSet(s)) /\ Cardinality(FreeSet(s)) = n
    BY <1>2 DEF RegFree
  <2>2. /\ IsFiniteSet(FreeSet(s) \cup {fd})
        /\ Cardinality(FreeSet(s) \cup {fd}) =
              IF fd \in FreeSet(s) THEN Cardinality(FreeSet(s)) ELSE Cardinality(FreeSet(s)) + 1
    BY <2>1, FS_AddElement, Zenon
  <2> QED
    BY <1>6, <2>1, <2>2
<1>8. RegFree(t, {})
  BY <1>2, <1>3, <1>5, <1>6, <1>7 DEF RegFree
<1>9. RegEnts(t) /\ RegChains(t)
  BY <1>2, <1>3 DEF RegEnts, RegChains
<1> QED
  BY <1>3, <1>4, <1>8, <1>9 DEF RegOut, t

\* ev_win32_fd_alloc_unlocked.
LEMMA AllocOut ==
    ASSUME NEW s, RegOut(s, {}), s.freecnt > 0 \/ s.next < s.bymax
    PROVE  LET a == Alloc(s) IN
           /\ RegOut(a.s, {a.fd}) /\ a.s.fails = s.fails /\ a.s.ents = s.ents /\ a.s.chain = s.chain
<1> DEFINE a == Alloc(s)  t == a.s  fd == a.fd
<1>1. RegFields(s) /\ RegTables(s) /\ RegFree(s, {}) /\ RegEnts(s) /\ RegChains(s)
  BY DEF RegOut
<1>2. CASE s.freecnt > 0
  <2> DEFINE n == s.freecnt - 1
  <2>1. t = [s EXCEPT !.freecnt = @ - 1] /\ fd = s.freelist[n]
    BY <1>2 DEF Alloc
  <2>2. /\ RegFields(t)
        /\ t.byfd = s.byfd /\ t.freelist = s.freelist /\ t.bymax = s.bymax
        /\ t.freemax = s.freemax /\ t.freecnt = n /\ t.next = s.next /\ t.ents = s.ents
        /\ t.chain = s.chain /\ t.fails = s.fails /\ t.wild = s.wild
    BY <1>1, <2>1 DEF RegFields
  <2> HIDE DEF t, fd
  <2>3. RegTables(t)
    BY <1>1, <1>2, <2>2 DEF RegTables
  <2>4. /\ n \in FreeIdx(s) /\ \A i \in FreeIdx(s) : i \in FreeIdx(t) \/ i = n
        /\ \A i \in FreeIdx(t) : i \in FreeIdx(s) /\ i # n
    BY <1>1, <1>2, <2>2 DEF FreeIdx, RegTables
  <2>5. fd \in FreeSet(s) /\ FreeSet(t) = FreeSet(s) \ {fd}
    <3>1. \A i \in FreeIdx(s) : s.freelist[i] = fd => i = n
      BY <1>1, <2>1, <2>4 DEF RegFree
    <3> QED
      BY <2>1, <2>2, <2>4, <3>1 DEF FreeSet
  <2>6. IsFiniteSet(FreeSet(t)) /\ Cardinality(FreeSet(t)) = n
    BY <1>1, <2>5, FS_RemoveElement DEF RegFree
  <2>7. \A i \in FreeIdx(t) : t.freelist[i] # fd
    BY <2>5 DEF FreeSet
  <2>8. fd \in 0 .. s.next - 1 /\ s.byfd[fd] = "none"
    BY <1>1, <2>1, <2>4 DEF RegFree
  <2>9. RegFree(t, {fd})
    BY <1>1, <2>2, <2>4, <2>5, <2>6, <2>7, <2>8 DEF RegFree
  <2>10. RegEnts(t) /\ RegChains(t)
    BY <1>1, <2>2 DEF RegEnts, RegChains
  <2> QED
    BY <2>2, <2>3, <2>9, <2>10 DEF RegOut, t, fd
<1>3. CASE ~(s.freecnt > 0)
  <2>1. t = [s EXCEPT !.next = @ + 1] /\ fd = s.next
    BY <1>3 DEF Alloc
  <2>2. /\ RegFields(t)
        /\ t.byfd = s.byfd /\ t.freelist = s.freelist /\ t.bymax = s.bymax
        /\ t.freemax = s.freemax /\ t.freecnt = s.freecnt /\ t.next = s.next + 1 /\ t.ents = s.ents
        /\ t.chain = s.chain /\ t.fails = s.fails /\ t.wild = s.wild
    BY <1>1, <2>1 DEF RegFields
  <2> HIDE DEF t, fd
  <2>3. s.next < s.bymax
    BY <1>3
  <2>4. RegTables(t)
    BY <1>1, <2>2, <2>3 DEF RegTables
  <2>5. FreeIdx(t) = FreeIdx(s) /\ FreeSet(t) = FreeSet(s)
    BY <2>2 DEF FreeIdx, FreeSet
  <2>6. \A i \in FreeIdx(s) : s.freelist[i] \in 0 .. t.next - 1 /\ s.freelist[i] # fd
    BY <1>1, <2>1, <2>2 DEF RegFree, RegTables
  <2>7. \A i \in 0 .. t.next - 1 : i \in 0 .. s.next - 1 \/ i = fd
    BY <1>1, <2>1, <2>2 DEF RegTables
  <2>8. fd \in 0 .. t.next - 1 /\ s.byfd[fd] = "none"
    BY <1>1, <2>1, <2>2, <2>3 DEF RegTables
  <2>9. RegFree(t, {fd})
    BY <1>1, <2>2, <2>5, <2>6, <2>7, <2>8 DEF RegFree
  <2>10. RegEnts(t) /\ RegChains(t)
    BY <1>1, <2>2 DEF RegEnts, RegChains
  <2> QED
    BY <2>2, <2>4, <2>9, <2>10 DEF RegOut, t, fd
<1> QED
  BY <1>2, <1>3

LEMMA FailedKept ==
    ASSUME NEW t, NEW F, RegOut(t, F)
    PROVE  /\ RegOut(Failed(t), F) /\ Failed(t).ents = t.ents /\ Failed(t).chain = t.chain
           /\ Failed(t).fails > t.fails
<1> DEFINE u == Failed(t)
<1>1. RegFields(t) /\ RegTables(t) /\ RegFree(t, F) /\ RegEnts(t) /\ RegChains(t)
  BY DEF RegOut
<1>2. /\ RegFields(u)
      /\ u.byfd = t.byfd /\ u.freelist = t.freelist /\ u.bymax = t.bymax
      /\ u.freemax = t.freemax /\ u.freecnt = t.freecnt /\ u.next = t.next /\ u.ents = t.ents
      /\ u.chain = t.chain /\ u.fails = t.fails + 1 /\ u.wild = t.wild
  BY <1>1 DEF Failed, RegFields
<1> HIDE DEF u
<1>3. RegTables(u) /\ t.fails \in Nat
  BY <1>1, <1>2 DEF RegTables
<1>4. RegFree(u, F)
  BY <1>1, <1>2 DEF RegFree, FreeSet, FreeIdx
<1>5. RegEnts(u) /\ RegChains(u)
  BY <1>1, <1>2 DEF RegEnts, RegChains
<1> QED
  BY <1>2, <1>3, <1>4, <1>5 DEF RegOut, u

LEMMA FreeFits ==
    ASSUME NEW s, NEW F, RegTables(s), RegFree(s, F)
    PROVE  s.freecnt <= s.next
<1> DEFINE issued == 0 .. s.next - 1
<1>1. s.next \in Nat /\ s.freecnt \in Nat
  BY DEF RegTables
<1>2. IsFiniteSet(issued) /\ Cardinality(issued) = s.next
  <2>1. \A b \in Int : IsFiniteSet(0 .. b) /\ Cardinality(0 .. b) = IF 0 > b THEN 0 ELSE b - 0 + 1
    BY FS_Interval, SMT
  <2>2. s.next - 1 \in Int
    BY <1>1
  <2>3. IsFiniteSet(issued) /\ Cardinality(issued) = IF 0 > s.next - 1 THEN 0 ELSE (s.next - 1) - 0 + 1
    BY <2>1, <2>2, Zenon
  <2> QED
    BY <1>1, <2>3
<1>3. FreeSet(s) \in SUBSET issued /\ Cardinality(FreeSet(s)) = s.freecnt
  BY DEF RegFree, FreeSet
<1> HIDE DEF issued
<1>4. Cardinality(FreeSet(s)) <= Cardinality(issued)
  BY <1>2, <1>3, FS_Subset, Zenon
<1> QED
  BY <1>2, <1>3, <1>4

\* A table that grew has what it had.
LEMMA GrownIs ==
    ASSUME NEW T, NEW m \in Nat, NEW n \in Nat, m <= n, DOMAIN T = 0 .. m - 1
    PROVE  /\ DOMAIN Grown(T, n) = 0 .. n - 1
           /\ \A i \in 0 .. m - 1 : Grown(T, n)[i] = T[i] /\ i \in 0 .. n - 1
           /\ \A i \in 0 .. n - 1 : i \notin 0 .. m - 1 => Grown(T, n)[i] = "none"
  BY DEF Grown

\* ev_win32_fd_reserve: whichever allocation fails, the registry is as sound as it was.
LEMMA ReserveKept ==
    ASSUME NEW s, NEW fail, RegOut(s, {})
    PROVE  LET r == Reserve(s, fail) IN
           /\ RegOut(r, {}) /\ r.ents = s.ents /\ r.chain = s.chain
           /\ r.fails > s.fails \/ (r.fails = s.fails /\ r.next < r.bymax)
<1> DEFINE r == Reserve(s, fail)  n == NewMax(s)
           free == IF s.freemax < n THEN [s EXCEPT !.freelist = Grown(@, n), !.freemax = n] ELSE s
<1>1. RegFields(s) /\ RegTables(s) /\ RegFree(s, {}) /\ RegEnts(s) /\ RegChains(s)
  BY DEF RegOut
<1>2. n \in Nat /\ s.bymax < n /\ s.bymax \in Nat /\ s.freemax \in Nat
  BY <1>1, RegistryAssumption DEF NewMax, RegTables
<1> HIDE DEF n
<1>3. RegOut(free, {}) /\ free.ents = s.ents /\ free.chain = s.chain /\ free.fails = s.fails
      /\ free.bymax = s.bymax /\ n <= free.freemax /\ free.next = s.next
  <2>1. CASE ~(s.freemax < n)
    BY <1>1, <1>2, <2>1
  <2>2. CASE s.freemax < n
    <3>1. free = [s EXCEPT !.freelist = Grown(@, n), !.freemax = n]
      BY <2>2
    <3>2. /\ RegFields(free)
          /\ free.byfd = s.byfd /\ free.freelist = Grown(s.freelist, n) /\ free.bymax = s.bymax
          /\ free.freemax = n /\ free.freecnt = s.freecnt /\ free.next = s.next /\ free.ents = s.ents
          /\ free.chain = s.chain /\ free.fails = s.fails /\ free.wild = s.wild
      BY <1>1, <3>1 DEF RegFields
    <3> HIDE DEF free
    <3>3. /\ DOMAIN free.freelist = 0 .. n - 1
          /\ \A i \in 0 .. s.freemax - 1 : free.freelist[i] = s.freelist[i]
      <4>1. DOMAIN s.freelist = 0 .. s.freemax - 1 /\ s.freemax <= n
        BY <1>1, <1>2, <2>2 DEF RegTables
      <4>2. /\ DOMAIN Grown(s.freelist, n) = 0 .. n - 1
            /\ \A i \in 0 .. s.freemax - 1 : Grown(s.freelist, n)[i] = s.freelist[i] /\ i \in 0 .. n - 1
        BY <1>2, <4>1, GrownIs
      <4> QED
        BY <3>2, <4>2
    <3>4. RegTables(free)
      BY <1>1, <1>2, <3>2, <3>3 DEF RegTables
    <3>5. FreeIdx(free) = FreeIdx(s) /\ \A i \in FreeIdx(s) : free.freelist[i] = s.freelist[i]
      <4>1. \A i \in FreeIdx(s) : i \in 0 .. s.freemax - 1
        <5>1. s.freecnt <= s.next
          BY <1>1, FreeFits, Zenon
        <5> QED
          BY <1>1, <5>1 DEF FreeIdx, RegTables
      <4> QED
        BY <3>2, <3>3, <4>1 DEF FreeIdx
    <3>6. FreeSet(free) = FreeSet(s)
      BY <3>5 DEF FreeSet
    <3>7. RegFree(free, {})
      BY <1>1, <3>2, <3>5, <3>6 DEF RegFree
    <3>8. RegEnts(free) /\ RegChains(free)
      BY <1>1, <3>2 DEF RegEnts, RegChains
    <3> QED
      BY <1>2, <3>2, <3>4, <3>7, <3>8 DEF RegOut
  <2> QED
    BY <2>1, <2>2
<1>4. ASSUME NEW t, RegOut(t, {}), t.ents = s.ents, t.chain = s.chain, t.fails = s.fails
      PROVE  /\ RegOut(Failed(t), {}) /\ Failed(t).ents = s.ents /\ Failed(t).chain = s.chain
             /\ Failed(t).fails > s.fails
  BY <1>4, FailedKept
<1>5. CASE s.next < s.bymax
  BY <1>1, <1>5 DEF Reserve, RegOut
<1>6. CASE ~(s.next < s.bymax) /\ fail = "first" /\ s.freemax < n
  <2>1. r = Failed(s)
    BY <1>6 DEF Reserve, n
  <2> QED
    BY <1>4, <2>1
<1>7. CASE ~(s.next < s.bymax) /\ ~(fail = "first" /\ s.freemax < n) /\ fail \in {"first", "second"}
  <2>1. r = Failed(free)
    BY <1>7 DEF Reserve, n
  <2> HIDE DEF free, r
  <2>2. /\ RegOut(Failed(free), {}) /\ Failed(free).ents = s.ents /\ Failed(free).chain = s.chain
        /\ Failed(free).fails > s.fails
    BY <1>3, <1>4
  <2> QED
    BY <2>1, <2>2 DEF r
<1>8. CASE ~(s.next < s.bymax) /\ fail \notin {"first", "second"}
  <2>1. r = [free EXCEPT !.byfd = Grown(@, n), !.bymax = n]
    BY <1>8 DEF Reserve, n
  <2> HIDE DEF free
  <2>2. RegFields(free) /\ RegTables(free) /\ RegFree(free, {}) /\ RegEnts(free) /\ RegChains(free)
    BY <1>3 DEF RegOut
  <2>3. /\ RegFields(r)
        /\ r.byfd = Grown(free.byfd, n) /\ r.freelist = free.freelist /\ r.bymax = n
        /\ r.freemax = free.freemax /\ r.freecnt = free.freecnt /\ r.next = free.next /\ r.ents = free.ents
        /\ r.chain = free.chain /\ r.fails = free.fails /\ r.wild = free.wild
    BY <2>1, <2>2 DEF RegFields
  <2> HIDE DEF r
  <2>4. /\ DOMAIN r.byfd = 0 .. n - 1
        /\ \A i \in 0 .. s.bymax - 1 : r.byfd[i] = free.byfd[i] /\ i \in 0 .. n - 1
        /\ \A i \in 0 .. n - 1 : i \notin 0 .. s.bymax - 1 => r.byfd[i] = "none"
    <3>1. DOMAIN free.byfd = 0 .. s.bymax - 1 /\ s.bymax <= n
      BY <1>2, <1>3, <2>2 DEF RegTables
    <3>2. /\ DOMAIN Grown(free.byfd, n) = 0 .. n - 1
          /\ \A i \in 0 .. s.bymax - 1 : Grown(free.byfd, n)[i] = free.byfd[i] /\ i \in 0 .. n - 1
          /\ \A i \in 0 .. n - 1 : i \notin 0 .. s.bymax - 1 => Grown(free.byfd, n)[i] = "none"
      BY <1>2, <3>1, GrownIs
    <3> QED
      BY <2>3, <3>2
  <2>5. RegTables(r)
    <3>1. /\ r.bymax \in Nat /\ r.freemax \in Nat /\ r.freecnt \in Nat /\ r.next \in Nat /\ r.fails \in Nat
          /\ r.wild = FALSE /\ DOMAIN r.freelist = 0 .. r.freemax - 1
          /\ r.next <= r.bymax /\ r.bymax <= r.freemax
      BY <1>2, <1>3, <2>2, <2>3 DEF RegTables
    <3>2. \A i \in 0 .. s.bymax - 1 : /\ r.byfd[i] \in Handles \cup {"none"}
                                      /\ r.byfd[i] # "none" => i < r.next
      BY <1>3, <2>2, <2>3, <2>4 DEF RegTables
    <3>3. \A i \in 0 .. n - 1 : /\ r.byfd[i] \in Handles \cup {"none"}
                                /\ r.byfd[i] # "none" => i < r.next
      BY <2>4, <3>2
    <3> QED
      BY <2>3, <2>4, <3>1, <3>3 DEF RegTables
  <2>6. FreeIdx(r) = FreeIdx(free) /\ FreeSet(r) = FreeSet(free)
    BY <2>3 DEF FreeIdx, FreeSet
  <2>7. \A i \in 0 .. free.next - 1 : i \in 0 .. s.bymax - 1 /\ r.byfd[i] = free.byfd[i]
    BY <1>3, <2>2, <2>4 DEF RegTables
  <2>8. RegFree(r, {})
    BY <2>2, <2>3, <2>6, <2>7 DEF RegFree
  <2>9. RegEnts(r)
    BY <1>3, <2>2, <2>3, <2>4 DEF RegEnts
  <2>10. RegChains(r)
    BY <2>2, <2>3 DEF RegChains
  <2>11. r.next < r.bymax
    BY <1>2, <1>3, <1>8, <2>2, <2>3 DEF RegTables
  <2> QED
    BY <1>3, <2>3, <2>5, <2>8, <2>9, <2>10, <2>11 DEF RegOut, r
<1> QED
  BY <1>5, <1>6, <1>7, <1>8

\* The hash chains: an entry goes in front; ev_win32_fd_release takes it out, and only it.
LEMMA ConsChain ==
    ASSUME NEW q \in Seq(Handles), NEW h \in Handles, ChainOnce(q), ~Contains(q, h)
    PROVE  LET c == <<h>> \o q IN
           /\ c \in Seq(Handles) /\ ChainOnce(c)
           /\ \A x : Contains(c, x) <=> x = h \/ Contains(q, x)
<1> DEFINE c == <<h>> \o q  n == Len(q)
<1>1. /\ c \in Seq(Handles) /\ n \in Nat /\ Len(c) = n + 1 /\ c[1] = h
      /\ \A i \in 1 .. n : c[i + 1] = q[i]
  OBVIOUS
<1>2. /\ 1 \in 1 .. Len(c) /\ \A i \in 1 .. n : i + 1 \in 1 .. Len(c)
      /\ \A i \in 1 .. Len(c) : i = 1 \/ (i - 1 \in 1 .. n /\ i = (i - 1) + 1 /\ c[i] = q[i - 1])
  BY <1>1
<1> HIDE DEF c, n
<1>3. ASSUME NEW x PROVE Contains(c, x) <=> x = h \/ Contains(q, x)
  <2>1. ASSUME Contains(c, x) PROVE x = h \/ Contains(q, x)
    BY <1>1, <1>2, <2>1 DEF Contains, n
  <2>2. ASSUME x = h \/ Contains(q, x) PROVE Contains(c, x)
    BY <1>1, <1>2, <2>2 DEF Contains, n
  <2> QED
    BY <2>1, <2>2
<1>4. ASSUME NEW i \in 1 .. Len(c), NEW j \in 1 .. Len(c), c[i] = c[j] PROVE i = j
  <2>1. \A k \in 1 .. n : q[k] # h
    BY DEF Contains, n
  <2>2. CASE i = 1 \/ j = 1
    BY <1>1, <1>2, <1>4, <2>1, <2>2
  <2>3. CASE i # 1 /\ j # 1
    <3>1. i - 1 \in 1 .. n /\ j - 1 \in 1 .. n /\ q[i - 1] = q[j - 1]
      BY <1>2, <1>4, <2>3
    <3>2. i - 1 = j - 1
      BY <3>1 DEF ChainOnce, n
    <3> QED
      BY <1>1, <3>2
  <2> QED
    BY <2>2, <2>3
<1> QED
  BY <1>1, <1>3, <1>4 DEF ChainOnce, c

LEMMA UnchainedIs ==
    ASSUME NEW q \in Seq(Handles), NEW h \in Handles, ChainOnce(q), Contains(q, h)
    PROVE  LET c == Unchained(q, h) IN
           /\ c \in Seq(Handles) /\ ChainOnce(c)
           /\ \A x : Contains(c, x) <=> x # h /\ Contains(q, x)
<1> DEFINE c == Unchained(q, h)  n == Len(q)  k == CHOOSE i \in DOMAIN q : q[i] = h
           a == SubSeq(q, 1, k - 1)  b == SubSeq(q, k + 1, n)
<1>1. k \in 1 .. n /\ q[k] = h /\ n \in Nat
  <2>1. DOMAIN q = 1 .. n /\ n \in Nat
    OBVIOUS
  <2>2. \E i \in DOMAIN q : q[i] = h
    BY <2>1 DEF Contains
  <2> QED
    BY <2>1, <2>2
<1>2. c = a \o b
  BY DEF Unchained, RemoveAt
<1> HIDE DEF k, c
<1>3. a \in Seq(Handles) /\ Len(a) = k - 1 /\ \A i \in 1 .. k - 1 : a[i] = q[i]
  BY <1>1
<1>4. b \in Seq(Handles) /\ Len(b) = n - k /\ \A i \in 1 .. n - k : b[i] = q[k + i]
  BY <1>1
<1> HIDE DEF a, b, n
<1>5. /\ c \in Seq(Handles) /\ Len(c) = n - 1
      /\ \A i \in 1 .. n - 1 : c[i] = IF i < k THEN q[i] ELSE q[i + 1]
  <2>1. /\ a \o b \in Seq(Handles) /\ Len(a \o b) = Len(a) + Len(b)
        /\ \A i \in 1 .. Len(a) + Len(b) : (a \o b)[i] = IF i <= Len(a) THEN a[i] ELSE b[i - Len(a)]
    BY <1>3, <1>4, ConcatProperties
  <2>2. ASSUME NEW i \in 1 .. n - 1 PROVE (a \o b)[i] = IF i < k THEN q[i] ELSE q[i + 1]
    <3>1. CASE i < k
      <4>1. i \in 1 .. Len(a) + Len(b) /\ i <= Len(a) /\ i \in 1 .. k - 1
        BY <1>1, <1>3, <1>4, <3>1
      <4> QED
        BY <1>3, <2>1, <3>1, <4>1
    <3>2. CASE ~(i < k)
      <4>1. /\ i \in 1 .. Len(a) + Len(b) /\ ~(i <= Len(a)) /\ i - Len(a) \in 1 .. n - k
            /\ k + (i - Len(a)) = i + 1
        BY <1>1, <1>3, <1>4, <3>2
      <4> QED
        BY <1>4, <2>1, <3>2, <4>1
    <3> QED
      BY <3>1, <3>2
  <2> QED
    BY <1>1, <1>2, <1>3, <1>4, <2>1, <2>2
\* Where an element of q other than h is in c, and back.
<1> DEFINE at(i) == IF i < k THEN i ELSE i + 1
           to(i) == IF i < k THEN i ELSE i - 1
<1>6. \A i \in 1 .. Len(c) : at(i) \in 1 .. n /\ at(i) # k /\ c[i] = q[at(i)]
  BY <1>1, <1>5
<1>7. \A i \in 1 .. n : i # k => to(i) \in 1 .. Len(c) /\ c[to(i)] = q[i]
  <2> TAKE i \in 1 .. n
  <2>1. CASE i < k
    BY <1>1, <1>5, <2>1
  <2>2. CASE i > k
    <3>1. i - 1 \in 1 .. n - 1 /\ ~(i - 1 < k) /\ (i - 1) + 1 = i /\ ~(i < k)
      BY <1>1, <2>2
    <3> QED
      BY <1>5, <3>1
  <2> QED
    BY <1>1, <2>1, <2>2
<1>8. \A i \in 1 .. n : i # k => q[i] # h
  BY <1>1 DEF ChainOnce, n
<1>9. ASSUME NEW x PROVE Contains(c, x) <=> x # h /\ Contains(q, x)
  <2>1. ASSUME Contains(c, x) PROVE x # h /\ Contains(q, x)
    BY <1>6, <1>8, <2>1 DEF Contains, n
  <2>2. ASSUME x # h, Contains(q, x) PROVE Contains(c, x)
    <3>1. PICK i \in 1 .. n : q[i] = x
      BY <2>2 DEF Contains, n
    <3>2. i # k
      BY <1>1, <2>2, <3>1
    <3> QED
      BY <1>7, <3>1, <3>2 DEF Contains
  <2> QED
    BY <2>1, <2>2
<1>10. ASSUME NEW i \in 1 .. Len(c), NEW j \in 1 .. Len(c), c[i] = c[j] PROVE i = j
  <2>1. at(i) \in 1 .. n /\ at(j) \in 1 .. n /\ q[at(i)] = q[at(j)]
    BY <1>6, <1>10
  <2>2. at(i) = at(j)
    BY <2>1 DEF ChainOnce, n
  <2> QED
    BY <1>1, <1>5, <2>2
<1> QED
  BY <1>5, <1>9, <1>10 DEF ChainOnce, c

\* The new entry: its index is used now.
Entered(s, fd, h, owned) ==
    [s EXCEPT !.ents[h] = [fd |-> fd, refs |-> 1, owned |-> owned],
              !.chain[Bucket[h]] = <<h>> \o @,
              !.wild = @ \/ fd \notin DOMAIN s.byfd,
              !.byfd = [i \in DOMAIN @ |-> IF i = fd THEN h ELSE @[i]]]
LEMMA EntryIn ==
    ASSUME NEW s, NEW fd, RegOut(s, {fd}), NEW h \in Handles, NEW owned \in BOOLEAN,
           s.ents[h].refs = 0
    PROVE  RegOut(Entered(s, fd, h, owned), {})
<1> DEFINE e == [fd |-> fd, refs |-> 1, owned |-> owned]
           t == [s EXCEPT !.ents[h] = e, !.chain[Bucket[h]] = <<h>> \o @,
                          !.wild = @ \/ fd \notin DOMAIN s.byfd,
                          !.byfd = [i \in DOMAIN @ |-> IF i = fd THEN h ELSE @[i]]]
           b == Bucket[h]
<1>1. RegFields(s) /\ RegTables(s) /\ RegFree(s, {fd}) /\ RegEnts(s) /\ RegChains(s) /\ b \in Buckets
  BY BucketIn DEF RegOut
<1>2. fd \in 0 .. s.next - 1 /\ fd \in 0 .. s.bymax - 1 /\ s.byfd[fd] = "none" /\ fd \in Nat
  BY <1>1 DEF RegFree, RegTables
<1>3. e \in EntSet /\ e.fd = fd /\ e.refs = 1
  BY <1>2 DEF EntSet
<1> HIDE DEF e, b
<1>4. /\ RegFields(t)
      /\ t.byfd = [i \in DOMAIN s.byfd |-> IF i = fd THEN h ELSE s.byfd[i]]
      /\ t.freelist = s.freelist /\ t.bymax = s.bymax
      /\ t.freemax = s.freemax /\ t.freecnt = s.freecnt /\ t.next = s.next
      /\ t.ents = [s.ents EXCEPT ![h] = e] /\ t.chain = [s.chain EXCEPT ![b] = <<h>> \o @]
      /\ t.fails = s.fails /\ t.wild = (s.wild \/ fd \notin DOMAIN s.byfd)
  <2> DEFINE ne == [s.ents EXCEPT ![h] = e]  nc == [s.chain EXCEPT ![b] = <<h>> \o @]
             nw == (s.wild \/ fd \notin DOMAIN s.byfd)
             nb == [i \in DOMAIN s.byfd |-> IF i = fd THEN h ELSE s.byfd[i]]
             u == [byfd |-> nb, freelist |-> s.freelist, bymax |-> s.bymax, freemax |-> s.freemax,
                   freecnt |-> s.freecnt, next |-> s.next, ents |-> ne, chain |-> nc,
                   fails |-> s.fails, wild |-> nw]
  <2>1. t = [s EXCEPT !.ents = ne, !.chain = nc, !.wild = nw, !.byfd = nb]
    <3>1. s = [byfd |-> s.byfd, freelist |-> s.freelist, bymax |-> s.bymax, freemax |-> s.freemax,
               freecnt |-> s.freecnt, next |-> s.next, ents |-> s.ents, chain |-> s.chain,
               fails |-> s.fails, wild |-> s.wild]
      BY <1>1 DEF RegFields
    <3> QED
      BY <3>1, Zenon DEF b
  <2> HIDE DEF t, ne, nc, nw, nb
  <2>2. t = u
    <3>1. s = [byfd |-> s.byfd, freelist |-> s.freelist, bymax |-> s.bymax, freemax |-> s.freemax,
               freecnt |-> s.freecnt, next |-> s.next, ents |-> s.ents, chain |-> s.chain,
               fails |-> s.fails, wild |-> s.wild]
      BY <1>1 DEF RegFields
    <3> QED
      BY <2>1, <3>1
  <2>3. RegFields(t) /\ t.byfd = nb /\ t.ents = ne /\ t.chain = nc /\ t.wild = nw
        /\ t.freelist = s.freelist /\ t.bymax = s.bymax /\ t.fails = s.fails
        /\ t.freemax = s.freemax /\ t.freecnt = s.freecnt /\ t.next = s.next
    BY <2>2 DEF RegFields
  <2> QED
    BY <2>3, Zenon DEF ne, nc, nw, nb
<1> HIDE DEF t
<1>5. /\ DOMAIN t.byfd = 0 .. s.bymax - 1 /\ t.byfd[fd] = h
      /\ \A i \in 0 .. s.bymax - 1 : i # fd => t.byfd[i] = s.byfd[i]
  BY <1>1, <1>2, <1>4 DEF RegTables
<1>6. t.wild = FALSE
  <2>1. s.wild = FALSE /\ fd \in DOMAIN s.byfd
    BY <1>1, <1>2 DEF RegTables
  <2> QED
    BY <1>4, <2>1
<1>7. RegTables(t)
  BY <1>1, <1>2, <1>4, <1>5, <1>6 DEF RegTables
<1>8. FreeIdx(t) = FreeIdx(s) /\ FreeSet(t) = FreeSet(s)
  BY <1>4 DEF FreeIdx, FreeSet
<1>9. \A i \in 0 .. s.next - 1 : i \in 0 .. s.bymax - 1
  BY <1>1 DEF RegTables
<1>10. RegFree(t, {})
  BY <1>1, <1>2, <1>4, <1>5, <1>8, <1>9, RegistryAssumption DEF RegFree
<1>11. t.ents \in [Handles -> EntSet] /\ t.ents[h] = e /\ \A x \in Handles : x # h => t.ents[x] = s.ents[x]
  BY <1>1, <1>3, <1>4 DEF RegEnts
<1>12. RegEnts(t)
  <2>1. \A x \in Handles : t.ents[x].refs > 0 => t.ents[x].fd \in 0 .. s.bymax - 1 /\ t.byfd[t.ents[x].fd] = x
    <3> TAKE x \in Handles
    <3>1. CASE x = h
      BY <1>2, <1>3, <1>5, <1>11, <3>1
    <3>2. CASE x # h /\ s.ents[x].refs > 0
      <4>1. s.ents[x].fd \in 0 .. s.bymax - 1 /\ s.byfd[s.ents[x].fd] = x /\ x # "none"
        BY <1>1, <3>2, RegistryAssumption DEF RegEnts
      <4>2. s.ents[x].fd # fd
        BY <1>2, <4>1
      <4> QED
        BY <1>5, <1>11, <3>2, <4>1, <4>2
    <3> QED
      BY <1>11, <3>1, <3>2
  <2>2. \A i \in 0 .. s.bymax - 1 : t.byfd[i] # "none" => t.ents[t.byfd[i]].refs > 0 /\ t.ents[t.byfd[i]].fd = i
    <3> TAKE i \in 0 .. s.bymax - 1
    <3>1. CASE i = fd
      BY <1>3, <1>5, <1>11, <3>1
    <3>2. CASE i # fd /\ s.byfd[i] # "none"
      <4>1. s.byfd[i] \in Handles /\ s.ents[s.byfd[i]].refs > 0 /\ s.ents[s.byfd[i]].fd = i
        BY <1>1, <3>2 DEF RegEnts, RegTables
      <4>2. s.byfd[i] # h
        BY <4>1
      <4> QED
        BY <1>5, <1>11, <3>2, <4>1, <4>2
    <3> QED
      BY <1>5, <3>1, <3>2
  <2> QED
    BY <1>4, <1>11, <2>1, <2>2 DEF RegEnts
<1>13. RegChains(t)
  <2> DEFINE c == <<h>> \o s.chain[b]
  <2>1. s.chain[b] \in Seq(Handles) /\ ChainOnce(s.chain[b]) /\ ~Contains(s.chain[b], h)
    BY <1>1 DEF RegChains, b
  <2>2. c \in Seq(Handles) /\ ChainOnce(c) /\ \A x : Contains(c, x) <=> x = h \/ Contains(s.chain[b], x)
    BY <2>1, ConsChain
  <2> HIDE DEF c
  <2>3. /\ t.chain \in [Buckets -> Seq(Handles)] /\ t.chain[b] = c
        /\ \A d \in Buckets : d # b => t.chain[d] = s.chain[d]
    <3>1. t.chain = [s.chain EXCEPT ![b] = c] /\ s.chain \in [Buckets -> Seq(Handles)]
      BY <1>1, <1>4 DEF c, RegChains
    <3> QED
      BY <1>1, <2>2, <3>1
  <2>4. ASSUME NEW x \in Handles PROVE Contains(t.chain[Bucket[x]], x) <=> t.ents[x].refs > 0
    <3>1. Bucket[x] \in Buckets /\ (Contains(s.chain[Bucket[x]], x) <=> s.ents[x].refs > 0)
      BY <1>1, BucketIn DEF RegChains
    <3>2. CASE x = h
      <4>1. Bucket[x] = b /\ t.ents[x].refs > 0
        BY <1>3, <1>11, <3>2 DEF b
      <4> QED
        BY <2>2, <2>3, <3>2, <4>1
    <3>3. CASE x # h
      <4>1. t.ents[x] = s.ents[x]
        BY <1>11, <3>3
      <4>2. Contains(t.chain[Bucket[x]], x) <=> Contains(s.chain[Bucket[x]], x)
        BY <2>2, <2>3, <3>1, <3>3
      <4> QED
        BY <3>1, <4>1, <4>2
    <3> QED
      BY <3>2, <3>3
  <2>5. \A d \in Buckets : ChainOnce(t.chain[d])
    BY <1>1, <2>2, <2>3 DEF RegChains
  <2> QED
    BY <2>3, <2>4, <2>5 DEF RegChains
<1>14. RegOut(t, {})
  BY <1>4, <1>7, <1>10, <1>12, <1>13 DEF RegOut
<1> QED
  BY <1>14, Zenon DEF t, e, Entered

\* ev_win32_fd_release takes the entry out of both tables: its index is out.
LEMMA GoneOut ==
    ASSUME NEW s, NEW fd, RegOut(s, {}), fd \in DOMAIN s.byfd, s.byfd[fd] # "none"
    PROVE  LET h == s.byfd[fd] IN
           RegOut([s EXCEPT !.ents[h] = NoEnt, !.byfd[fd] = "none",
                            !.chain[Bucket[h]] = Unchained(@, h)], {fd})
<1> DEFINE h == s.byfd[fd]  b == Bucket[h]
           t == [s EXCEPT !.ents[h] = NoEnt, !.byfd[fd] = "none", !.chain[Bucket[h]] = Unchained(@, h)]
<1>1. RegFields(s) /\ RegTables(s) /\ RegFree(s, {}) /\ RegEnts(s) /\ RegChains(s)
  BY DEF RegOut
<1>2. /\ fd \in 0 .. s.next - 1 /\ fd \in 0 .. s.bymax - 1 /\ h # "none" /\ h \in Handles /\ b \in Buckets
      /\ s.ents[h].refs > 0 /\ s.ents[h].fd = fd
  BY <1>1, BucketIn DEF RegTables, RegEnts
<1> DEFINE c == Unchained(s.chain[b], h)
<1>3. /\ c \in Seq(Handles) /\ ChainOnce(c)
      /\ \A x : Contains(c, x) <=> x # h /\ Contains(s.chain[b], x)
  <2>1. s.chain[b] \in Seq(Handles) /\ ChainOnce(s.chain[b]) /\ Contains(s.chain[b], h)
    BY <1>1, <1>2 DEF RegChains
  <2> HIDE DEF h, b
  <2> QED
    BY <1>2, <2>1, UnchainedIs
<1>4. NoEnt \in EntSet /\ NoEnt.refs = 0
  BY DEF NoEnt, EntSet
<1> HIDE DEF h, b, c
<1>5. /\ RegFields(t)
      /\ t.byfd = [s.byfd EXCEPT ![fd] = "none"]
      /\ t.freelist = s.freelist /\ t.bymax = s.bymax
      /\ t.freemax = s.freemax /\ t.freecnt = s.freecnt /\ t.next = s.next
      /\ t.ents = [s.ents EXCEPT ![h] = NoEnt] /\ t.chain = [s.chain EXCEPT ![b] = c]
      /\ t.fails = s.fails /\ t.wild = s.wild
  <2> DEFINE ne == [s.ents EXCEPT ![h] = NoEnt]  nc == [s.chain EXCEPT ![b] = c]
             nb == [s.byfd EXCEPT ![fd] = "none"]
             u == [byfd |-> nb, freelist |-> s.freelist, bymax |-> s.bymax, freemax |-> s.freemax,
                   freecnt |-> s.freecnt, next |-> s.next, ents |-> ne, chain |-> nc,
                   fails |-> s.fails, wild |-> s.wild]
  <2>1. s = [byfd |-> s.byfd, freelist |-> s.freelist, bymax |-> s.bymax, freemax |-> s.freemax,
             freecnt |-> s.freecnt, next |-> s.next, ents |-> s.ents, chain |-> s.chain,
             fails |-> s.fails, wild |-> s.wild]
    BY <1>1 DEF RegFields
  <2>2. t = [s EXCEPT !.ents = ne, !.byfd = nb, !.chain = nc]
    BY <2>1, Zenon DEF b, c
  <2> HIDE DEF t, ne, nc, nb
  <2>3. t = u
    BY <2>1, <2>2
  <2>4. RegFields(t) /\ t.byfd = nb /\ t.ents = ne /\ t.chain = nc /\ t.wild = s.wild
        /\ t.freelist = s.freelist /\ t.bymax = s.bymax /\ t.fails = s.fails
        /\ t.freemax = s.freemax /\ t.freecnt = s.freecnt /\ t.next = s.next
    BY <2>3 DEF RegFields
  <2> QED
    BY <2>4, Zenon DEF ne, nc, nb
<1> HIDE DEF t
<1>6. /\ DOMAIN t.byfd = 0 .. s.bymax - 1 /\ t.byfd[fd] = "none"
      /\ \A i \in 0 .. s.bymax - 1 : i # fd => t.byfd[i] = s.byfd[i]
  BY <1>1, <1>2, <1>5 DEF RegTables
<1>7. RegTables(t)
  BY <1>1, <1>2, <1>5, <1>6 DEF RegTables
<1>8. FreeIdx(t) = FreeIdx(s) /\ FreeSet(t) = FreeSet(s)
  BY <1>5 DEF FreeIdx, FreeSet
<1>9. \A i \in 0 .. s.next - 1 : i \in 0 .. s.bymax - 1
  BY <1>1 DEF RegTables
<1>10. RegFree(t, {fd})
  <2>1. \A i \in FreeIdx(s) : /\ s.freelist[i] \in 0 .. s.next - 1 /\ s.freelist[i] # fd
                              /\ t.byfd[s.freelist[i]] = "none"
    BY <1>1, <1>2, <1>6, <1>9 DEF RegFree, h
  <2>2. \A i \in 0 .. s.next - 1 : t.byfd[i] = "none" => i = fd \/ i \in FreeSet(s)
    BY <1>1, <1>6, <1>9 DEF RegFree
  <2> QED
    BY <1>1, <1>2, <1>5, <1>6, <1>8, <2>1, <2>2 DEF RegFree
<1>11. t.ents \in [Handles -> EntSet] /\ t.ents[h] = NoEnt /\ \A x \in Handles : x # h => t.ents[x] = s.ents[x]
  BY <1>1, <1>2, <1>4, <1>5 DEF RegEnts
<1>12. RegEnts(t)
  <2>1. \A x \in Handles : t.ents[x].refs > 0 => t.ents[x].fd \in 0 .. s.bymax - 1 /\ t.byfd[t.ents[x].fd] = x
    <3> SUFFICES ASSUME NEW x \in Handles, t.ents[x].refs > 0
                 PROVE  t.ents[x].fd \in 0 .. s.bymax - 1 /\ t.byfd[t.ents[x].fd] = x
      OBVIOUS
    <3>1. x # h
      BY <1>4, <1>11
    <3>2. t.ents[x] = s.ents[x]
      BY <1>11, <3>1
    <3>3. s.ents[x].fd \in 0 .. s.bymax - 1 /\ s.byfd[s.ents[x].fd] = x
      BY <1>1, <3>2 DEF RegEnts
    <3>4. s.ents[x].fd # fd
      BY <3>1, <3>3 DEF h
    <3> QED
      BY <1>6, <3>2, <3>3, <3>4
  <2>2. \A i \in 0 .. s.bymax - 1 : t.byfd[i] # "none" => t.ents[t.byfd[i]].refs > 0 /\ t.ents[t.byfd[i]].fd = i
    <3> SUFFICES ASSUME NEW i \in 0 .. s.bymax - 1, t.byfd[i] # "none"
                 PROVE  t.ents[t.byfd[i]].refs > 0 /\ t.ents[t.byfd[i]].fd = i
      OBVIOUS
    <3>1. i # fd /\ t.byfd[i] = s.byfd[i]
      BY <1>6
    <3>2. s.byfd[i] \in Handles /\ s.ents[s.byfd[i]].refs > 0 /\ s.ents[s.byfd[i]].fd = i
      BY <1>1, <3>1 DEF RegEnts, RegTables
    <3>3. s.byfd[i] # h
      BY <1>2, <3>1, <3>2
    <3> QED
      BY <1>11, <3>1, <3>2, <3>3
  <2> QED
    BY <1>5, <1>11, <2>1, <2>2 DEF RegEnts
<1>13. RegChains(t)
  <2>1. /\ t.chain \in [Buckets -> Seq(Handles)] /\ t.chain[b] = c
        /\ \A d \in Buckets : d # b => t.chain[d] = s.chain[d]
    <3>1. s.chain \in [Buckets -> Seq(Handles)]
      BY <1>1 DEF RegChains
    <3> QED
      BY <1>2, <1>3, <1>5, <3>1
  <2>2. ASSUME NEW x \in Handles PROVE Contains(t.chain[Bucket[x]], x) <=> t.ents[x].refs > 0
    <3>1. Bucket[x] \in Buckets /\ (Contains(s.chain[Bucket[x]], x) <=> s.ents[x].refs > 0)
      BY <1>1, BucketIn DEF RegChains
    <3>2. CASE x = h
      <4>1. Bucket[x] = b /\ ~(t.ents[x].refs > 0)
        BY <1>4, <1>11, <3>2 DEF b
      <4> QED
        BY <1>3, <2>1, <3>2, <4>1
    <3>3. CASE x # h
      <4>1. t.ents[x] = s.ents[x]
        BY <1>11, <3>3
      <4>2. Contains(t.chain[Bucket[x]], x) <=> Contains(s.chain[Bucket[x]], x)
        BY <1>3, <2>1, <3>1, <3>3
      <4> QED
        BY <3>1, <4>1, <4>2
    <3> QED
      BY <3>2, <3>3
  <2>3. \A d \in Buckets : ChainOnce(t.chain[d])
    BY <1>1, <1>3, <2>1 DEF RegChains
  <2> QED
    BY <2>1, <2>2, <2>3 DEF RegChains
<1>14. RegOut(t, {fd})
  BY <1>5, <1>7, <1>10, <1>12, <1>13 DEF RegOut
<1> QED
  BY <1>14 DEF t, h

\* A further reference, or one less of several.
LEMMA RefsOnly ==
    ASSUME NEW s, NEW h \in Handles, NEW n \in Nat \ {0}, RegOut(s, {}), s.ents[h].refs > 0
    PROVE  RegOut([s EXCEPT !.ents[h].refs = n], {})
<1> DEFINE t == [s EXCEPT !.ents[h].refs = n]
           ne == [s.ents EXCEPT ![h].refs = n]
<1>1. RegFields(s) /\ RegTables(s) /\ RegFree(s, {}) /\ RegEnts(s) /\ RegChains(s)
  BY DEF RegOut
<1>2. s = [byfd |-> s.byfd, freelist |-> s.freelist, bymax |-> s.bymax, freemax |-> s.freemax,
           freecnt |-> s.freecnt, next |-> s.next, ents |-> s.ents, chain |-> s.chain,
           fails |-> s.fails, wild |-> s.wild]
  BY <1>1 DEF RegFields
<1>3. t = [s EXCEPT !.ents = ne]
  BY <1>2, Zenon
<1>4. /\ ne \in [Handles -> EntSet]
      /\ \A x \in Handles : ne[x].fd = s.ents[x].fd /\ (ne[x].refs > 0 <=> s.ents[x].refs > 0)
  <2>1. s.ents \in [Handles -> EntSet]
    BY <1>1 DEF RegEnts
  <2> QED
    BY <2>1 DEF EntSet
<1> HIDE DEF t, ne
<1>5. /\ RegFields(t)
      /\ t.byfd = s.byfd /\ t.freelist = s.freelist /\ t.bymax = s.bymax
      /\ t.freemax = s.freemax /\ t.freecnt = s.freecnt /\ t.next = s.next /\ t.ents = ne
      /\ t.chain = s.chain /\ t.fails = s.fails /\ t.wild = s.wild
  BY <1>2, <1>3 DEF RegFields
<1>6. RegTables(t)
  BY <1>1, <1>5 DEF RegTables
<1>7. RegFree(t, {})
  BY <1>1, <1>5 DEF RegFree, FreeSet, FreeIdx
<1>8. RegEnts(t)
  <2>1. \A x \in Handles : t.ents[x].refs > 0 => t.ents[x].fd \in 0 .. s.bymax - 1 /\ t.byfd[t.ents[x].fd] = x
    BY <1>1, <1>4, <1>5 DEF RegEnts
  <2>2. \A i \in 0 .. s.bymax - 1 : s.byfd[i] # "none" =>
           s.byfd[i] \in Handles /\ s.ents[s.byfd[i]].refs > 0 /\ s.ents[s.byfd[i]].fd = i
    BY <1>1 DEF RegEnts, RegTables
  <2>3. \A i \in 0 .. s.bymax - 1 : t.byfd[i] # "none" => t.ents[t.byfd[i]].refs > 0 /\ t.ents[t.byfd[i]].fd = i
    BY <1>4, <1>5, <2>2
  <2> QED
    BY <1>4, <1>5, <2>1, <2>3 DEF RegEnts
<1>9. RegChains(t)
  BY <1>1, <1>4, <1>5 DEF RegChains
<1> QED
  BY <1>5, <1>6, <1>7, <1>8, <1>9 DEF RegOut, t

LEMMA AcquireStep ==
    ASSUME RegInv, NEW h \in Handles, NEW owned \in BOOLEAN, NEW fail, Acquire(h, owned, fail)
    PROVE  RegInv'
<1> DEFINE r == IF wf.freecnt = 0 THEN Reserve(wf, fail) ELSE wf
           a == Alloc(r)
           entry == [a.s EXCEPT !.ents[h] = [fd |-> a.fd, refs |-> 1, owned |-> owned],
                                !.chain[Bucket[h]] = <<h>> \o @,
                                !.wild = @ \/ a.fd \notin DOMAIN a.s.byfd,
                                !.byfd = [i \in DOMAIN @ |-> IF i = a.fd THEN h ELSE @[i]]]
<1>1. RegOut(wf, {})
  BY DEF RegInv
<1>2. wf' = IF Contains(wf.chain[Bucket[h]], h) THEN [wf EXCEPT !.ents[h].refs = @ + 1]
            ELSE IF r.fails > wf.fails THEN r
            ELSE IF fail = "calloc" THEN Failed(PushFree(a.s, a.fd))
            ELSE entry
  BY Zenon DEF Acquire
<1>3. SUFFICES RegOut(wf', {})
  BY DEF RegInv
<1>4. Contains(wf.chain[Bucket[h]], h) <=> wf.ents[h].refs > 0
  BY <1>1 DEF RegOut, RegChains
<1>5. wf.ents[h].refs \in Nat /\ wf.freecnt \in Nat /\ wf.fails \in Nat
  BY <1>1 DEF RegOut, RegEnts, EntSet, RegTables
<1>6. /\ RegOut(r, {}) /\ r.ents = wf.ents /\ r.chain = wf.chain
      /\ r.fails > wf.fails \/ r.freecnt > 0 \/ r.next < r.bymax
  <2>1. CASE wf.freecnt = 0
    <3>1. r = Reserve(wf, fail)
      BY <2>1
    <3> HIDE DEF r
    <3> QED
      BY <1>1, <3>1, ReserveKept
  <2>2. CASE wf.freecnt # 0
    BY <1>1, <1>5, <2>2
  <2> QED
    BY <2>1, <2>2
<1> HIDE DEF r
<1>7. CASE Contains(wf.chain[Bucket[h]], h)
  <2> DEFINE n == wf.ents[h].refs + 1
  <2>1. n \in Nat \ {0} /\ wf.ents[h].refs > 0
    BY <1>4, <1>5, <1>7
  <2>2. wf' = [wf EXCEPT !.ents[h].refs = n]
    BY <1>2, <1>7, Zenon
  <2> HIDE DEF n
  <2>3. RegOut([wf EXCEPT !.ents[h].refs = n], {})
    BY <1>1, <2>1, RefsOnly, Zenon
  <2> QED
    BY <2>2, <2>3
<1>8. CASE ~Contains(wf.chain[Bucket[h]], h) /\ r.fails > wf.fails
  BY <1>2, <1>6, <1>8, Zenon
<1>9. CASE ~Contains(wf.chain[Bucket[h]], h) /\ ~(r.fails > wf.fails)
  <2>1. RegOut(a.s, {a.fd}) /\ a.s.ents = wf.ents
    BY <1>6, <1>9, AllocOut
  <2> DEFINE s == a.s  fd == a.fd
  <2> HIDE DEF a
  <2>2. CASE fail = "calloc"
    <3>1. RegOut(PushFree(s, fd), {})
      BY <2>1, PushIn
    <3>2. RegOut(Failed(PushFree(s, fd)), {})
      BY <3>1, FailedKept, Zenon
    <3> QED
      BY <1>2, <1>9, <2>2, <3>2, Zenon
  <2>3. CASE fail # "calloc"
    <3>1. wf' = entry
      BY <1>2, <1>9, <2>3, Zenon
    <3>2. s.ents[h].refs = 0
      BY <1>4, <1>5, <1>9, <2>1
    <3>3. RegOut(entry, {})
      <4>1. entry = Entered(a.s, a.fd, h, owned)
        BY Zenon DEF Entered
      <4>2. RegOut(Entered(a.s, a.fd, h, owned), {})
        BY <2>1, <3>2, EntryIn, Zenon
      <4> HIDE DEF entry
      <4> QED
        BY <4>1, <4>2
    <3> QED
      BY <3>1, <3>3, Zenon
  <2> QED
    BY <2>2, <2>3
<1> QED
  BY <1>7, <1>8, <1>9

LEMMA ReleaseStep ==
    ASSUME RegInv, NEW fd, Release(fd)
    PROVE  RegInv'
<1> DEFINE h == wf.byfd[fd]
           gone == [wf EXCEPT !.ents[h] = NoEnt, !.byfd[fd] = "none",
                              !.chain[Bucket[h]] = Unchained(@, h)]
<1>1. RegOut(wf, {}) /\ fd \in DOMAIN wf.byfd /\ wf.byfd[fd] # "none"
  BY DEF RegInv, Release
<1>2. wf' = IF wf.ents[h].refs > 1 THEN [wf EXCEPT !.ents[h].refs = @ - 1]
            ELSE PushFree(gone, fd)
  BY Zenon DEF Release
<1>3. SUFFICES RegOut(wf', {})
  BY DEF RegInv
<1>4. h \in Handles /\ wf.ents[h].refs \in Nat
  BY <1>1 DEF RegOut, RegTables, RegEnts, EntSet
<1>5. CASE wf.ents[h].refs > 1
  <2> DEFINE n == wf.ents[h].refs - 1
  <2>1. n \in Nat \ {0} /\ wf.ents[h].refs > 0
    BY <1>4, <1>5
  <2>2. wf' = [wf EXCEPT !.ents[h].refs = n]
    BY <1>2, <1>5, Zenon
  <2> HIDE DEF n, h
  <2>3. RegOut([wf EXCEPT !.ents[h].refs = n], {})
    BY <1>1, <1>4, <2>1, RefsOnly, Zenon
  <2> QED
    BY <2>2, <2>3
<1>6. CASE ~(wf.ents[h].refs > 1)
  <2>1. RegOut(gone, {fd})
    BY <1>1, GoneOut, Zenon
  <2>2. wf' = PushFree(gone, fd)
    BY <1>2, <1>6, Zenon
  <2> HIDE DEF gone
  <2>3. RegOut(PushFree(gone, fd), {})
    BY <2>1, PushIn
  <2> QED
    BY <2>2, <2>3
<1> QED
  BY <1>5, <1>6

LEMMA RegistryStart == FdInit => RegInv
<1> SUFFICES ASSUME FdInit PROVE RegOut(wf, {})
  BY DEF RegInv
<1>1. /\ RegFields(wf) /\ wf.byfd = Cleared(0) /\ wf.freelist = Cleared(0) /\ wf.bymax = 0
      /\ wf.freemax = 0 /\ wf.freecnt = 0 /\ wf.next = 0 /\ wf.ents = [h \in Handles |-> NoEnt]
      /\ wf.chain = [b \in Buckets |-> <<>>] /\ wf.fails = 0 /\ wf.wild = FALSE
  BY DEF FdInit, RegFields
<1>2. 0 .. 0 - 1 = {} /\ DOMAIN Cleared(0) = {}
  BY DEF Cleared
<1>3. RegTables(wf)
  BY <1>1, <1>2 DEF RegTables
<1>4. RegFree(wf, {})
  <2>1. FreeIdx(wf) = {} /\ FreeSet(wf) = {}
    BY <1>1, <1>2 DEF FreeIdx, FreeSet
  <2>2. IsFiniteSet({}) /\ Cardinality({}) = 0
    BY FS_EmptySet
  <2> QED
    BY <1>1, <1>2, <2>1, <2>2 DEF RegFree
<1>5. RegEnts(wf)
  BY <1>1, <1>2 DEF RegEnts, EntSet, NoEnt
<1>6. RegChains(wf)
  <2>1. \A h \in Handles : Bucket[h] \in Buckets
    BY BucketIn
  <2> QED
    BY <1>1, <2>1 DEF RegChains, ChainOnce, Contains, NoEnt
<1> QED
  BY <1>1, <1>3, <1>4, <1>5, <1>6 DEF RegOut

LEMMA RegistryHas == RegInv => RegistrySound
<1> SUFFICES ASSUME RegInv PROVE IndexOnce /\ ByFdAgrees
  BY DEF RegistrySound
<1>1. RegTables(wf) /\ RegFree(wf, {}) /\ RegEnts(wf) /\ RegChains(wf)
  BY DEF RegInv, RegOut
<1>2. Range(Listed) = FreeSet(wf)
  BY DEF Range, Listed, FreeSet, FreeIdx
<1>3. Used = {fd \in 0 .. wf.bymax - 1 : wf.byfd[fd] # "none"}
  BY <1>1 DEF Used, RegTables
<1>4. \A fd \in 0 .. wf.next - 1 : fd \in Used \/ fd \in FreeSet(wf)
  BY <1>1, <1>3 DEF RegFree, RegTables
<1>5. \A fd \in Used : fd \in 0 .. wf.next - 1 /\ fd \notin FreeSet(wf)
  BY <1>1, <1>3 DEF RegFree, RegTables, FreeSet
<1>6. \A fd \in FreeSet(wf) : fd \in 0 .. wf.next - 1
  BY <1>1 DEF RegFree, FreeSet
<1>7. IndexOnce
  <2>1. ~wf.wild /\ Cardinality(FreeSet(wf)) = wf.freecnt
    BY <1>1 DEF RegTables, RegFree
  <2> QED
    BY <1>2, <1>4, <1>5, <1>6, <2>1 DEF IndexOnce
<1>8. ByFdAgrees
  BY <1>1 DEF ByFdAgrees, RegEnts, RegChains
<1> QED
  BY <1>7, <1>8

\* However many sockets are given numbers and whichever allocations fail, each number is used
\* by one handle or free once, nothing is written past a table, and the two ways to an entry
\* agree (ev_win32_fd_acquire, ev_win32_fd_release).
THEOREM RegistryIsSound == FdSpec => []RegistrySound
<1>1. FdInit => RegInv
  BY RegistryStart
<1>2. RegInv /\ [FdNext]_wf => RegInv'
  <2> SUFFICES ASSUME RegInv, [FdNext]_wf PROVE RegInv'
    OBVIOUS
  <2>1. ASSUME NEW h \in Handles, NEW owned \in BOOLEAN, NEW fail, Acquire(h, owned, fail) PROVE RegInv'
    BY <2>1, AcquireStep
  <2>2. ASSUME NEW fd, Release(fd) PROVE RegInv'
    BY <2>2, ReleaseStep
  <2>3. CASE UNCHANGED wf
    BY <2>3 DEF RegInv
  <2> QED
    BY <2>1, <2>2, <2>3, Zenon DEF FdNext
<1>3. RegInv => RegistrySound
  BY RegistryHas
<1> QED
  BY <1>1, <1>2, <1>3, PTL DEF FdSpec
=============================================================================
