---------------------------- MODULE WatcherProofs ----------------------------
(***************************************************************************)
(* Proofs about the watchers libev builds from others: ev_embed, an io     *)
(* watcher on the kernel set of another loop that must follow that loop's  *)
(* changes; ev_once, an io and a timer watcher in memory the first of them *)
(* to fire frees; the libevent emulation's events, an io or a signal       *)
(* watcher and a timer that one event_del stops; ev_signal, behind it the  *)
(* table all loops of the process share and an io watcher on a pipe or a   *)
(* signalfd; ev_child, fed by the signal watcher of SIGCHLD; and ev_stat,  *)
(* woken by inotify, by a timer, or by both.                               *)
(***************************************************************************)
EXTENDS Signals, Embed, Once, Libevent, Child, Stat, SequenceTheorems, FiniteSetTheorems, TLAPS

(***************************************************************************)
(* ev_embed.                                                               *)
(***************************************************************************)
EmbedState ==
    [active : BOOLEAN, cb : BOOLEAN, pend : SUBSET {"io", "embed"}, fd : Nat, outreg : Nat,
     outchg : BOOLEAN, kern : Nat \ {0}, want : BOOLEAN, inreg : BOOLEAN, inchg : BOOLEAN,
     inpost : 0 .. 2, outpost : BOOLEAN, alone : BOOLEAN, inepoll : BOOLEAN, outepoll : BOOLEAN,
     told : 0 .. 2, pc : {"fork", "prepare", "block", "callbacks"}]

\* The inner kernel set holds what the inner watcher wants, and an epoll possibly more.
Given(e) == (e.want => e.inreg) /\ (~e.inepoll => e.inreg = e.want)

\* What holds of em at every point of a callback.  The inner kernel set misses an inner change
\* only while the inner loop has it to do; an active embed watcher is on the inner loop's kernel
\* set, and so is the outer loop, unless it has the change still to do; a stopped one has nothing
\* pending, and the registration it leaves goes with the outer loop's changes, or, in an epoll,
\* with the first report.
Linked(e) ==
    /\ ~e.inchg => Given(e)
    /\ e.active /\ ~e.alone => e.fd = e.kern
    /\ e.active /\ ~e.alone /\ ~e.outchg /\ ~e.outpost => e.outreg = e.kern
    /\ ~e.active => e.pend = {}
    /\ ~e.active /\ ~e.outchg /\ ~e.outpost /\ ~e.outepoll => e.outreg = 0
    /\ ~e.active /\ e.told # 0 => e.outepoll /\ e.told = 1 /\ e.outreg = 0

\* The inductive invariant.
EmbedInv == em \in EmbedState /\ Linked(em) /\ EmbedHears /\ EmbedGone

\* What the embed watcher and the outer loop keep while the inner loop runs.
Outside(d, e) ==
    /\ d.active = e.active /\ d.cb = e.cb /\ d.pend = e.pend /\ d.fd = e.fd
    /\ d.outchg = e.outchg /\ d.outpost = e.outpost /\ d.pc = e.pc
    /\ d.outepoll = e.outepoll /\ d.told = e.told

\* fd_reify of the inner loop does its changes.
LEMMA ReifyLinked ==
    ASSUME NEW e \in EmbedState, Linked(e)
    PROVE  /\ InnerReify(e) \in EmbedState /\ Linked(InnerReify(e)) /\ Outside(InnerReify(e), e)
           /\ ~InnerReify(e).inchg
<1> DEFINE r == InnerReify(e)
<1>1. CASE ~e.inchg
  BY <1>1 DEF InnerReify, Outside
<1>2. CASE e.inchg
  <2>1. PICK g \in BOOLEAN : g = (e.want \/ (e.inepoll /\ e.inreg))
    OBVIOUS
  <2>2. r = [e EXCEPT !.inreg = g, !.inchg = FALSE]
    BY <1>2, <2>1 DEF InnerReify
  <2>3. r \in EmbedState
    BY <2>2 DEF EmbedState
  <2>4. /\ r.inreg = g /\ r.inchg = FALSE /\ r.want = e.want /\ r.inepoll = e.inepoll
        /\ r.alone = e.alone /\ r.kern = e.kern /\ r.outreg = e.outreg
        /\ Outside(r, e)
    BY <2>2 DEF EmbedState, Outside
  <2>5. e.want \in BOOLEAN /\ e.inepoll \in BOOLEAN /\ e.inreg \in BOOLEAN
    BY DEF EmbedState
  <2> HIDE DEF r
  <2>6. Given(r)
    BY <2>1, <2>4, <2>5 DEF Given
  <2>7. Linked(r)
    BY <2>4, <2>6 DEF Linked, Outside
  <2> QED
    BY <2>3, <2>4, <2>7 DEF r
<1> QED
  BY <1>1, <1>2

\* loop_fork of the inner loop leaves the embed watcher on a closed set, which alone records.
LEMMA ForkLinked ==
    ASSUME NEW e \in EmbedState, Linked(e)
    PROVE  InnerFork(e) \in EmbedState /\ Linked(InnerFork(e)) /\ Outside(InnerFork(e), e)
<1>1. CASE e.inpost = 0
  BY <1>1 DEF InnerFork, Outside
<1>2. CASE e.inpost # 0
  <2> DEFINE r == InnerFork(e)
  <2>1. PICK chg \in BOOLEAN : chg = (e.inchg \/ e.want)
    OBVIOUS
  <2>2. PICK reg \in Nat : reg = IF e.outreg = e.kern THEN 0 ELSE e.outreg
    BY DEF EmbedState
  <2>3. PICK al \in BOOLEAN : al = (e.alone \/ (e.active /\ e.fd = e.kern))
    OBVIOUS
  <2>4. PICK next \in Nat \ {0} : next = e.kern + 1
    BY DEF EmbedState
  <2>5. r = [e EXCEPT !.kern = next, !.inreg = FALSE, !.inchg = chg, !.inpost = 0,
                      !.outreg = reg, !.alone = al]
    BY <1>2, <2>1, <2>2, <2>3, <2>4 DEF InnerFork
  <2>6. r \in EmbedState
    <3> DEFINE a == [e EXCEPT !.kern = next]
               b == [a EXCEPT !.inreg = FALSE, !.inchg = chg]
               c == [b EXCEPT !.inpost = 0]
               d == [c EXCEPT !.outreg = reg]
    <3>1. r = [d EXCEPT !.alone = al]
      BY <2>5
    <3> HIDE DEF r
    <3>2. a \in EmbedState
      BY DEF EmbedState
    <3> HIDE DEF a
    <3>3. b \in EmbedState
      BY <3>2 DEF EmbedState
    <3> HIDE DEF b
    <3>4. c \in EmbedState
      BY <3>3 DEF EmbedState
    <3> HIDE DEF c
    <3>5. d \in EmbedState
      BY <3>4 DEF EmbedState
    <3> HIDE DEF d
    <3> QED
      BY <3>1, <3>5 DEF EmbedState
  <2>7. /\ r.inreg = FALSE /\ r.inchg = chg /\ r.want = e.want /\ r.alone = al
        /\ r.outreg = reg /\ Outside(r, e)
    BY <2>5 DEF EmbedState, Outside
  <2>8. r.want \in BOOLEAN /\ r.inepoll \in BOOLEAN /\ e.want \in BOOLEAN
    BY <2>6 DEF EmbedState
  <2> HIDE DEF r
  <2>9. ~r.inchg => Given(r)
    BY <2>1, <2>7, <2>8 DEF Given
  <2>10. r.active => r.alone
    BY <2>3, <2>7 DEF Linked, Outside
  <2>11. Linked(r)
    <3>1. ~r.active => r.pend = {}
      BY <2>7 DEF Linked, Outside
    <3>2. ~r.active /\ ~r.outchg /\ ~r.outpost /\ ~r.outepoll => r.outreg = 0
      BY <2>2, <2>7 DEF Linked, Outside
    <3>3. ~r.active /\ r.told # 0 => r.outepoll /\ r.told = 1 /\ r.outreg = 0
      BY <2>2, <2>7 DEF Linked, Outside
    <3> QED
      BY <2>9, <2>10, <3>1, <3>2, <3>3 DEF Linked
  <2> QED
    BY <2>6, <2>7, <2>11 DEF r
<1> QED
  BY <1>1, <1>2

\* A record that differs in nothing Linked looks at, or in a registration nobody wants.
LEMMA SameLinks ==
    ASSUME NEW d \in EmbedState, NEW e \in EmbedState, Linked(e), Outside(d, e),
           d.inchg = e.inchg, d.want = e.want, d.inepoll = e.inepoll, d.alone = e.alone,
           d.kern = e.kern, d.outreg = e.outreg,
           d.inreg = e.inreg \/ (d.inreg = FALSE /\ e.inepoll /\ e.want = FALSE)
    PROVE  Linked(d)
<1>1. Given(e) => Given(d)
  BY DEF Given
<1> QED
  BY <1>1 DEF Linked, Outside

\* epoll_poll of the inner loop.
LEMMA PollLinked ==
    ASSUME NEW e \in EmbedState, Linked(e), NEW d \in InnerPoll(e)
    PROVE  d \in EmbedState /\ Linked(d) /\ Outside(d, e) /\ d.inchg = e.inchg
<1>1. CASE d = e
  BY <1>1 DEF Outside
<1>2. CASE e.inepoll /\ e.inreg /\ ~e.want /\ d = [e EXCEPT !.inreg = FALSE]
  <2>1. d \in EmbedState
    BY <1>2 DEF EmbedState
  <2>2. /\ Outside(d, e) /\ d.inchg = e.inchg /\ d.want = e.want /\ d.inepoll = e.inepoll
        /\ d.alone = e.alone /\ d.kern = e.kern /\ d.outreg = e.outreg /\ d.inreg = FALSE
    BY <1>2 DEF EmbedState, Outside
  <2>3. e.want = FALSE
    BY <1>2 DEF EmbedState
  <2> QED
    BY <1>2, <2>1, <2>2, <2>3, SameLinks
<1>3. CASE d = [e EXCEPT !.inpost = 2]
  <2>1. d \in EmbedState
    BY <1>3 DEF EmbedState
  <2>2. /\ Outside(d, e) /\ d.inchg = e.inchg /\ d.want = e.want /\ d.inepoll = e.inepoll
        /\ d.alone = e.alone /\ d.kern = e.kern /\ d.outreg = e.outreg /\ d.inreg = e.inreg
    BY <1>3 DEF EmbedState, Outside
  <2> QED
    BY <2>1, <2>2, SameLinks
<1> QED
  BY <1>1, <1>2, <1>3 DEF InnerPoll

\* A pass of the inner loop, with EVRUN_NOWAIT, is all three.
LEMMA SweepLinked ==
    ASSUME NEW e \in EmbedState, Linked(e), NEW d \in Sweep(e)
    PROVE  d \in EmbedState /\ Linked(d) /\ Outside(d, e) /\ ~d.inchg
<1> DEFINE f == InnerFork(e)
           r == InnerReify(f)
<1>1. f \in EmbedState /\ Linked(f) /\ Outside(f, e)
  BY ForkLinked
<1>2. r \in EmbedState /\ Linked(r) /\ Outside(r, f) /\ ~r.inchg
  <2> HIDE DEF f
  <2> QED
    BY <1>1, ReifyLinked
<1>3. d \in InnerPoll(r)
  BY DEF Sweep
<1> HIDE DEF f, r
<1>4. d \in EmbedState /\ Linked(d) /\ Outside(d, r) /\ d.inchg = r.inchg
  BY <1>2, <1>3, PollLinked
<1> QED
  BY <1>1, <1>2, <1>4 DEF Outside

\* embed_prepare_cb leaves the inner loop without changes.
LEMMA PrepareCbLinked ==
    ASSUME NEW e \in EmbedState, Linked(e), NEW d \in EmbedPrepareCb(e)
    PROVE  d \in EmbedState /\ Linked(d) /\ Outside(d, e) /\ ~d.inchg
<1>1. CASE ~e.inchg
  BY <1>1 DEF EmbedPrepareCb, Outside
<1>2. CASE e.inchg
  <2> DEFINE r == InnerReify(e)
  <2>1. r \in EmbedState /\ Linked(r) /\ Outside(r, e)
    BY ReifyLinked
  <2>2. d \in Sweep(r)
    BY <1>2 DEF EmbedPrepareCb
  <2> HIDE DEF r
  <2>3. d \in EmbedState /\ Linked(d) /\ Outside(d, r) /\ ~d.inchg
    BY <2>1, <2>2, SweepLinked
  <2> QED
    BY <2>1, <2>3 DEF Outside
<1> QED
  BY <1>1, <1>2

\* ev_embed_stop and ev_embed_start.
LEMMA StoppedLinked ==
    ASSUME NEW e \in EmbedState, Linked(e)
    PROVE  /\ EmbedStopped(e) \in EmbedState /\ Linked(EmbedStopped(e))
           /\ ~EmbedStopped(e).active /\ EmbedStopped(e).pc = e.pc
<1> DEFINE r == EmbedStopped(e)
<1>1. CASE e.active
  <2>1. r = [e EXCEPT !.active = FALSE, !.pend = {}, !.outchg = TRUE, !.fd = 0, !.told = 0]
    BY <1>1 DEF EmbedStopped
  <2>2. r \in EmbedState
    <3> DEFINE a == [e EXCEPT !.active = FALSE, !.pend = {}, !.outchg = TRUE]
               b == [a EXCEPT !.fd = 0]
    <3>1. r = [b EXCEPT !.told = 0]
      BY <2>1
    <3> HIDE DEF r
    <3>2. a \in EmbedState
      BY DEF EmbedState
    <3> HIDE DEF a
    <3>3. b \in EmbedState
      BY <3>2 DEF EmbedState
    <3> HIDE DEF b
    <3> QED
      BY <3>1, <3>3 DEF EmbedState
  <2>3. /\ r.active = FALSE /\ r.pend = {} /\ r.outchg = TRUE /\ r.told = 0 /\ r.pc = e.pc
        /\ r.inchg = e.inchg /\ r.want = e.want /\ r.inreg = e.inreg /\ r.inepoll = e.inepoll
    BY <2>1 DEF EmbedState
  <2> HIDE DEF r
  <2>4. Linked(r)
    BY <2>3 DEF Linked, Given
  <2> QED
    BY <2>2, <2>3, <2>4 DEF r
<1>2. CASE ~e.active
  <2>1. e.pend = {}
    BY <1>2 DEF Linked
  <2>2. r = [e EXCEPT !.pend = {}]
    BY <1>2, <2>1 DEF EmbedStopped
  <2>3. r = e
    BY <2>1, <2>2 DEF EmbedState
  <2> QED
    BY <1>2, <2>3
<1> QED
  BY <1>1, <1>2

LEMMA StartedLinked ==
    ASSUME NEW e \in EmbedState, Linked(e)
    PROVE  /\ EmbedStarted(e) \in EmbedState /\ Linked(EmbedStarted(e))
           /\ EmbedStarted(e).pc = e.pc
<1> DEFINE r == EmbedStarted(e)
<1>1. CASE e.active
  BY <1>1 DEF EmbedStarted
<1>2. CASE ~e.active
  <2>1. r = [e EXCEPT !.active = TRUE, !.fd = e.kern, !.outchg = TRUE, !.alone = FALSE]
    BY <1>2 DEF EmbedStarted
  <2>2. r \in EmbedState
    BY <2>1 DEF EmbedState
  <2>3. /\ r.active = TRUE /\ r.fd = r.kern /\ r.outchg = TRUE /\ r.pc = e.pc
        /\ r.inchg = e.inchg /\ r.want = e.want /\ r.inreg = e.inreg /\ r.inepoll = e.inepoll
    BY <2>1 DEF EmbedState
  <2> HIDE DEF r
  <2>4. Linked(r)
    BY <2>3 DEF Linked, Given
  <2> QED
    BY <2>2, <2>3, <2>4 DEF r
<1> QED
  BY <1>1, <1>2

\* embed_fork_cb moves the watcher to the inner loop's new kernel set.
LEMMA ForkCbLinked ==
    ASSUME NEW e \in EmbedState, Linked(e), NEW d \in EmbedForkCb(e)
    PROVE  d \in EmbedState /\ Linked(d) /\ d.pc = e.pc
<1> DEFINE s == EmbedStopped(e)
           f == [s EXCEPT !.inpost = 1]
<1>1. s \in EmbedState /\ Linked(s) /\ s.pc = e.pc
  BY StoppedLinked
<1>2. f \in EmbedState /\ Linked(f) /\ f.pc = s.pc
  <2> HIDE DEF s
  <2>1. f \in EmbedState /\ f.pc = s.pc
    BY <1>1 DEF EmbedState
  <2>2. /\ Outside(f, s) /\ f.inchg = s.inchg /\ f.want = s.want /\ f.inepoll = s.inepoll
        /\ f.alone = s.alone /\ f.kern = s.kern /\ f.outreg = s.outreg /\ f.inreg = s.inreg
    BY <1>1 DEF EmbedState, Outside
  <2> HIDE DEF f
  <2> QED
    BY <1>1, <2>1, <2>2, SameLinks
<1>3. PICK x \in Sweep(f) : d = EmbedStarted(x)
  BY DEF EmbedForkCb
<1> HIDE DEF s, f
<1>4. x \in EmbedState /\ Linked(x) /\ x.pc = f.pc
  BY <1>2, <1>3, SweepLinked DEF Outside
<1> QED
  BY <1>1, <1>2, <1>3, <1>4, StartedLinked

-----------------------------------------------------------------------------
\* The inductive invariant holds at the start.
LEMMA EmbedInitInv == EmbedInit => EmbedInv
<1> SUFFICES ASSUME EmbedInit PROVE EmbedInv
  OBVIOUS
<1>1. PICK c, ie, oe \in BOOLEAN :
        em = [active |-> FALSE, cb |-> c, pend |-> {}, fd |-> 0, outreg |-> 0, outchg |-> FALSE,
              kern |-> 1, want |-> FALSE, inreg |-> FALSE, inchg |-> FALSE, inpost |-> 0,
              outpost |-> FALSE, pc |-> "callbacks", alone |-> FALSE,
              inepoll |-> ie, outepoll |-> oe, told |-> 0]
  BY DEF EmbedInit
<1>2. em \in EmbedState
  BY <1>1 DEF EmbedState
<1>3. Linked(em) /\ EmbedHears /\ EmbedGone
  BY <1>1 DEF Linked, Given, EmbedHears, EmbedGone
<1> QED
  BY <1>2, <1>3 DEF EmbedInv

\* Outside of "block" the links are all there is to show.
LEMMA LinkedSuffices ==
    ASSUME em' \in EmbedState, Linked(em'), em'.pc # "block"
    PROVE  EmbedInv'
<1>1. EmbedHears'
  BY DEF EmbedHears
<1>2. EmbedGone'
  BY DEF EmbedGone, Linked, EmbedState
<1> QED
  BY <1>1, <1>2 DEF EmbedInv

\* A change of the fields Linked does not look at.
LEMMA SamePlace ==
    ASSUME NEW e \in EmbedState, Linked(e),
           NEW p \in {"fork", "prepare", "block", "callbacks"}
    PROVE  [e EXCEPT !.pc = p] \in EmbedState /\ Linked([e EXCEPT !.pc = p])
           /\ [e EXCEPT !.pc = p].pc = p
<1> DEFINE r == [e EXCEPT !.pc = p]
<1>1. r \in EmbedState /\ r.pc = p
  BY DEF EmbedState
<1>2. /\ r.inreg = e.inreg /\ r.inchg = e.inchg /\ r.want = e.want /\ r.alone = e.alone
      /\ r.active = e.active /\ r.fd = e.fd /\ r.kern = e.kern /\ r.outchg = e.outchg
      /\ r.outpost = e.outpost /\ r.outreg = e.outreg /\ r.pend = e.pend
      /\ r.inepoll = e.inepoll /\ r.outepoll = e.outepoll /\ r.told = e.told
  BY DEF EmbedState
<1> HIDE DEF r
<1>3. Linked(r)
  BY <1>2 DEF Linked, Given
<1> QED
  BY <1>1, <1>3 DEF r

\* Another set of pending watchers, of an active embed watcher.
LEMMA PendLinked ==
    ASSUME NEW e \in EmbedState, Linked(e),
           NEW P \in SUBSET {"io", "embed"}, e.active \/ P = {}
    PROVE  /\ [e EXCEPT !.pend = P] \in EmbedState /\ Linked([e EXCEPT !.pend = P])
           /\ [e EXCEPT !.pend = P].pc = e.pc
<1> DEFINE r == [e EXCEPT !.pend = P]
<1>1. r \in EmbedState /\ r.pc = e.pc
  BY DEF EmbedState
<1>2. /\ r.inreg = e.inreg /\ r.inchg = e.inchg /\ r.want = e.want /\ r.alone = e.alone
      /\ r.active = e.active /\ r.fd = e.fd /\ r.kern = e.kern /\ r.outchg = e.outchg
      /\ r.outpost = e.outpost /\ r.outreg = e.outreg /\ r.pend = P
      /\ r.inepoll = e.inepoll /\ r.outepoll = e.outepoll /\ r.told = e.told
  BY DEF EmbedState
<1> HIDE DEF r
<1>3. Linked(r)
  BY <1>2 DEF Linked, Given
<1> QED
  BY <1>1, <1>3 DEF r

\* The fork watchers: embed_fork_cb, if the outer loop forked.
LEMMA EmbedRunForkStep == EmbedInv /\ RunFork => EmbedInv'
<1> SUFFICES ASSUME EmbedInv, RunFork PROVE EmbedInv'
  OBVIOUS
<1>1. PICK p \in IF em.outpost /\ em.active THEN EmbedForkCb(em) ELSE {em} :
        em' = [p EXCEPT !.pc = "prepare"]
  BY DEF RunFork
<1>2. p \in EmbedState /\ Linked(p)
  BY <1>1, ForkCbLinked DEF EmbedInv
<1> QED
  BY <1>1, <1>2, SamePlace, LinkedSuffices

\* The prepare watchers and the outer loop's own changes: when it blocks, all is done.
LEMMA EmbedRunPrepareStep == EmbedInv /\ RunPrepare => EmbedInv'
<1> SUFFICES ASSUME EmbedInv, RunPrepare PROVE EmbedInv'
  OBVIOUS
<1>1. PICK p \in IF em.active THEN EmbedPrepareCb(em) ELSE {em} :
      \E r \in IF Rearmed(p) THEN Reached(p) ELSE {p.outreg} :
        em' = [p EXCEPT !.pc = "block", !.outpost = FALSE, !.outchg = FALSE, !.outreg = r,
                        !.pend = IF Rearmed(p) /\ p.active /\ r = 0 THEN @ \cup {"io"} ELSE @]
  BY DEF RunPrepare
<1>2. PICK r \in IF Rearmed(p) THEN Reached(p) ELSE {p.outreg} :
        em' = [p EXCEPT !.pc = "block", !.outpost = FALSE, !.outchg = FALSE, !.outreg = r,
                        !.pend = IF Rearmed(p) /\ p.active /\ r = 0 THEN @ \cup {"io"} ELSE @]
  BY <1>1
<1>3. p \in EmbedState /\ Linked(p) /\ (p.active => ~p.inchg)
  BY <1>1, PrepareCbLinked DEF EmbedInv, Outside
<1>4. PICK P \in SUBSET {"io", "embed"} :
        P = IF Rearmed(p) /\ p.active /\ r = 0 THEN p.pend \cup {"io"} ELSE p.pend
  BY <1>3 DEF EmbedState
<1>5. em' = [p EXCEPT !.pc = "block", !.outpost = FALSE, !.outchg = FALSE, !.outreg = r, !.pend = P]
  BY <1>2, <1>4
<1>6. r \in Nat
  BY <1>2, <1>3 DEF EmbedState, Reached
<1>7. p.active /\ ~p.alone => r = p.kern
  BY <1>2, <1>3 DEF Linked, Reached, Rearmed
<1>8. ~p.active /\ (~p.outepoll \/ p.told # 0) => r = 0
  BY <1>2, <1>3 DEF Linked, Reached, Rearmed
<1>9. ~p.active => P = {}
  BY <1>3, <1>4 DEF Linked
<1>10. em' \in EmbedState
  BY <1>3, <1>5, <1>6 DEF EmbedState
<1>11. /\ em'.inreg = p.inreg /\ em'.inchg = p.inchg /\ em'.want = p.want /\ em'.alone = p.alone
       /\ em'.active = p.active /\ em'.fd = p.fd /\ em'.kern = p.kern /\ em'.pend = P
       /\ em'.outreg = r /\ em'.inepoll = p.inepoll /\ em'.outepoll = p.outepoll
       /\ em'.told = p.told
  BY <1>3, <1>5 DEF EmbedState
<1>12. ~p.inchg => Given(em')
  BY <1>3, <1>11 DEF Linked, Given
<1>13. ~p.active /\ p.told # 0 => p.outepoll /\ p.told = 1
  BY <1>3 DEF Linked
<1>14. Linked(em')
  <2>1. em'.active /\ ~em'.alone => em'.fd = em'.kern /\ em'.outreg = em'.kern
    BY <1>3, <1>7, <1>11 DEF Linked
  <2> QED
    BY <1>8, <1>9, <1>11, <1>12, <1>13, <2>1 DEF Linked
<1>15. EmbedHears'
  BY <1>3, <1>7, <1>11, <1>12 DEF EmbedHears, Given
<1>16. EmbedGone'
  BY <1>8, <1>9, <1>11, <1>13 DEF EmbedGone
<1> QED
  BY <1>10, <1>14, <1>15, <1>16 DEF EmbedInv

\* The kernel reports the inner set: the io watcher of an active embed watcher is pending, and
\* a registration nobody wants is deleted.
LEMMA EmbedRunBlockStep == EmbedInv /\ RunBlock => EmbedInv'
<1> SUFFICES ASSUME EmbedInv, RunBlock PROVE EmbedInv'
  OBVIOUS
<1>0. em \in EmbedState /\ Linked(em) /\ EmbedGone /\ em.pc = "block"
  BY DEF EmbedInv, RunBlock
<1>1. CASE em' = [em EXCEPT !.pc = "callbacks"]
  BY <1>0, <1>1, SamePlace, LinkedSuffices
<1>2. CASE em.active /\ em' = [em EXCEPT !.pc = "callbacks", !.pend = em.pend \cup {"io"}]
  <2> DEFINE P == em.pend \cup {"io"}
             q == [em EXCEPT !.pend = P]
  <2>1. P \in SUBSET {"io", "embed"}
    BY <1>0 DEF EmbedState
  <2>2. em' = [q EXCEPT !.pc = "callbacks"]
    BY <1>0, <1>2 DEF EmbedState
  <2> HIDE DEF P
  <2>3. q \in EmbedState /\ Linked(q)
    BY <1>0, <1>2, <2>1, PendLinked
  <2> HIDE DEF q
  <2> QED
    BY <2>2, <2>3, SamePlace, LinkedSuffices
<1>3. CASE /\ em.outreg = em.kern /\ ~em.active
           /\ em' = [StaleReported(em) EXCEPT !.pc = "callbacks"]
  <2>1. em.outreg # 0
    BY <1>0, <1>3 DEF EmbedState
  <2>2. em.outepoll /\ em.told = 0
    BY <1>0, <1>3, <2>1 DEF EmbedGone, Linked
  <2>3. StaleReported(em) = [em EXCEPT !.outreg = 0, !.told = 1]
    BY <2>2 DEF StaleReported
  <2>4. em' = [em EXCEPT !.outreg = 0, !.told = 1, !.pc = "callbacks"]
    BY <1>0, <1>3, <2>3 DEF EmbedState
  <2>5. em' \in EmbedState
    <3> DEFINE a == [em EXCEPT !.outreg = 0]
               b == [a EXCEPT !.told = 1]
    <3>1. em' = [b EXCEPT !.pc = "callbacks"]
      BY <2>4
    <3>2. a \in EmbedState
      BY <1>0 DEF EmbedState
    <3> HIDE DEF a
    <3>3. b \in EmbedState
      BY <3>2 DEF EmbedState
    <3> HIDE DEF b
    <3> QED
      BY <3>1, <3>3 DEF EmbedState
  <2>6. /\ em'.inreg = em.inreg /\ em'.inchg = em.inchg /\ em'.want = em.want
        /\ em'.inepoll = em.inepoll /\ em'.active = em.active /\ em'.pend = em.pend
        /\ em'.outreg = 0 /\ em'.told = 1 /\ em'.outepoll = em.outepoll /\ em'.pc = "callbacks"
    BY <1>0, <2>4 DEF EmbedState
  <2>7. Linked(em')
    BY <1>0, <1>3, <2>2, <2>6 DEF Linked, Given
  <2> QED
    BY <2>5, <2>6, <2>7, LinkedSuffices
<1> QED
  BY <1>1, <1>2, <1>3 DEF RunBlock

\* The callbacks: what is pending is taken off and the inner loop swept.
LEMMA EmbedRunCallbackStep == EmbedInv /\ RunCallback => EmbedInv'
<1> SUFFICES ASSUME EmbedInv, RunCallback PROVE EmbedInv'
  OBVIOUS
<1>0. em \in EmbedState /\ Linked(em) /\ em.pc = "callbacks"
  BY DEF EmbedInv, RunCallback
<1>1. CASE "io" \in em.pend /\ em' = [em EXCEPT !.pend = (em.pend \ {"io"}) \cup {"embed"}]
  <2>1. em.active /\ (em.pend \ {"io"}) \cup {"embed"} \in SUBSET {"io", "embed"}
    BY <1>0, <1>1 DEF EmbedState, Linked
  <2> QED
    BY <1>0, <1>1, <2>1, PendLinked, LinkedSuffices
<1>2. ASSUME NEW k \in {"io", "embed"}, k \in em.pend, em' \in Sweep([em EXCEPT !.pend = em.pend \ {k}])
      PROVE  EmbedInv'
  <2> DEFINE q == [em EXCEPT !.pend = em.pend \ {k}]
  <2>1. em.active /\ em.pend \ {k} \in SUBSET {"io", "embed"}
    BY <1>0, <1>2 DEF EmbedState, Linked
  <2>2. q \in EmbedState /\ Linked(q) /\ q.pc = em.pc
    BY <1>0, <2>1, PendLinked
  <2>3. em' \in Sweep(q)
    BY <1>2
  <2> HIDE DEF q
  <2>4. em' \in EmbedState /\ Linked(em') /\ em'.pc = q.pc
    BY <2>2, <2>3, SweepLinked DEF Outside
  <2> QED
    BY <1>0, <2>2, <2>4, LinkedSuffices
<1>3. CASE em' = [em EXCEPT !.pc = "fork"]
  BY <1>0, <1>3, SamePlace, LinkedSuffices
<1> QED
  BY <1>1, <1>2, <1>3 DEF RunCallback

\* What the application does: a pass of the inner loop, start, stop, inner watchers, fork.
LEMMA EmbedAppStep ==
    EmbedInv /\ (InnerRuns \/ EmbedStart \/ EmbedStop \/ InnerIo \/ OuterForks) => EmbedInv'
<1> SUFFICES ASSUME EmbedInv, InnerRuns \/ EmbedStart \/ EmbedStop \/ InnerIo \/ OuterForks
             PROVE  EmbedInv'
  OBVIOUS
<1>0. em \in EmbedState /\ Linked(em)
  BY DEF EmbedInv
<1>1. CASE InnerRuns
  <2>1. em' \in Sweep(em) /\ em.pc = "callbacks"
    BY <1>1 DEF InnerRuns
  <2>2. em' \in EmbedState /\ Linked(em') /\ em'.pc = em.pc
    BY <1>0, <2>1, SweepLinked DEF Outside
  <2> QED
    BY <2>1, <2>2, LinkedSuffices
<1>2. CASE EmbedStart
  BY <1>0, <1>2, StartedLinked, LinkedSuffices DEF EmbedStart
<1>3. CASE EmbedStop
  BY <1>0, <1>3, StoppedLinked, LinkedSuffices DEF EmbedStop
<1>4. CASE InnerIo
  <2>1. em' = [em EXCEPT !.want = ~em.want, !.inchg = TRUE] /\ em.pc # "block"
    BY <1>4 DEF InnerIo
  <2>2. em' \in EmbedState /\ em'.pc = em.pc /\ em'.inchg = TRUE
    BY <1>0, <2>1 DEF EmbedState
  <2>3. /\ em'.alone = em.alone /\ em'.active = em.active /\ em'.fd = em.fd
        /\ em'.kern = em.kern /\ em'.outchg = em.outchg /\ em'.outpost = em.outpost
        /\ em'.outreg = em.outreg /\ em'.pend = em.pend
        /\ em'.outepoll = em.outepoll /\ em'.told = em.told
    BY <1>0, <2>1 DEF EmbedState
  <2>4. Linked(em')
    BY <1>0, <2>2, <2>3 DEF Linked
  <2> QED
    BY <2>1, <2>2, <2>4, LinkedSuffices
<1>5. CASE OuterForks
  <2>1. em' = [em EXCEPT !.outpost = TRUE] /\ em.pc = "callbacks"
    BY <1>5 DEF OuterForks
  <2>2. em' \in EmbedState /\ em'.pc = "callbacks" /\ em'.outpost = TRUE
    BY <1>0, <2>1 DEF EmbedState
  <2>3. /\ em'.inreg = em.inreg /\ em'.inchg = em.inchg /\ em'.want = em.want
        /\ em'.inepoll = em.inepoll /\ em'.outepoll = em.outepoll /\ em'.told = em.told
        /\ em'.alone = em.alone /\ em'.active = em.active /\ em'.fd = em.fd
        /\ em'.kern = em.kern /\ em'.pend = em.pend /\ em'.outreg = em.outreg
    BY <1>0, <2>1 DEF EmbedState
  <2>4. Linked(em')
    BY <1>0, <2>2, <2>3 DEF Linked, Given
  <2> QED
    BY <2>2, <2>4, LinkedSuffices
<1> QED
  BY <1>1, <1>2, <1>3, <1>4, <1>5

\* ev_embed: while the outer loop blocks with an active embed watcher, its kernel set holds the
\* inner loop's, with every change of the inner loop's watchers done, through any sequence of
\* starts, stops, forks and sweeps, unless the inner loop replaced its kernel set by itself; a
\* stopped one has no callback pending, and wakes the outer loop once more at most, and that
\* only where the backend (epoll) ignores that nothing is wanted any more.
THEOREM EmbedIsFollowed == EmbedSpec => []EmbedFollows
<1>1. EmbedInit => EmbedInv
  BY EmbedInitInv
<1>2. EmbedInv /\ [EmbedNext]_em => EmbedInv'
  <2>1. EmbedInv /\ EmbedNext => EmbedInv'
    BY EmbedRunForkStep, EmbedRunPrepareStep, EmbedRunBlockStep, EmbedRunCallbackStep,
       EmbedAppStep DEF EmbedNext
  <2>2. EmbedInv /\ UNCHANGED em => EmbedInv'
    BY DEF EmbedInv, EmbedHears, EmbedGone
  <2> QED
    BY <2>1, <2>2
<1>3. EmbedInv => EmbedFollows
  BY DEF EmbedInv, EmbedFollows
<1> QED
  BY <1>1, <1>2, <1>3, PTL DEF EmbedSpec

(***************************************************************************)
(* ev_once.                                                                *)
(***************************************************************************)
OnceEntry == [w : Halves \cup {NoHalf}, got : SUBSET OnceEvents]

OnceTyped ==
    /\ omem \in [Slots -> {"free", "live"}] /\ ohalf \subseteq Halves
    /\ opending \in Seq(OnceEntry) /\ ofed \in [Slots -> SUBSET OnceEvents]

\* A half has one place in the queue (its pending field).
Distinct(q) == \A i, j \in DOMAIN q : q[i].w = q[j].w /\ q[i].w # NoHalf => i = j

Queued(q, h) == \E i \in DOMAIN q : q[i].w = h

\* OnceReachable, half by half.
Reachable ==
    \A s \in Slots :
        (omem[s] = "live") <=> \/ <<s, "io">> \in ohalf \/ <<s, "to">> \in ohalf
                               \/ Queued(opending, <<s, "io">>) \/ Queued(opending, <<s, "to">>)

\* What was fed to a live ev_once waits in the queue for its callback.
AllWaiting ==
    \A s \in Slots : omem[s] = "live" =>
        ofed[s] = Waiting(opending, <<s, "io">>) \cup Waiting(opending, <<s, "to">>)

\* The inductive invariant.
OnceInv == OnceTyped /\ Distinct(opending) /\ AllWaiting /\ Reachable /\ OnceAllEvents

\* Halves are told from pending_w and by their slots.
LEMMA HalfFacts ==
    /\ \A h \in Halves : h # NoHalf /\ h[1] \in Slots /\ h = <<h[1], h[2]>> /\ h[2] \in {"io", "to"}
    /\ \A s \in Slots : <<s, "io">> \in Halves /\ <<s, "to">> \in Halves
    /\ NoHalf[1] = 0
  BY DEF Halves, NoHalf

\* What waits for a half, event by event.
LEMMA WaitingEvents ==
    ASSUME NEW q, NEW h, NEW e
    PROVE  e \in Waiting(q, h) <=> \E i \in DOMAIN q : q[i].w = h /\ e \in q[i].got
  BY DEF Waiting

\* clear_pending keeps the entry and takes its half's name off.
LEMMA ClearedQueue ==
    ASSUME NEW q \in Seq(OnceEntry), NEW h \in Halves
    PROVE  /\ OnceCleared(q, h) \in Seq(OnceEntry)
           /\ DOMAIN OnceCleared(q, h) = DOMAIN q
           /\ \A i \in DOMAIN q : /\ OnceCleared(q, h)[i].w = IF q[i].w = h THEN NoHalf ELSE q[i].w
                                  /\ OnceCleared(q, h)[i].got = q[i].got
<1> DEFINE f(i) == IF q[i].w = h THEN [q[i] EXCEPT !.w = NoHalf] ELSE q[i]
<1>1. OnceCleared(q, h) = [i \in 1 .. Len(q) |-> f(i)] /\ DOMAIN q = 1 .. Len(q) /\ Len(q) \in Nat
  BY DEF OnceCleared
<1>2. \A i \in 1 .. Len(q) : /\ f(i) \in OnceEntry
                             /\ f(i).w = IF q[i].w = h THEN NoHalf ELSE q[i].w
                             /\ f(i).got = q[i].got
  <2> TAKE i \in 1 .. Len(q)
  <2>1. q[i] \in OnceEntry
    BY <1>1
  <2> QED
    BY <2>1 DEF OnceEntry
<1> HIDE DEF f
<1> QED
  BY <1>1, <1>2

\* ev_feed_event adds to the entry a half has.
LEMMA FedKnown ==
    ASSUME NEW q \in Seq(OnceEntry), NEW h \in Halves, NEW e \in SUBSET OnceEvents,
           \E i \in DOMAIN q : q[i].w = h
    PROVE  /\ OnceFed(q, h, e) \in Seq(OnceEntry)
           /\ DOMAIN OnceFed(q, h, e) = DOMAIN q
           /\ \A i \in DOMAIN q :
                /\ OnceFed(q, h, e)[i].w = q[i].w
                /\ q[i].w = h => OnceFed(q, h, e)[i].got = q[i].got \cup e
                /\ q[i].w # h => OnceFed(q, h, e)[i].got = q[i].got
<1> DEFINE f(i) == IF q[i].w = h THEN [q[i] EXCEPT !.got = @ \cup e] ELSE q[i]
<1>1. OnceFed(q, h, e) = [i \in DOMAIN q |-> f(i)]
  BY Zenon DEF OnceFed
<1>2. DOMAIN q = 1 .. Len(q) /\ Len(q) \in Nat
  OBVIOUS
<1>3. \A i \in DOMAIN q : /\ f(i) \in OnceEntry
                          /\ f(i).w = q[i].w
                          /\ q[i].w = h => f(i).got = q[i].got \cup e
                          /\ q[i].w # h => f(i).got = q[i].got
  <2> TAKE i \in DOMAIN q
  <2>1. q[i] \in OnceEntry
    OBVIOUS
  <2> QED
    BY <2>1 DEF OnceEntry
<1> HIDE DEF f
<1>4. OnceFed(q, h, e) \in Seq(OnceEntry)
  <2>1. OnceFed(q, h, e) = [i \in 1 .. Len(q) |-> f(i)]
    BY <1>1, <1>2
  <2>2. \A i \in 1 .. Len(q) : f(i) \in OnceEntry
    BY <1>2, <1>3, Zenon
  <2> QED
    BY <1>2, <2>1, <2>2
<1>5. DOMAIN OnceFed(q, h, e) = DOMAIN q /\ \A i \in DOMAIN q : OnceFed(q, h, e)[i] = f(i)
  BY <1>1, Zenon
<1> QED
  BY <1>3, <1>4, <1>5, Zenon

\* F is q with one entry more, of half h with the events e.
OneMore(F, q, h, e) ==
    \E n \in Nat :
        /\ n \notin DOMAIN q /\ DOMAIN F = DOMAIN q \cup {n}
        /\ \A i \in DOMAIN q : F[i] = q[i]
        /\ F[n].w = h /\ F[n].got = e

\* ev_feed_event gives a half that has no entry one at the end.
LEMMA FedNew ==
    ASSUME NEW q \in Seq(OnceEntry), NEW h \in Halves, NEW e \in SUBSET OnceEvents,
           \A i \in DOMAIN q : q[i].w # h
    PROVE  OnceFed(q, h, e) \in Seq(OnceEntry) /\ OneMore(OnceFed(q, h, e), q, h, e)
<1> DEFINE n == Len(q) + 1
<1>1. OnceFed(q, h, e) = Append(q, [w |-> h, got |-> e])
  BY Zenon DEF OnceFed
<1>2. [w |-> h, got |-> e] \in OnceEntry
  BY DEF OnceEntry
<1>3. OnceFed(q, h, e) \in Seq(OnceEntry)
  BY <1>1, <1>2
<1>4. /\ n \in Nat /\ n \notin DOMAIN q /\ DOMAIN OnceFed(q, h, e) = DOMAIN q \cup {n}
      /\ \A i \in DOMAIN q : OnceFed(q, h, e)[i] = q[i]
      /\ OnceFed(q, h, e)[n] = [w |-> h, got |-> e]
  BY <1>1, <1>2
<1>5. OnceFed(q, h, e)[n].w = h /\ OnceFed(q, h, e)[n].got = e
  BY <1>4
<1> HIDE DEF n
<1> QED
  BY <1>3, <1>4, <1>5, Zenon DEF OneMore

\* After ev_feed_event, that half waits with the event too, and every other as before.
LEMMA FedWaiting ==
    ASSUME NEW q \in Seq(OnceEntry), NEW h \in Halves, NEW e \in SUBSET OnceEvents, NEW g
    PROVE  Waiting(OnceFed(q, h, e), g) = IF g = h THEN Waiting(q, h) \cup e ELSE Waiting(q, g)
<1> DEFINE F == OnceFed(q, h, e)
<1>0. \A x : /\ x \in Waiting(F, g) <=> \E i \in DOMAIN F : F[i].w = g /\ x \in F[i].got
             /\ x \in Waiting(q, g) <=> \E i \in DOMAIN q : q[i].w = g /\ x \in q[i].got
  BY WaitingEvents
<1>1. CASE \E i \in DOMAIN q : q[i].w = h
  <2>1. DOMAIN F = DOMAIN q /\ \A i \in DOMAIN q : F[i].w = q[i].w
    BY <1>1, FedKnown
  <2>2. \A i \in DOMAIN q : /\ q[i].w = h => F[i].got = q[i].got \cup e
                            /\ q[i].w # h => F[i].got = q[i].got
    BY <1>1, FedKnown
  <2> HIDE DEF F
  <2>3. CASE g = h
    <3>1. \A x : x \in Waiting(F, g) <=> \E i \in DOMAIN q : q[i].w = g /\ x \in q[i].got \cup e
      BY <1>0, <2>1, <2>2, <2>3
    <3>2. \A x : x \in Waiting(F, g) <=> x \in Waiting(q, g) \cup e
      BY <1>0, <1>1, <2>3, <3>1
    <3> QED
      BY <2>3, <3>2 DEF F
  <2>4. CASE g # h
    <3>1. \A x : x \in Waiting(F, g) <=> x \in Waiting(q, g)
      BY <1>0, <2>1, <2>2, <2>4
    <3> QED
      BY <2>4, <3>1 DEF F
  <2> QED
    BY <2>3, <2>4
<1>2. CASE ~ \E i \in DOMAIN q : q[i].w = h
  <2>0. \A i \in DOMAIN q : q[i].w # h
    BY <1>2
  <2>1. OneMore(F, q, h, e)
    BY <2>0, FedNew
  <2> HIDE DEF F
  <2>2. \A x : x \in Waiting(F, g) <=> x \in Waiting(q, g) \/ (h = g /\ x \in e)
    BY <1>0, <2>1 DEF OneMore
  <2>3. CASE g = h
    BY <2>2, <2>3 DEF F
  <2>4. CASE g # h
    <3>1. \A x : x \in Waiting(F, g) <=> x \in Waiting(q, g)
      BY <2>2, <2>4
    <3> QED
      BY <2>4, <3>1 DEF F
  <2> QED
    BY <2>3, <2>4
<1> QED
  BY <1>1, <1>2

\* After ev_feed_event, that half is queued too, and no half twice.
LEMMA FedNames ==
    ASSUME NEW q \in Seq(OnceEntry), NEW h \in Halves, NEW e \in SUBSET OnceEvents, Distinct(q)
    PROVE  /\ Distinct(OnceFed(q, h, e))
           /\ \A g : Queued(OnceFed(q, h, e), g) <=> Queued(q, g) \/ g = h
<1> DEFINE F == OnceFed(q, h, e)
<1>1. CASE \E i \in DOMAIN q : q[i].w = h
  <2>1. DOMAIN F = DOMAIN q /\ \A i \in DOMAIN q : F[i].w = q[i].w
    BY <1>1, FedKnown
  <2> HIDE DEF F
  <2>2. Distinct(F)
    BY <2>1 DEF Distinct
  <2>3. \A g : Queued(F, g) <=> Queued(q, g) \/ g = h
    BY <1>1, <2>1 DEF Queued
  <2> QED
    BY <2>2, <2>3 DEF F
<1>2. CASE ~ \E i \in DOMAIN q : q[i].w = h
  <2>0. \A i \in DOMAIN q : q[i].w # h
    BY <1>2
  <2>1. OneMore(F, q, h, e)
    BY <2>0, FedNew
  <2> HIDE DEF F
  <2>2. Distinct(F)
    BY <2>0, <2>1 DEF Distinct, OneMore
  <2>3. \A g : Queued(F, g) <=> Queued(q, g) \/ g = h
    BY <2>1 DEF Queued, OneMore
  <2> QED
    BY <2>2, <2>3 DEF F
<1> QED
  BY <1>1, <1>2

\* After clear_pending, that half is not queued and has nothing waiting.
LEMMA ClearedNames ==
    ASSUME NEW q \in Seq(OnceEntry), NEW h \in Halves, Distinct(q)
    PROVE  /\ Distinct(OnceCleared(q, h))
           /\ \A g \in Halves : Queued(OnceCleared(q, h), g) <=> Queued(q, g) /\ g # h
           /\ \A g \in Halves : g # h => Waiting(OnceCleared(q, h), g) = Waiting(q, g)
<1> DEFINE C == OnceCleared(q, h)
<1>0. \A g \in Halves : g # NoHalf
  BY HalfFacts
<1>1. /\ DOMAIN C = DOMAIN q
      /\ \A i \in DOMAIN q : C[i].got = q[i].got
      /\ \A i \in DOMAIN q : C[i].w = IF q[i].w = h THEN NoHalf ELSE q[i].w
  BY ClearedQueue
<1> HIDE DEF C
<1>2. Distinct(C)
  BY <1>1 DEF Distinct
<1>3. \A g \in Halves : Queued(C, g) <=> Queued(q, g) /\ g # h
  BY <1>0, <1>1 DEF Queued
<1>4. ASSUME NEW g \in Halves, g # h PROVE Waiting(C, g) = Waiting(q, g)
  <2>1. \A x : /\ x \in Waiting(C, g) <=> \E i \in DOMAIN C : C[i].w = g /\ x \in C[i].got
               /\ x \in Waiting(q, g) <=> \E i \in DOMAIN q : q[i].w = g /\ x \in q[i].got
    BY WaitingEvents
  <2>2. \A i \in DOMAIN q : C[i].w = g <=> q[i].w = g
    BY <1>0, <1>1, <1>4
  <2>3. \A x : x \in Waiting(C, g) <=> x \in Waiting(q, g)
    BY <1>1, <2>1, <2>2
  <2> QED
    BY <2>3
<1> QED
  BY <1>2, <1>3, <1>4 DEF C

\* The last entry of the queue and the others.
LEMMA FrontNames ==
    ASSUME NEW q \in Seq(OnceEntry), q # <<>>, Distinct(q)
    PROVE  /\ Last(q) \in OnceEntry /\ Front(q) \in Seq(OnceEntry) /\ Distinct(Front(q))
           /\ \A g : Queued(q, g) <=> Queued(Front(q), g) \/ g = Last(q).w
           /\ \A g : g # Last(q).w => Waiting(q, g) = Waiting(Front(q), g)
           /\ Last(q).w # NoHalf => /\ ~ Queued(Front(q), Last(q).w)
                                    /\ Waiting(q, Last(q).w) = Last(q).got
<1> DEFINE F == Front(q)
           n == Len(q)
<1>1. n \in Nat /\ n > 0 /\ DOMAIN q = 1 .. n
  OBVIOUS
<1>2. Last(q) = q[n] /\ Last(q) \in OnceEntry
  BY <1>1 DEF Last
<1>3. F \in Seq(OnceEntry) /\ DOMAIN F = 1 .. (n - 1) /\ \A i \in 1 .. (n - 1) : F[i] = q[i]
  BY <1>1 DEF Front
<1> HIDE DEF F, n
<1>4. /\ DOMAIN F \subseteq DOMAIN q /\ n \in DOMAIN q /\ n \notin DOMAIN F
      /\ \A i \in DOMAIN q : i \in DOMAIN F \/ i = n
      /\ \A i \in DOMAIN F : F[i] = q[i]
  BY <1>1, <1>3
<1>5. Distinct(F)
  BY <1>4 DEF Distinct
<1>6. \A g : Queued(q, g) <=> Queued(F, g) \/ g = q[n].w
  BY <1>4 DEF Queued
<1>7. \A g, x : /\ x \in Waiting(F, g) <=> \E i \in DOMAIN F : F[i].w = g /\ x \in F[i].got
                /\ x \in Waiting(q, g) <=> \E i \in DOMAIN q : q[i].w = g /\ x \in q[i].got
  BY WaitingEvents
<1>8. ASSUME NEW g, g # q[n].w PROVE Waiting(q, g) = Waiting(F, g)
  <2>1. \A x : x \in Waiting(q, g) <=> x \in Waiting(F, g)
    BY <1>4, <1>7, <1>8
  <2> QED
    BY <2>1
<1>9. ASSUME q[n].w # NoHalf PROVE ~ Queued(F, q[n].w) /\ Waiting(q, q[n].w) = q[n].got
  <2>1. \A i \in DOMAIN q : q[i].w = q[n].w => i = n
    BY <1>4, <1>9 DEF Distinct
  <2>2. ~ Queued(F, q[n].w)
    BY <1>4, <2>1 DEF Queued
  <2>3. \A x : x \in Waiting(q, q[n].w) <=> x \in q[n].got
    BY <1>4, <1>7, <2>1
  <2> QED
    BY <2>2, <2>3
<1> QED
  BY <1>2, <1>3, <1>5, <1>6, <1>8, <1>9 DEF F

-----------------------------------------------------------------------------
\* The half-by-half form is OnceReachable: pending_w's memory is no slot.
LEMMA ReachableForms ==
    ASSUME OnceAssumption, OnceTyped
    PROVE  Reachable <=> OnceReachable
<1>1. ASSUME NEW s \in Slots
      PROVE  (\E i \in DOMAIN opending : opending[i].w[1] = s) <=>
                Queued(opending, <<s, "io">>) \/ Queued(opending, <<s, "to">>)
  <2>1. \A i \in DOMAIN opending : opending[i].w \in Halves \cup {NoHalf}
    <3>1. \A i \in DOMAIN opending : opending[i] \in OnceEntry
      BY DEF OnceTyped
    <3> QED
      BY <3>1 DEF OnceEntry
  <2>2. \A h \in Halves \cup {NoHalf} : h[1] = s <=> h = <<s, "io">> \/ h = <<s, "to">>
    <3>1. NoHalf[1] # s /\ NoHalf # <<s, "io">> /\ NoHalf # <<s, "to">>
      BY HalfFacts DEF OnceAssumption
    <3>2. \A h \in Halves : h[1] = s <=> h = <<s, "io">> \/ h = <<s, "to">>
      BY DEF Halves
    <3> QED
      BY <3>1, <3>2
  <2> QED
    BY <2>1, <2>2 DEF Queued
<1>2. \A s \in Slots : (\E k \in {"io", "to"} : <<s, k>> \in ohalf) <=>
                          <<s, "io">> \in ohalf \/ <<s, "to">> \in ohalf
  OBVIOUS
<1> QED
  BY <1>1, <1>2 DEF Reachable, OnceReachable

LEMMA OnceInitInv == OnceInit => OnceInv
<1> SUFFICES ASSUME OnceInit PROVE OnceInv
  OBVIOUS
<1>1. OnceTyped /\ OnceAllEvents
  BY DEF OnceInit, OnceTyped, OnceAllEvents
<1>2. DOMAIN opending = {}
  BY DEF OnceInit
<1>3. Distinct(opending) /\ Reachable
  BY <1>2 DEF OnceInit, Distinct, Reachable, Queued
<1>4. AllWaiting
  BY DEF OnceInit, AllWaiting
<1> QED
  BY <1>1, <1>3, <1>4 DEF OnceInv

\* ev_once takes a free slot, so nothing in the queue names it.
LEMMA EvOnceStep ==
    ASSUME OnceInv, NEW s \in Slots, NEW io \in BOOLEAN, NEW to \in BOOLEAN, EvOnce(s, io, to)
    PROVE  OnceInv'
<1>1. /\ omem[s] = "free" /\ (io \/ to) /\ omem' = [omem EXCEPT ![s] = "live"]
      /\ ofed' = [ofed EXCEPT ![s] = {}] /\ opending' = opending /\ oerr' = oerr
      /\ ohalf' = ohalf \cup (IF io THEN {<<s, "io">>} ELSE {}) \cup (IF to THEN {<<s, "to">>} ELSE {})
  BY DEF EvOnce
<1>2. OnceTyped'
  BY <1>1, HalfFacts DEF OnceInv, OnceTyped
<1>3. ~ Queued(opending, <<s, "io">>) /\ ~ Queued(opending, <<s, "to">>)
  BY <1>1 DEF OnceInv, Reachable
<1>4. Waiting(opending, <<s, "io">>) = {} /\ Waiting(opending, <<s, "to">>) = {}
  BY <1>3 DEF Queued, Waiting
<1>5. AllWaiting'
  <2> SUFFICES ASSUME NEW r \in Slots, omem'[r] = "live"
               PROVE  ofed'[r] = Waiting(opending, <<r, "io">>) \cup Waiting(opending, <<r, "to">>)
    BY <1>1 DEF AllWaiting
  <2>1. CASE r = s
    BY <1>1, <1>4, <2>1 DEF OnceInv, OnceTyped
  <2>2. CASE r # s
    BY <1>1, <2>2 DEF OnceInv, OnceTyped, AllWaiting
  <2> QED
    BY <2>1, <2>2
<1>6. Reachable'
  <2> SUFFICES ASSUME NEW r \in Slots
               PROVE  (omem'[r] = "live") <=>
                        \/ <<r, "io">> \in ohalf' \/ <<r, "to">> \in ohalf'
                        \/ Queued(opending, <<r, "io">>) \/ Queued(opending, <<r, "to">>)
    BY <1>1 DEF Reachable
  <2>1. CASE r = s
    BY <1>1, <2>1 DEF OnceInv, OnceTyped
  <2>2. CASE r # s
    BY <1>1, <2>2 DEF OnceInv, OnceTyped, Reachable
  <2> QED
    BY <2>1, <2>2
<1> QED
  BY <1>1, <1>2, <1>5, <1>6 DEF OnceInv, OnceAllEvents

\* fd_event, fd_kill and timers_reify feed an active half; the last two stop it first.
LEMMA OnceFeedStep ==
    ASSUME OnceInv, NEW s \in Slots, NEW k \in {"io", "to"}, NEW e \in SUBSET OnceEvents,
           <<s, k>> \in ohalf, OnceFeed(<<s, k>>, e), ohalf' = ohalf \/ ohalf' = ohalf \ {<<s, k>>}
    PROVE  OnceInv'
<1> DEFINE h == <<s, k>>
<1>1. /\ opending' = OnceFed(opending, h, e) /\ ofed' = [ofed EXCEPT ![s] = @ \cup e]
      /\ omem' = omem /\ oerr' = oerr
  BY DEF OnceFeed
<1>2. h \in Halves /\ opending \in Seq(OnceEntry) /\ Distinct(opending)
  BY DEF OnceInv, OnceTyped
<1>3. omem[s] = "live"
  BY DEF OnceInv, Reachable
<1>4. Distinct(opending') /\ \A g : Queued(opending', g) <=> Queued(opending, g) \/ g = h
  BY <1>1, <1>2, FedNames
<1>5. opending' \in Seq(OnceEntry)
  BY <1>1, <1>2, FedKnown, FedNew
<1>6. \A g : Waiting(opending', g) = IF g = h THEN Waiting(opending, h) \cup e ELSE Waiting(opending, g)
  <2> HIDE DEF h
  <2>1. \A g : Waiting(OnceFed(opending, h, e), g) =
                 IF g = h THEN Waiting(opending, h) \cup e ELSE Waiting(opending, g)
    BY <1>2, FedWaiting
  <2> QED
    BY <1>1, <2>1
<1>7. OnceTyped'
  BY <1>1, <1>5 DEF OnceInv, OnceTyped
<1>8. AllWaiting'
  <2> SUFFICES ASSUME NEW r \in Slots, omem[r] = "live"
               PROVE  ofed'[r] = Waiting(opending', <<r, "io">>) \cup Waiting(opending', <<r, "to">>)
    BY <1>1 DEF AllWaiting
  <2>0. /\ ofed[r] = Waiting(opending, <<r, "io">>) \cup Waiting(opending, <<r, "to">>)
        /\ ofed'[r] = IF r = s THEN ofed[r] \cup e ELSE ofed[r]
    BY <1>1 DEF OnceInv, OnceTyped, AllWaiting
  <2>1. CASE r = s /\ k = "io"
    BY <1>6, <2>0, <2>1
  <2>2. CASE r = s /\ k = "to"
    BY <1>6, <2>0, <2>2
  <2>3. CASE r # s
    BY <1>6, <2>0, <2>3
  <2> QED
    BY <2>1, <2>2, <2>3
<1>9. Reachable'
  <2> SUFFICES ASSUME NEW r \in Slots
               PROVE  (omem[r] = "live") <=>
                        \/ <<r, "io">> \in ohalf' \/ <<r, "to">> \in ohalf'
                        \/ Queued(opending', <<r, "io">>) \/ Queued(opending', <<r, "to">>)
    BY <1>1 DEF Reachable
  <2>1. CASE r = s
    BY <1>3, <1>4, <2>1
  <2>2. CASE r # s
    BY <1>4, <2>2 DEF OnceInv, Reachable
  <2> QED
    BY <2>1, <2>2
<1> QED
  BY <1>1, <1>4, <1>7, <1>8, <1>9 DEF OnceInv, OnceAllEvents

\* The callback: once_cb_io and once_cb_to pass on all that waits, then the slot is free and
\* nothing names it.
LEMMA OnceInvokeStep == OnceInv /\ OnceInvoke => OnceInv'
<1> SUFFICES ASSUME OnceInv, OnceInvoke PROVE OnceInv'
  OBVIOUS
<1> DEFINE p == Last(opending)
           q == Front(opending)
<1>1. opending \in Seq(OnceEntry) /\ opending # <<>> /\ Distinct(opending) /\ ofed' = ofed
  BY DEF OnceInv, OnceTyped, OnceInvoke
<1>2. /\ p \in OnceEntry /\ q \in Seq(OnceEntry) /\ Distinct(q)
      /\ \A g : Queued(opending, g) <=> Queued(q, g) \/ g = p.w
      /\ \A g : g # p.w => Waiting(opending, g) = Waiting(q, g)
      /\ p.w # NoHalf => ~ Queued(q, p.w) /\ Waiting(opending, p.w) = p.got
  BY <1>1, FrontNames
<1>3. CASE p.w = NoHalf
  <2>1. opending' = q /\ omem' = omem /\ ohalf' = ohalf /\ oerr' = oerr
    BY <1>3 DEF OnceInvoke
  <2> HIDE DEF p, q
  <2>2. \A s \in Slots : /\ <<s, "io">> # NoHalf /\ <<s, "to">> # NoHalf
                         /\ Waiting(opending', <<s, "io">>) = Waiting(opending, <<s, "io">>)
                         /\ Waiting(opending', <<s, "to">>) = Waiting(opending, <<s, "to">>)
                         /\ Queued(opending', <<s, "io">>) <=> Queued(opending, <<s, "io">>)
                         /\ Queued(opending', <<s, "to">>) <=> Queued(opending, <<s, "to">>)
    BY <1>2, <1>3, <2>1, HalfFacts
  <2>3. OnceTyped' /\ Distinct(opending')
    BY <1>1, <1>2, <2>1 DEF OnceInv, OnceTyped
  <2>4. AllWaiting' /\ Reachable'
    BY <1>1, <2>1, <2>2 DEF OnceInv, AllWaiting, Reachable
  <2> QED
    BY <2>1, <2>3, <2>4 DEF OnceInv, OnceAllEvents
<1>4. CASE p.w # NoHalf
  <2> DEFINE s == p.w[1]
             io == <<s, "io">>
             to == <<s, "to">>
             C == OnceCleared(q, io)
  <2>1. p.w \in Halves
    BY <1>2, <1>4 DEF OnceEntry
  <2>2. s \in Slots /\ io \in Halves /\ to \in Halves /\ (p.w = io \/ p.w = to)
    BY <2>1, HalfFacts
  <2>3. /\ ohalf' = ohalf \ {io, to} /\ opending' = OnceCleared(C, to)
        /\ omem' = [omem EXCEPT ![s] = "free"]
        /\ oerr' = (oerr \/ omem[s] = "free" \/ OnceRevents(p.w, p.got, q) # ofed[s])
    BY <1>4 DEF OnceInvoke, OnceCb
  <2>4. omem[s] = "live"
    BY <1>2, <2>2 DEF OnceInv, Reachable
  <2>5. ofed[s] = Waiting(opending, io) \cup Waiting(opending, to)
    BY <2>2, <2>4 DEF OnceInv, AllWaiting
  <2>6. OnceRevents(p.w, p.got, q) = ofed[s]
    <3>1. CASE p.w = io
      <4>1. OnceRevents(p.w, p.got, q) = p.got \cup Waiting(q, to)
        BY <3>1 DEF OnceRevents
      <4> QED
        BY <1>2, <1>4, <2>5, <3>1, <4>1
    <3>2. CASE p.w = to
      <4>1. OnceRevents(p.w, p.got, q) = p.got \cup Waiting(q, io)
        BY <3>2 DEF OnceRevents
      <4> QED
        BY <1>2, <1>4, <2>5, <3>2, <4>1
    <3> QED
      BY <2>2, <3>1, <3>2
  <2>7. ~ oerr'
    BY <2>3, <2>4, <2>6 DEF OnceInv, OnceAllEvents
  <2> HIDE DEF p, q
  <2>8. /\ C \in Seq(OnceEntry) /\ Distinct(C)
        /\ \A g \in Halves : Queued(C, g) <=> Queued(q, g) /\ g # io
        /\ \A g \in Halves : g # io => Waiting(C, g) = Waiting(q, g)
    BY <1>2, <2>2, ClearedQueue, ClearedNames
  <2> HIDE DEF C
  <2>9. /\ opending' \in Seq(OnceEntry) /\ Distinct(opending')
        /\ \A g \in Halves : Queued(opending', g) <=> Queued(C, g) /\ g # to
        /\ \A g \in Halves : g # to => Waiting(opending', g) = Waiting(C, g)
    <3> HIDE DEF to
    <3>1. OnceCleared(C, to) \in Seq(OnceEntry)
      BY <2>2, <2>8, ClearedQueue
    <3>2. /\ Distinct(OnceCleared(C, to))
          /\ \A g \in Halves : Queued(OnceCleared(C, to), g) <=> Queued(C, g) /\ g # to
          /\ \A g \in Halves : g # to => Waiting(OnceCleared(C, to), g) = Waiting(C, g)
      BY <2>2, <2>8, ClearedNames
    <3> QED
      BY <2>3, <3>1, <3>2
  <2>10. OnceTyped'
    BY <1>1, <2>2, <2>3, <2>9 DEF OnceInv, OnceTyped
  <2>11. ASSUME NEW r \in Slots, r # s
         PROVE  /\ omem'[r] = omem[r]
                /\ Waiting(opending', <<r, "io">>) = Waiting(opending, <<r, "io">>)
                /\ Waiting(opending', <<r, "to">>) = Waiting(opending, <<r, "to">>)
                /\ Queued(opending', <<r, "io">>) <=> Queued(opending, <<r, "io">>)
                /\ Queued(opending', <<r, "to">>) <=> Queued(opending, <<r, "to">>)
                /\ <<r, "io">> \in ohalf' <=> <<r, "io">> \in ohalf
                /\ <<r, "to">> \in ohalf' <=> <<r, "to">> \in ohalf
    <3>1. \A g \in {<<r, "io">>, <<r, "to">>} : g \in Halves /\ g # io /\ g # to /\ g # p.w
      <4>1. <<r, "io">> \in Halves /\ <<r, "to">> \in Halves
        BY HalfFacts
      <4>2. \A k, l \in {"io", "to"} : <<r, k>> # <<s, l>>
        BY <2>11
      <4> QED
        BY <2>2, <4>1, <4>2
    <3>2. omem'[r] = omem[r]
      BY <2>2, <2>3, <2>11 DEF OnceInv, OnceTyped
    <3> HIDE DEF io, to
    <3> QED
      BY <1>2, <2>3, <2>8, <2>9, <3>1, <3>2
  <2>12. /\ omem'[s] = "free" /\ ~ Queued(opending', io) /\ ~ Queued(opending', to)
         /\ io \notin ohalf' /\ to \notin ohalf'
    BY <2>2, <2>3, <2>8, <2>9 DEF OnceInv, OnceTyped
  <2>13. AllWaiting'
    <3> SUFFICES ASSUME NEW r \in Slots, omem'[r] = "live"
                 PROVE  ofed[r] = Waiting(opending', <<r, "io">>) \cup Waiting(opending', <<r, "to">>)
      BY <1>1 DEF AllWaiting
    <3> QED
      BY <2>11, <2>12 DEF OnceInv, AllWaiting
  <2>14. Reachable'
    BY <2>11, <2>12 DEF OnceInv, Reachable
  <2> QED
    BY <2>7, <2>9, <2>10, <2>13, <2>14 DEF OnceInv, OnceAllEvents
<1> QED
  BY <1>3, <1>4

\* ev_loop_destroy: once_reclaim finds every live one.
LEMMA OnceDestroyStep == OnceInv /\ OnceLoopDestroy => OnceInv'
<1> SUFFICES ASSUME OnceInv, OnceLoopDestroy PROVE OnceInv'
  OBVIOUS
<1>1. /\ omem' = [s \in Slots |-> IF s \in OnceReclaim THEN "free" ELSE omem[s]]
      /\ ohalf' = {} /\ opending' = <<>> /\ ofed' = ofed /\ oerr' = oerr
  BY DEF OnceLoopDestroy
<1>2. ASSUME NEW s \in Slots, omem[s] = "live" PROVE s \in OnceReclaim
  <2>1. CASE \E k \in {"io", "to"} : <<s, k>> \in ohalf
    BY <2>1 DEF OnceReclaim
  <2>2. CASE \E k \in {"io", "to"} : Queued(opending, <<s, k>>)
    BY <2>2 DEF OnceReclaim, Queued
  <2> QED
    BY <1>2, <2>1, <2>2 DEF OnceInv, Reachable
<1>3. \A s \in Slots : omem'[s] = "free"
  BY <1>1, <1>2 DEF OnceInv, OnceTyped
<1>4. OnceTyped'
  BY <1>1 DEF OnceInv, OnceTyped
<1>5. DOMAIN opending' = {}
  BY <1>1
<1>6. Distinct(opending') /\ AllWaiting' /\ Reachable'
  BY <1>1, <1>3, <1>5 DEF Distinct, AllWaiting, Reachable, Queued
<1> QED
  BY <1>1, <1>4, <1>6 DEF OnceInv, OnceAllEvents

\* ev_once: its memory is live exactly as long as an active or a pending watcher leads to it,
\* so that a callback or the destruction of the loop frees it, once, and the callback gets what
\* both halves were fed, whatever other ev_once uses the slot before and after.
THEOREM OnceIsSound == ASSUME OnceAssumption PROVE OnceSpec => []OnceSound
<1>1. OnceInit => OnceInv
  BY OnceInitInv
<1>2. OnceInv /\ [OnceNext]_ovars => OnceInv'
  <2> SUFFICES ASSUME OnceInv, [OnceNext]_ovars PROVE OnceInv'
    OBVIOUS
  <2>1. ASSUME NEW s \in Slots, NEW io \in BOOLEAN, NEW to \in BOOLEAN, EvOnce(s, io, to)
        PROVE  OnceInv'
    BY <2>1, EvOnceStep
  <2>2. ASSUME NEW s \in Slots, OnceReady(s) \/ OnceKilled(s) PROVE OnceInv'
    <3>1. \E e \in SUBSET OnceEvents :
             /\ <<s, "io">> \in ohalf /\ OnceFeed(<<s, "io">>, e)
             /\ ohalf' = ohalf \/ ohalf' = ohalf \ {<<s, "io">>}
      BY <2>2 DEF OnceReady, OnceKilled, OnceEvents
    <3> QED
      BY <3>1, OnceFeedStep
  <2>3. ASSUME NEW s \in Slots, OnceExpired(s) PROVE OnceInv'
    <3>1. \E e \in SUBSET OnceEvents :
             /\ <<s, "to">> \in ohalf /\ OnceFeed(<<s, "to">>, e)
             /\ ohalf' = ohalf \/ ohalf' = ohalf \ {<<s, "to">>}
      BY <2>3 DEF OnceExpired, OnceEvents
    <3> QED
      BY <3>1, OnceFeedStep
  <2>4. CASE OnceInvoke \/ OnceLoopDestroy
    BY <2>4, OnceInvokeStep, OnceDestroyStep
  <2>5. CASE UNCHANGED ovars
    <3>1. omem' = omem /\ ohalf' = ohalf /\ opending' = opending /\ ofed' = ofed /\ oerr' = oerr
      BY <2>5 DEF ovars
    <3> QED
      BY <3>1 DEF OnceInv, OnceTyped, AllWaiting, Reachable, OnceAllEvents
  <2> QED
    BY <2>1, <2>2, <2>3, <2>4, <2>5 DEF OnceNext
<1>3. OnceInv => OnceSound
  BY ReachableForms DEF OnceInv, OnceSound
<1> QED
  BY <1>1, <1>2, <1>3, PTL DEF OnceSpec

(***************************************************************************)
(* The libevent emulation.                                                 *)
(***************************************************************************)
EventEntry == [w : EvWatchers \cup {NoWatcher}, got : SUBSET {"io", "timeout", "error"}]

EventTyped ==
    /\ lact \subseteq EvWatchers /\ lpend \in Seq(EventEntry)
    /\ lflag \in [Events -> SUBSET {"timeout", "inserted", "signal", "active"}]
    /\ lgone \in [Events -> BOOLEAN] /\ lran \in [Events -> Nat] /\ lbase \in {"none", "init", "freed"}

\* Watcher v is in the queue q; it is there with an error.
InQueue(q, v) == \E i \in DOMAIN q : q[i].w = v
Failed(q, v) == \E i \in DOMAIN q : q[i].w = v /\ "error" \in q[i].got

\* Nothing of an event is active or pending.
Quiet(A, q, e) ==
    /\ <<e, "iosig">> \notin A /\ <<e, "to">> \notin A
    /\ ~InQueue(q, <<e, "iosig">>) /\ ~InQueue(q, <<e, "to">>)

OneShot(e) == Set[e].kind # "signal" /\ ~Set[e].persist

\* A deleted event is quiet, and so is one that does not persist after its callback.
Silenced ==
    \A e \in Events : /\ lgone[e] => Quiet(lact, lpend, e)
                      /\ OneShot(e) => lran[e] = 0 \/ (lran[e] = 1 /\ Quiet(lact, lpend, e))

\* An event said to wait for its descriptor does, or it was killed and the queued callback
\* will delete it.
Flagged(A, q, F, e) ==
    /\ "timeout" \in F <=> <<e, "to">> \in A
    /\ "inserted" \in F \/ "signal" \in F => <<e, "iosig">> \in A \/ Failed(q, <<e, "iosig">>)

\* The inductive invariant.
EventInv ==
    /\ EventTyped /\ Silenced
    /\ lbase # "freed" => \A e \in Events : Flagged(lact, lpend, lflag[e], e)

LEMMA WatcherFacts ==
    /\ \A v \in EvWatchers : v # NoWatcher /\ v[1] \in Events /\ v = <<v[1], v[2]>> /\ v[2] \in {"iosig", "to"}
    /\ \A e \in Events : <<e, "iosig">> \in EvWatchers /\ <<e, "to">> \in EvWatchers
    /\ \A e \in Events : e # NoWatcher[1]
  BY EventAssumption DEF EvWatchers, NoWatcher

\* ev_feed_event: the watcher is queued, every other stays as it was, errors are kept.
LEMMA EvFedQueue ==
    ASSUME NEW q \in Seq(EventEntry), NEW v \in EvWatchers, NEW x \in {"io", "timeout", "error"}
    PROVE  /\ EvFed(q, v, x) \in Seq(EventEntry)
           /\ \A u : InQueue(EvFed(q, v, x), u) <=> InQueue(q, u) \/ u = v
           /\ \A u : Failed(q, u) => Failed(EvFed(q, v, x), u)
           /\ x = "error" => Failed(EvFed(q, v, x), v)
<1> DEFINE F == EvFed(q, v, x)
<1>1. CASE \E i \in DOMAIN q : q[i].w = v
  <2> DEFINE f(i) == IF q[i].w = v THEN [q[i] EXCEPT !.got = @ \cup {x}] ELSE q[i]
  <2>1. F = [i \in DOMAIN q |-> f(i)]
    BY <1>1, Zenon DEF EvFed
  <2>2. DOMAIN q = 1 .. Len(q) /\ Len(q) \in Nat
    OBVIOUS
  <2>3. \A i \in DOMAIN q : /\ f(i) \in EventEntry /\ f(i).w = q[i].w
                            /\ q[i].got \subseteq f(i).got
                            /\ q[i].w = v => x \in f(i).got
    <3> TAKE i \in DOMAIN q
    <3>1. q[i] \in EventEntry
      OBVIOUS
    <3> QED
      BY <3>1 DEF EventEntry
  <2> HIDE DEF f
  <2>4. F \in Seq(EventEntry)
    <3>1. F = [i \in 1 .. Len(q) |-> f(i)]
      BY <2>1, <2>2
    <3>2. \A i \in 1 .. Len(q) : f(i) \in EventEntry
      BY <2>2, <2>3, Zenon
    <3> QED
      BY <2>2, <3>1, <3>2
  <2>5. DOMAIN F = DOMAIN q /\ \A i \in DOMAIN q : F[i] = f(i)
    BY <2>1, Zenon
  <2> HIDE DEF F
  <2>6. \A i \in DOMAIN q : /\ F[i].w = q[i].w /\ q[i].got \subseteq F[i].got
                            /\ q[i].w = v => x \in F[i].got
    BY <2>3, <2>5, Zenon
  <2>7. \A u : InQueue(F, u) <=> InQueue(q, u) \/ u = v
    BY <1>1, <2>5, <2>6 DEF InQueue
  <2>8. \A u : Failed(q, u) => Failed(F, u)
    BY <2>5, <2>6 DEF Failed
  <2>9. x = "error" => Failed(F, v)
    BY <1>1, <2>5, <2>6 DEF Failed
  <2> QED
    BY <2>4, <2>7, <2>8, <2>9 DEF F
<1>2. CASE \A i \in DOMAIN q : q[i].w # v
  <2> DEFINE n == Len(q) + 1  r == [w |-> v, got |-> {x}]
  <2>1. F = Append(q, r)
    BY <1>2, Zenon DEF EvFed
  <2>2. r \in EventEntry /\ r.w = v /\ r.got = {x}
    BY DEF EventEntry
  <2> HIDE DEF r
  <2>3. F \in Seq(EventEntry)
    BY <2>1, <2>2
  <2>4. /\ n \in Nat /\ n \notin DOMAIN q /\ DOMAIN F = DOMAIN q \cup {n}
        /\ \A i \in DOMAIN q : F[i] = q[i]
        /\ F[n] = r
    BY <2>1, <2>2
  <2> HIDE DEF F, n
  <2>5. \A u : InQueue(F, u) <=> InQueue(q, u) \/ u = v
    BY <2>2, <2>4 DEF InQueue
  <2>6. \A u : Failed(q, u) => Failed(F, u)
    BY <2>4 DEF Failed
  <2>7. x = "error" => Failed(F, v)
    BY <2>2, <2>4 DEF Failed
  <2> QED
    BY <2>3, <2>5, <2>6, <2>7 DEF F
<1> QED
  BY <1>1, <1>2

\* clear_pending: the entries stay, without their watcher.
LEMMA EvClearedQueue ==
    ASSUME NEW q \in Seq(EventEntry), NEW W \in SUBSET EvWatchers
    PROVE  /\ EvCleared(q, W) \in Seq(EventEntry)
           /\ \A u \in EvWatchers : InQueue(EvCleared(q, W), u) <=> InQueue(q, u) /\ u \notin W
           /\ \A u \in EvWatchers : Failed(q, u) /\ u \notin W => Failed(EvCleared(q, W), u)
<1> DEFINE f(i) == IF q[i].w \in W THEN [q[i] EXCEPT !.w = NoWatcher] ELSE q[i]
           C == EvCleared(q, W)
<1>1. C = [i \in DOMAIN q |-> f(i)]
  BY Zenon DEF EvCleared
<1>2. DOMAIN q = 1 .. Len(q) /\ Len(q) \in Nat
  OBVIOUS
<1>3. \A i \in DOMAIN q : /\ f(i) \in EventEntry /\ f(i).got = q[i].got
                          /\ q[i].w \in W => f(i).w = NoWatcher
                          /\ q[i].w \notin W => f(i).w = q[i].w
  <2> TAKE i \in DOMAIN q
  <2>1. q[i] \in EventEntry
    OBVIOUS
  <2> QED
    BY <2>1 DEF EventEntry
<1> HIDE DEF f
<1>4. C \in Seq(EventEntry)
  <2>1. C = [i \in 1 .. Len(q) |-> f(i)]
    BY <1>1, <1>2
  <2>2. \A i \in 1 .. Len(q) : f(i) \in EventEntry
    BY <1>2, <1>3, Zenon
  <2> QED
    BY <1>2, <2>1, <2>2
<1>5. DOMAIN C = DOMAIN q /\ \A i \in DOMAIN q : C[i] = f(i)
  BY <1>1, Zenon
<1> HIDE DEF C
<1>6. \A i \in DOMAIN q : /\ C[i].got = q[i].got
                          /\ q[i].w \in W => C[i].w = NoWatcher
                          /\ q[i].w \notin W => C[i].w = q[i].w
  BY <1>3, <1>5, Zenon
<1>7. \A u \in EvWatchers : u # NoWatcher
  BY WatcherFacts
<1>8. \A u \in EvWatchers : InQueue(C, u) <=> InQueue(q, u) /\ u \notin W
  BY <1>5, <1>6, <1>7 DEF InQueue
<1>9. \A u \in EvWatchers : Failed(q, u) /\ u \notin W => Failed(C, u)
  BY <1>5, <1>6 DEF Failed
<1> QED
  BY <1>4, <1>8, <1>9 DEF C

\* ev_invoke_pending takes the last entry.
LEMMA EvFrontQueue ==
    ASSUME NEW q \in Seq(EventEntry), q # <<>>
    PROVE  /\ Front(q) \in Seq(EventEntry) /\ Last(q) \in EventEntry
           /\ \A u : InQueue(Front(q), u) => InQueue(q, u)
           /\ InQueue(q, Last(q).w)
           /\ \A u : Failed(q, u) => Failed(Front(q), u) \/ (Last(q).w = u /\ "error" \in Last(q).got)
<1> DEFINE n == Len(q)  F == Front(q)
<1>1. n \in Nat /\ n > 0 /\ DOMAIN q = 1 .. n
  OBVIOUS
<1>2. F = SubSeq(q, 1, n - 1) /\ Last(q) = q[n]
  BY DEF Front, Last
<1>3. F \in Seq(EventEntry) /\ Len(F) = n - 1 /\ \A i \in 1 .. n - 1 : F[i] = q[i]
  BY <1>1, <1>2
<1>4. DOMAIN F = 1 .. n - 1
  BY <1>3
<1>5. q[n] \in EventEntry
  BY <1>1
<1> HIDE DEF F, n
<1>6. \A i : i \in 1 .. n <=> i \in 1 .. n - 1 \/ i = n
  BY <1>1
<1>7. \A u : InQueue(F, u) => InQueue(q, u)
  BY <1>1, <1>3, <1>4, <1>6 DEF InQueue
<1>8. InQueue(q, q[n].w)
  BY <1>1, <1>6 DEF InQueue
<1>9. \A u : Failed(q, u) => Failed(F, u) \/ (q[n].w = u /\ "error" \in q[n].got)
  BY <1>1, <1>3, <1>4, <1>6 DEF Failed
<1> QED
  BY <1>2, <1>3, <1>5, <1>7, <1>8, <1>9 DEF F

\* Deleted(e, q), where q is the queue, or what is left of it after its last entry ran.
LEMMA DeletedQuiet ==
    ASSUME EventTyped, NEW e \in Events, NEW q \in Seq(EventEntry), Deleted(e, q),
           \A u : InQueue(q, u) => InQueue(lpend, u),
           \A u : Failed(lpend, u) /\ u # <<e, "iosig">> /\ u # <<e, "to">> => Failed(q, u)
    PROVE  /\ lact' \subseteq EvWatchers /\ lpend' \in Seq(EventEntry)
           /\ lflag' \in [Events -> SUBSET {"timeout", "inserted", "signal", "active"}]
           /\ Quiet(lact', lpend', e)
           /\ \A d \in Events : Quiet(lact, lpend, d) => Quiet(lact', lpend', d)
           /\ \A d \in Events : Flagged(lact, lpend, lflag[d], d) => Flagged(lact', lpend', lflag'[d], d)
<1> DEFINE W == {<<e, "iosig">>, <<e, "to">>}
<1>1. lact' = lact \ W /\ lpend' = EvCleared(q, W) /\ lflag' = [lflag EXCEPT ![e] = {}]
  BY DEF Deleted, DelPending
<1>2. W \in SUBSET EvWatchers /\ \A d \in Events : <<d, "iosig">> \in EvWatchers /\ <<d, "to">> \in EvWatchers
  BY WatcherFacts
<1>3. /\ lpend' \in Seq(EventEntry)
      /\ \A u \in EvWatchers : InQueue(lpend', u) <=> InQueue(q, u) /\ u \notin W
      /\ \A u \in EvWatchers : Failed(q, u) /\ u \notin W => Failed(lpend', u)
  BY <1>1, <1>2, EvClearedQueue
<1>4. lact' \subseteq EvWatchers /\ lflag' \in [Events -> SUBSET {"timeout", "inserted", "signal", "active"}]
  BY <1>1 DEF EventTyped
<1>5. Quiet(lact', lpend', e)
  BY <1>1, <1>2, <1>3 DEF Quiet
<1>6. ASSUME NEW d \in Events, Quiet(lact, lpend, d) PROVE Quiet(lact', lpend', d)
  BY <1>1, <1>2, <1>3, <1>6 DEF Quiet
<1>7. ASSUME NEW d \in Events, Flagged(lact, lpend, lflag[d], d)
      PROVE  Flagged(lact', lpend', lflag'[d], d)
  <2>1. CASE d = e
    <3>1. lflag'[d] = {}
      BY <1>1, <2>1 DEF EventTyped
    <3> QED
      BY <1>1, <2>1, <3>1 DEF Flagged
  <2>2. CASE d # e
    <3>1. lflag'[d] = lflag[d]
      BY <1>1, <2>2 DEF EventTyped
    <3>2. <<d, "iosig">> \notin W /\ <<d, "to">> \notin W
      BY <2>2
    <3>3. Failed(lpend, <<d, "iosig">>) => Failed(lpend', <<d, "iosig">>)
      BY <1>2, <1>3, <3>2
    <3> HIDE DEF W
    <3> QED
      BY <1>1, <1>7, <3>1, <3>2, <3>3 DEF Flagged
  <2> QED
    BY <2>1, <2>2
<1> QED
  BY <1>3, <1>4, <1>5, <1>6, <1>7

LEMMA EventDelStep ==
    ASSUME EventInv, NEW e \in Events, EventDel(e)
    PROVE  EventInv'
<1>1. EventTyped /\ Silenced /\ lpend \in Seq(EventEntry) /\ lbase = "init" /\ lbase' = lbase
      /\ \A d \in Events : Flagged(lact, lpend, lflag[d], d)
  BY DEF EventInv, EventTyped, EventDel, Base
<1>2. Deleted(e, lpend) /\ lgone' = [lgone EXCEPT ![e] = TRUE] /\ lran' = lran
  BY DEF EventDel
<1>3. /\ lact' \subseteq EvWatchers /\ lpend' \in Seq(EventEntry)
      /\ lflag' \in [Events -> SUBSET {"timeout", "inserted", "signal", "active"}]
      /\ Quiet(lact', lpend', e)
      /\ \A d \in Events : Quiet(lact, lpend, d) => Quiet(lact', lpend', d)
      /\ \A d \in Events : Flagged(lact, lpend, lflag[d], d) => Flagged(lact', lpend', lflag'[d], d)
  BY <1>1, <1>2, DeletedQuiet
<1>4. EventTyped'
  BY <1>1, <1>2, <1>3 DEF EventTyped
<1>5. Silenced'
  BY <1>1, <1>2, <1>3 DEF Silenced, EventTyped, OneShot
<1> QED
  BY <1>1, <1>3, <1>4, <1>5 DEF EventInv

\* Only an event's own calls and callbacks touch what the invariant says of it.
LEMMA EventAddStep ==
    ASSUME EventInv, NEW e \in Events, NEW tv \in BOOLEAN, EventAdd(e, tv)
    PROVE  EventInv'
<1> DEFINE W == {<<e, "to">>}  h == HalfFlag(e)
<1>1. EventTyped /\ Silenced /\ lpend \in Seq(EventEntry) /\ lbase = "init" /\ lbase' = lbase
      /\ \A d \in Events : Flagged(lact, lpend, lflag[d], d)
  BY DEF EventInv, EventTyped, EventAdd, CanAdd, Base
<1>2. /\ lpend' = EvCleared(lpend, W) /\ lflag' = [lflag EXCEPT ![e] = AddFlags(e, tv)]
      /\ lgone' = [lgone EXCEPT ![e] = FALSE] /\ lran' = [lran EXCEPT ![e] = 0]
  BY DEF EventAdd, Touched
<1>3. h \in SUBSET {"inserted", "signal"}
  BY DEF HalfFlag
<1>4. \A u : u \in lact' <=> \/ u \in lact /\ u # <<e, "to">>
                             \/ h # {} /\ u = <<e, "iosig">>
                             \/ tv = TRUE /\ u = <<e, "to">>
  <2> DEFINE k == IF h = {} THEN {} ELSE {<<e, "iosig">>}
             t == IF tv THEN {<<e, "to">>} ELSE {}
  <2>1. lact' = (lact \ {<<e, "to">>}) \cup k \cup t
    BY DEF EventAdd
  <2> HIDE DEF h
  <2>2. /\ \A u : u \in k <=> h # {} /\ u = <<e, "iosig">>
        /\ \A u : u \in t <=> tv = TRUE /\ u = <<e, "to">>
    OBVIOUS
  <2> HIDE DEF k, t
  <2> QED
    BY <2>1, <2>2
<1>5. /\ AddFlags(e, tv) \in SUBSET {"timeout", "inserted", "signal", "active"}
      /\ "timeout" \in AddFlags(e, tv) <=> tv = TRUE
      /\ \A x \in {"inserted", "signal"} : x \in AddFlags(e, tv) => x \in lflag[e] \/ x \in h
  <2> DEFINE k == IF <<e, "iosig">> \in lact THEN {} ELSE h
             t == IF tv THEN {"timeout"} ELSE {}
             F == AddFlags(e, tv)
  <2>1. F = (lflag[e] \ {"timeout"}) \cup {"active"} \cup k \cup t
    BY DEF AddFlags
  <2>2. k \subseteq h /\ t \subseteq {"timeout"} /\ ("timeout" \in t <=> tv = TRUE)
    OBVIOUS
  <2>3. lflag[e] \in SUBSET {"timeout", "inserted", "signal", "active"}
    BY <1>1 DEF EventTyped
  <2> HIDE DEF h, k, t, F
  <2>4. \A x : x \in F <=> (x \in lflag[e] /\ x # "timeout") \/ x = "active" \/ x \in k \/ x \in t
    BY <2>1
  <2>5. "timeout" \notin k /\ \A x \in {"inserted", "signal"} : x \notin t
    BY <1>3, <2>2
  <2> QED
    BY <1>3, <2>2, <2>3, <2>4, <2>5 DEF F
<1> HIDE DEF h
<1>6. W \in SUBSET EvWatchers /\ \A d \in Events : <<d, "iosig">> \in EvWatchers /\ <<d, "to">> \in EvWatchers
  BY WatcherFacts
<1>7. /\ lpend' \in Seq(EventEntry)
      /\ \A u \in EvWatchers : InQueue(lpend', u) <=> InQueue(lpend, u) /\ u \notin W
      /\ \A u \in EvWatchers : Failed(lpend, u) /\ u \notin W => Failed(lpend', u)
  BY <1>1, <1>2, <1>6, EvClearedQueue
<1>8. EventTyped'
  BY <1>1, <1>2, <1>4, <1>5, <1>6, <1>7 DEF EventTyped
<1>9. ASSUME NEW d \in Events, d # e, Quiet(lact, lpend, d) PROVE Quiet(lact', lpend', d)
  BY <1>4, <1>6, <1>7, <1>9 DEF Quiet
<1>10. Silenced'
  <2> SUFFICES ASSUME NEW d \in Events
               PROVE  /\ lgone'[d] => Quiet(lact', lpend', d)
                      /\ OneShot(d) => lran'[d] = 0 \/ (lran'[d] = 1 /\ Quiet(lact', lpend', d))
    BY DEF Silenced, OneShot
  <2>1. CASE d = e
    BY <1>1, <1>2, <2>1 DEF EventTyped
  <2>2. CASE d # e
    <3>1. lgone'[d] = lgone[d] /\ lran'[d] = lran[d]
      BY <1>1, <1>2, <2>2 DEF EventTyped
    <3> QED
      BY <1>1, <1>9, <2>2, <3>1 DEF Silenced
  <2> QED
    BY <2>1, <2>2
<1>11. ASSUME NEW d \in Events PROVE Flagged(lact', lpend', lflag'[d], d)
  <2>1. Flagged(lact, lpend, lflag[d], d) /\ <<d, "iosig">> \notin W
    BY <1>1
  <2>5. <<d, "iosig">> # <<e, "to">> /\ <<d, "to">> # <<e, "iosig">>
        /\ (d # e => <<d, "iosig">> # <<e, "iosig">> /\ <<d, "to">> # <<e, "to">>)
    OBVIOUS
  <2>6. /\ <<d, "iosig">> \in lact' <=> <<d, "iosig">> \in lact \/ (h # {} /\ d = e)
        /\ <<d, "to">> \in lact' <=> (<<d, "to">> \in lact /\ d # e) \/ (tv = TRUE /\ d = e)
    <3>1. CASE d = e
      BY <1>4, <2>5, <3>1, Zenon
    <3>2. CASE d # e
      BY <1>4, <2>5, <3>2, Zenon
    <3> QED
      BY <3>1, <3>2
  <2>2. Failed(lpend, <<d, "iosig">>) => Failed(lpend', <<d, "iosig">>)
    BY <1>6, <1>7, <2>1
  <2>3. CASE d = e
    <3>1. lflag'[d] = AddFlags(e, tv)
      BY <1>1, <1>2, <2>3 DEF EventTyped
    <3> QED
      BY <1>3, <1>5, <2>1, <2>2, <2>3, <2>6, <3>1 DEF Flagged
  <2>4. CASE d # e
    <3>1. lflag'[d] = lflag[d]
      BY <1>1, <1>2, <2>4 DEF EventTyped
    <3> QED
      BY <2>1, <2>2, <2>4, <2>6, <3>1 DEF Flagged
  <2> QED
    BY <2>3, <2>4
<1> QED
  BY <1>1, <1>8, <1>10, <1>11 DEF EventInv

\* A feed of a watcher of e, which is not deleted and, if it does not persist, has not run.
LEMMA FedStep ==
    ASSUME EventTyped, NEW e \in Events, NEW v \in {<<e, "iosig">>, <<e, "to">>},
           NEW x \in {"io", "timeout", "error"}, NEW q \in Seq(EventEntry)
    PROVE  /\ EvFed(q, v, x) \in Seq(EventEntry)
           /\ \A d \in Events : d # e /\ Quiet(lact, q, d) => Quiet(lact, EvFed(q, v, x), d)
           /\ \A u : Failed(q, u) => Failed(EvFed(q, v, x), u)
           /\ x = "error" => Failed(EvFed(q, v, x), v)
<1>1. v \in EvWatchers
  BY WatcherFacts
<1>2. /\ EvFed(q, v, x) \in Seq(EventEntry)
      /\ \A u : InQueue(EvFed(q, v, x), u) <=> InQueue(q, u) \/ u = v
      /\ \A u : Failed(q, u) => Failed(EvFed(q, v, x), u)
      /\ x = "error" => Failed(EvFed(q, v, x), v)
  BY <1>1, EvFedQueue
<1>3. ASSUME NEW d \in Events, d # e PROVE <<d, "iosig">> # v /\ <<d, "to">> # v
  BY <1>3
<1>4. \A d \in Events : d # e /\ Quiet(lact, q, d) => Quiet(lact, EvFed(q, v, x), d)
  BY <1>2, <1>3 DEF Quiet
<1> QED
  BY <1>2, <1>4

LEMMA EventActiveStep ==
    ASSUME EventInv, NEW e \in Events, NEW R \in SUBSET {"io", "timeout"}, EventActive(e, R)
    PROVE  EventInv'
<1> DEFINE q == IF "timeout" \in R THEN EvFed(lpend, <<e, "to">>, "timeout") ELSE lpend
<1>1. EventTyped /\ Silenced /\ lpend \in Seq(EventEntry) /\ lbase = "init" /\ lbase' = lbase
      /\ \A d \in Events : Flagged(lact, lpend, lflag[d], d)
  BY DEF EventInv, EventTyped, EventActive, CanAdd, Base
<1>2. /\ lpend' = IF "io" \in R THEN EvFed(q, <<e, "iosig">>, "io") ELSE q
      /\ lgone' = [lgone EXCEPT ![e] = FALSE] /\ lran' = [lran EXCEPT ![e] = 0]
      /\ lact' = lact /\ lflag' = lflag
  BY DEF EventActive, Touched
<1>3. /\ q \in Seq(EventEntry)
      /\ \A d \in Events : d # e /\ Quiet(lact, lpend, d) => Quiet(lact, q, d)
      /\ \A u : Failed(lpend, u) => Failed(q, u)
  BY <1>1, FedStep
<1> HIDE DEF q
<1>4. /\ lpend' \in Seq(EventEntry)
      /\ \A d \in Events : d # e /\ Quiet(lact, q, d) => Quiet(lact, lpend', d)
      /\ \A u : Failed(q, u) => Failed(lpend', u)
  BY <1>1, <1>2, <1>3, FedStep
<1>5. EventTyped'
  BY <1>1, <1>2, <1>4 DEF EventTyped
<1>6. Silenced'
  <2> SUFFICES ASSUME NEW d \in Events
               PROVE  /\ lgone'[d] => Quiet(lact', lpend', d)
                      /\ OneShot(d) => lran'[d] = 0 \/ (lran'[d] = 1 /\ Quiet(lact', lpend', d))
    BY DEF Silenced, OneShot
  <2>1. CASE d = e
    BY <1>1, <1>2, <2>1 DEF EventTyped
  <2>2. CASE d # e
    <3>1. lgone'[d] = lgone[d] /\ lran'[d] = lran[d]
      BY <1>1, <1>2, <2>2 DEF EventTyped
    <3>2. Quiet(lact, lpend, d) => Quiet(lact', lpend', d)
      BY <1>2, <1>3, <1>4, <2>2
    <3> QED
      BY <1>1, <3>1, <3>2 DEF Silenced
  <2> QED
    BY <2>1, <2>2
<1>7. \A d \in Events : Flagged(lact', lpend', lflag'[d], d)
  BY <1>1, <1>2, <1>3, <1>4 DEF Flagged
<1> QED
  BY <1>1, <1>5, <1>6, <1>7 DEF EventInv

\* The loop feeds an active watcher, or kills it.
LEMMA EventFedStep ==
    ASSUME EventInv, NEW e \in Events, EvReady(e) \/ EvKilled(e) \/ EvExpired(e)
    PROVE  EventInv'
<1>1. EventTyped /\ Silenced /\ lpend \in Seq(EventEntry) /\ lbase = "init" /\ lbase' = lbase
      /\ lflag' = lflag /\ lgone' = lgone /\ lran' = lran
      /\ \A d \in Events : Flagged(lact, lpend, lflag[d], d)
  BY DEF EventInv, EventTyped, EvReady, EvKilled, EvExpired, Base
<1>2. \E v \in {<<e, "iosig">>, <<e, "to">>}, x \in {"io", "timeout", "error"} :
         /\ v \in lact /\ lpend' = EvFed(lpend, v, x)
         /\ \/ lact' = lact
            \/ lact' = lact \ {v} /\ x = "error" /\ v = <<e, "iosig">>
  BY DEF EvReady, EvKilled, EvExpired
<1>3. PICK v \in {<<e, "iosig">>, <<e, "to">>}, x \in {"io", "timeout", "error"} :
         /\ v \in lact /\ lpend' = EvFed(lpend, v, x)
         /\ \/ lact' = lact
            \/ lact' = lact \ {v} /\ x = "error" /\ v = <<e, "iosig">>
  BY <1>2
<1>4. /\ lpend' \in Seq(EventEntry)
      /\ \A d \in Events : d # e /\ Quiet(lact, lpend, d) => Quiet(lact, lpend', d)
      /\ \A u : Failed(lpend, u) => Failed(lpend', u)
      /\ x = "error" => Failed(lpend', v)
  BY <1>1, <1>3, FedStep
<1>5. EventTyped'
  BY <1>1, <1>3, <1>4 DEF EventTyped
<1>6. ~Quiet(lact, lpend, e)
  BY <1>3 DEF Quiet
<1>7. \A d \in Events : Quiet(lact, lpend, d) => Quiet(lact', lpend', d)
  BY <1>3, <1>4, <1>6 DEF Quiet
<1>8. Silenced'
  BY <1>1, <1>7 DEF Silenced, OneShot
<1>9. ASSUME NEW d \in Events PROVE Flagged(lact', lpend', lflag'[d], d)
  <2>1. Flagged(lact, lpend, lflag[d], d)
    BY <1>1
  <2>2. <<d, "to">> \in lact' <=> <<d, "to">> \in lact
    BY <1>3
  <2>3. <<d, "iosig">> \in lact => <<d, "iosig">> \in lact' \/ Failed(lpend', <<d, "iosig">>)
    BY <1>3, <1>4
  <2> QED
    BY <1>1, <1>4, <2>1, <2>2, <2>3 DEF Flagged
<1> QED
  BY <1>1, <1>5, <1>8, <1>9 DEF EventInv

\* A callback runs: its event, if it does not persist or was killed, is deleted first.
LEMMA EventCallbackStep ==
    ASSUME EventInv, EventCallback
    PROVE  EventInv'
<1> DEFINE p == Last(lpend)  q == Front(lpend)  e == p.w[1]
<1>1. EventTyped /\ Silenced /\ lpend \in Seq(EventEntry) /\ lbase = "init" /\ lbase' = lbase
      /\ lgone' = lgone /\ lpend # <<>>
      /\ \A d \in Events : Flagged(lact, lpend, lflag[d], d)
  BY DEF EventInv, EventTyped, EventCallback, Base
<1>2. /\ q \in Seq(EventEntry) /\ p \in EventEntry
      /\ \A u : InQueue(q, u) => InQueue(lpend, u)
      /\ InQueue(lpend, p.w)
      /\ \A u : Failed(lpend, u) => Failed(q, u) \/ (p.w = u /\ "error" \in p.got)
  BY <1>1, EvFrontQueue
<1>3. \/ p.w = NoWatcher /\ lpend' = q /\ lact' = lact /\ lflag' = lflag /\ lran' = lran
      \/ /\ p.w # NoWatcher /\ lran' = [lran EXCEPT ![e] = @ + 1]
         /\ \/ Removes(e, p.w[2], p.got) /\ Deleted(e, q)
            \/ /\ ~Removes(e, p.w[2], p.got)
               /\ lpend' = q /\ lact' = lact /\ lflag' = lflag
  BY DEF EventCallback
<1> HIDE DEF p, q
<1>4. \A d \in Events : Quiet(lact, lpend, d) => Quiet(lact, q, d)
  BY <1>2 DEF Quiet
<1>5. CASE p.w = NoWatcher /\ lpend' = q /\ lact' = lact /\ lflag' = lflag /\ lran' = lran
  <2>1. \A d \in Events : NoWatcher # <<d, "iosig">>
    BY WatcherFacts
  <2>2. \A d \in Events : Flagged(lact', lpend', lflag'[d], d)
    <3>1. \A d \in Events : Failed(lpend, <<d, "iosig">>) => Failed(q, <<d, "iosig">>)
      BY <1>2, <1>5, <2>1
    <3> QED
      BY <1>1, <1>5, <3>1 DEF Flagged
  <2>3. EventTyped'
    BY <1>1, <1>2, <1>5 DEF EventTyped
  <2>4. Silenced'
    BY <1>1, <1>4, <1>5 DEF Silenced, OneShot
  <2> QED
    BY <1>1, <2>2, <2>3, <2>4 DEF EventInv
<1>6. CASE p.w # NoWatcher /\ lran' = [lran EXCEPT ![e] = @ + 1]
  <2>1. p.w \in EvWatchers /\ e \in Events /\ p.w = <<e, p.w[2]>> /\ p.w[2] \in {"iosig", "to"}
    BY <1>2, <1>6, WatcherFacts DEF EventEntry
  <2>2. p.w = <<e, "iosig">> \/ p.w = <<e, "to">>
    BY <2>1
  <2>3. ~Quiet(lact, lpend, e)
    BY <1>2, <2>2 DEF Quiet
  <2>4. ~lgone[e] /\ (OneShot(e) => lran[e] = 0)
    BY <1>1, <2>1, <2>3 DEF Silenced
  <2>5. lran' \in [Events -> Nat] /\ lran'[e] = lran[e] + 1 /\ \A d \in Events : d # e => lran'[d] = lran[d]
    BY <1>1, <1>6, <2>1 DEF EventTyped
  <2>6. OneShot(e) => lran'[e] = 1
    BY <2>4, <2>5
  <2>7. CASE Removes(e, p.w[2], p.got) /\ Deleted(e, q)
    <3>1. \A u : Failed(lpend, u) /\ u # <<e, "iosig">> /\ u # <<e, "to">> => Failed(q, u)
      BY <1>2, <2>2
    <3> HIDE DEF e
    <3>2. /\ lact' \subseteq EvWatchers /\ lpend' \in Seq(EventEntry)
          /\ lflag' \in [Events -> SUBSET {"timeout", "inserted", "signal", "active"}]
          /\ Quiet(lact', lpend', e)
          /\ \A d \in Events : Quiet(lact, lpend, d) => Quiet(lact', lpend', d)
          /\ \A d \in Events : Flagged(lact, lpend, lflag[d], d) => Flagged(lact', lpend', lflag'[d], d)
      BY <1>1, <1>2, <2>1, <2>7, <3>1, DeletedQuiet
    <3>3. EventTyped'
      BY <1>1, <2>5, <3>2 DEF EventTyped
    <3>4. Silenced'
      BY <1>1, <2>5, <2>6, <3>2 DEF Silenced, OneShot
    <3> QED
      BY <1>1, <3>2, <3>3, <3>4 DEF EventInv
  <2>8. CASE ~Removes(e, p.w[2], p.got) /\ lpend' = q /\ lact' = lact /\ lflag' = lflag
    <3>1. "error" \notin p.got /\ p.w[2] = "iosig" /\ ~OneShot(e)
      BY <2>1, <2>8 DEF Removes, OneShot
    <3> HIDE DEF e
    <3>2. EventTyped'
      BY <1>1, <1>2, <2>5, <2>8 DEF EventTyped
    <3>3. Silenced'
      <4> SUFFICES ASSUME NEW d \in Events
                   PROVE  /\ lgone'[d] => Quiet(lact', lpend', d)
                          /\ OneShot(d) => lran'[d] = 0 \/ (lran'[d] = 1 /\ Quiet(lact', lpend', d))
        BY DEF Silenced, OneShot
      <4>1. CASE d = e
        BY <1>1, <2>4, <3>1, <4>1
      <4>2. CASE d # e
        BY <1>1, <1>4, <2>5, <2>8, <4>2 DEF Silenced
      <4> QED
        BY <4>1, <4>2
    <3>4. \A d \in Events : Flagged(lact', lpend', lflag'[d], d)
      BY <1>1, <1>2, <2>8, <3>1 DEF Flagged
    <3> QED
      BY <1>1, <3>2, <3>3, <3>4 DEF EventInv
  <2> QED
    BY <1>3, <1>6, <2>7, <2>8
<1> QED
  BY <1>3, <1>5, <1>6

LEMMA EventNextStep ==
    ASSUME EventInv, [EventNext]_lvars
    PROVE  EventInv'
<1>1. CASE EvBaseFree
  <2>1. /\ lact' = {} /\ lpend' = <<>> /\ lbase' = "freed"
        /\ lflag' = lflag /\ lgone' = lgone /\ lran' = lran
    BY <1>1 DEF EvBaseFree
  <2>2. lpend' \in Seq(EventEntry) /\ \A d \in Events : Quiet(lact', lpend', d)
    BY <2>1 DEF Quiet, InQueue
  <2>3. EventTyped'
    BY <2>1, <2>2 DEF EventInv, EventTyped
  <2>4. Silenced'
    BY <2>1, <2>2 DEF EventInv, Silenced, OneShot
  <2> QED
    BY <2>1, <2>3, <2>4 DEF EventInv
<1>2. CASE EventCallback
  BY <1>2, EventCallbackStep
<1>3. CASE EvInit \/ EventOnceCb \/ (\E io, to \in BOOLEAN : EventOnce(io, to)) \/ UNCHANGED lvars
  <2>1. /\ UNCHANGED <<lact, lpend, lflag, lgone, lran>>
        /\ lbase' \in {"none", "init", "freed"} /\ (lbase' = "freed" => lbase = "freed")
    BY <1>3 DEF EvInit, EventOnceCb, EventOnce, lvars, EventInv, EventTyped
  <2>2. EventTyped' /\ Silenced'
    BY <2>1 DEF EventInv, EventTyped, Silenced, Quiet, InQueue, OneShot
  <2>3. lbase' # "freed" => \A d \in Events : Flagged(lact', lpend', lflag'[d], d)
    <3>1. CASE lbase = "freed"
      BY <1>3, <2>1, <3>1 DEF EvInit, EventOnceCb, EventOnce, Base, lvars
    <3>2. CASE lbase # "freed"
      BY <2>1, <3>2 DEF EventInv
    <3> QED
      BY <3>1, <3>2
  <2> QED
    BY <2>2, <2>3 DEF EventInv
<1>4. ASSUME NEW e \in Events, NEW tv \in BOOLEAN, EventAdd(e, tv) PROVE EventInv'
  BY <1>4, EventAddStep
<1>5. ASSUME NEW e \in Events, EventDel(e) PROVE EventInv'
  BY <1>5, EventDelStep
<1>6. ASSUME NEW e \in Events, EvReady(e) \/ EvKilled(e) \/ EvExpired(e) PROVE EventInv'
  BY <1>6, EventFedStep
<1>7. ASSUME NEW e \in Events, NEW R \in SUBSET {"io", "timeout"}, EventActive(e, R) PROVE EventInv'
  BY <1>7, EventActiveStep
<1> QED
  BY <1>1, <1>2, <1>3, <1>4, <1>5, <1>6, <1>7, Zenon DEF EventNext

LEMMA EventStart ==
    ASSUME EventInit
    PROVE  EventInv
<1>1. lpend \in Seq(EventEntry) /\ lpend = <<>>
  BY DEF EventInit
<1>2. EventTyped
  BY <1>1 DEF EventInit, EventTyped
<1>3. Silenced
  BY DEF EventInit, Silenced
<1>4. \A e \in Events : Flagged(lact, lpend, lflag[e], e)
  BY DEF EventInit, Flagged
<1> QED
  BY <1>2, <1>3, <1>4 DEF EventInv

LEMMA EventInvSound ==
    ASSUME EventInv
    PROVE  EventSound
<1>1. EventTyped /\ Silenced /\ lpend \in Seq(EventEntry)
  BY DEF EventInv, EventTyped
<1>2. DelIsFinal
  <2> SUFFICES ASSUME NEW e \in Events, lgone[e]
               PROVE  /\ {<<e, "iosig">>, <<e, "to">>} \cap lact = {}
                      /\ \A i \in DOMAIN lpend : lpend[i].w[1] # e
    BY DEF DelIsFinal
  <2>1. Quiet(lact, lpend, e)
    BY <1>1 DEF Silenced
  <2>2. ASSUME NEW i \in DOMAIN lpend, lpend[i].w[1] = e PROVE FALSE
    <3>1. lpend[i] \in EventEntry
      BY <1>1
    <3>2. lpend[i].w \in EvWatchers \cup {NoWatcher}
      BY <3>1 DEF EventEntry
    <3>3. lpend[i].w \in EvWatchers
      BY <2>2, <3>2, WatcherFacts
    <3>4. lpend[i].w = <<e, "iosig">> \/ lpend[i].w = <<e, "to">>
      BY <2>2, <3>3, WatcherFacts
    <3> QED
      BY <2>1, <3>4 DEF Quiet, InQueue
  <2> QED
    BY <2>1, <2>2 DEF Quiet
<1>3. OneCallback
  BY <1>1 DEF Silenced, OneShot, OneCallback
<1>4. FlagsAgree
  <2> SUFFICES ASSUME NEW e \in Events, Base
               PROVE  /\ "timeout" \in lflag[e] <=> <<e, "to">> \in lact
                      /\ {"inserted", "signal"} \cap lflag[e] # {} =>
                            <<e, "iosig">> \in lact \/ \E i \in DOMAIN lpend : lpend[i].w = <<e, "iosig">>
    BY DEF FlagsAgree
  <2>1. Flagged(lact, lpend, lflag[e], e)
    BY DEF EventInv, Base
  <2> QED
    BY <2>1 DEF Flagged, Failed
<1> QED
  BY <1>2, <1>3, <1>4 DEF EventSound

\* After event_del nothing of an event is active or pending; one that does not persist runs
\* once for each event_add or event_active, its descriptor and its timeout in one pass
\* included; its ev_flags say what its watchers say.
THEOREM EventIsSound == EventSpec => []EventSound
<1>1. EventInit => EventInv
  BY EventStart
<1>2. EventInv /\ [EventNext]_lvars => EventInv'
  BY EventNextStep
<1>3. EventInv => EventSound
  BY EventInvSound
<1> QED
  BY <1>1, <1>2, <1>3, PTL DEF EventSpec

(***************************************************************************)
(* Signals, for any number of loops, signals and watchers: a signal that   *)
(* arrives while its watcher is active is not lost on its way, and the     *)
(* signal of an active watcher can always arrive.                          *)
(***************************************************************************)
\* Only active watchers are owed anything.
OwedActive == owed \subseteq active

\* A signalfd reads only signals that are bound to its loop, so no other loop takes them.
SigfdOwn == \A l \in Loops : \A s \in sigfd_set[l] : sloop[s] = l /\ sigfd[l] = "open"

\* A loop with a signal has settled whether it has a signalfd, so the way of a signal
\* does not change while it is bound.
Settled == \A s \in Sigs : sloop[s] # NoLoop => sigfd[sloop[s]] # "unused"

\* A signal has a handler or a signalfd, never both.
HandledBy == \A s \in handled : sloop[s] # NoLoop /\ sigfd[sloop[s]] # "open"

\* The inductive invariant.
SignalsInv ==
    /\ TypeOK /\ OwedActive /\ SigfdOwn /\ Settled /\ HandledBy
    /\ CanArrive /\ SignalNotLost

-----------------------------------------------------------------------------
\* What CanArrive says of an active watcher.
LEMMA Bound ==
    ASSUME SignalsAssumption, TypeOK, CanArrive, NEW w \in active
    PROVE  /\ w \in Watchers /\ SigOf[w] \in Sigs /\ LoopOf[w] \in Loops
           /\ sloop[SigOf[w]] = LoopOf[w] /\ LoopOf[w] # NoLoop
           /\ IF sigfd[LoopOf[w]] = "open"
              THEN /\ SigOf[w] \in sigfd_set[LoopOf[w]]
                   /\ nomask[LoopOf[w]] \/ SigOf[w] \in blocked
              ELSE /\ SigOf[w] \in handled
                   /\ nomask[LoopOf[w]] \/ SigOf[w] \notin blocked
<1>1. w \in Watchers /\ SigOf[w] \in Sigs /\ LoopOf[w] \in Loops /\ LoopOf[w] # NoLoop
  BY DEF SignalsAssumption, TypeOK
<1>2. w \in ListOf(SigOf[w])
  BY DEF ListOf
<1>3. sloop[SigOf[w]] = LoopOf[w]
  BY <1>1, <1>2 DEF CanArrive
<1> QED
  BY <1>1, <1>3 DEF CanArrive

LEMMA InitInv ==
    ASSUME SignalsAssumption, Init
    PROVE  SignalsInv
<1>1. TypeOK /\ OwedActive /\ SigfdOwn /\ Settled /\ HandledBy
  BY DEF Init, TypeOK, OwedActive, SigfdOwn, Settled, HandledBy
<1>2. CanArrive /\ SignalNotLost
  BY DEF Init, CanArrive, SignalNotLost, ListOf
<1> QED
  BY <1>1, <1>2 DEF SignalsInv

\* A signal arrives, in the kernel or at the handler.
LEMMA RaiseStep ==
    ASSUME SignalsAssumption, SignalsInv, NEW s \in Sigs, Raise(s)
    PROVE  SignalsInv'
<1> USE DEF fds
<1>1. TypeOK /\ CanArrive /\ SignalNotLost
  BY DEF SignalsInv
<1>2. /\ sloop' = sloop /\ active' = active /\ pend' = pend /\ sigfd' = sigfd
      /\ sigfd_set' = sigfd_set /\ nomask' = nomask /\ handled' = handled /\ blocked' = blocked
      /\ owed' = owed \cup ListOf(s)
  BY DEF Raise
<1>3. /\ spending \subseteq spending' /\ sig_pending \subseteq sig_pending'
      /\ kpend \subseteq kpend'
  BY DEF Raise, FeedSignal
<1>4. TypeOK'
  <2>1. spending' \subseteq Sigs /\ sig_pending' \subseteq Loops /\ kpend' \subseteq blocked
    BY <1>1 DEF Raise, FeedSignal, TypeOK
  <2> QED
    BY <1>1, <1>2, <2>1 DEF TypeOK, ListOf
<1>5. OwedActive' /\ SigfdOwn' /\ Settled' /\ HandledBy'
  BY <1>2 DEF SignalsInv, OwedActive, SigfdOwn, Settled, HandledBy, ListOf
<1>6. CanArrive'
  BY <1>1, <1>2 DEF CanArrive, ListOf
<1>7. SignalNotLost'
  <2> SUFFICES ASSUME NEW w \in owed'
               PROVE  \/ w \in pend
                      \/ /\ SigOf[w] \in spending' /\ LoopOf[w] \in sig_pending'
                         /\ sloop[SigOf[w]] = LoopOf[w]
                      \/ /\ SigOf[w] \in kpend'
                         /\ SigOf[w] \in sigfd_set[LoopOf[w]] \/ SigOf[w] \in handled
    BY <1>2 DEF SignalNotLost
  <2>1. CASE w \in owed
    BY <1>1, <1>3, <2>1 DEF SignalNotLost
  <2>2. CASE w \in ListOf(s)
    <3>1. w \in active /\ SigOf[w] = s
      BY <2>2 DEF ListOf
    <3>2. CASE s \in blocked
      <4>1. s \in kpend'
        BY <3>2 DEF Raise
      <4> QED
        BY <1>1, <3>1, <4>1, Bound
    <3>3. CASE s \notin blocked
      <4>1. sloop[s] = LoopOf[w] /\ sloop[s] # NoLoop
        BY <1>1, <3>1, Bound
      <4>2. s \in spending' /\ sloop[s] \in sig_pending'
        BY <3>3, <4>1 DEF Raise, FeedSignal
      <4> QED
        BY <3>1, <4>1, <4>2
    <3> QED
      BY <3>2, <3>3
  <2> QED
    BY <1>2, <2>1, <2>2
<1> QED
  BY <1>4, <1>5, <1>6, <1>7 DEF SignalsInv

LEMMA BlockStep ==
    ASSUME SignalsAssumption, SignalsInv, NEW s \in Sigs, AppBlock(s)
    PROVE  SignalsInv'
<1> USE DEF fds, sigtable
<1>1. TypeOK /\ CanArrive
  BY DEF SignalsInv
<1>2. TypeOK' /\ OwedActive' /\ SigfdOwn' /\ Settled' /\ HandledBy'
  BY <1>1 DEF SignalsInv, AppBlock, TypeOK, OwedActive, SigfdOwn, Settled, HandledBy
<1>3. CanArrive'
  BY <1>1 DEF AppBlock, CanArrive, ListOf
<1>4. SignalNotLost'
  BY DEF SignalsInv, AppBlock, SignalNotLost
<1> QED
  BY <1>2, <1>3, <1>4 DEF SignalsInv

LEMMA InvokeStep ==
    ASSUME SignalsAssumption, SignalsInv, NEW w \in Watchers, Invoke(w)
    PROVE  SignalsInv'
<1> USE DEF fds, sigtable, mask
<1>1. TypeOK /\ CanArrive
  BY DEF SignalsInv
<1>2. TypeOK' /\ OwedActive' /\ SigfdOwn' /\ Settled' /\ HandledBy'
  BY <1>1 DEF SignalsInv, Invoke, TypeOK, OwedActive, SigfdOwn, Settled, HandledBy
<1>3. CanArrive'
  BY <1>1 DEF Invoke, CanArrive, ListOf
<1>4. SignalNotLost'
  BY DEF SignalsInv, Invoke, SignalNotLost
<1> QED
  BY <1>2, <1>3, <1>4 DEF SignalsInv

\* The scan of the evpipe queues the watchers of the loop's own signals and leaves the
\* notes of the others.
LEMMA PipeStep ==
    ASSUME SignalsAssumption, SignalsInv, NEW l \in Loops, PipeCb(l)
    PROVE  SignalsInv'
<1> USE DEF fds, mask
<1>1. TypeOK /\ CanArrive /\ OwedActive /\ SignalNotLost
  BY DEF SignalsInv
<1>2. TypeOK' /\ OwedActive' /\ SigfdOwn' /\ Settled' /\ HandledBy'
  BY <1>1 DEF SignalsInv, PipeCb, FeedSignalEvents, TypeOK, OwedActive, SigfdOwn, Settled,
     HandledBy, ListOf
<1>3. CanArrive'
  BY <1>1 DEF PipeCb, CanArrive, ListOf
<1>4. SignalNotLost'
  <2> SUFFICES ASSUME NEW w \in owed
               PROVE  \/ w \in pend'
                      \/ /\ SigOf[w] \in spending' /\ LoopOf[w] \in sig_pending'
                         /\ sloop[SigOf[w]] = LoopOf[w]
                      \/ /\ SigOf[w] \in kpend
                         /\ SigOf[w] \in sigfd_set[LoopOf[w]] \/ SigOf[w] \in handled
    BY DEF PipeCb, SignalNotLost
  <2>1. w \in active /\ w \in ListOf(SigOf[w]) /\ sloop[SigOf[w]] = LoopOf[w]
    BY <1>1, Bound DEF OwedActive, ListOf
  <2>2. CASE LoopOf[w] = l /\ SigOf[w] \in spending
    BY <2>1, <2>2 DEF PipeCb, FeedSignalEvents
  <2>3. CASE LoopOf[w] # l
    BY <1>1, <2>1, <2>3 DEF PipeCb, FeedSignalEvents, SignalNotLost
  <2>4. CASE SigOf[w] \notin spending
    BY <1>1, <2>4 DEF PipeCb, FeedSignalEvents, SignalNotLost
  <2> QED
    BY <2>2, <2>3, <2>4
<1> QED
  BY <1>2, <1>3, <1>4 DEF SignalsInv

\* What a signalfd reads is bound to its loop.
LEMMA SigfdStep ==
    ASSUME SignalsAssumption, SignalsInv, NEW l \in Loops, SigfdCb(l)
    PROVE  SignalsInv'
<1> USE DEF fds
<1>1. TypeOK /\ CanArrive /\ OwedActive /\ SignalNotLost /\ SigfdOwn
  BY DEF SignalsInv
<1>2. TypeOK' /\ OwedActive' /\ SigfdOwn' /\ Settled' /\ HandledBy'
  BY <1>1 DEF SignalsInv, SigfdCb, FeedSignalEvents, TypeOK, OwedActive, SigfdOwn, Settled,
     HandledBy, ListOf
<1>3. CanArrive'
  BY <1>1 DEF SigfdCb, CanArrive, ListOf
<1>4. SignalNotLost'
  <2> SUFFICES ASSUME NEW w \in owed
               PROVE  \/ w \in pend'
                      \/ /\ SigOf[w] \in spending' /\ LoopOf[w] \in sig_pending
                         /\ sloop[SigOf[w]] = LoopOf[w]
                      \/ /\ SigOf[w] \in kpend'
                         /\ SigOf[w] \in sigfd_set[LoopOf[w]] \/ SigOf[w] \in handled
    BY DEF SigfdCb, SignalNotLost
  <2>1. w \in active /\ w \in ListOf(SigOf[w]) /\ sloop[SigOf[w]] = LoopOf[w]
    BY <1>1, Bound DEF OwedActive, ListOf
  <2>2. CASE SigOf[w] \in kpend \cap sigfd_set[l]
    <3>1. sloop[SigOf[w]] = l
      BY <1>1, <2>2 DEF SigfdOwn
    <3> QED
      BY <2>1, <2>2, <3>1 DEF SigfdCb, FeedSignalEvents
  <2>3. CASE SigOf[w] \notin kpend \cap sigfd_set[l]
    BY <1>1, <2>3 DEF SigfdCb, FeedSignalEvents, SignalNotLost
  <2> QED
    BY <2>2, <2>3
<1> QED
  BY <1>2, <1>3, <1>4 DEF SignalsInv

\* ev_signal_start: the first watcher binds the signal, to a handler or to a signalfd.
LEMMA StartStep ==
    ASSUME SignalsAssumption, SignalsInv, NEW w \in Watchers, SignalStart(w)
    PROVE  SignalsInv'
<1> USE DEF mask
<1> DEFINE l == LoopOf[w]
           s == SigOf[w]
<1>1. /\ TypeOK /\ CanArrive /\ OwedActive /\ SignalNotLost /\ SigfdOwn /\ Settled /\ HandledBy
      /\ l \in Loops /\ s \in Sigs /\ l # NoLoop
  BY DEF SignalsInv, SignalsAssumption
<1>2. /\ sloop[s] \in {NoLoop, l} /\ w \notin active
      /\ sloop' = [sloop EXCEPT ![s] = l] /\ active' = active \cup {w}
      /\ pend' = pend /\ nomask' = nomask /\ owed' = owed
  BY DEF SignalStart
<1>3. PICK fd \in SigfdAfter(l) :
        /\ sigfd' = [sigfd EXCEPT ![l] = fd]
        /\ IF fd = "open"
           THEN /\ sigfd_set' = [sigfd_set EXCEPT ![l] = @ \cup {s}]
                /\ blocked' = IF nomask[l] THEN blocked ELSE blocked \cup sigfd_set'[l]
                /\ UNCHANGED <<handled, kpend, spending, sig_pending>>
           ELSE /\ UNCHANGED sigfd_set
                /\ IF ListOf(s) # {}
                   THEN UNCHANGED <<mask, spending, sig_pending>>
                   ELSE /\ handled' = handled \cup {s}
                        /\ IF nomask[l]
                           THEN UNCHANGED <<blocked, kpend, spending, sig_pending>>
                           ELSE /\ Unblock(s)
                                /\ spending' = spending \cup (kpend \cap {s})
                                /\ sig_pending' = IF s \in kpend THEN sig_pending \cup {l}
                                                  ELSE sig_pending
  BY DEF SignalStart
<1> HIDE DEF l, s
<1>4. /\ \A r \in Sigs : sloop'[r] = IF r = s THEN l ELSE sloop[r]
      /\ \A k \in Loops : sigfd'[k] = IF k = l THEN fd ELSE sigfd[k]
      /\ fd \in {"none", "open"} /\ (sigfd[l] # "unused" => fd = sigfd[l])
  BY <1>1, <1>2, <1>3 DEF TypeOK, SigfdAfter
<1>5. /\ \A r : r # s => ListOf(r)' = ListOf(r)
      /\ ListOf(s)' = ListOf(s) \cup {w} /\ LoopOf[w] = l
      /\ \A v \in ListOf(s) : LoopOf[v] = l
      /\ sloop[s] = NoLoop <=> ListOf(s) = {}
  BY <1>1, <1>2 DEF ListOf, CanArrive, s, l
<1>6. OwedActive'
  BY <1>1, <1>2 DEF OwedActive
<1>7. ASSUME NEW v \in owed
      PROVE  SigOf[v] \in Sigs /\ LoopOf[v] \in Loops /\ sloop'[SigOf[v]] = LoopOf[v]
             /\ sloop[SigOf[v]] = LoopOf[v] /\ (SigOf[v] = s => ListOf(s) # {})
  <2>1. v \in active /\ SigOf[v] \in Sigs /\ LoopOf[v] \in Loops /\ LoopOf[v] # NoLoop
        /\ sloop[SigOf[v]] = LoopOf[v]
    BY <1>1, Bound DEF OwedActive
  <2> QED
    BY <1>1, <1>2, <1>4, <1>5, <2>1
<1>8. CASE fd = "open"
  <2>1. /\ \A k \in Loops : sigfd_set'[k] = IF k = l THEN sigfd_set[l] \cup {s} ELSE sigfd_set[k]
        /\ blocked' = IF nomask[l] THEN blocked ELSE blocked \cup sigfd_set'[l]
        /\ handled' = handled /\ kpend' = kpend /\ spending' = spending
        /\ sig_pending' = sig_pending
    BY <1>1, <1>3, <1>8 DEF TypeOK
  <2>2. TypeOK'
    <3>1. /\ sloop' \in [Sigs -> Loops \cup {NoLoop}]
          /\ sigfd' \in [Loops -> {"unused", "none", "open"}]
      BY <1>1, <1>2, <1>3, <1>4 DEF TypeOK
    <3>2. sigfd_set' \in [Loops -> SUBSET Sigs]
      BY <1>1, <1>3, <1>8 DEF TypeOK
    <3>3. blocked' \subseteq Sigs /\ blocked \subseteq blocked'
      BY <1>1, <2>1, <3>2 DEF TypeOK
    <3> QED
      BY <1>1, <1>2, <2>1, <3>1, <3>2, <3>3 DEF TypeOK
  <2>3. SigfdOwn'
    <3> SUFFICES ASSUME NEW k \in Loops, NEW r \in sigfd_set'[k]
                 PROVE  sloop'[r] = k /\ sigfd'[k] = "open"
      BY DEF SigfdOwn
    <3>1. CASE k = l /\ r = s
      BY <1>1, <1>4, <1>8, <3>1
    <3>2. CASE ~(k = l /\ r = s)
      <4>1. r \in sigfd_set[k]
        BY <2>1, <3>2
      <4>2. r \in Sigs /\ sloop[r] = k /\ sigfd[k] = "open"
        BY <1>1, <4>1 DEF SigfdOwn, TypeOK
      <4>3. r = s => k = l
        BY <1>1, <1>2, <4>2 DEF SignalsAssumption
      <4> QED
        BY <1>4, <1>8, <4>2, <4>3
    <3> QED
      BY <3>1, <3>2
  <2>4. Settled'
    BY <1>1, <1>4, <1>8 DEF Settled, TypeOK
  <2>5. HandledBy'
    BY <1>1, <1>2, <1>4, <1>8, <2>1 DEF HandledBy, Settled, TypeOK
  <2>6. CanArrive'
    <3> SUFFICES ASSUME NEW r \in Sigs
                 PROVE  IF sloop'[r] = NoLoop THEN ListOf(r)' = {} /\ r \notin handled
                        ELSE /\ ListOf(r)' # {} /\ \A v \in ListOf(r)' : LoopOf[v] = sloop'[r]
                             /\ IF sigfd'[sloop'[r]] = "open"
                                THEN /\ r \in sigfd_set'[sloop'[r]]
                                     /\ nomask[sloop'[r]] \/ r \in blocked'
                                ELSE r \in handled /\ (nomask[sloop'[r]] \/ r \notin blocked')
      BY <1>2, <2>1 DEF CanArrive
    <3>1. CASE r = s
      BY <1>1, <1>4, <1>5, <1>8, <2>1, <3>1
    <3>2. CASE r # s /\ sloop[r] = NoLoop
      BY <1>1, <1>4, <1>5, <3>2 DEF CanArrive
    <3>3. CASE r # s /\ sloop[r] = l
      <4>1. sigfd[l] = "open"
        BY <1>1, <1>4, <1>8, <3>3 DEF Settled
      <4> QED
        BY <1>1, <1>4, <1>5, <1>8, <2>1, <3>3, <4>1 DEF CanArrive
    <3>4. CASE r # s /\ sloop[r] # NoLoop /\ sloop[r] # l
      <4>1. sloop[r] \in Loops /\ r \notin sigfd_set[l]
        BY <1>1, <3>4 DEF TypeOK, SigfdOwn
      <4> QED
        BY <1>1, <1>4, <1>5, <2>1, <3>4, <4>1 DEF CanArrive
    <3> QED
      BY <3>1, <3>2, <3>3, <3>4
  <2>7. SignalNotLost'
    BY <1>1, <1>2, <1>7, <2>1 DEF SignalNotLost
  <2> QED
    BY <1>6, <2>2, <2>3, <2>4, <2>5, <2>6, <2>7 DEF SignalsInv
<1>9. CASE fd # "open" /\ ListOf(s) # {}
  <2>1. /\ sigfd_set' = sigfd_set /\ handled' = handled /\ blocked' = blocked /\ kpend' = kpend
        /\ spending' = spending /\ sig_pending' = sig_pending
    BY <1>3, <1>9
  <2>2. sloop' = sloop /\ sigfd' = sigfd /\ sloop[s] = l
    BY <1>1, <1>2, <1>3, <1>4, <1>5, <1>9 DEF TypeOK, Settled
  <2>3. TypeOK' /\ SigfdOwn' /\ Settled' /\ HandledBy' /\ SignalNotLost'
    BY <1>1, <1>2, <2>1, <2>2 DEF TypeOK, SigfdOwn, Settled, HandledBy, SignalNotLost
  <2>4. CanArrive'
    BY <1>1, <1>2, <1>5, <2>1, <2>2 DEF CanArrive
  <2> QED
    BY <1>6, <2>3, <2>4 DEF SignalsInv
<1>10. CASE fd # "open" /\ ListOf(s) = {}
  <2>1. /\ sigfd_set' = sigfd_set /\ handled' = handled \cup {s}
        /\ spending \subseteq spending' /\ spending' \subseteq spending \cup {s}
        /\ sig_pending \subseteq sig_pending' /\ sig_pending' \subseteq sig_pending \cup {l}
        /\ IF nomask[l] THEN blocked' = blocked /\ kpend' = kpend
           ELSE blocked' = blocked \ {s} /\ kpend' = kpend \ {s}
    BY <1>3, <1>10 DEF Unblock
  <2>2. sloop[s] = NoLoop /\ sigfd[l] # "open"
    BY <1>4, <1>5, <1>10
  <2>3. TypeOK'
    <3>1. /\ sloop' \in [Sigs -> Loops \cup {NoLoop}]
          /\ sigfd' \in [Loops -> {"unused", "none", "open"}]
      BY <1>1, <1>2, <1>3, <1>4 DEF TypeOK
    <3>2. /\ spending' \subseteq Sigs /\ sig_pending' \subseteq Loops /\ handled' \subseteq Sigs
          /\ blocked' \subseteq Sigs /\ kpend' \subseteq blocked'
      BY <1>1, <2>1 DEF TypeOK
    <3> QED
      BY <1>1, <1>2, <2>1, <3>1, <3>2 DEF TypeOK
  <2>4. SigfdOwn' /\ Settled' /\ HandledBy'
    <3>1. SigfdOwn'
      <4> SUFFICES ASSUME NEW k \in Loops, NEW r \in sigfd_set[k]
                   PROVE  sloop'[r] = k /\ sigfd'[k] = "open"
        BY <2>1 DEF SigfdOwn
      <4>1. r \in Sigs /\ sloop[r] = k /\ sigfd[k] = "open"
        BY <1>1 DEF SigfdOwn, TypeOK
      <4>2. r # s /\ k # l
        BY <2>2, <4>1 DEF SignalsAssumption
      <4> QED
        BY <1>4, <4>1, <4>2
    <3>2. Settled'
      BY <1>1, <1>4 DEF Settled, TypeOK
    <3>3. HandledBy'
      <4> SUFFICES ASSUME NEW r \in handled \cup {s}
                   PROVE  sloop'[r] # NoLoop /\ sigfd'[sloop'[r]] # "open"
        BY <2>1 DEF HandledBy
      <4>1. r \in Sigs /\ (r # s => sloop[r] \in Loops /\ sigfd[sloop[r]] # "open")
        BY <1>1 DEF HandledBy, TypeOK
      <4>2. CASE r = s
        BY <1>1, <1>4, <1>10, <4>2
      <4>3. CASE r # s
        <5>1. sloop'[r] = sloop[r] /\ sloop[r] \in Loops /\ sloop[r] # NoLoop
          BY <1>4, <4>1, <4>3 DEF SignalsAssumption
        <5>2. sigfd'[sloop[r]] # "open"
          BY <1>4, <1>10, <4>1, <4>3, <5>1
        <5> QED
          BY <5>1, <5>2
      <4> QED
        BY <4>2, <4>3
    <3> QED
      BY <3>1, <3>2, <3>3
  <2>5. CanArrive'
    <3> SUFFICES ASSUME NEW r \in Sigs
                 PROVE  IF sloop'[r] = NoLoop THEN ListOf(r)' = {} /\ r \notin handled'
                        ELSE /\ ListOf(r)' # {} /\ \A v \in ListOf(r)' : LoopOf[v] = sloop'[r]
                             /\ IF sigfd'[sloop'[r]] = "open"
                                THEN /\ r \in sigfd_set[sloop'[r]]
                                     /\ nomask[sloop'[r]] \/ r \in blocked'
                                ELSE r \in handled' /\ (nomask[sloop'[r]] \/ r \notin blocked')
      BY <1>2, <2>1 DEF CanArrive
    <3>1. CASE r = s
      BY <1>1, <1>4, <1>5, <1>10, <2>1, <3>1
    <3>2. CASE r # s /\ sloop[r] = NoLoop
      BY <1>1, <1>4, <1>5, <2>1, <3>2 DEF CanArrive
    <3>3. CASE r # s /\ sloop[r] # NoLoop
      <4>1. sloop[r] \in Loops /\ sloop'[r] = sloop[r] /\ sigfd'[sloop[r]] = sigfd[sloop[r]]
        BY <1>1, <1>4, <3>3 DEF TypeOK, Settled
      <4>2. (r \in blocked' <=> r \in blocked) /\ (r \in handled' <=> r \in handled)
        BY <2>1, <3>3
      <4> QED
        BY <1>1, <1>5, <3>3, <4>1, <4>2 DEF CanArrive
    <3> QED
      BY <3>1, <3>2, <3>3
  <2>6. SignalNotLost'
    BY <1>1, <1>2, <1>7, <1>10, <2>1 DEF SignalNotLost
  <2> QED
    BY <1>6, <2>3, <2>4, <2>5, <2>6 DEF SignalsInv
<1> QED
  BY <1>8, <1>9, <1>10

\* ev_signal_stop: only the last watcher of a signal unbinds it.
LEMMA StopStep ==
    ASSUME SignalsAssumption, SignalsInv, NEW w \in Watchers, SignalStop(w)
    PROVE  SignalsInv'
<1> USE DEF mask
<1> DEFINE l == LoopOf[w]
           s == SigOf[w]
<1>1. /\ TypeOK /\ CanArrive /\ OwedActive /\ SignalNotLost /\ SigfdOwn /\ Settled /\ HandledBy
  BY DEF SignalsInv
<1>2. /\ w \in active /\ active' = active \ {w} /\ pend' = pend \ {w} /\ owed' = owed \ {w}
      /\ spending' = spending /\ sig_pending' = sig_pending /\ sigfd' = sigfd /\ nomask' = nomask
  BY DEF SignalStop
<1>3. /\ l \in Loops /\ s \in Sigs /\ l # NoLoop /\ sloop[s] = l
      /\ IF sigfd[l] = "open"
         THEN s \in sigfd_set[l] /\ (nomask[l] \/ s \in blocked)
         ELSE s \in handled /\ (nomask[l] \/ s \notin blocked)
  BY <1>1, <1>2, Bound
<1>4. /\ ListOf(s) # {w} => UNCHANGED <<sloop, sigfd_set, mask>>
      /\ ListOf(s) = {w} => sloop' = [sloop EXCEPT ![s] = NoLoop]
      /\ ListOf(s) = {w} /\ sigfd[l] = "open" =>
            /\ sigfd_set' = [sigfd_set EXCEPT ![l] = @ \ {s}]
            /\ IF nomask[l] THEN UNCHANGED <<blocked, kpend>> ELSE Unblock(s)
            /\ UNCHANGED handled
      /\ ListOf(s) = {w} /\ sigfd[l] # "open" =>
            handled' = handled \ {s} /\ UNCHANGED <<sigfd_set, blocked, kpend>>
  BY DEF SignalStop
<1>5. /\ \A r : r # s => ListOf(r)' = ListOf(r)
      /\ ListOf(s)' = ListOf(s) \ {w} /\ w \in ListOf(s)
  BY <1>2 DEF ListOf
<1>6. ASSUME NEW v \in owed'
      PROVE  /\ v \in owed /\ v # w /\ v \in active /\ SigOf[v] \in Sigs
             /\ LoopOf[v] \in Loops /\ sloop[SigOf[v]] = LoopOf[v] /\ v \in ListOf(SigOf[v])
  BY <1>1, <1>2, Bound DEF OwedActive, ListOf
<1> HIDE DEF l, s
<1>7. OwedActive'
  BY <1>1, <1>2 DEF OwedActive
<1>8. CASE ListOf(s) # {w}
  <2>1. /\ sloop' = sloop /\ sigfd_set' = sigfd_set /\ handled' = handled
        /\ blocked' = blocked /\ kpend' = kpend
    BY <1>4, <1>8
  <2>2. TypeOK' /\ SigfdOwn' /\ Settled' /\ HandledBy'
    BY <1>1, <1>2, <2>1 DEF TypeOK, SigfdOwn, Settled, HandledBy
  <2>3. SignalNotLost'
    BY <1>1, <1>2, <2>1 DEF SignalNotLost
  <2>4. CanArrive'
    <3>1. ListOf(s)' # {} /\ ListOf(s)' \subseteq ListOf(s)
      BY <1>5, <1>8
    <3> QED
      BY <1>1, <1>2, <1>3, <1>5, <2>1, <3>1 DEF CanArrive
  <2> QED
    BY <1>7, <2>2, <2>3, <2>4 DEF SignalsInv
<1>9. CASE ListOf(s) = {w}
  <2>1. /\ \A r \in Sigs : sloop'[r] = IF r = s THEN NoLoop ELSE sloop[r]
        /\ ListOf(s)' = {}
    BY <1>1, <1>4, <1>5, <1>9 DEF TypeOK
  <2>2. /\ \A k \in Loops : sigfd_set'[k] = sigfd_set[k] \ {s}
        /\ handled' = handled \ {s}
        /\ \A r : r # s => (r \in blocked' <=> r \in blocked) /\ (r \in kpend' <=> r \in kpend)
    <3>1. CASE sigfd[l] = "open"
      <4>1. \A k \in Loops : sigfd_set'[k] = IF k = l THEN sigfd_set[l] \ {s} ELSE sigfd_set[k]
        BY <1>1, <1>4, <1>9, <3>1 DEF TypeOK
      <4>2. \A k \in Loops : k # l => s \notin sigfd_set[k]
        BY <1>1, <1>3 DEF SigfdOwn
      <4>3. s \notin handled
        BY <1>1, <1>3, <3>1 DEF HandledBy
      <4> QED
        BY <1>4, <1>9, <3>1, <4>1, <4>2, <4>3 DEF Unblock
    <3>2. CASE sigfd[l] # "open"
      <4>1. \A k \in Loops : s \notin sigfd_set[k]
        BY <1>1, <1>3, <3>2 DEF SigfdOwn
      <4> QED
        BY <1>4, <1>9, <3>2, <4>1
    <3> QED
      BY <3>1, <3>2
  <2>3. TypeOK'
    <3>1. sloop' \in [Sigs -> Loops \cup {NoLoop}]
      BY <1>1, <1>4, <1>9 DEF TypeOK
    <3>2. sigfd_set' \in [Loops -> SUBSET Sigs]
      BY <1>1, <1>4, <1>9 DEF TypeOK
    <3>3. blocked' \subseteq Sigs /\ kpend' \subseteq blocked'
      BY <1>1, <1>4, <1>9 DEF TypeOK, Unblock
    <3> QED
      BY <1>1, <1>2, <2>2, <3>1, <3>2, <3>3 DEF TypeOK
  <2>4. SigfdOwn' /\ Settled' /\ HandledBy'
    BY <1>1, <1>2, <2>1, <2>2 DEF SigfdOwn, Settled, HandledBy, TypeOK
  <2>5. SignalNotLost'
    <3> SUFFICES ASSUME NEW v \in owed'
                 PROVE  \/ v \in pend'
                        \/ /\ SigOf[v] \in spending /\ LoopOf[v] \in sig_pending
                           /\ sloop'[SigOf[v]] = LoopOf[v]
                        \/ /\ SigOf[v] \in kpend'
                           /\ SigOf[v] \in sigfd_set'[LoopOf[v]] \/ SigOf[v] \in handled'
      BY <1>2 DEF SignalNotLost
    <3>1. /\ v \in owed /\ v # w /\ SigOf[v] \in Sigs /\ LoopOf[v] \in Loops
          /\ sloop[SigOf[v]] = LoopOf[v] /\ v \in ListOf(SigOf[v])
      BY <1>6
    <3>2. SigOf[v] # s
      BY <1>9, <3>1
    <3> QED
      BY <1>1, <1>2, <2>1, <2>2, <3>1, <3>2 DEF SignalNotLost
  <2>6. CanArrive'
    <3> SUFFICES ASSUME NEW r \in Sigs
                 PROVE  IF sloop'[r] = NoLoop THEN ListOf(r)' = {} /\ r \notin handled'
                        ELSE /\ ListOf(r)' # {} /\ \A v \in ListOf(r)' : LoopOf[v] = sloop'[r]
                             /\ IF sigfd[sloop'[r]] = "open"
                                THEN /\ r \in sigfd_set'[sloop'[r]]
                                     /\ nomask[sloop'[r]] \/ r \in blocked'
                                ELSE r \in handled' /\ (nomask[sloop'[r]] \/ r \notin blocked')
      BY <1>2 DEF CanArrive
    <3>1. CASE r = s
      BY <2>1, <2>2, <3>1
    <3>2. CASE r # s
      <4>1. sloop'[r] = sloop[r] /\ ListOf(r)' = ListOf(r) /\ (sloop[r] # NoLoop => sloop[r] \in Loops)
        BY <1>1, <1>5, <2>1, <3>2 DEF TypeOK
      <4> QED
        BY <1>1, <2>2, <3>2, <4>1 DEF CanArrive
    <3> QED
      BY <3>1, <3>2
  <2> QED
    BY <1>7, <2>3, <2>4, <2>5, <2>6 DEF SignalsInv
<1> QED
  BY <1>8, <1>9

LEMMA NextInv ==
    ASSUME SignalsAssumption, SignalsInv, [Next]_vars
    PROVE  SignalsInv'
<1>1. CASE UNCHANGED vars
  BY <1>1 DEF vars, sigtable, fds, mask, SignalsInv, TypeOK, OwedActive, SigfdOwn, Settled,
     HandledBy, CanArrive, SignalNotLost, ListOf
<1>2. CASE Next
  BY <1>2, RaiseStep, BlockStep, InvokeStep, PipeStep, SigfdStep, StartStep, StopStep DEF Next
<1> QED
  BY <1>1, <1>2

-----------------------------------------------------------------------------
\* signals[], the signalfds, the masks and the dispositions agree in every reachable
\* state.
THEOREM SignalsInductive ==
    ASSUME SignalsAssumption
    PROVE  Spec => []SignalsInv
<1>1. Init => SignalsInv
  BY InitInv
<1>2. SignalsInv /\ [Next]_vars => SignalsInv'
  BY NextInv
<1> QED
  BY <1>1, <1>2, PTL DEF Spec

\* For any loops, signals and watchers, with and without signalfds and whatever the
\* application does to the mask: a signal that arrives while its watcher is active is on
\* its way to that watcher until the callback or the stop, and no other loop takes it.
THEOREM NoSignalLost ==
    ASSUME SignalsAssumption
    PROVE  Spec => []SignalsArrive
<1>1. SignalsInv => SignalsArrive
  BY DEF SignalsInv, SignalsArrive
<1> QED
  BY <1>1, SignalsInductive, PTL

-----------------------------------------------------------------------------
(***************************************************************************)
(* Child watchers.  childev is at the bottom of its queue whenever that is *)
(* not empty: child_reap queues watchers above it only, and it leaves when *)
(* nothing is above.  So childcb runs when every watcher has been called,  *)
(* and each status it takes finds rpid and rstatus free.                   *)
(***************************************************************************)
ChildQueue(q) ==
    /\ q \in Seq(Childs \cup {chldev})
    /\ Len(q) > 0 => q[1] = chldev
    /\ \A i, j \in 1 .. Len(q) : q[i] = q[j] => i = j

ChildTypes ==
    /\ kstat \in [Pids -> Statuses \cup {"none"}] /\ lowq = <<>>
    /\ reports \in [Childs -> SUBSET Results]

In(w, q) == \E i \in 1 .. Len(q) : q[i] = w

\* What is not yet seen is in rpid and rstatus of a queued watcher; the kernel has nothing that
\* nobody will ask for.
Unseen(q, res, rep) == \A w \in Childs : \A x \in rep[w] : In(w, q) /\ x = res[w]
Asks(ks, sig, q) == (\E p \in Pids : ks[p] # "none") => sig = TRUE \/ In(chldev, q)

\* The inductive invariant.
ChildInv ==
    ChildTypes /\ ChildQueue(maxq) /\ Unseen(maxq, result, reports) /\ Asks(kstat, sigchld, maxq)

LEMMA RangeIn ==
    ASSUME NEW q, ChildQueue(q)
    PROVE  \A w : w \in Range(q) <=> In(w, q)
<1>1. q \in Seq(Childs \cup {chldev}) /\ DOMAIN q = 1 .. Len(q)
  BY DEF ChildQueue
<1> QED
  BY <1>1 DEF Range, In

\* childev is called when no watcher is queued.
LEMMA AloneLast ==
    ASSUME NEW q, ChildQueue(q), q # <<>>, Last(q) = chldev
    PROVE  Len(q) = 1 /\ Front(q) = <<>> /\ \A w : In(w, q) <=> w = chldev
<1>1. q \in Seq(Childs \cup {chldev}) /\ Len(q) \in Nat /\ Len(q) > 0
  BY EmptySeq DEF ChildQueue
<1>2. q[1] = chldev /\ q[Len(q)] = chldev
  BY <1>1 DEF ChildQueue, Last
<1>3. Len(q) = 1
  <2>1. 1 \in 1 .. Len(q) /\ Len(q) \in 1 .. Len(q) /\ q[1] = q[Len(q)]
    BY <1>1, <1>2
  <2> QED
    BY <2>1, Zenon DEF ChildQueue
<1>4. Front(q) = <<>>
  BY <1>1, <1>3 DEF Front
<1> QED
  BY <1>2, <1>3, <1>4 DEF In

\* ev_invoke_pending takes the last.
LEMMA FrontIn ==
    ASSUME NEW q, ChildQueue(q), q # <<>>
    PROVE  ChildQueue(Front(q)) /\ \A w : In(w, Front(q)) <=> In(w, q) /\ w # Last(q)
<1> DEFINE f == Front(q)  n == Len(q)
<1>1. q \in Seq(Childs \cup {chldev}) /\ n \in Nat /\ n > 0
  BY EmptySeq DEF ChildQueue
<1>2. f \in Seq(Childs \cup {chldev}) /\ Len(f) = n - 1 /\ \A i \in 1 .. n - 1 : f[i] = q[i]
  <2>1. f = SubSeq(q, 1, n - 1) /\ n - 1 \in 0 .. n
    BY <1>1 DEF Front
  <2>2. PICK m \in Int : m = n - 1 /\ 0 <= m
    BY <1>1
  <2>3. \A i \in 1 .. m : q[i] \in Childs \cup {chldev}
    BY <1>1, <2>2
  <2>4. /\ SubSeq(q, 1, m) \in Seq(Childs \cup {chldev})
        /\ Len(SubSeq(q, 1, m)) = IF 1 <= m THEN m - 1 + 1 ELSE 0
        /\ \A i \in 1 .. m - 1 + 1 : SubSeq(q, 1, m)[i] = q[1 + i - 1]
    BY <2>3, SubSeqProperties
  <2>5. m - 1 + 1 = m /\ \A i \in 1 .. m : 1 + i - 1 = i
    BY <2>2
  <2> HIDE DEF f, n
  <2>6. f = SubSeq(q, 1, m)
    BY <2>1, <2>2
  <2>7. Len(f) = m /\ \A i \in 1 .. m : f[i] = q[i]
    BY <2>2, <2>4, <2>5, <2>6
  <2> QED
    BY <2>2, <2>4, <2>6, <2>7
<1> HIDE DEF f
<1>3. ChildQueue(f)
  BY <1>1, <1>2 DEF ChildQueue
<1>4. ASSUME NEW w PROVE In(w, f) <=> In(w, q) /\ w # q[n]
  BY <1>1, <1>2 DEF In, ChildQueue
<1> QED
  BY <1>3, <1>4 DEF Last, f

\* A sequence without its k-th element.
LEMMA Without ==
    ASSUME NEW S, NEW q \in Seq(S), NEW k \in 1 .. Len(q)
    PROVE  LET c == RemoveAt(q, k) IN
           /\ c \in Seq(S) /\ Len(c) = Len(q) - 1
           /\ \A i \in 1 .. Len(q) - 1 : c[i] = IF i < k THEN q[i] ELSE q[i + 1]
<1> DEFINE n == Len(q)  a == SubSeq(q, 1, k - 1)  b == SubSeq(q, k + 1, n)
<1>1. k \in 1 .. n /\ n \in Nat
  OBVIOUS
<1>2. RemoveAt(q, k) = a \o b
  BY DEF RemoveAt
<1>3. a \in Seq(S) /\ Len(a) = k - 1 /\ \A i \in 1 .. k - 1 : a[i] = q[i]
  BY <1>1
<1>4. b \in Seq(S) /\ Len(b) = n - k /\ \A i \in 1 .. n - k : b[i] = q[k + i]
  BY <1>1
<1> HIDE DEF a, b, n
<1>5. /\ a \o b \in Seq(S) /\ Len(a \o b) = Len(a) + Len(b)
      /\ \A i \in 1 .. Len(a) + Len(b) : (a \o b)[i] = IF i <= Len(a) THEN a[i] ELSE b[i - Len(a)]
  BY <1>3, <1>4, ConcatProperties
<1>6. ASSUME NEW i \in 1 .. n - 1 PROVE (a \o b)[i] = IF i < k THEN q[i] ELSE q[i + 1]
  <2>1. CASE i < k
    <3>1. i \in 1 .. Len(a) + Len(b) /\ i <= Len(a) /\ i \in 1 .. k - 1
      BY <1>1, <1>3, <1>4, <2>1
    <3> QED
      BY <1>3, <1>5, <2>1, <3>1
  <2>2. CASE ~(i < k)
    <3>1. /\ i \in 1 .. Len(a) + Len(b) /\ ~(i <= Len(a)) /\ i - Len(a) \in 1 .. n - k
          /\ k + (i - Len(a)) = i + 1
      BY <1>1, <1>3, <1>4, <2>2
    <3> QED
      BY <1>4, <1>5, <2>2, <3>1
  <2> QED
    BY <2>1, <2>2
<1> QED
  BY <1>1, <1>2, <1>3, <1>4, <1>5, <1>6 DEF n

\* clear_pending takes one watcher out.
LEMMA RemovedIn ==
    ASSUME NEW q, ChildQueue(q), NEW v \in Childs
    PROVE  LET c == RemoveFirst(q, v) IN
           ChildQueue(c) /\ \A w : In(w, c) <=> In(w, q) /\ w # v
<1> DEFINE c == RemoveFirst(q, v)  n == Len(q)
<1>1. q \in Seq(Childs \cup {chldev}) /\ n \in Nat /\ v # chldev
  BY ChildAssumption DEF ChildQueue, chldev
<1>2. CASE ~In(v, q)
  <2>1. c = q
    BY <1>2 DEF RemoveFirst, In
  <2> QED
    BY <1>2, <2>1 DEF In
<1>3. CASE In(v, q)
  <2>1. PICK k \in 1 .. n : q[k] = v
    BY <1>3 DEF In
  <2>2. {i \in 1 .. n : q[i] = v} = {k}
    BY <2>1 DEF ChildQueue
  <2>3. SelectInSeq(q, LAMBDA x : x = v) = k
    <3>1. Min({k}) = k
      BY <2>1 DEF Min
    <3> QED
      BY <2>2, <3>1 DEF SelectInSeq
  <2>4. c = RemoveAt(q, k)
    BY <2>1, <2>3 DEF RemoveFirst
  <2> HIDE DEF c
  <2>5. /\ c \in Seq(Childs \cup {chldev}) /\ Len(c) = n - 1
        /\ \A i \in 1 .. n - 1 : c[i] = IF i < k THEN q[i] ELSE q[i + 1]
    BY <1>1, <2>1, <2>4, Without
  <2>6. 1 < k
    BY <1>1, <2>1 DEF ChildQueue
  <2>7. ChildQueue(c)
    <3>1. Len(c) > 0 => c[1] = chldev
      BY <1>1, <2>1, <2>5, <2>6 DEF ChildQueue
    <3>2. ASSUME NEW i \in 1 .. Len(c), NEW j \in 1 .. Len(c), c[i] = c[j] PROVE i = j
      <4> DEFINE at(m) == IF m < k THEN m ELSE m + 1
      <4>1. at(i) \in 1 .. n /\ at(j) \in 1 .. n /\ q[at(i)] = q[at(j)]
        BY <1>1, <2>1, <2>5, <3>2
      <4>2. at(i) = at(j)
        BY <4>1 DEF ChildQueue
      <4> QED
        BY <1>1, <2>1, <2>5, <4>2
    <3> QED
      BY <2>5, <3>1, <3>2 DEF ChildQueue
  <2>8. ASSUME NEW w PROVE In(w, c) <=> In(w, q) /\ w # v
    <3>1. ASSUME In(w, c) PROVE In(w, q) /\ w # v
      <4>1. PICK i \in 1 .. n - 1 : c[i] = w
        BY <2>5, <3>1 DEF In
      <4>2. PICK j \in 1 .. n : q[j] = w /\ j # k
        BY <1>1, <2>1, <2>5, <4>1
      <4> QED
        BY <2>1, <4>2 DEF In, ChildQueue
    <3>2. ASSUME In(w, q), w # v PROVE In(w, c)
      <4>1. PICK j \in 1 .. n : q[j] = w
        BY <3>2 DEF In
      <4>2. j # k
        BY <2>1, <3>2, <4>1
      <4>3. CASE j < k
        <5>1. j \in 1 .. n - 1 /\ c[j] = w
          BY <1>1, <2>1, <2>5, <4>1, <4>3
        <5> QED
          BY <2>5, <5>1 DEF In
      <4>4. CASE j > k
        <5>1. j - 1 \in 1 .. n - 1 /\ ~(j - 1 < k) /\ (j - 1) + 1 = j
          BY <1>1, <2>1, <4>4
        <5>2. c[j - 1] = w
          BY <2>5, <4>1, <5>1
        <5> QED
          BY <2>5, <5>1, <5>2 DEF In
      <4> QED
        BY <2>1, <4>1, <4>2, <4>3, <4>4
    <3> QED
      BY <3>1, <3>2
  <2> QED
    BY <2>7, <2>8 DEF c
<1> QED
  BY <1>2, <1>3

\* child_reap's ev_feed_event: the watchers come above childev, each once.
LEMMA FedIn ==
    ASSUME NEW S \in SUBSET Childs, NEW walk, NEW t \in Fed(<<chldev>>, S, walk)
    PROVE  ChildQueue(t) /\ \A w : In(w, t) <=> w = chldev \/ w \in S
<1> DEFINE new == S \ Range(<<chldev>>)  n == Cardinality(new)
<1>1. Range(<<chldev>>) = {chldev}
  BY DEF Range
<1>2. new = S /\ chldev \notin S
  BY <1>1, ChildAssumption DEF chldev
<1>3. PICK r \in [1 .. n -> new] :
         /\ t = <<chldev>> \o r /\ new = Range(r)
         /\ \A i, j \in DOMAIN r : i < j => Before(walk, r[i], r[j])
  BY DEF Fed
<1>4. n \in Nat
  <2>1. IsFiniteSet(S)
    BY ChildAssumption, FS_Subset
  <2> QED
    BY <1>2, <2>1, FS_CardinalityType
<1> HIDE DEF n, new
<1>5. r \in Seq(S) /\ Len(r) = n
  BY <1>2, <1>3, <1>4
<1>6. ASSUME NEW i \in 1 .. n, NEW j \in 1 .. n, r[i] = r[j] PROVE i = j
  <2>1. \A v : ~Before(walk, v, v)
    BY DEF Before
  <2>2. ~(i < j) /\ ~(j < i)
    BY <1>3, <1>6, <2>1
  <2> QED
    BY <1>4, <2>2
<1>7. /\ t \in Seq(Childs \cup {chldev}) /\ Len(t) = n + 1 /\ t[1] = chldev
      /\ \A i \in 1 .. n : t[i + 1] = r[i]
  <2>1. /\ <<chldev>> \in Seq(Childs \cup {chldev}) /\ r \in Seq(Childs \cup {chldev})
        /\ Len(<<chldev>>) = 1 /\ <<chldev>>[1] = chldev
    BY <1>5
  <2> QED
    BY <1>3, <1>4, <1>5, <2>1
<1>8. \A i \in 1 .. n + 1 : i = 1 \/ (i - 1 \in 1 .. n /\ t[i] = r[i - 1])
  <2> TAKE i \in 1 .. n + 1
  <2>1. CASE i # 1
    <3>1. i - 1 \in 1 .. n /\ (i - 1) + 1 = i
      BY <1>4, <2>1
    <3> QED
      BY <1>7, <3>1
  <2> QED
    BY <2>1
<1>9. \A i \in 1 .. n : r[i] \in S
  BY <1>2, <1>3
<1>10. ChildQueue(t)
  <2>1. ASSUME NEW i \in 1 .. Len(t), NEW j \in 1 .. Len(t), t[i] = t[j] PROVE i = j
    <3>1. CASE i = 1 \/ j = 1
      BY <1>2, <1>7, <1>8, <1>9, <2>1, <3>1
    <3>2. CASE i # 1 /\ j # 1
      <4>1. i - 1 \in 1 .. n /\ j - 1 \in 1 .. n /\ r[i - 1] = r[j - 1]
        BY <1>7, <1>8, <2>1, <3>2
      <4>2. i - 1 = j - 1
        BY <1>6, <4>1
      <4> QED
        BY <1>4, <1>7, <4>2
    <3> QED
      BY <3>1, <3>2
  <2> QED
    BY <1>7, <2>1 DEF ChildQueue
<1>11. ASSUME NEW w PROVE In(w, t) <=> w = chldev \/ w \in S
  <2>1. ASSUME In(w, t) PROVE w = chldev \/ w \in S
    BY <1>7, <1>8, <1>9, <2>1 DEF In
  <2>2. CASE w = chldev
    BY <1>4, <1>7, <2>2 DEF In
  <2>3. CASE w \in S
    <3>1. PICK i \in DOMAIN r : r[i] = w
      BY <1>2, <1>3, <2>3, Zenon DEF Range
    <3>2. i + 1 \in 1 .. Len(t) /\ t[i + 1] = w
      <4>1. i \in 1 .. n
        BY <1>3, <3>1
      <4> QED
        BY <1>4, <1>7, <3>1, <4>1
    <3> QED
      BY <2>3, <3>2 DEF In
  <2> QED
    BY <2>1, <2>2, <2>3
<1> QED
  BY <1>10, <1>11

LEMMA ChildStart0 == ChildInit => ChildInv
<1> SUFFICES ASSUME ChildInit PROVE ChildInv
  OBVIOUS
<1>1. ChildTypes
  BY DEF ChildInit, ChildTypes
<1>2. ChildQueue(maxq)
  BY DEF ChildInit, ChildQueue
<1>3. Unseen(maxq, result, reports) /\ Asks(kstat, sigchld, maxq)
  BY DEF ChildInit, Unseen, Asks
<1> QED
  BY <1>1, <1>2, <1>3 DEF ChildInv

LEMMA ChildChangesStep ==
    ASSUME ChildInv, NEW p \in Pids, NEW x \in Statuses, ChildChanges(p, x)
    PROVE  ChildInv'
<1>1. ChildTypes /\ ChildQueue(maxq) /\ Unseen(maxq, result, reports)
  BY DEF ChildInv
<1>2. /\ kstat' = [kstat EXCEPT ![p] = x] /\ sigchld' = TRUE
      /\ maxq' = maxq /\ lowq' = lowq /\ result' = result /\ reports' = reports
  BY DEF ChildChanges
<1>3. ChildTypes'
  BY <1>1, <1>2 DEF ChildTypes
<1>4. Asks(kstat', sigchld', maxq')
  BY <1>2 DEF Asks
<1> QED
  BY <1>1, <1>2, <1>3, <1>4 DEF ChildInv

LEMMA SigchldFedStep == ChildInv /\ SigchldFed => ChildInv'
<1> SUFFICES ASSUME ChildInv, SigchldFed PROVE ChildInv'
  OBVIOUS
<1>1. ChildTypes /\ ChildQueue(maxq) /\ Unseen(maxq, result, reports)
  BY DEF ChildInv
<1>2. /\ maxq' = IF chldev \in Range(maxq) THEN maxq ELSE Append(maxq, chldev)
      /\ kstat' = kstat /\ lowq' = lowq /\ result' = result /\ reports' = reports
  BY DEF SigchldFed
<1>3. ChildTypes'
  BY <1>1, <1>2 DEF ChildTypes
<1>4. CASE In(chldev, maxq)
  <2>1. maxq' = maxq
    BY <1>1, <1>2, <1>4, RangeIn
  <2> QED
    BY <1>1, <1>2, <1>3, <1>4, <2>1 DEF ChildInv, Asks
<1>5. CASE ~In(chldev, maxq)
  <2>1. maxq \in Seq(Childs \cup {chldev}) /\ Len(maxq) \in Nat
    BY <1>1 DEF ChildQueue
  <2>2. Len(maxq) = 0
    BY <1>1, <1>5, <2>1 DEF ChildQueue, In
  <2>3. maxq = <<>>
    BY <2>1, <2>2, EmptySeq
  <2>4. maxq' = <<chldev>>
    BY <1>1, <1>2, <1>5, <2>3, RangeIn
  <2>5. ChildQueue(maxq') /\ In(chldev, maxq')
    BY <2>4 DEF ChildQueue, In
  <2>6. Unseen(maxq', result', reports')
    BY <1>1, <1>2, <2>2 DEF Unseen, In
  <2> QED
    BY <1>3, <2>5, <2>6 DEF ChildInv, Asks
<1> QED
  BY <1>4, <1>5

\* Every watcher has been called when childcb takes the next status.
LEMMA ChildCbStep == ChildInv /\ ChildCb => ChildInv'
<1> SUFFICES ASSUME ChildInv, ChildCb PROVE ChildInv'
  OBVIOUS
<1>1. ChildTypes /\ ChildQueue(maxq) /\ Unseen(maxq, result, reports)
  BY DEF ChildInv
<1>2. Len(maxq) = 1 /\ Front(maxq) = <<>> /\ \A w : In(w, maxq) <=> w = chldev
  BY <1>1, AloneLast DEF ChildCb
<1>3. \A w \in Childs : reports[w] = {}
  BY <1>1, <1>2, ChildAssumption DEF Unseen, chldev
<1>4. CASE \A p \in Pids : kstat[p] = "none"
  <2>1. maxq' = <<>> /\ kstat' = kstat /\ lowq' = lowq /\ result' = result /\ reports' = reports
    BY <1>2, <1>4 DEF ChildCb
  <2>2. ChildTypes' /\ Asks(kstat', sigchld', maxq')
    BY <1>1, <1>4, <2>1 DEF ChildTypes, Asks
  <2>3. ChildQueue(maxq') /\ Unseen(maxq', result', reports')
    BY <1>3, <2>1 DEF ChildQueue, Unseen
  <2> QED
    BY <2>2, <2>3 DEF ChildInv
<1>5. CASE ~\A p \in Pids : kstat[p] = "none"
  <2>1. PICK p \in {q \in Pids : kstat[q] # "none"} :
           /\ ChildReap(Append(Front(maxq), chldev), p, kstat[p])
           /\ kstat' = [kstat EXCEPT ![p] = "none"]
    BY <1>5 DEF ChildCb
  <2> DEFINE hit == Reaped(p, kstat[p])  now == <<p, kstat[p]>>
  <2>2. Append(Front(maxq), chldev) = <<chldev>>
    BY <1>2
  <2>3. /\ maxq' \in Fed(<<chldev>>, hit, Walk(p)) /\ lowq' = lowq
        /\ result' = [w \in Childs |-> IF w \in hit THEN now ELSE result[w]]
        /\ reports' = [w \in Childs |-> IF w \in hit THEN reports[w] \cup {now} ELSE reports[w]]
    BY <2>1, <2>2, Zenon DEF ChildReap
  <2>4. hit \in SUBSET Childs
    BY DEF Reaped
  <2>5. now \in Results
    BY <1>1, <2>1 DEF ChildTypes, Results
  <2> HIDE DEF hit, now
  <2>6. ChildQueue(maxq') /\ \A w : In(w, maxq') <=> w = chldev \/ w \in hit
    BY <2>3, <2>4, FedIn
  <2>7. ChildTypes'
    BY <1>1, <2>1, <2>3, <2>5 DEF ChildTypes
  <2>8. Unseen(maxq', result', reports')
    BY <1>3, <2>3, <2>6 DEF Unseen
  <2>9. Asks(kstat', sigchld', maxq')
    BY <2>6 DEF Asks
  <2> QED
    BY <2>6, <2>7, <2>8, <2>9 DEF ChildInv
<1> QED
  BY <1>4, <1>5

LEMMA ChildInvokeStep ==
    ASSUME ChildInv, NEW w \in Childs, ChildInvoke(w)
    PROVE  ChildInv'
<1>1. ChildTypes /\ ChildQueue(maxq) /\ Unseen(maxq, result, reports) /\ Asks(kstat, sigchld, maxq)
  BY DEF ChildInv
<1>2. maxq # <<>> /\ Last(maxq) = w
  BY <1>1 DEF ChildInvoke, ChildTypes
<1>3. /\ maxq' = Front(maxq) /\ lowq' = lowq /\ reports' = [reports EXCEPT ![w] = @ \ {result[w]}]
      /\ kstat' = kstat /\ sigchld' = sigchld /\ result' = result
  BY <1>2 DEF ChildInvoke
<1>4. ChildQueue(maxq') /\ \A v : In(v, maxq') <=> In(v, maxq) /\ v # w
  BY <1>1, <1>2, <1>3, FrontIn
<1>5. ChildTypes'
  BY <1>1, <1>3 DEF ChildTypes
<1>6. Unseen(maxq', result', reports')
  <2>1. \A v \in Childs : reports'[v] = IF v = w THEN reports[v] \ {result[v]} ELSE reports[v]
    BY <1>1, <1>3 DEF ChildTypes
  <2> QED
    BY <1>1, <1>3, <1>4, <2>1 DEF Unseen
<1>7. Asks(kstat', sigchld', maxq')
  BY <1>1, <1>3, <1>4, ChildAssumption DEF Asks, chldev
<1> QED
  BY <1>4, <1>5, <1>6, <1>7 DEF ChildInv

LEMMA ChildStopStep ==
    ASSUME ChildInv, NEW w \in Childs, ChildStop(w)
    PROVE  ChildInv'
<1>1. ChildTypes /\ ChildQueue(maxq) /\ Unseen(maxq, result, reports) /\ Asks(kstat, sigchld, maxq)
  BY DEF ChildInv
<1>2. /\ maxq' = RemoveFirst(maxq, w) /\ lowq' = RemoveFirst(lowq, w)
      /\ reports' = [reports EXCEPT ![w] = {}]
      /\ kstat' = kstat /\ sigchld' = sigchld /\ result' = result
  BY DEF ChildStop
<1>3. ChildQueue(maxq') /\ \A v : In(v, maxq') <=> In(v, maxq) /\ v # w
  BY <1>1, <1>2, RemovedIn
<1>4. lowq' = <<>>
  <2>1. Len(<<>>) = 0
    OBVIOUS
  <2> QED
    BY <1>1, <1>2, <2>1 DEF ChildTypes, RemoveFirst
<1>5. ChildTypes'
  BY <1>1, <1>2, <1>4 DEF ChildTypes
<1>6. Unseen(maxq', result', reports')
  <2>1. \A v \in Childs : reports'[v] = IF v = w THEN {} ELSE reports[v]
    BY <1>1, <1>2 DEF ChildTypes
  <2> QED
    BY <1>1, <1>2, <1>3, <2>1 DEF Unseen
<1>7. Asks(kstat', sigchld', maxq')
  BY <1>1, <1>2, <1>3, ChildAssumption DEF Asks, chldev
<1> QED
  BY <1>3, <1>5, <1>6, <1>7 DEF ChildInv

LEMMA ChildInvSound == ChildInv => ChildrenReported
<1> SUFFICES ASSUME ChildInv PROVE StatusNotOverwritten /\ NoZombieForgotten
  BY DEF ChildrenReported
<1>1. ChildTypes /\ ChildQueue(maxq) /\ Unseen(maxq, result, reports) /\ Asks(kstat, sigchld, maxq)
  BY DEF ChildInv
<1>2. \A w : w \in Range(maxq) <=> In(w, maxq)
  BY <1>1, RangeIn
<1>3. StatusNotOverwritten
  BY <1>1, <1>2 DEF StatusNotOverwritten, PendingChilds, Unseen
<1>4. NoZombieForgotten
  BY <1>1, <1>2 DEF NoZombieForgotten, Asks
<1> QED
  BY <1>3, <1>4

\* However many children change while SIGCHLD is on its way, and whatever the callbacks start
\* and stop, no status that childcb took for a watcher is overwritten before the callback has
\* seen it, and none is left with the kernel for want of a signal.
THEOREM ChildrenAreReported == ChildSpec => []ChildrenReported
<1>1. ChildInit => ChildInv
  BY ChildStart0
<1>2. ChildInv /\ [ChildNext]_cvars => ChildInv'
  <2> SUFFICES ASSUME ChildInv, [ChildNext]_cvars PROVE ChildInv'
    OBVIOUS
  <2>1. ASSUME NEW p \in Pids, NEW x \in Statuses, ChildChanges(p, x) PROVE ChildInv'
    BY <2>1, ChildChangesStep
  <2>2. CASE SigchldFed
    BY <2>2, SigchldFedStep
  <2>3. CASE ChildCb
    BY <2>3, ChildCbStep
  <2>4. ASSUME NEW w \in Childs, ChildInvoke(w) PROVE ChildInv'
    BY <2>4, ChildInvokeStep
  <2>5. ASSUME NEW w \in Childs, ChildStart(w) PROVE ChildInv'
    BY <2>5 DEF ChildStart, ChildInv, ChildTypes, Unseen, Asks
  <2>6. ASSUME NEW w \in Childs, ChildStop(w) PROVE ChildInv'
    BY <2>6, ChildStopStep
  <2>7. CASE UNCHANGED cvars
    BY <2>7 DEF cvars, ChildInv, ChildTypes, Unseen, Asks
  <2> QED
    BY <2>1, <2>2, <2>3, <2>4, <2>5, <2>6, <2>7, Zenon DEF ChildNext
<1>3. ChildInv => ChildrenReported
  BY ChildInvSound
<1> QED
  BY <1>1, <1>2, <1>3, PTL DEF ChildSpec

(***************************************************************************)
(* ev_stat.  A watcher without a timer has the kernel's watch on the inode *)
(* its path has, or the event that says its wd is gone is queued or under  *)
(* way: only infy_add stops a timer, on an inode that exists, and whatever *)
(* takes that watch away queues such an event.                             *)
(***************************************************************************)
StatRec == [active : SUBSET Stats, pending : SUBSET Stats, wd : [Stats -> Nat], timer : SUBSET Stats,
            seen : [Stats -> Nat], refs : Int, fs : {"unused", "none", "open"}, local : BOOLEAN,
            ino : Nat, ver : Nat, kw : SUBSET (Nat \X Nat), kq : Seq(Int \X BOOLEAN), next : Nat,
            lost : BOOLEAN, adding : SUBSET Stats, todo : [Stats -> {"", "look", "gone", "fork"}],
            ops : Nat]

Has(q, e) == \E i \in 1 .. Len(q) : q[i] = e

\* The kernel's watches: one per wd and per inode, and a wd is not used again; a watch of the
\* directory is of a watcher that polls.
WatchesSound(s) ==
    /\ s.next # 0 /\ \A w \in Stats : s.wd[w] < s.next
    /\ \A k \in s.kw : k[1] # 0 /\ k[1] < s.next
    /\ \A k, l \in s.kw : (k[1] = l[1] \/ k[2] = l[2]) => k = l
    /\ Len(s.kq) <= MaxQueue \/ s.lost
    /\ \A w \in Stats : <<s.wd[w], 0>> \in s.kw => w \in s.timer

\* The watcher will look again.
Awoken(s, w) == w \in s.timer \/ <<s.wd[w], s.ino>> \in s.kw \/ Has(s.kq, <<s.wd[w], TRUE>>)
Wakes(s, w) == Awoken(s, w) \/ s.todo[w] \in {"gone", "fork"}

\* A watcher has a wd of the open inotify fd, or a timer, or infy_fork has yet to add it.
Placed(s, w) == (s.fs = "open" /\ s.wd[w] # 0) \/ w \in s.timer \/ s.todo[w] = "fork"

\* The inductive invariant.
StatGood(s) ==
    /\ s \in StatRec /\ WatchesSound(s)
    /\ s.lost \/ \A w \in s.active : Wakes(s, w)
    /\ \A w \in s.active : Placed(s, w)
    /\ s.fs = "unused" => s.active = {} /\ s.adding = {}
    /\ \A w \in s.adding : w \notin s.active
    /\ \A w \in Stats : s.todo[w] \in {"look", "gone"} => s.fs = "open"
    /\ s.refs = Cardinality(s.active)
StatInv == StatGood(st)

\* From one record to the next, within a step of the loop.
Moves(s, t) ==
    /\ t \in StatRec /\ WatchesSound(t) /\ (s.lost => t.lost)
    /\ t.active = s.active /\ t.refs = s.refs /\ t.fs = s.fs /\ t.ino = s.ino
    /\ t.adding = s.adding /\ t.todo = s.todo

\* An event is queued, or the queue overflows.
EventQueued(s, t, x, g) ==
    /\ t \in StatRec /\ (s.lost => t.lost) /\ (Len(t.kq) <= MaxQueue \/ t.lost)
    /\ t.active = s.active /\ t.refs = s.refs /\ t.fs = s.fs /\ t.ino = s.ino
    /\ t.adding = s.adding /\ t.todo = s.todo /\ t.wd = s.wd /\ t.timer = s.timer
    /\ t.kw = s.kw /\ t.next = s.next
    /\ t.lost \/ Has(t.kq, <<x, g>>)
    /\ \A e : Has(s.kq, e) => Has(t.kq, e)

LEMMA QueueKeeps ==
    ASSUME NEW s \in StatRec, NEW x \in Int, NEW g \in BOOLEAN, Len(s.kq) <= MaxQueue \/ s.lost,
           NEW t, t = Queue(s, x, g)
    PROVE  EventQueued(s, t, x, g)
<1> DEFINE q == s.kq
<1>1. q \in Seq(Int \X BOOLEAN) /\ Len(q) \in Nat /\ <<x, g>> \in Int \X BOOLEAN /\ <<-1, FALSE>> \in Int \X BOOLEAN
  <2>1. q \in Seq(Int \X BOOLEAN)
    BY DEF StatRec
  <2>2. Len(q) \in Nat /\ -1 \in Int /\ FALSE \in BOOLEAN
    BY <2>1
  <2>3. <<x, g>> \in Int \X BOOLEAN
    BY Zenon
  <2>4. <<-1, FALSE>> \in Int \X BOOLEAN
    BY <2>2, Zenon
  <2> QED
    BY <2>1, <2>2, <2>3, <2>4, Zenon
<1>2. ASSUME NEW y \in Int \X BOOLEAN
      PROVE  /\ Append(q, y) \in Seq(Int \X BOOLEAN) /\ Len(Append(q, y)) = Len(q) + 1 /\ Has(Append(q, y), y)
             /\ \A e : Has(q, e) => Has(Append(q, y), e)
  <2>1. /\ Append(q, y) \in Seq(Int \X BOOLEAN) /\ Len(Append(q, y)) = Len(q) + 1
        /\ \A i \in 1 .. Len(q) : Append(q, y)[i] = q[i]
        /\ Append(q, y)[Len(q) + 1] = y
    BY <1>1, AppendProperties
  <2>2. Len(q) + 1 \in 1 .. Len(q) + 1 /\ \A i \in 1 .. Len(q) : i \in 1 .. Len(q) + 1
    BY <1>1
  <2> QED
    BY <2>1, <2>2, Zenon DEF Has
<1>3. CASE Len(q) < MaxQueue
  <2>1. t = [s EXCEPT !.kq = Append(q, <<x, g>>)]
    BY <1>3 DEF Queue
  <2>2. Append(q, <<x, g>>) \in Seq(Int \X BOOLEAN)
    BY <1>1, <1>2
  <2>3. t \in StatRec /\ t.kq = Append(q, <<x, g>>)
    BY <2>1, <2>2 DEF StatRec
  <2>4. /\ t.lost = s.lost /\ t.active = s.active /\ t.refs = s.refs /\ t.fs = s.fs /\ t.ino = s.ino
        /\ t.adding = s.adding /\ t.todo = s.todo /\ t.wd = s.wd /\ t.timer = s.timer
        /\ t.kw = s.kw /\ t.next = s.next
    BY <2>1 DEF StatRec
  <2>5. Len(t.kq) <= MaxQueue
    BY <1>1, <1>2, <1>3, <2>3, StatAssumption
  <2> QED
    BY <1>1, <1>2, <2>3, <2>4, <2>5 DEF EventQueued
<1>4. CASE ~(Len(q) < MaxQueue) /\ Len(q) = MaxQueue
  <2> DEFINE y == <<-1, FALSE>>
  <2>1. t = [s EXCEPT !.kq = Append(q, y), !.lost = TRUE]
    BY <1>4 DEF Queue
  <2>2. Append(q, y) \in Seq(Int \X BOOLEAN)
    BY <1>1, <1>2
  <2> HIDE DEF y
  <2>3. t \in StatRec /\ t.kq = Append(q, y) /\ t.lost = TRUE
    <3>1. PICK nq : nq = Append(q, y)
      OBVIOUS
    <3>2. nq \in Seq(Int \X BOOLEAN) /\ TRUE \in BOOLEAN
      BY <2>2, <3>1
    <3>3. t = [s EXCEPT !.kq = nq, !.lost = TRUE]
      BY <2>1, <3>1
    <3>4. t \in StatRec
      BY <3>2, <3>3 DEF StatRec
    <3>5. t.kq = nq /\ t.lost = TRUE
      BY <3>3 DEF StatRec
    <3> QED
      BY <3>1, <3>4, <3>5
  <2>4. /\ t.active = s.active /\ t.refs = s.refs /\ t.fs = s.fs /\ t.ino = s.ino
        /\ t.adding = s.adding /\ t.todo = s.todo /\ t.wd = s.wd /\ t.timer = s.timer
        /\ t.kw = s.kw /\ t.next = s.next
    BY <2>1 DEF StatRec
  <2>5. y \in Int \X BOOLEAN
    BY <1>1 DEF y
  <2> QED
    BY <1>2, <2>3, <2>4, <2>5 DEF EventQueued
<1>5. CASE ~(Len(q) < MaxQueue) /\ Len(q) # MaxQueue
  <2>1. t = s
    BY <1>5 DEF Queue
  <2>2. s.lost
    BY <1>1, <1>5, StatAssumption
  <2> QED
    BY <2>1, <2>2 DEF EventQueued
<1> QED
  BY <1>3, <1>4, <1>5

\* inotify_rm_watch: the other watchers of the wd have the event.
LEMMA RemoveKeeps ==
    ASSUME NEW s \in StatRec, WatchesSound(s), NEW x \in Nat, NEW t, t = RmWatch(s, x)
    PROVE  /\ Moves(s, t) /\ t.wd = s.wd /\ t.timer = s.timer
           /\ \A w \in Stats : Awoken(s, w) => Awoken(t, w) \/ t.lost
<1> DEFINE own == {k \in s.kw : k[1] = x}
<1>1. CASE own = {}
  BY <1>1 DEF RmWatch, Moves
<1>2. CASE own # {}
  <2> DEFINE kws == s.kw \ own  u == [s EXCEPT !.kw = kws]
  <2>1. t = Queue(u, x, TRUE)
    BY <1>2 DEF RmWatch
  <2>2. kws \subseteq s.kw /\ \A k \in s.kw : k \in kws \/ k[1] = x
    OBVIOUS
  <2> HIDE DEF kws
  <2>3. u \in StatRec /\ u.kw = kws
    BY <2>2 DEF StatRec
  <2>4. /\ u.lost = s.lost /\ u.active = s.active /\ u.refs = s.refs /\ u.fs = s.fs /\ u.ino = s.ino
        /\ u.adding = s.adding /\ u.todo = s.todo /\ u.wd = s.wd /\ u.timer = s.timer
        /\ u.kq = s.kq /\ u.next = s.next
    BY DEF StatRec
  <2>5. Len(u.kq) <= MaxQueue \/ u.lost
    BY <2>4 DEF WatchesSound
  <2> HIDE DEF u
  <2>6. /\ t \in StatRec /\ (u.lost => t.lost) /\ (Len(t.kq) <= MaxQueue \/ t.lost)
        /\ t.active = u.active /\ t.refs = u.refs /\ t.fs = u.fs /\ t.ino = u.ino
        /\ t.adding = u.adding /\ t.todo = u.todo /\ t.wd = u.wd /\ t.timer = u.timer
        /\ t.kw = u.kw /\ t.next = u.next
        /\ t.lost \/ Has(t.kq, <<x, TRUE>>)
        /\ \A e : Has(u.kq, e) => Has(t.kq, e)
    <3>1. x \in Int /\ TRUE \in BOOLEAN
      OBVIOUS
    <3>2. EventQueued(u, t, x, TRUE)
      BY <2>1, <2>3, <2>5, <3>1, QueueKeeps, Zenon
    <3> QED
      BY <3>2 DEF EventQueued
  <2>7. WatchesSound(t)
    BY <2>2, <2>3, <2>4, <2>6 DEF WatchesSound
  <2>8. ASSUME NEW w \in Stats, Awoken(s, w) PROVE Awoken(t, w) \/ t.lost
    <3>1. CASE <<s.wd[w], s.ino>> \in s.kw
      <4>1. CASE s.wd[w] = x
        BY <2>4, <2>6, <4>1 DEF Awoken
      <4>2. CASE s.wd[w] # x
        <5>1. <<s.wd[w], s.ino>> \in kws
          BY <2>2, <3>1, <4>2
        <5> QED
          BY <2>3, <2>4, <2>6, <5>1 DEF Awoken
      <4> QED
        BY <4>1, <4>2
    <3>2. CASE w \in s.timer \/ Has(s.kq, <<s.wd[w], TRUE>>)
      BY <2>4, <2>6, <3>2 DEF Awoken
    <3> QED
      BY <2>8, <3>1, <3>2 DEF Awoken
  <2> QED
    BY <2>4, <2>6, <2>7, <2>8 DEF Moves
<1> QED
  BY <1>1, <1>2

\* A watcher whose wd is forgotten.
Forgotten(s, t, w) ==
    /\ Moves(s, t) /\ t.timer = s.timer /\ t.lost = s.lost
    /\ t.wd[w] = 0 /\ \A v \in Stats : v # w => t.wd[v] = s.wd[v] /\ (Awoken(s, v) => Awoken(t, v))

LEMMA ForgetKeeps ==
    ASSUME NEW s \in StatRec, WatchesSound(s), NEW w \in Stats, NEW t, t = Unhash(s, w)
    PROVE  Forgotten(s, t, w)
<1> DEFINE nwd == [s.wd EXCEPT ![w] = 0]
<1>1. s.wd \in [Stats -> Nat]
  BY DEF StatRec
<1>2. nwd \in [Stats -> Nat] /\ nwd[w] = 0 /\ \A v \in Stats : v # w => nwd[v] = s.wd[v]
  BY <1>1
<1>3. t = [s EXCEPT !.wd = nwd]
  BY DEF Unhash
<1> HIDE DEF nwd
<1>4. t \in StatRec /\ t.wd = nwd
  <2>1. nwd \in [Stats -> Nat]
    BY <1>2
  <2>2. t \in StatRec
    BY <1>3, <2>1 DEF StatRec
  <2>3. t.wd = nwd
    BY <1>3 DEF StatRec
  <2> QED
    BY <2>2, <2>3
<1>5. /\ t.lost = s.lost /\ t.active = s.active /\ t.refs = s.refs /\ t.fs = s.fs /\ t.ino = s.ino
      /\ t.adding = s.adding /\ t.todo = s.todo /\ t.timer = s.timer
      /\ t.kq = s.kq /\ t.kw = s.kw /\ t.next = s.next
  BY <1>3 DEF StatRec
<1>6. WatchesSound(t)
  <2>1. s.next # 0 /\ s.next \in Nat /\ <<0, 0>> \notin s.kw
    BY DEF WatchesSound, StatRec
  <2>2. \A v \in Stats : nwd[v] < s.next
    <3>1. 0 < s.next /\ \A v \in Stats : s.wd[v] < s.next
      BY <2>1 DEF WatchesSound
    <3> QED
      BY <1>2, <3>1, Zenon
  <2>3. \A v \in Stats : <<nwd[v], 0>> \in s.kw => v \in s.timer
    BY <1>2, <2>1 DEF WatchesSound
  <2> QED
    BY <1>4, <1>5, <2>2, <2>3 DEF WatchesSound
<1>7. \A v \in Stats : v # w => (Awoken(s, v) => Awoken(t, v))
  BY <1>2, <1>4, <1>5 DEF Awoken
<1> QED
  BY <1>2, <1>4, <1>5, <1>6, <1>7 DEF Moves, Forgotten

\* infy_del.
WatchDropped(s, t, w) ==
    /\ Moves(s, t) /\ t.timer = s.timer
    /\ t.wd[w] = 0 /\ \A v \in Stats : v # w => t.wd[v] = s.wd[v] /\ (Awoken(s, v) => Awoken(t, v) \/ t.lost)

LEMMA DelKeeps ==
    ASSUME NEW s \in StatRec, WatchesSound(s), NEW w \in Stats, NEW t, t = InfyDel(s, w)
    PROVE  WatchDropped(s, t, w)
<1>1. CASE s.wd[w] = 0
  BY <1>1 DEF InfyDel, Moves, WatchDropped
<1>2. CASE s.wd[w] # 0
  <2>1. PICK u : u = Unhash(s, w)
    OBVIOUS
  <2>2. t = RmWatch(u, s.wd[w])
    BY <1>2, <2>1 DEF InfyDel
  <2>3. Forgotten(s, u, w)
    BY <2>1, ForgetKeeps, Zenon
  <2>4. u \in StatRec /\ WatchesSound(u) /\ s.wd[w] \in Nat
    BY <2>3 DEF Moves, StatRec, Forgotten
  <2>5. /\ Moves(u, t) /\ t.wd = u.wd /\ t.timer = u.timer
        /\ \A v \in Stats : Awoken(u, v) => Awoken(t, v) \/ t.lost
    BY <2>2, <2>4, RemoveKeeps
  <2> QED
    BY <2>3, <2>5 DEF Moves, WatchDropped, Forgotten
<1> QED
  BY <1>1, <1>2

\* ev_ref, ev_timer_again and ev_unref: the references are as before.
StatRearmed(s, t, w, rep) ==
    /\ t \in StatRec /\ t.timer = (IF rep THEN s.timer \cup {w} ELSE s.timer \ {w})
    /\ t.lost = s.lost /\ t.active = s.active /\ t.refs = s.refs /\ t.fs = s.fs /\ t.ino = s.ino
    /\ t.adding = s.adding /\ t.todo = s.todo /\ t.wd = s.wd
    /\ t.kq = s.kq /\ t.kw = s.kw /\ t.next = s.next

LEMMA AgainKeeps ==
    ASSUME NEW s \in StatRec, NEW w \in Stats, NEW rep \in BOOLEAN, NEW t, t = TimerAgain(s, w, rep)
    PROVE  StatRearmed(s, t, w, rep)
<1> DEFINE tm == IF rep THEN s.timer \cup {w} ELSE s.timer \ {w}
           rf == (((s.refs + One(w \in s.timer)) - One(w \in s.timer)) + One(rep)) - One(rep)
<1>1. t = [s EXCEPT !.timer = tm, !.refs = rf]
  <2>1. TimerAgain(s, w, rep) = [s EXCEPT !.timer = tm, !.refs = rf]
    BY DEF TimerAgain
  <2> QED
    BY <2>1, Zenon
<1>2. s.refs \in Int /\ s.timer \in SUBSET Stats
  BY DEF StatRec
<1>3. rf = s.refs
  <2>1. One(w \in s.timer) \in Int /\ One(rep) \in Int
    BY DEF One
  <2> QED
    BY <1>2, <2>1
<1>4. tm \in SUBSET Stats
  BY <1>2
<1> HIDE DEF tm, rf
<1>5. t \in StatRec /\ t.timer = tm
  BY <1>1, <1>2, <1>3, <1>4 DEF StatRec
<1>6. /\ t.lost = s.lost /\ t.active = s.active /\ t.refs = s.refs /\ t.fs = s.fs /\ t.ino = s.ino
      /\ t.adding = s.adding /\ t.todo = s.todo /\ t.wd = s.wd
      /\ t.kq = s.kq /\ t.kw = s.kw /\ t.next = s.next
  BY <1>1, <1>3 DEF StatRec
<1> QED
  BY <1>5, <1>6 DEF tm, StatRearmed

\* inotify_add_watch: the wd the inode has, or a new one.
LEMMA WatchAdded ==
    ASSUME NEW s \in StatRec, WatchesSound(s), NEW w \in Stats, NEW on \in Nat, NEW t, t = AddWatch(s, w, on)
    PROVE  /\ t \in StatRec /\ t.timer = s.timer
           /\ t.lost = s.lost /\ t.active = s.active /\ t.refs = s.refs /\ t.fs = s.fs /\ t.ino = s.ino
           /\ t.adding = s.adding /\ t.todo = s.todo /\ t.kq = s.kq
           /\ <<t.wd[w], on>> \in t.kw /\ (\A v \in Stats : v # w => t.wd[v] = s.wd[v])
           /\ s.kw \subseteq t.kw /\ (\A k \in t.kw : k \in s.kw \/ k[1] = s.next)
           /\ t.next # 0 /\ (\A v \in Stats : t.wd[v] < t.next)
           /\ \A k \in t.kw : k[1] # 0 /\ k[1] < t.next
           /\ \A k, l \in t.kw : (k[1] = l[1] \/ k[2] = l[2]) => k = l
<1>0. /\ s.wd \in [Stats -> Nat] /\ s.kw \in SUBSET (Nat \X Nat) /\ s.next \in Nat /\ s.next # 0
      /\ \A v \in Stats : s.wd[v] < s.next
      /\ \A k \in s.kw : k[1] # 0 /\ k[1] < s.next
      /\ \A k, l \in s.kw : (k[1] = l[1] \/ k[2] = l[2]) => k = l
  BY DEF StatRec, WatchesSound
<1>1. CASE WatchesOn(s, on) # {}
  <2>1. PICK k : k = CHOOSE x \in WatchesOn(s, on) : TRUE
    OBVIOUS
  <2>2. k \in WatchesOn(s, on)
    BY <1>1, <2>1
  <2>3. k \in s.kw /\ k[2] = on /\ k = <<k[1], k[2]>> /\ k[1] \in Nat
    BY <1>0, <2>2 DEF WatchesOn
  <2>4. PICK nwd : nwd = [s.wd EXCEPT ![w] = k[1]]
    OBVIOUS
  <2>5. nwd \in [Stats -> Nat] /\ nwd[w] = k[1] /\ \A v \in Stats : v # w => nwd[v] = s.wd[v]
    BY <1>0, <2>3, <2>4
  <2>6. t = [s EXCEPT !.wd = nwd]
    BY <1>1, <2>1, <2>4, Zenon DEF AddWatch
  <2>7. t \in StatRec /\ t.wd = nwd
    <3>1. nwd \in [Stats -> Nat]
      BY <2>5
    <3>2. t \in StatRec
      BY <2>6, <3>1 DEF StatRec
    <3>3. t.wd = nwd
      BY <2>6 DEF StatRec
    <3> QED
      BY <3>2, <3>3
  <2>8. /\ t.lost = s.lost /\ t.active = s.active /\ t.refs = s.refs /\ t.fs = s.fs /\ t.ino = s.ino
        /\ t.adding = s.adding /\ t.todo = s.todo /\ t.timer = s.timer
        /\ t.kq = s.kq /\ t.kw = s.kw /\ t.next = s.next
    BY <2>6 DEF StatRec
  <2>9. <<nwd[w], on>> \in s.kw
    BY <2>3, <2>5, Zenon
  <2>10. \A v \in Stats : nwd[v] < s.next
    BY <1>0, <2>3, <2>5, Zenon
  <2> QED
    BY <1>0, <2>5, <2>7, <2>8, <2>9, <2>10
<1>2. CASE WatchesOn(s, on) = {}
  <2>1. PICK new : new = <<s.next, on>>
    OBVIOUS
  <2>2. new \in Nat \X Nat /\ new[1] = s.next /\ new[2] = on
    BY <1>0, <2>1
  <2>3. \A k \in s.kw : k[2] # on /\ k[1] # s.next
    BY <1>0, <1>2 DEF WatchesOn
  <2>4. PICK nwd : nwd = [s.wd EXCEPT ![w] = s.next]
    OBVIOUS
  <2>5. nwd \in [Stats -> Nat] /\ nwd[w] = s.next /\ \A v \in Stats : v # w => nwd[v] = s.wd[v]
    BY <1>0, <2>4
  <2>6. PICK kws : kws = s.kw \cup {new}
    OBVIOUS
  <2>7. PICK nn : nn = s.next + 1
    OBVIOUS
  <2>8. t = [s EXCEPT !.wd = nwd, !.kw = kws, !.next = nn]
    BY <1>2, <2>1, <2>4, <2>6, <2>7, Zenon DEF AddWatch
  <2>9. kws \in SUBSET (Nat \X Nat) /\ nn \in Nat
    BY <1>0, <2>2, <2>6, <2>7
  <2>10. t \in StatRec /\ t.wd = nwd /\ t.kw = kws /\ t.next = nn
    <3>1. nwd \in [Stats -> Nat]
      BY <2>5
    <3>2. t \in StatRec
      BY <2>8, <2>9, <3>1 DEF StatRec
    <3>3. t.wd = nwd /\ t.kw = kws /\ t.next = nn
      BY <2>8 DEF StatRec
    <3> QED
      BY <3>2, <3>3
  <2>11. /\ t.lost = s.lost /\ t.active = s.active /\ t.refs = s.refs /\ t.fs = s.fs /\ t.ino = s.ino
         /\ t.adding = s.adding /\ t.todo = s.todo /\ t.timer = s.timer /\ t.kq = s.kq
    BY <2>8 DEF StatRec
  <2>12. /\ \A v \in Stats : nwd[v] < nn
         /\ \A k \in kws : k[1] # 0 /\ k[1] < nn
    <3>1. \A x : x \in Nat /\ x < s.next => x < nn
      BY <1>0, <2>7
    <3>2. s.next < nn
      BY <1>0, <2>7
    <3>3. \A k \in s.kw : k[1] \in Nat
      BY <1>0
    <3> QED
      BY <1>0, <2>2, <2>5, <2>6, <3>1, <3>2, <3>3
  <2>13. \A k, l \in kws : (k[1] = l[1] \/ k[2] = l[2]) => k = l
    BY <1>0, <2>2, <2>3, <2>6
  <2>14. nn # 0 /\ <<nwd[w], on>> \in kws /\ s.kw \subseteq kws /\ \A k \in kws : k \in s.kw \/ k[1] = s.next
    BY <1>0, <2>1, <2>2, <2>5, <2>6, <2>7
  <2> QED
    BY <2>5, <2>10, <2>11, <2>12, <2>13, <2>14
<1> QED
  BY <1>1, <1>2

\* infy_add: on the path as it is now, or with a timer.
Added(s, t, w) ==
    /\ Moves(s, t) /\ t.lost = s.lost
    /\ (t.wd[w] # 0 \/ w \in t.timer) /\ Awoken(t, w)
    /\ \A v \in Stats : v # w => t.wd[v] = s.wd[v] /\ (Awoken(s, v) => Awoken(t, v))
                                /\ (v \in s.timer => v \in t.timer)

LEMMA WatchKeeps ==
    ASSUME NEW s \in StatRec, WatchesSound(s), NEW w \in Stats, NEW t, t = InfyAdd(s, w, TRUE)
    PROVE  Added(s, t, w)
<1>1. PICK a : a = AddWatch(s, w, s.ino)
  OBVIOUS
<1>2. PICK rep \in BOOLEAN : rep = (s.ino = 0 \/ ~s.local)
  OBVIOUS
<1>3. t = TimerAgain(a, w, rep)
  BY <1>1, <1>2, Zenon DEF InfyAdd
<1>4. s.ino \in Nat /\ s.wd \in [Stats -> Nat] /\ s.timer \in SUBSET Stats
  BY DEF StatRec
<1>5. /\ a \in StatRec /\ a.timer = s.timer
      /\ a.lost = s.lost /\ a.active = s.active /\ a.refs = s.refs /\ a.fs = s.fs /\ a.ino = s.ino
      /\ a.adding = s.adding /\ a.todo = s.todo /\ a.kq = s.kq
      /\ <<a.wd[w], s.ino>> \in a.kw /\ (\A v \in Stats : v # w => a.wd[v] = s.wd[v])
      /\ s.kw \subseteq a.kw /\ (\A k \in a.kw : k \in s.kw \/ k[1] = s.next)
      /\ a.next # 0 /\ (\A v \in Stats : a.wd[v] < a.next)
      /\ \A k \in a.kw : k[1] # 0 /\ k[1] < a.next
      /\ \A k, l \in a.kw : (k[1] = l[1] \/ k[2] = l[2]) => k = l
  BY <1>1, <1>4, WatchAdded
<1>6. /\ t \in StatRec /\ t.timer = (IF rep THEN a.timer \cup {w} ELSE a.timer \ {w})
      /\ t.lost = a.lost /\ t.active = a.active /\ t.refs = a.refs /\ t.fs = a.fs /\ t.ino = a.ino
      /\ t.adding = a.adding /\ t.todo = a.todo /\ t.wd = a.wd
      /\ t.kq = a.kq /\ t.kw = a.kw /\ t.next = a.next
  <2>1. a \in StatRec
    BY <1>5
  <2>2. StatRearmed(a, t, w, rep)
    BY <1>3, <2>1, AgainKeeps, Zenon
  <2> QED
    BY <2>2 DEF StatRearmed
<1>7. t.wd[w] # 0 /\ <<t.wd[w], t.ino>> \in t.kw
  <2>1. <<a.wd[w], s.ino>>[1] = a.wd[w]
    OBVIOUS
  <2>2. <<a.wd[w], s.ino>>[1] # 0
    BY <1>5, Zenon
  <2> QED
    BY <1>5, <1>6, <2>1, <2>2, Zenon
<1>8. \A v \in Stats : v # w => (v \in t.timer <=> v \in s.timer)
  BY <1>5, <1>6
<1>9. ASSUME NEW v \in Stats, <<t.wd[v], 0>> \in t.kw PROVE v \in t.timer
  <2>1. CASE v = w
    <3>1. <<a.wd[w], s.ino>> \in a.kw /\ <<a.wd[w], 0>> \in a.kw
      BY <1>5, <1>6, <1>9, <2>1
    <3>2. <<a.wd[w], s.ino>> = <<a.wd[w], 0>>
      <4>1. <<a.wd[w], s.ino>>[1] = <<a.wd[w], 0>>[1]
        OBVIOUS
      <4> QED
        BY <1>5, <3>1, <4>1, Zenon
    <3>3. s.ino = 0
      BY <3>2
    <3> QED
      BY <1>2, <1>6, <2>1, <3>3
  <2>2. CASE v # w
    <3>1. <<s.wd[v], 0>> \in a.kw
      BY <1>5, <1>6, <1>9, <2>2
    <3>2. s.wd[v] # s.next
      <4>1. s.wd[v] \in Nat /\ s.next \in Nat
        BY <1>4 DEF StatRec
      <4>2. s.wd[v] < s.next
        BY Zenon DEF WatchesSound
      <4> QED
        BY <4>1, <4>2
    <3>3. <<s.wd[v], 0>>[1] # s.next
      BY <3>2
    <3>4. <<s.wd[v], 0>> \in s.kw
      BY <1>5, <3>1, <3>3, Zenon
    <3>5. v \in s.timer
      BY <3>4 DEF WatchesSound
    <3> QED
      BY <1>8, <2>2, <3>5
  <2> QED
    BY <2>1, <2>2
<1>10. WatchesSound(t)
  <2>1. Len(t.kq) <= MaxQueue \/ t.lost
    BY <1>5, <1>6, Zenon DEF WatchesSound
  <2> QED
    BY <1>5, <1>6, <1>9, <2>1, Zenon DEF WatchesSound
<1>11. ASSUME NEW v \in Stats, v # w, Awoken(s, v) PROVE Awoken(t, v)
  BY <1>5, <1>6, <1>8, <1>11 DEF Awoken
<1>12. Awoken(t, w)
  BY <1>7 DEF Awoken
<1> QED
  BY <1>5, <1>6, <1>7, <1>8, <1>10, <1>11, <1>12 DEF Moves, Added

LEMMA AddKeeps ==
    ASSUME NEW s \in StatRec, WatchesSound(s), NEW w \in Stats, NEW ok \in BOOLEAN, NEW t, t = InfyAdd(s, w, ok)
    PROVE  Added(s, t, w)
<1>1. CASE ok = TRUE
  BY <1>1, WatchKeeps, Zenon
<1>2. CASE ok = FALSE
  <2>1. t = TimerAgain(s, w, TRUE) /\ TRUE \in BOOLEAN
    BY <1>2, Zenon DEF InfyAdd
  <2>2. StatRearmed(s, t, w, TRUE)
    BY <2>1, AgainKeeps, Zenon
  <2>3. t.timer = s.timer \cup {w}
    BY <2>2 DEF StatRearmed
  <2>4. WatchesSound(t)
    BY <2>2, <2>3 DEF StatRearmed, WatchesSound
  <2>5. Moves(s, t)
    BY <2>2, <2>4 DEF StatRearmed, Moves
  <2> QED
    BY <2>2, <2>3, <2>5 DEF StatRearmed, Added, Awoken
<1> QED
  BY <1>1, <1>2

\* Steps that the kernel's watches, wds and timers do not notice.
Unnoticed(s, t) == t.wd = s.wd /\ t.timer = s.timer /\ t.kq = s.kq /\ t.kw = s.kw /\ t.next = s.next
               /\ t.lost = s.lost /\ t.ino = s.ino

LEMMA UnnoticedKeeps ==
    ASSUME NEW s, NEW t, WatchesSound(s), Unnoticed(s, t)
    PROVE  WatchesSound(t) /\ \A w : Awoken(s, w) => Awoken(t, w)
  BY DEF Unnoticed, WatchesSound, Awoken

\* ev_stat_stat.
LEMMA LstatKeeps ==
    ASSUME NEW s \in StatRec, WatchesSound(s), NEW w \in Stats, NEW t, t = Lstat(s, w)
    PROVE  Moves(s, t) /\ Unnoticed(s, t)
<1>1. s.ver \in Nat /\ s.seen \in [Stats -> Nat]
  BY DEF StatRec
<1>2. PICK n : n = s.ver * One(s.ino # 0)
  OBVIOUS
<1>3. n \in Nat
  BY <1>1, <1>2 DEF One
<1>4. PICK sn : sn = [s.seen EXCEPT ![w] = n]
  OBVIOUS
<1>5. sn \in [Stats -> Nat]
  BY <1>1, <1>3, <1>4
<1>6. t = [s EXCEPT !.seen = sn]
  BY <1>2, <1>4, Zenon DEF Lstat
<1>7. t \in StatRec
  BY <1>5, <1>6 DEF StatRec
<1>8. /\ t.active = s.active /\ t.refs = s.refs /\ t.fs = s.fs /\ t.ino = s.ino
      /\ t.adding = s.adding /\ t.todo = s.todo
      /\ t.wd = s.wd /\ t.timer = s.timer /\ t.kq = s.kq /\ t.kw = s.kw /\ t.next = s.next /\ t.lost = s.lost
  BY <1>6 DEF StatRec
<1>9. Unnoticed(s, t)
  BY <1>8 DEF Unnoticed
<1>10. WatchesSound(t)
  BY <1>9, UnnoticedKeeps
<1> QED
  BY <1>7, <1>8, <1>9, <1>10 DEF Moves

LEMMA PendingKeeps ==
    ASSUME NEW s \in StatRec, WatchesSound(s), NEW P \in SUBSET Stats, NEW t, t = [s EXCEPT !.pending = P]
    PROVE  Moves(s, t) /\ Unnoticed(s, t)
<1>7. t \in StatRec
  BY DEF StatRec
<1>8. /\ t.active = s.active /\ t.refs = s.refs /\ t.fs = s.fs /\ t.ino = s.ino
      /\ t.adding = s.adding /\ t.todo = s.todo
      /\ t.wd = s.wd /\ t.timer = s.timer /\ t.kq = s.kq /\ t.kw = s.kw /\ t.next = s.next /\ t.lost = s.lost
  BY DEF StatRec
<1>9. Unnoticed(s, t)
  BY <1>8 DEF Unnoticed
<1>10. WatchesSound(t)
  BY <1>9, UnnoticedKeeps
<1> QED
  BY <1>7, <1>8, <1>9, <1>10 DEF Moves

\* No watcher is left without a way to look again, or a place.
Looked(s, t) ==
    /\ Moves(s, t)
    /\ \A v \in Stats : (Awoken(s, v) => Awoken(t, v) \/ t.lost) /\ (Placed(s, v) => Placed(t, v))

LEMMA UnnoticedLooks ==
    ASSUME NEW s \in StatRec, WatchesSound(s), NEW t, Moves(s, t), Unnoticed(s, t)
    PROVE  Looked(s, t)
<1>1. \A w : Awoken(s, w) => Awoken(t, w)
  BY UnnoticedKeeps
<1>2. \A w : Placed(s, w) => Placed(t, w)
  BY DEF Placed, Moves, Unnoticed
<1> QED
  BY <1>1, <1>2 DEF Looked

LEMMA LooksTrans ==
    ASSUME NEW s, NEW t, NEW u, Looked(s, t), Looked(t, u)
    PROVE  Looked(s, u)
<1>1. Moves(s, u) /\ (t.lost => u.lost)
  BY DEF Looked, Moves
<1> QED
  BY <1>1 DEF Looked

\* infy_del and infy_add.
LEMMA ReaddLooks ==
    ASSUME NEW s \in StatRec, WatchesSound(s), NEW w \in Stats, s.fs = "open",
           NEW ok \in BOOLEAN, NEW t, t = InfyAdd(InfyDel(s, w), w, ok)
    PROVE  Looked(s, t)
<1>1. PICK d : d = InfyDel(s, w)
  OBVIOUS
<1>2. WatchDropped(s, d, w)
  BY <1>1, DelKeeps, Zenon
<1>3. d \in StatRec /\ WatchesSound(d)
  BY <1>2 DEF Moves, WatchDropped
<1>4. Added(d, t, w)
  BY <1>1, <1>3, AddKeeps, Zenon
<1>5. Moves(s, t)
  BY <1>2, <1>4 DEF Moves, WatchDropped, Added
<1>6. \A v \in Stats : Awoken(s, v) => Awoken(t, v) \/ t.lost
  BY <1>2, <1>4 DEF WatchDropped, Added
<1>7. \A v \in Stats : Placed(s, v) => Placed(t, v)
  BY <1>2, <1>4 DEF Placed, Moves, WatchDropped, Added
<1> QED
  BY <1>5, <1>6, <1>7 DEF Looked

\* stat_timer_cb.
LEMMA TimerCbLooks ==
    ASSUME NEW s \in StatRec, WatchesSound(s), NEW w \in Stats, NEW ok \in BOOLEAN,
           NEW t, t = StatTimerCb(s, w, ok)
    PROVE  Looked(s, t)
<1>1. PICK now : now = Lstat(s, w)
  OBVIOUS
<1>2. Moves(s, now) /\ Unnoticed(s, now)
  BY <1>1, LstatKeeps
<1>3. Looked(s, now) /\ now \in StatRec /\ WatchesSound(now) /\ now.fs = s.fs
  BY <1>2, UnnoticedLooks DEF Moves
<1>4. CASE now.seen[w] = s.seen[w]
  <2>1. t = s
    BY <1>1, <1>4, Zenon DEF StatTimerCb
  <2> QED
    BY <2>1 DEF Looked, Moves
<1>5. CASE now.seen[w] # s.seen[w]
  <2>1. PICK b : b = IF s.fs = "open" THEN Lstat(InfyAdd(InfyDel(now, w), w, ok), w) ELSE now
    OBVIOUS
  <2>2. t = [b EXCEPT !.pending = b.pending \cup {w}]
    BY <1>1, <1>5, <2>1, Zenon DEF StatTimerCb
  <2>3. Looked(now, b)
    <3>1. CASE s.fs = "open"
      <4>1. PICK a : a = InfyAdd(InfyDel(now, w), w, ok)
        OBVIOUS
      <4>2. Looked(now, a)
        BY <1>3, <3>1, <4>1, ReaddLooks
      <4>3. a \in StatRec /\ WatchesSound(a)
        BY <4>2 DEF Looked, Moves
      <4>4. b = Lstat(a, w)
        BY <2>1, <3>1, <4>1
      <4>5. Moves(a, b) /\ Unnoticed(a, b)
        BY <4>3, <4>4, LstatKeeps
      <4>6. Looked(a, b)
        BY <4>3, <4>5, UnnoticedLooks
      <4> QED
        BY <4>2, <4>6, LooksTrans
    <3>2. CASE s.fs # "open"
      BY <1>3, <2>1, <3>2 DEF Looked, Moves
    <3> QED
      BY <3>1, <3>2
  <2>4. b \in StatRec /\ WatchesSound(b)
    BY <2>3 DEF Looked, Moves
  <2>5. b.pending \cup {w} \in SUBSET Stats
    BY <2>4 DEF StatRec
  <2>6. Moves(b, t) /\ Unnoticed(b, t)
    BY <2>2, <2>4, <2>5, PendingKeeps
  <2>7. Looked(b, t)
    BY <2>4, <2>6, UnnoticedLooks
  <2>8. Looked(s, b)
    BY <1>3, <2>3, LooksTrans
  <2> QED
    BY <2>7, <2>8, LooksTrans
<1> QED
  BY <1>4, <1>5

\* What a call leaves in order, it leaves good.
LEMMA LookedGood ==
    ASSUME NEW s, NEW t, StatGood(s), Looked(s, t)
    PROVE  StatGood(t)
<1>1. t.lost \/ \A w \in t.active : Wakes(t, w)
  <2>1. SUFFICES ASSUME ~t.lost, NEW w \in t.active PROVE Wakes(t, w)
    OBVIOUS
  <2>2. w \in Stats /\ w \in s.active /\ ~s.lost /\ t.todo = s.todo
    BY <2>1 DEF StatGood, StatRec, Looked, Moves
  <2>3. Wakes(s, w)
    BY <2>2 DEF StatGood
  <2> QED
    BY <2>1, <2>2, <2>3 DEF Wakes, Looked
<1>2. \A w \in t.active : Placed(t, w)
  BY DEF StatGood, Looked, Moves, StatRec
<1> QED
  BY <1>1, <1>2 DEF StatGood, Looked, Moves

\* The count of operations is the bound's.
LEMMA FsOpGood ==
    ASSUME NEW s, NEW t, StatGood(s), t = FsOp(s)
    PROVE  StatGood(t)
<1>1. s \in StatRec /\ WatchesSound(s) /\ s.ops \in Nat
  BY DEF StatGood, StatRec
<1>2. PICK n \in Nat : n = s.ops + 1
  BY <1>1
<1>3. t = [s EXCEPT !.ops = n]
  BY <1>2 DEF FsOp
<1>4. t \in StatRec
  BY <1>1, <1>3 DEF StatRec
<1>5. /\ t.active = s.active /\ t.refs = s.refs /\ t.fs = s.fs /\ t.ino = s.ino
      /\ t.adding = s.adding /\ t.todo = s.todo
      /\ t.wd = s.wd /\ t.timer = s.timer /\ t.kq = s.kq /\ t.kw = s.kw /\ t.next = s.next /\ t.lost = s.lost
  BY <1>1, <1>3 DEF StatRec
<1>6. Unnoticed(s, t)
  BY <1>5 DEF Unnoticed
<1>7. WatchesSound(t)
  BY <1>1, <1>6, UnnoticedKeeps
<1>8. Moves(s, t)
  BY <1>4, <1>5, <1>7 DEF Moves
<1> QED
  BY <1>1, <1>6, <1>8, UnnoticedLooks, LookedGood

\* An event of the file or the directory: a watch that goes leaves word of it.
Notified(s, t, on, gone) ==
    /\ Moves(s, t) /\ t.wd = s.wd /\ t.timer = s.timer
    /\ \A e : Has(s.kq, e) => Has(t.kq, e)
    /\ (gone => \A k \in t.kw : k[2] # on)
    /\ \A k \in s.kw : k \in t.kw \/ (gone /\ k[2] = on /\ (t.lost \/ Has(t.kq, <<k[1], TRUE>>)))

LEMMA NotifyKeeps ==
    ASSUME NEW s \in StatRec, WatchesSound(s), NEW on \in Nat, NEW gone \in BOOLEAN,
           NEW t, t = Notify(s, on, gone)
    PROVE  Notified(s, t, on, gone)
<1>1. CASE WatchesOn(s, on) = {}
  <2>1. t = s
    BY <1>1 DEF Notify
  <2> QED
    BY <1>1, <2>1 DEF Notified, Moves, WatchesOn
<1>2. CASE WatchesOn(s, on) # {}
  <2>1. PICK k : k = CHOOSE x \in WatchesOn(s, on) : TRUE
    OBVIOUS
  <2>2. k \in s.kw /\ k[2] = on
    <3>1. k \in WatchesOn(s, on)
      BY <1>2, <2>1
    <3> QED
      BY <3>1 DEF WatchesOn
  <2>3. k[1] \in Int
    <3>1. s.kw \subseteq Nat \X Nat
      BY DEF StatRec
    <3> QED
      BY <2>2, <3>1
  <2>4. PICK u : u = IF gone THEN [s EXCEPT !.kw = s.kw \ {k}] ELSE s
    OBVIOUS
  <2>5. t = Queue(u, k[1], gone)
    BY <1>2, <2>1, <2>4, Zenon DEF Notify
  <2>6. /\ u \in StatRec /\ u.kw \subseteq s.kw
        /\ u.lost = s.lost /\ u.active = s.active /\ u.refs = s.refs /\ u.fs = s.fs /\ u.ino = s.ino
        /\ u.adding = s.adding /\ u.todo = s.todo /\ u.wd = s.wd /\ u.timer = s.timer
        /\ u.kq = s.kq /\ u.next = s.next
        /\ \A l \in s.kw : l \in u.kw \/ (gone /\ l = k)
        /\ gone => k \notin u.kw
    <3>1. CASE gone
      <4>1. PICK kws : kws = s.kw \ {k}
        OBVIOUS
      <4>2. u = [s EXCEPT !.kw = kws]
        BY <2>4, <3>1, <4>1
      <4>3. u.kw = kws /\ u \in StatRec
        BY <4>1, <4>2 DEF StatRec
      <4>4. /\ u.lost = s.lost /\ u.active = s.active /\ u.refs = s.refs /\ u.fs = s.fs /\ u.ino = s.ino
            /\ u.adding = s.adding /\ u.todo = s.todo /\ u.wd = s.wd /\ u.timer = s.timer
            /\ u.kq = s.kq /\ u.next = s.next
        BY <4>2 DEF StatRec
      <4> QED
        BY <3>1, <4>1, <4>3, <4>4
    <3>2. CASE ~gone
      BY <2>4, <3>2
    <3> QED
      BY <3>1, <3>2
  <2>7. Len(u.kq) <= MaxQueue \/ u.lost
    BY <2>6 DEF WatchesSound
  <2>8. /\ t \in StatRec /\ (u.lost => t.lost) /\ (Len(t.kq) <= MaxQueue \/ t.lost)
        /\ t.active = u.active /\ t.refs = u.refs /\ t.fs = u.fs /\ t.ino = u.ino
        /\ t.adding = u.adding /\ t.todo = u.todo /\ t.wd = u.wd /\ t.timer = u.timer
        /\ t.kw = u.kw /\ t.next = u.next
        /\ t.lost \/ Has(t.kq, <<k[1], gone>>)
        /\ \A e : Has(u.kq, e) => Has(t.kq, e)
    <3>1. EventQueued(u, t, k[1], gone)
      BY <2>3, <2>5, <2>6, <2>7, QueueKeeps, Zenon
    <3> QED
      BY <3>1 DEF EventQueued
  <2>9. WatchesSound(t)
    BY <2>6, <2>8 DEF WatchesSound
  <2>10. Moves(s, t)
    BY <2>6, <2>8, <2>9 DEF Moves
  <2>11. ASSUME NEW l \in s.kw PROVE l \in t.kw \/ (gone /\ l[2] = on /\ (t.lost \/ Has(t.kq, <<l[1], TRUE>>)))
    <3>1. CASE l \in u.kw
      BY <2>8, <3>1
    <3>2. CASE gone /\ l = k
      <4>1. gone = TRUE
        BY <3>2
      <4> QED
        BY <2>2, <2>8, <3>2, <4>1
    <3> QED
      BY <2>6, <3>1, <3>2
  <2>12. t.wd = s.wd /\ t.timer = s.timer /\ \A e : Has(s.kq, e) => Has(t.kq, e)
    BY <2>6, <2>8
  <2>13. ASSUME gone, NEW l \in t.kw PROVE l[2] # on
    BY <2>2, <2>6, <2>8, <2>13 DEF WatchesSound
  <2> QED
    BY <2>10, <2>11, <2>12, <2>13 DEF Notified
<1> QED
  BY <1>1, <1>2

\* A change of the file's inode and version.
Refile(s, i, n) == [s EXCEPT !.ino = i, !.ver = n]

Refiled(s, t) ==
    /\ t \in StatRec /\ t.active = s.active /\ t.refs = s.refs /\ t.fs = s.fs
    /\ t.adding = s.adding /\ t.todo = s.todo
    /\ t.wd = s.wd /\ t.timer = s.timer /\ t.kq = s.kq /\ t.kw = s.kw /\ t.next = s.next /\ t.lost = s.lost

LEMMA Refiles ==
    ASSUME NEW s \in StatRec, NEW i \in Nat, NEW n \in Nat, NEW t, t = Refile(s, i, n)
    PROVE  Refiled(s, t) /\ t.ino = i
<1>1. t \in StatRec /\ t.ino = i
  BY DEF StatRec, Refile
<1>2. /\ t.active = s.active /\ t.refs = s.refs /\ t.fs = s.fs
      /\ t.adding = s.adding /\ t.todo = s.todo
      /\ t.wd = s.wd /\ t.timer = s.timer /\ t.kq = s.kq /\ t.kw = s.kw /\ t.next = s.next /\ t.lost = s.lost
  BY DEF StatRec, Refile
<1> QED
  BY <1>1, <1>2 DEF Refiled

LEMMA RefiledGood ==
    ASSUME NEW s, NEW t, StatGood(s), Refiled(s, t),
           t.lost \/ \A w \in s.active : Awoken(s, w) => Awoken(t, w)
    PROVE  StatGood(t)
<1>1. t \in StatRec /\ WatchesSound(t)
  BY DEF StatGood, Refiled, WatchesSound
<1>2. \A w \in t.active : Placed(t, w)
  BY DEF StatGood, Refiled, Placed
<1>3. t.lost \/ \A w \in t.active : Wakes(t, w)
  BY DEF StatGood, Refiled, Wakes
<1> QED
  BY <1>1, <1>2, <1>3 DEF StatGood, Refiled

\* The file is written, deleted, or made.
LEMMA ModifiedGood == StatGood(st) /\ FileModified => StatGood(st')
<1>1. SUFFICES ASSUME StatGood(st), FileModified PROVE StatGood(st')
  OBVIOUS
<1>2. st \in StatRec /\ st.ver \in Nat /\ st.ino \in Nat
  BY <1>1 DEF StatGood, StatRec
<1>3. PICK n \in Nat : n = st.ver + 1
  BY <1>2
<1>4. PICK u : u = [st EXCEPT !.ver = n]
  OBVIOUS
<1>5. u = Refile(st, st.ino, n)
  BY <1>2, <1>4 DEF StatRec, Refile
<1>6. Refiled(st, u) /\ u.ino = st.ino
  <2>1. PICK i : i = st.ino
    OBVIOUS
  <2>2. st \in StatRec /\ i \in Nat /\ n \in Nat /\ u = Refile(st, i, n)
    BY <1>2, <1>3, <1>5, <2>1
  <2>3. Refiled(st, u) /\ u.ino = i
    BY <2>2, Refiles, Zenon
  <2> QED
    BY <2>1, <2>3
<1>7. StatGood(u)
  <2>1. \A w \in st.active : Awoken(st, w) => Awoken(u, w)
    BY <1>6 DEF Awoken, Refiled
  <2> QED
    BY <1>1, <1>6, <2>1, RefiledGood
<1>8. PICK t : t = Notify(u, st.ino, FALSE)
  OBVIOUS
<1>9. Notified(u, t, st.ino, FALSE)
  <2>1. u \in StatRec /\ WatchesSound(u) /\ FALSE \in BOOLEAN
    BY <1>7 DEF StatGood
  <2> QED
    BY <1>2, <1>8, <2>1, NotifyKeeps, Zenon
<1>10. Looked(u, t)
  BY <1>9 DEF Notified, Looked, Moves, Awoken, Placed
<1>11. StatGood(t)
  BY <1>7, <1>10, LookedGood
<1>12. st' = FsOp(t)
  BY <1>1, <1>3, <1>4, <1>8, Zenon DEF FileModified
<1> QED
  BY <1>11, <1>12, FsOpGood

LEMMA DeletedGood == StatGood(st) /\ FileDeleted => StatGood(st')
<1>1. SUFFICES ASSUME StatGood(st), FileDeleted PROVE StatGood(st')
  OBVIOUS
<1>2. st \in StatRec /\ WatchesSound(st) /\ st.ino \in Nat /\ TRUE \in BOOLEAN
  BY <1>1 DEF StatGood, StatRec
<1>3. PICK t : t = Notify(st, st.ino, TRUE)
  OBVIOUS
<1>4. Notified(st, t, st.ino, TRUE)
  BY <1>2, <1>3, NotifyKeeps, Zenon
<1>5. ASSUME NEW v \in Stats, Awoken(st, v)
      PROVE  t.lost \/ v \in t.timer \/ Has(t.kq, <<t.wd[v], TRUE>>)
  <2>1. CASE <<st.wd[v], st.ino>> \in st.kw
    BY <1>4, <2>1 DEF Notified
  <2>2. CASE ~(<<st.wd[v], st.ino>> \in st.kw)
    BY <1>4, <1>5, <2>2 DEF Notified, Awoken
  <2> QED
    BY <2>1, <2>2
<1>6. Looked(st, t)
  <2>1. \A v \in Stats : Awoken(st, v) => Awoken(t, v) \/ t.lost
    BY <1>5 DEF Awoken
  <2>2. \A v \in Stats : Placed(st, v) => Placed(t, v)
    BY <1>4 DEF Notified, Moves, Placed
  <2> QED
    BY <1>4, <2>1, <2>2 DEF Looked, Notified
<1>7. StatGood(t) /\ t \in StatRec /\ t.ver \in Nat
  BY <1>1, <1>6, LookedGood DEF StatGood, StatRec
<1>8. PICK u : u = [t EXCEPT !.ino = 0]
  OBVIOUS
<1>9. u = Refile(t, 0, t.ver) /\ 0 \in Nat
  BY <1>7, <1>8 DEF StatRec, Refile
<1>10. Refiled(t, u)
  BY <1>7, <1>9, Refiles, Zenon
<1>11. ASSUME NEW w \in t.active, Awoken(t, w) PROVE t.lost \/ Awoken(u, w)
  <2>1. ~(<<t.wd[w], t.ino>> \in t.kw)
    BY <1>4 DEF Notified, Moves
  <2> QED
    BY <1>10, <1>11, <2>1 DEF Awoken, Refiled
<1>12. StatGood(u)
  BY <1>7, <1>10, <1>11, RefiledGood DEF Refiled
<1>13. st' = FsOp(u)
  BY <1>1, <1>3, <1>8, Zenon DEF FileDeleted
<1> QED
  BY <1>12, <1>13, FsOpGood

LEMMA CreatedGood == StatGood(st) /\ FileCreated => StatGood(st')
<1>1. SUFFICES ASSUME StatGood(st), FileCreated PROVE StatGood(st')
  OBVIOUS
<1>2. st \in StatRec /\ WatchesSound(st) /\ st.ver \in Nat /\ st.ino = 0 /\ 0 \in Nat /\ FALSE \in BOOLEAN
  BY <1>1 DEF StatGood, StatRec, FileCreated
<1>3. PICK t : t = Notify(st, 0, FALSE)
  OBVIOUS
<1>4. Notified(st, t, 0, FALSE)
  BY <1>2, <1>3, NotifyKeeps, Zenon
<1>5. Looked(st, t)
  BY <1>4 DEF Notified, Looked, Moves, Awoken, Placed
<1>6. StatGood(t) /\ t \in StatRec /\ t.ver \in Nat /\ WatchesSound(t) /\ t.ino = 0
  BY <1>1, <1>2, <1>5, LookedGood DEF StatGood, StatRec, Looked, Moves
<1>7. PICK n \in Nat : n = st.ver + 1
  BY <1>2
<1>8. PICK m \in Nat : m = t.ver + 1
  BY <1>6
<1>9. PICK u : u = Refile(t, n, m)
  OBVIOUS
<1>10. Refiled(t, u)
  BY <1>6, <1>9, Refiles, Zenon
<1>11. ASSUME NEW w \in t.active, Awoken(t, w) PROVE Awoken(u, w)
  <2>1. w \in Stats
    BY <1>6 DEF StatRec
  <2>2. <<t.wd[w], t.ino>> \in t.kw => w \in t.timer
    BY <1>6, <2>1 DEF WatchesSound
  <2> QED
    BY <1>10, <1>11, <2>2 DEF Awoken, Refiled
<1>12. StatGood(u)
  BY <1>6, <1>10, <1>11, RefiledGood
<1>13. st' = FsOp(u)
  BY <1>1, <1>3, <1>7, <1>8, <1>9, Zenon DEF FileCreated, Refile
<1> QED
  BY <1>12, <1>13, FsOpGood

LEMMA TodoRec ==
    ASSUME NEW s \in StatRec, NEW td \in [Stats -> {"", "look", "gone", "fork"}], NEW t, t = [s EXCEPT !.todo = td]
    PROVE  t \in StatRec
  BY DEF StatRec

\* A watcher's turn is over.
LEMMA TurnDone ==
    ASSUME NEW s, StatGood(s), NEW w \in Stats, NEW t, t = [s EXCEPT !.todo[w] = ""],
           s.lost \/ Awoken(s, w) \/ w \notin s.active,
           w \in s.active => (s.fs = "open" /\ s.wd[w] # 0) \/ w \in s.timer
    PROVE  StatGood(t)
<1>1. s \in StatRec /\ WatchesSound(s) /\ s.todo \in [Stats -> {"", "look", "gone", "fork"}]
  BY DEF StatGood, StatRec
<1>2. PICK td : td = [s.todo EXCEPT ![w] = ""]
  OBVIOUS
<1>3. td \in [Stats -> {"", "look", "gone", "fork"}] /\ td[w] = "" /\ \A v \in Stats : v # w => td[v] = s.todo[v]
  BY <1>1, <1>2
<1>4. t = [s EXCEPT !.todo = td]
  BY <1>2
<1>5. t \in StatRec /\ t.todo = td
  <2>1. td \in [Stats -> {"", "look", "gone", "fork"}]
    BY <1>3
  <2>2. s \in StatRec
    BY <1>1
  <2>3. t \in StatRec
    BY <1>4, <2>1, <2>2, TodoRec, Zenon
  <2>4. t.todo = td
    BY <1>4, <2>2 DEF StatRec
  <2> QED
    BY <2>3, <2>4
<1>6. /\ t.active = s.active /\ t.refs = s.refs /\ t.fs = s.fs /\ t.ino = s.ino
      /\ t.adding = s.adding
      /\ t.wd = s.wd /\ t.timer = s.timer /\ t.kq = s.kq /\ t.kw = s.kw /\ t.next = s.next /\ t.lost = s.lost
  BY <1>1, <1>4 DEF StatRec
<1>7. Unnoticed(s, t)
  BY <1>6 DEF Unnoticed
<1>8. WatchesSound(t) /\ \A v : Awoken(s, v) => Awoken(t, v)
  BY <1>1, <1>7, UnnoticedKeeps
<1>9. t.active \subseteq Stats
  BY <1>5 DEF StatRec
<1>10. t.lost \/ \A v \in t.active : Wakes(t, v)
  BY <1>3, <1>5, <1>6, <1>8, <1>9 DEF Wakes, StatGood
<1>11. ASSUME NEW v \in t.active PROVE Placed(t, v)
  <2>1. v \in Stats /\ Placed(s, v)
    BY <1>6, <1>9 DEF StatGood
  <2>2. CASE v = w
    BY <1>6, <2>2 DEF Placed
  <2>3. CASE v # w
    <3>1. t.todo[v] = s.todo[v]
      BY <1>3, <1>5, <2>1, <2>3
    <3> QED
      BY <1>6, <2>1, <3>1 DEF Placed
  <2> QED
    BY <2>2, <2>3
<1>12. \A v \in Stats : t.todo[v] \in {"look", "gone"} => t.fs = "open"
  BY <1>3, <1>5, <1>6 DEF StatGood
<1> QED
  BY <1>5, <1>6, <1>8, <1>10, <1>11, <1>12 DEF StatGood

\* infy_cb: who waits for the event that it takes has its turn.
LEMMA CbGood == StatGood(st) /\ InfyCb => StatGood(st')
<1>1. SUFFICES ASSUME StatGood(st), InfyCb PROVE StatGood(st')
  OBVIOUS
<1>2. /\ st \in StatRec /\ WatchesSound(st) /\ st.fs = "open" /\ st.kq # <<>>
      /\ st.todo = [w \in Stats |-> ""] /\ st.kq \in Seq(Int \X BOOLEAN)
  BY <1>1 DEF StatGood, StatRec, InfyCb, Idle
<1>3. PICK e : e = Head(st.kq)
  OBVIOUS
<1>4. PICK q : q = Tail(st.kq)
  OBVIOUS
<1>5. /\ q \in Seq(Int \X BOOLEAN) /\ Len(q) = Len(st.kq) - 1 /\ Len(st.kq) \in Nat /\ Len(st.kq) > 0
      /\ \A i \in 1 .. Len(q) : q[i] = st.kq[i + 1]
      /\ e = st.kq[1]
  <2>1. st.kq \in Seq(Int \X BOOLEAN) /\ st.kq # <<>>
    BY <1>2
  <2>2. /\ Tail(st.kq) \in Seq(Int \X BOOLEAN) /\ Len(Tail(st.kq)) = Len(st.kq) - 1
        /\ \A i \in 1 .. Len(Tail(st.kq)) : Tail(st.kq)[i] = st.kq[i + 1]
    BY <2>1, HeadTailProperties, Zenon
  <2>3. Len(st.kq) \in Nat \ {0}
    BY <2>1, EmptySeq, Zenon
  <2>4. Len(st.kq) \in Nat /\ Len(st.kq) > 0
    BY <2>3
  <2>5. e = st.kq[1]
    BY <1>3, <2>1
  <2> QED
    BY <1>4, <2>2, <2>4, <2>5, Zenon
<1>6. PICK td : td = [w \in Stats |-> IF st.wd[w] # 0 /\ e[1] \in {st.wd[w], -1}
                                      THEN IF e[2] THEN "gone" ELSE "look" ELSE ""]
  OBVIOUS
<1>7. td \in [Stats -> {"", "look", "gone", "fork"}]
  BY <1>6
<1>8. st' = [st EXCEPT !.kq = q, !.todo = td]
  BY <1>1, <1>3, <1>4, <1>6, Zenon DEF InfyCb
<1>9. PICK t : t = st'
  OBVIOUS
<1>10. t \in StatRec /\ t.kq = q /\ t.todo = td
  <2>1. q \in Seq(Int \X BOOLEAN)
    BY <1>5
  <2>2. t \in StatRec
    BY <1>2, <1>7, <1>8, <1>9, <2>1 DEF StatRec
  <2>3. t.kq = q /\ t.todo = td
    BY <1>2, <1>8, <1>9 DEF StatRec
  <2> QED
    BY <2>2, <2>3
<1>11. /\ t.active = st.active /\ t.refs = st.refs /\ t.fs = st.fs /\ t.ino = st.ino
       /\ t.adding = st.adding
       /\ t.wd = st.wd /\ t.timer = st.timer /\ t.kw = st.kw /\ t.next = st.next /\ t.lost = st.lost
  BY <1>2, <1>8, <1>9 DEF StatRec
<1>12. WatchesSound(t)
  <2>1. Len(q) <= MaxQueue \/ t.lost
    <3>1. Len(st.kq) <= MaxQueue \/ st.lost
      BY <1>2 DEF WatchesSound
    <3>2. Len(q) = Len(st.kq) - 1 /\ Len(st.kq) \in Nat /\ MaxQueue \in Nat
      BY <1>5, StatAssumption
    <3>3. Len(st.kq) <= MaxQueue => Len(q) <= MaxQueue
      BY <3>2
    <3> QED
      BY <1>11, <3>1, <3>3
  <2> QED
    BY <1>2, <1>10, <1>11, <2>1 DEF WatchesSound
<1>13. ASSUME ~t.lost, NEW w \in t.active PROVE Wakes(t, w)
  <2>1. w \in Stats /\ w \in st.active /\ st.todo[w] = ""
    BY <1>2, <1>11 DEF StatRec
  <2>2. Awoken(st, w)
    BY <1>1, <1>11, <1>13, <2>1 DEF StatGood, Wakes
  <2>3. CASE w \in st.timer \/ <<st.wd[w], st.ino>> \in st.kw
    BY <1>11, <2>3 DEF Wakes, Awoken
  <2>4. CASE w \notin st.timer /\ Has(st.kq, <<st.wd[w], TRUE>>)
    <3>1. PICK i \in 1 .. Len(st.kq) : st.kq[i] = <<st.wd[w], TRUE>>
      BY <2>4 DEF Has
    <3>2. CASE i = 1
      <4>1. e = <<st.wd[w], TRUE>>
        BY <1>5, <3>1, <3>2
      <4>2. st.wd[w] # 0
        BY <1>1, <1>2, <2>1, <2>4 DEF StatGood, Placed
      <4>3. td[w] = "gone"
        BY <1>6, <2>1, <4>1, <4>2
      <4> QED
        BY <1>10, <4>3 DEF Wakes
    <3>3. CASE i # 1
      <4>1. i - 1 \in 1 .. Len(q) /\ (i - 1) + 1 = i
        BY <1>5, <3>1, <3>3
      <4>2. q[i - 1] = <<st.wd[w], TRUE>>
        BY <1>5, <3>1, <4>1
      <4>3. Has(q, <<st.wd[w], TRUE>>)
        BY <4>1, <4>2 DEF Has
      <4> QED
        BY <1>10, <1>11, <4>3 DEF Wakes, Awoken
    <3> QED
      BY <3>2, <3>3
  <2> QED
    BY <2>2, <2>3, <2>4 DEF Awoken
<1>14. ASSUME NEW w \in t.active PROVE Placed(t, w)
  <2>1. w \in Stats /\ w \in st.active /\ st.todo[w] = ""
    BY <1>2, <1>11 DEF StatRec
  <2> QED
    BY <1>1, <1>2, <1>11, <2>1 DEF StatGood, Placed
<1>15. StatGood(t)
  BY <1>1, <1>2, <1>10, <1>11, <1>12, <1>13, <1>14 DEF StatGood
<1> QED
  BY <1>9, <1>15

\* infy_add for a watcher that has lost its wd.
LEMMA AddedGood ==
    ASSUME NEW s, StatGood(s), NEW w \in Stats, s.fs = "open", NEW t, Added(s, t, w)
    PROVE  StatGood(t)
<1>1. Moves(s, t) /\ t \in StatRec /\ WatchesSound(t) /\ s.active \in SUBSET Stats
  BY DEF Added, Moves, StatGood, StatRec
<1>2. ASSUME ~t.lost, NEW v \in t.active PROVE Wakes(t, v)
  <2>1. v \in Stats /\ v \in s.active /\ ~s.lost /\ t.todo = s.todo
    BY <1>1, <1>2 DEF Moves, Added
  <2>2. Wakes(s, v)
    BY <2>1 DEF StatGood
  <2> QED
    BY <2>1, <2>2 DEF Wakes, Added
<1>3. ASSUME NEW v \in t.active PROVE Placed(t, v)
  <2>1. v \in Stats /\ v \in s.active /\ t.todo = s.todo /\ t.fs = s.fs
    BY <1>1 DEF Moves
  <2>2. Placed(s, v)
    BY <2>1 DEF StatGood
  <2> QED
    BY <2>1, <2>2 DEF Placed, Added
<1> QED
  BY <1>1, <1>2, <1>3 DEF StatGood, Moves

\* infy_wd, for one watcher.
LEMMA TurnGood == ASSUME NEW w \in Stats PROVE StatGood(st) /\ InfyTurn(w) => StatGood(st')
<1>1. SUFFICES ASSUME StatGood(st), InfyTurn(w) PROVE StatGood(st')
  OBVIOUS
<1>2. st \in StatRec /\ WatchesSound(st) /\ st.fs = "open" /\ st.todo[w] \in {"look", "gone"}
  BY <1>1 DEF StatGood, InfyTurn
<1>0. PICK readd \in BOOLEAN, ok \in BOOLEAN : st' = InfyWd(st, w, readd, ok)
  BY <1>1 DEF InfyTurn
<1>3. PICK a : a = IF st.todo[w] = "gone" THEN InfyAdd(Unhash(st, w), w, readd) ELSE st
  OBVIOUS
<1>4. /\ StatGood(a) /\ a.fs = "open" /\ a.todo = st.todo
      /\ w \in a.active => (a.wd[w] # 0 \/ w \in a.timer) /\ (a.lost \/ Awoken(a, w))
  <2>1. CASE st.todo[w] = "gone"
    <3>1. PICK u : u = Unhash(st, w)
      OBVIOUS
    <3>2. Forgotten(st, u, w)
      BY <1>2, <3>1, ForgetKeeps, Zenon
    <3>3. u \in StatRec /\ WatchesSound(u)
      BY <3>2 DEF Moves, Forgotten
    <3>4. Added(u, a, w)
      BY <1>3, <2>1, <3>1, <3>3, AddKeeps, Zenon
    <3>5. Added(st, a, w)
      <4>1. Moves(st, a)
        BY <3>2, <3>4 DEF Added, Moves, Forgotten
      <4> QED
        BY <3>2, <3>4, <4>1 DEF Added, Forgotten
    <3>6. StatGood(a)
      BY <1>1, <1>2, <3>5, AddedGood
    <3> QED
      BY <1>2, <3>5, <3>6 DEF Added, Moves
  <2>2. CASE st.todo[w] # "gone"
    <3>1. a = st /\ st.todo[w] = "look"
      BY <1>2, <1>3, <2>2
    <3> QED
      BY <1>1, <1>2, <3>1 DEF StatGood, Wakes, Placed
  <2> QED
    BY <2>1, <2>2
<1>5. PICK b : b = StatTimerCb(a, w, ok)
  OBVIOUS
<1>6. Looked(a, b)
  BY <1>4, <1>5, TimerCbLooks DEF StatGood
<1>7. StatGood(b) /\ b.fs = "open" /\ b.active = a.active
  BY <1>4, <1>6, LookedGood DEF Looked, Moves
<1>8. st' = [b EXCEPT !.todo[w] = ""]
  BY <1>0, <1>3, <1>5, Zenon DEF InfyWd
<1>9. b.lost \/ Awoken(b, w) \/ w \notin b.active
  BY <1>4, <1>6, <1>7 DEF Looked, Moves
<1>10. w \in b.active => b.wd[w] # 0 \/ w \in b.timer
  <2>1. b.todo[w] # "fork"
    BY <1>2, <1>4, <1>6 DEF Looked, Moves
  <2> QED
    BY <1>7, <2>1 DEF StatGood, Placed
<1> QED
  BY <1>7, <1>8, <1>9, <1>10, TurnDone

\* The poll timer, and the callback.
LEMMA PollGood == ASSUME NEW w \in Stats PROVE StatGood(st) /\ StatTimer(w) => StatGood(st')
<1>1. SUFFICES ASSUME StatGood(st), StatTimer(w) PROVE StatGood(st')
  OBVIOUS
<1>2. PICK ok \in BOOLEAN : st' = StatTimerCb(st, w, ok) /\ st \in StatRec /\ WatchesSound(st)
  BY <1>1 DEF StatTimer, StatGood
<1>3. PICK t : t = StatTimerCb(st, w, ok)
  OBVIOUS
<1> QED
  BY <1>1, <1>2, <1>3, TimerCbLooks, LookedGood

LEMMA InvokeGood == ASSUME NEW w \in Stats PROVE StatGood(st) /\ StatInvoke(w) => StatGood(st')
<1>1. SUFFICES ASSUME StatGood(st), StatInvoke(w) PROVE StatGood(st')
  OBVIOUS
<1>2. PICK P : P = st.pending \ {w}
  OBVIOUS
<1>3. PICK t : t = [st EXCEPT !.pending = P]
  OBVIOUS
<1>4. st \in StatRec /\ WatchesSound(st) /\ P \in SUBSET Stats
  BY <1>1, <1>2 DEF StatGood, StatRec
<1>5. Moves(st, t) /\ Unnoticed(st, t)
  BY <1>3, <1>4, PendingKeeps, Zenon
<1>6. st' = t
  BY <1>1, <1>2, <1>3, Zenon DEF StatInvoke
<1> QED
  BY <1>1, <1>4, <1>5, <1>6, UnnoticedLooks, LookedGood

\* ev_stat_start.
LEMMA StartGood == ASSUME NEW w \in Stats PROVE StatGood(st) /\ StatStart(w) => StatGood(st')
<1>1. SUFFICES ASSUME StatGood(st), StatStart(w) PROVE StatGood(st')
  OBVIOUS
<1>2. PICK ok \in {"open", "none"} : /\ st.fs # "unused" => ok = st.fs
                                     /\ st' = FsOp([Lstat(st, w) EXCEPT !.fs = ok, !.adding = {w}])
  BY <1>1 DEF StatStart
<1>3. PICK l : l = Lstat(st, w)
  OBVIOUS
<1>4. /\ st \in StatRec /\ WatchesSound(st) /\ w \notin st.active
      /\ st.adding = {} /\ st.todo = [v \in Stats |-> ""]
  BY <1>1 DEF StatGood, StatStart, Idle
<1>5. Moves(st, l) /\ Unnoticed(st, l)
  BY <1>3, <1>4, LstatKeeps
<1>6. StatGood(l)
  BY <1>1, <1>4, <1>5, UnnoticedLooks, LookedGood
<1>7. l \in StatRec /\ WatchesSound(l) /\ l.active = st.active /\ l.todo = st.todo /\ l.fs = st.fs
  BY <1>5 DEF Moves
<1>8. PICK t : t = [l EXCEPT !.fs = ok, !.adding = {w}]
  OBVIOUS
<1>9. ok \in {"unused", "none", "open"} /\ {w} \in SUBSET Stats
  OBVIOUS
<1>10. t \in StatRec /\ t.fs = ok /\ t.adding = {w}
  BY <1>7, <1>8, <1>9 DEF StatRec
<1>11. /\ t.active = l.active /\ t.refs = l.refs /\ t.ino = l.ino /\ t.todo = l.todo
       /\ t.wd = l.wd /\ t.timer = l.timer /\ t.kq = l.kq /\ t.kw = l.kw /\ t.next = l.next /\ t.lost = l.lost
  BY <1>7, <1>8 DEF StatRec
<1>12. Unnoticed(l, t)
  BY <1>11 DEF Unnoticed
<1>13. WatchesSound(t) /\ \A v : Awoken(l, v) => Awoken(t, v)
  BY <1>7, <1>12, UnnoticedKeeps
<1>14. t.lost \/ \A v \in t.active : Wakes(t, v)
  BY <1>6, <1>11, <1>13 DEF StatGood, Wakes
<1>15. st.fs = ok \/ t.active = {}
  BY <1>1, <1>2, <1>7, <1>11 DEF StatGood
<1>16. \A v \in t.active : Placed(t, v)
  BY <1>6, <1>7, <1>10, <1>11, <1>15 DEF StatGood, Placed
<1>17. \A v \in Stats : t.todo[v] \notin {"look", "gone"}
  BY <1>4, <1>7, <1>11
<1>18. ok # "unused" /\ \A v \in t.adding : v \notin t.active
  BY <1>4, <1>7, <1>10, <1>11
<1>19. t.refs = Cardinality(t.active)
  BY <1>6, <1>11 DEF StatGood
<1>20. StatGood(t)
  BY <1>10, <1>13, <1>14, <1>16, <1>17, <1>18, <1>19 DEF StatGood
<1> QED
  BY <1>2, <1>3, <1>8, <1>20, FsOpGood

LEMMA StartedGood == ASSUME NEW w \in Stats PROVE StatGood(st) /\ StatStarted(w) => StatGood(st')
<1>1. SUFFICES ASSUME StatGood(st), StatStarted(w) PROVE StatGood(st')
  OBVIOUS
<1>2. st \in StatRec /\ WatchesSound(st) /\ w \notin st.active /\ st.timer \in SUBSET Stats
  BY <1>1 DEF StatGood, StatStarted, StatRec
<1>0. PICK ok \in BOOLEAN :
        st' = [(IF st.fs = "open" THEN InfyAdd(st, w, ok) ELSE [st EXCEPT !.timer = st.timer \cup {w}])
               EXCEPT !.adding = {}, !.active = @ \cup {w}, !.refs = @ + 1]
  BY <1>1 DEF StatStarted
<1>3. PICK a : a = IF st.fs = "open" THEN InfyAdd(st, w, ok) ELSE [st EXCEPT !.timer = st.timer \cup {w}]
  OBVIOUS
<1>4. StatGood(a) /\ a.active = st.active /\ Awoken(a, w) /\ ((a.fs = "open" /\ a.wd[w] # 0) \/ w \in a.timer)
      /\ (a.fs = "unused" => st.fs = "unused")
  <2>1. CASE st.fs = "open"
    <3>1. Added(st, a, w)
      BY <1>2, <1>3, <2>1, AddKeeps, Zenon
    <3>2. StatGood(a)
      BY <1>1, <2>1, <3>1, AddedGood
    <3> QED
      BY <2>1, <3>1, <3>2 DEF Added, Moves
  <2>2. CASE st.fs # "open"
    <3>1. PICK tm : tm = st.timer \cup {w}
      OBVIOUS
    <3>2. a = [st EXCEPT !.timer = tm] /\ tm \in SUBSET Stats
      BY <1>2, <1>3, <2>2, <3>1
    <3>3. a \in StatRec /\ a.timer = tm
      BY <1>2, <3>2 DEF StatRec
    <3>4. /\ a.active = st.active /\ a.refs = st.refs /\ a.fs = st.fs /\ a.ino = st.ino
          /\ a.adding = st.adding /\ a.todo = st.todo
          /\ a.wd = st.wd /\ a.kq = st.kq /\ a.kw = st.kw /\ a.next = st.next /\ a.lost = st.lost
      BY <1>2, <3>2 DEF StatRec
    <3>5. WatchesSound(a)
      BY <1>2, <3>1, <3>3, <3>4 DEF WatchesSound
    <3>6. Moves(st, a)
      BY <3>3, <3>4, <3>5 DEF Moves
    <3>7. \A v : (Awoken(st, v) => Awoken(a, v)) /\ (Placed(st, v) => Placed(a, v))
      BY <3>1, <3>3, <3>4 DEF Awoken, Placed
    <3>8. StatGood(a)
      BY <1>1, <3>6, <3>7, LookedGood DEF Looked
    <3> QED
      BY <2>2, <3>1, <3>3, <3>4, <3>8 DEF Awoken
  <2> QED
    BY <2>1, <2>2
<1>5. PICK A : A = a.active \cup {w}
  OBVIOUS
<1>6. PICK n : n = a.refs + 1
  OBVIOUS
<1>7. PICK t : t = [a EXCEPT !.adding = {}, !.active = A, !.refs = n]
  OBVIOUS
<1>8. a \in StatRec /\ A \in SUBSET Stats /\ n \in Int /\ {} \in SUBSET Stats
  <2>1. a \in StatRec
    BY <1>4 DEF StatGood
  <2>2. a.active \in SUBSET Stats /\ a.refs \in Int
    BY <2>1 DEF StatRec
  <2> QED
    BY <1>5, <1>6, <2>1, <2>2
<1>9. t \in StatRec /\ t.adding = {} /\ t.active = A /\ t.refs = n
  BY <1>7, <1>8 DEF StatRec
<1>10. /\ t.fs = a.fs /\ t.ino = a.ino /\ t.todo = a.todo
       /\ t.wd = a.wd /\ t.timer = a.timer /\ t.kq = a.kq /\ t.kw = a.kw /\ t.next = a.next /\ t.lost = a.lost
  BY <1>7, <1>8 DEF StatRec
<1>11. Unnoticed(a, t)
  BY <1>10 DEF Unnoticed
<1>12. WatchesSound(t) /\ \A v : Awoken(a, v) => Awoken(t, v)
  <2>1. WatchesSound(a)
    BY <1>4 DEF StatGood
  <2> QED
    BY <1>11, <2>1, UnnoticedKeeps
<1>13. t.lost \/ \A v \in t.active : Wakes(t, v)
  BY <1>4, <1>5, <1>9, <1>10, <1>12 DEF StatGood, Wakes
<1>14. \A v \in t.active : Placed(t, v)
  <2>1. \A v \in a.active : Placed(a, v)
    BY <1>4 DEF StatGood
  <2> QED
    BY <1>4, <1>5, <1>9, <1>10, <2>1 DEF Placed
<1>15. t.refs = Cardinality(t.active)
  <2>1. IsFiniteSet(a.active) /\ a.refs = Cardinality(a.active) /\ w \notin a.active
    BY <1>2, <1>4, <1>8, StatAssumption, FS_Subset DEF StatGood, StatRec
  <2>2. Cardinality(A) = Cardinality(a.active) + 1
    BY <1>5, <2>1, FS_AddElement
  <2> QED
    BY <1>6, <1>9, <2>1, <2>2
<1>16. t.fs # "unused"
  BY <1>1, <1>2, <1>4, <1>10 DEF StatGood, StatStarted
<1>17. \A v \in Stats : t.todo[v] \in {"look", "gone"} => t.fs = "open"
  BY <1>4, <1>10 DEF StatGood
<1>18. StatGood(t)
  BY <1>9, <1>12, <1>13, <1>14, <1>15, <1>16, <1>17 DEF StatGood
<1>19. st' = t
  BY <1>0, <1>3, <1>5, <1>6, <1>7, Zenon
<1> QED
  BY <1>18, <1>19

\* ev_stat_stop.
LEMMA StopGood == ASSUME NEW w \in Stats PROVE StatGood(st) /\ StatStop(w) => StatGood(st')
<1>1. SUFFICES ASSUME StatGood(st), StatStop(w) PROVE StatGood(st')
  OBVIOUS
<1>2. /\ st \in StatRec /\ WatchesSound(st) /\ w \in st.active
      /\ st.adding = {} /\ st.todo = [v \in Stats |-> ""]
  BY <1>1 DEF StatGood, StatStop, Idle
<1>3. PICK P : P = st.pending \ {w}
  OBVIOUS
<1>4. PICK p : p = [st EXCEPT !.pending = P]
  OBVIOUS
<1>5. StatGood(p) /\ Moves(st, p)
  <2>1. P \in SUBSET Stats
    BY <1>2, <1>3 DEF StatRec
  <2>2. Moves(st, p) /\ Unnoticed(st, p)
    BY <1>2, <1>4, <2>1, PendingKeeps, Zenon
  <2> QED
    BY <1>1, <1>2, <2>2, UnnoticedLooks, LookedGood
<1>6. PICK g : g = InfyDel(p, w)
  OBVIOUS
<1>7. WatchDropped(p, g, w)
  BY <1>5, <1>6, DelKeeps, Zenon DEF StatGood
<1>8. /\ g \in StatRec /\ WatchesSound(g) /\ g.active = st.active /\ g.refs = st.refs /\ g.fs = st.fs
      /\ g.adding = {} /\ g.todo = [v \in Stats |-> ""]
  BY <1>2, <1>5, <1>7 DEF WatchDropped, Moves
<1>9. PICK tm : tm = g.timer \ {w}
  OBVIOUS
<1>10. PICK A : A = g.active \ {w}
  OBVIOUS
<1>11. PICK n : n = g.refs + ((One(w \in g.timer) - One(w \in g.timer)) - 1)
  OBVIOUS
<1>12. PICK t : t = [g EXCEPT !.timer = tm, !.active = A, !.refs = n]
  OBVIOUS
<1>13. g.timer \in SUBSET Stats /\ g.active \in SUBSET Stats /\ g.refs \in Int /\ g.wd \in [Stats -> Nat]
  BY <1>8 DEF StatRec
<1>14. n = g.refs - 1 /\ n \in Int
  <2>1. One(w \in g.timer) \in Int
    BY DEF One
  <2> QED
    BY <1>11, <1>13, <2>1
<1>15. tm \in SUBSET Stats /\ A \in SUBSET Stats
  BY <1>9, <1>10, <1>13
<1>16. t \in StatRec /\ t.timer = tm /\ t.active = A /\ t.refs = n
  BY <1>8, <1>12, <1>14, <1>15 DEF StatRec
<1>17. /\ t.fs = g.fs /\ t.ino = g.ino /\ t.todo = g.todo /\ t.adding = g.adding
       /\ t.wd = g.wd /\ t.kq = g.kq /\ t.kw = g.kw /\ t.next = g.next /\ t.lost = g.lost
  BY <1>8, <1>12 DEF StatRec
<1>18. WatchesSound(t)
  <2>1. ASSUME NEW v \in Stats, <<t.wd[v], 0>> \in t.kw PROVE v \in t.timer
    <3>1. v \in g.timer
      BY <1>8, <1>17, <2>1 DEF WatchesSound
    <3>2. t.wd[v] # 0
      <4>1. <<t.wd[v], 0>>[1] # 0
        BY <1>8, <1>17, <2>1 DEF WatchesSound
      <4> QED
        BY <4>1
    <3>3. v # w
      BY <1>7, <1>17, <3>2 DEF WatchDropped
    <3> QED
      BY <1>9, <1>16, <3>1, <3>3
  <2> QED
    BY <1>8, <1>17, <2>1 DEF WatchesSound
<1>19. ASSUME ~t.lost, NEW v \in t.active PROVE Wakes(t, v)
  <2>1. v \in Stats /\ v # w /\ v \in p.active /\ ~g.lost /\ ~p.lost /\ p.todo[v] = ""
    <3>1. v \in g.active /\ v # w /\ v \in Stats
      BY <1>10, <1>13, <1>16
    <3>2. v \in p.active
      BY <1>5, <1>8, <3>1 DEF Moves
    <3>3. ~g.lost
      BY <1>17, <1>19
    <3>4. ~p.lost
      BY <1>7, <3>3 DEF Moves, WatchDropped
    <3>5. p.todo[v] = ""
      BY <1>2, <1>5, <3>1 DEF Moves
    <3> QED
      BY <3>1, <3>2, <3>3, <3>4, <3>5
  <2>2. Awoken(p, v)
    BY <1>5, <2>1 DEF StatGood, Wakes
  <2>3. Awoken(g, v)
    BY <1>7, <2>1, <2>2 DEF WatchDropped
  <2> QED
    BY <1>9, <1>16, <1>17, <2>1, <2>3 DEF Awoken, Wakes
<1>20. ASSUME NEW v \in t.active PROVE Placed(t, v)
  <2>1. v \in Stats /\ v # w /\ v \in p.active
    BY <1>5, <1>8, <1>10, <1>13, <1>16 DEF Moves
  <2>2. Placed(p, v) /\ g.wd[v] = p.wd[v] /\ g.timer = p.timer /\ g.fs = p.fs /\ g.todo = p.todo
    BY <1>5, <1>7, <2>1 DEF StatGood, WatchDropped, Moves
  <2> QED
    BY <1>9, <1>16, <1>17, <2>1, <2>2 DEF Placed
<1>21. t.refs = Cardinality(t.active)
  <2>1. IsFiniteSet(g.active) /\ g.refs = Cardinality(g.active) /\ w \in g.active
    BY <1>1, <1>2, <1>8, <1>13, StatAssumption, FS_Subset DEF StatGood
  <2>2. Cardinality(A) = Cardinality(g.active) - 1
    BY <1>10, <2>1, FS_RemoveElement
  <2> QED
    BY <1>14, <1>16, <2>1, <2>2
<1>22. t.fs = "unused" => t.active = {} /\ t.adding = {}
  BY <1>1, <1>2, <1>8, <1>17 DEF StatGood
<1>23. (\A v \in Stats : t.todo[v] \notin {"look", "gone"}) /\ t.adding = {}
  BY <1>8, <1>17
<1>24. StatGood(t)
  BY <1>16, <1>18, <1>19, <1>20, <1>21, <1>22, <1>23 DEF StatGood
<1>25. st' = FsOp(t)
  BY <1>1, <1>3, <1>4, <1>6, <1>9, <1>10, <1>11, <1>12, Zenon DEF StatStop
<1> QED
  BY <1>24, <1>25, FsOpGood

\* infy_fork: every watcher has its turn.
LEMMA ForkGood == StatGood(st) /\ InfyFork => StatGood(st')
<1>1. SUFFICES ASSUME StatGood(st), InfyFork PROVE StatGood(st')
  OBVIOUS
<1>2. /\ st \in StatRec /\ WatchesSound(st) /\ st.fs = "open"
      /\ st.adding = {} /\ st.todo = [v \in Stats |-> ""]
  BY <1>1 DEF StatGood, InfyFork, Idle
<1>3. PICK wds : wds = [w \in Stats |-> 0]
  OBVIOUS
<1>4. PICK td : td = [w \in Stats |-> IF st.wd[w] # 0 THEN "fork" ELSE ""]
  OBVIOUS
<1>5. PICK fs \in {"open", "none"} :
        st' = FsOp([st EXCEPT !.fs = fs, !.kw = {}, !.kq = <<>>, !.wd = wds, !.todo = td])
  BY <1>1, <1>3, <1>4, Zenon DEF InfyFork
<1>6. PICK t : t = [st EXCEPT !.fs = fs, !.kw = {}, !.kq = <<>>, !.wd = wds, !.todo = td]
  OBVIOUS
<1>7. /\ wds \in [Stats -> Nat] /\ td \in [Stats -> {"", "look", "gone", "fork"}]
      /\ fs \in {"unused", "none", "open"} /\ {} \in SUBSET (Nat \X Nat)
  BY <1>3, <1>4
<1>8. <<>> \in Seq(Int \X BOOLEAN) /\ Len(<<>>) = 0
  BY EmptySeq, Zenon
<1>9. t \in StatRec /\ t.fs = fs /\ t.kw = {} /\ t.kq = <<>> /\ t.wd = wds /\ t.todo = td
  <2>1. t \in StatRec
    BY <1>2, <1>6, <1>7, <1>8 DEF StatRec
  <2>2. t.fs = fs /\ t.kw = {} /\ t.kq = <<>> /\ t.wd = wds /\ t.todo = td
    BY <1>2, <1>6 DEF StatRec
  <2> QED
    BY <2>1, <2>2
<1>10. /\ t.active = st.active /\ t.refs = st.refs /\ t.adding = st.adding
       /\ t.timer = st.timer /\ t.next = st.next /\ t.lost = st.lost
  BY <1>2, <1>6 DEF StatRec
<1>11. WatchesSound(t)
  <2>1. st.next \in Nat /\ st.next # 0 /\ MaxQueue \in Nat
    BY <1>2, StatAssumption DEF WatchesSound, StatRec
  <2>2. 0 < st.next /\ 0 <= MaxQueue
    BY <2>1
  <2>3. \A w \in Stats : wds[w] = 0
    BY <1>3
  <2>4. \A w \in Stats : t.wd[w] < t.next
    BY <1>9, <1>10, <2>2, <2>3
  <2>5. Len(t.kq) <= MaxQueue
    BY <1>8, <1>9, <2>2
  <2> QED
    BY <1>9, <1>10, <2>1, <2>4, <2>5 DEF WatchesSound
<1>12. ASSUME NEW w \in t.active PROVE t.todo[w] = "fork" \/ w \in t.timer
  <2>1. w \in Stats /\ w \in st.active /\ st.todo[w] = ""
    BY <1>2, <1>10 DEF StatRec
  <2>2. st.wd[w] # 0 \/ w \in st.timer
    BY <1>1, <1>2, <2>1 DEF StatGood, Placed
  <2> QED
    BY <1>4, <1>9, <1>10, <2>1, <2>2
<1>13. \A w \in t.active : Wakes(t, w) /\ Placed(t, w)
  BY <1>12 DEF Wakes, Awoken, Placed
<1>14. \A w \in Stats : t.todo[w] \notin {"look", "gone"}
  BY <1>4, <1>9
<1>15. StatGood(t)
  <2>1. t.fs # "unused" /\ t.adding = {} /\ t.refs = Cardinality(t.active)
    BY <1>1, <1>2, <1>9, <1>10 DEF StatGood
  <2> QED
    BY <1>9, <1>11, <1>13, <1>14, <2>1 DEF StatGood
<1> QED
  BY <1>5, <1>6, <1>15, FsOpGood

LEMMA ForkedGood == ASSUME NEW w \in Stats PROVE StatGood(st) /\ InfyForked(w) => StatGood(st')
<1>1. SUFFICES ASSUME StatGood(st), InfyForked(w) PROVE StatGood(st')
  OBVIOUS
<1>2. st \in StatRec /\ WatchesSound(st) /\ st.timer \in SUBSET Stats
  BY <1>1 DEF StatGood, StatRec
<1>0. PICK ok \in BOOLEAN :
        st' = [(IF st.fs = "open" THEN InfyAdd(st, w, ok) ELSE TimerAgain(st, w, TRUE)) EXCEPT !.todo[w] = ""]
  BY <1>1 DEF InfyForked
<1>3. PICK a : a = IF st.fs = "open" THEN InfyAdd(st, w, ok) ELSE TimerAgain(st, w, TRUE)
  OBVIOUS
<1>4. StatGood(a) /\ Awoken(a, w) /\ ((a.fs = "open" /\ a.wd[w] # 0) \/ w \in a.timer)
  <2>1. CASE st.fs = "open"
    <3>1. Added(st, a, w)
      BY <1>2, <1>3, <2>1, AddKeeps, Zenon
    <3>2. StatGood(a)
      BY <1>1, <2>1, <3>1, AddedGood
    <3> QED
      BY <2>1, <3>1, <3>2 DEF Added, Moves
  <2>2. CASE st.fs # "open"
    <3>1. a = TimerAgain(st, w, TRUE) /\ TRUE \in BOOLEAN
      BY <1>3, <2>2
    <3>2. StatRearmed(st, a, w, TRUE)
      BY <1>2, <3>1, AgainKeeps, Zenon
    <3>3. a.timer = st.timer \cup {w}
      BY <3>2 DEF StatRearmed
    <3>4. WatchesSound(a)
      BY <1>2, <3>2, <3>3 DEF StatRearmed, WatchesSound
    <3>5. Moves(st, a)
      BY <3>2, <3>4 DEF StatRearmed, Moves
    <3>6. \A v : (Awoken(st, v) => Awoken(a, v)) /\ (Placed(st, v) => Placed(a, v))
      BY <3>2, <3>3 DEF StatRearmed, Awoken, Placed
    <3>7. StatGood(a)
      BY <1>1, <3>5, <3>6, LookedGood DEF Looked
    <3> QED
      BY <2>2, <3>2, <3>3, <3>7 DEF StatRearmed, Awoken
  <2> QED
    BY <2>1, <2>2
<1>5. st' = [a EXCEPT !.todo[w] = ""]
  BY <1>0, <1>3, Zenon
<1> QED
  BY <1>4, <1>5, TurnDone

LEMMA StatStarts == StatInit => StatInv
<1>1. SUFFICES ASSUME StatInit PROVE StatGood(st)
  BY DEF StatInv
<1>2. PICK wds : wds = [w \in Stats |-> 0]
  OBVIOUS
<1>3. PICK td : td = [w \in Stats |-> ""]
  OBVIOUS
<1>4. PICK local \in BOOLEAN, fs \in {"unused", "none"}, ino \in {0, 1} :
        st = [active |-> {}, pending |-> {}, wd |-> wds, timer |-> {},
              seen |-> wds, refs |-> 0, fs |-> fs, local |-> local,
              ino |-> ino, ver |-> ino, kw |-> {}, kq |-> <<>>, next |-> 1, lost |-> FALSE,
              adding |-> {}, todo |-> td, ops |-> 0]
  BY <1>1, <1>2, <1>3, Zenon DEF StatInit
<1>5. /\ wds \in [Stats -> Nat] /\ td \in [Stats -> {"", "look", "gone", "fork"}]
      /\ fs \in {"unused", "none", "open"} /\ ino \in Nat
  <2>1. wds \in [Stats -> Nat] /\ td \in [Stats -> {"", "look", "gone", "fork"}]
    BY <1>2, <1>3
  <2>2. fs \in {"unused", "none", "open"}
    BY <1>4
  <2>3. ino \in Nat
    BY <1>4
  <2> QED
    BY <2>1, <2>2, <2>3
<1>6. <<>> \in Seq(Int \X BOOLEAN) /\ Len(<<>>) = 0
  BY EmptySeq, Zenon
<1>7. st \in StatRec
  <2>1. wds \in [Stats -> Nat] /\ td \in [Stats -> {"", "look", "gone", "fork"}]
    BY <1>5
  <2>2. {} \in SUBSET Stats /\ {} \in SUBSET (Nat \X Nat) /\ 0 \in Nat /\ 1 \in Nat /\ 0 \in Int /\ FALSE \in BOOLEAN
    OBVIOUS
  <2>3. <<>> \in Seq(Int \X BOOLEAN)
    BY <1>6
  <2>4. fs \in {"unused", "none", "open"} /\ ino \in Nat /\ local \in BOOLEAN
    BY <1>5
  <2> QED
    BY <1>4, <2>1, <2>2, <2>3, <2>4 DEF StatRec
<1>8. /\ st.active = {} /\ st.wd = wds /\ st.timer = {} /\ st.refs = 0 /\ st.kw = {} /\ st.kq = <<>>
      /\ st.next = 1 /\ st.adding = {} /\ st.todo = td
  BY <1>4
<1>9. WatchesSound(st)
  <2>1. \A w \in Stats : wds[w] < 1
    BY <1>2
  <2>2. Len(st.kq) <= MaxQueue
    BY <1>6, <1>8, StatAssumption
  <2> QED
    BY <1>8, <2>1, <2>2 DEF WatchesSound
<1>10. Cardinality(st.active) = 0
  BY <1>8, FS_EmptySet
<1>11. \A w \in Stats : st.todo[w] \notin {"look", "gone"}
  BY <1>3, <1>8
<1> QED
  BY <1>7, <1>8, <1>9, <1>10, <1>11 DEF StatGood

LEMMA StatSteps == StatInv /\ [StatNext]_st => StatInv'
<1>1. SUFFICES ASSUME StatGood(st), [StatNext]_st PROVE StatGood(st')
  BY DEF StatInv
<1>2. CASE UNCHANGED st
  BY <1>1, <1>2
<1>3. CASE FileModified \/ FileDeleted \/ FileCreated \/ InfyCb \/ InfyFork
  BY <1>1, <1>3, ModifiedGood, DeletedGood, CreatedGood, CbGood, ForkGood
<1>4. ASSUME NEW w \in Stats,
             StatTimer(w) \/ StatInvoke(w) \/ StatStart(w) \/ StatStarted(w) \/ StatStop(w)
             \/ InfyTurn(w) \/ InfyForked(w)
      PROVE  StatGood(st')
  BY <1>1, <1>4, PollGood, InvokeGood, StartGood, StartedGood, StopGood, TurnGood, ForkedGood
<1> QED
  BY <1>1, <1>2, <1>3, <1>4 DEF StatNext

\* Who is good hears of its path.
LEMMA StatGoodSound == StatInv => StatSound
<1>1. SUFFICES ASSUME StatGood(st) PROVE StatRefs /\ StatAwake
  BY DEF StatInv, StatSound
<1>2. StatRefs
  BY <1>1 DEF StatGood, StatRefs
<1>3. ASSUME ~st.lost, NEW w \in st.active
      PROVE  \/ w \in st.timer \/ <<st.wd[w], st.ino>> \in st.kw
             \/ \E i \in 1 .. Len(st.kq) : st.kq[i][1] = st.wd[w]
             \/ st.todo[w] # ""
  <2>1. Wakes(st, w)
    BY <1>1, <1>3 DEF StatGood
  <2>2. CASE Has(st.kq, <<st.wd[w], TRUE>>)
    <3>1. PICK i \in 1 .. Len(st.kq) : st.kq[i] = <<st.wd[w], TRUE>>
      BY <2>2 DEF Has
    <3>2. st.kq[i][1] = st.wd[w]
      BY <3>1
    <3> QED
      BY <3>1, <3>2
  <2> QED
    BY <2>1, <2>2 DEF Wakes, Awoken
<1> QED
  BY <1>2, <1>3 DEF StatAwake

\* Stat watchers: the references, and every watcher goes on hearing of its path.
THEOREM StatIsSound == StatSpec => []StatSound
<1>1. StatInit => StatInv
  BY StatStarts
<1>2. StatInv /\ [StatNext]_st => StatInv'
  BY StatSteps
<1>3. StatInv => StatSound
  BY StatGoodSound
<1> QED
  BY <1>1, <1>2, <1>3, PTL DEF StatSpec
=============================================================================
