----------------------------- MODULE EvRunProofs -----------------------------
(***************************************************************************)
(* Proofs about EvRun, for any watchers, number of priorities and depth of *)
(* nested calls: the pending queues and the watchers' pending fields agree,*)
(* callbacks get what was fed to them in the order of the priorities, the  *)
(* arrays and the watchers' active fields agree, and the reference count   *)
(* is balanced.                                                            *)
(***************************************************************************)
EXTENDS EvRun, SequenceTheorems, FiniteSetTheorems, TLAPS

\* The queues: their types, and what the runs check of them.
QueueTypes ==
    /\ pri \in [Watchers -> Pris \cup RawPris]
    /\ pending \in [Watchers -> Nat]
    /\ pendings \in [Pris -> Seq([w : Watchers \cup {NoWatcher}, events : SUBSET Events])]
    /\ pendingpri \in Pris
    /\ acc \in [Watchers -> SUBSET Events]

\* A watcher that is not pending has got all that was fed to it.
AccPending == \A w \in Watchers : pending[w] = 0 => acc[w] = {}

QueueInv == QueueTypes /\ PendingIndex /\ HigherDrained /\ CallbackEvents /\ AccPending

\* The watchers.  ev_start clamps the priority of every watcher, also of one in no array,
\* so an event for an active watcher finds a queue.
WatchTypes ==
    /\ pri \in [Watchers -> Pris \cup RawPris]
    /\ active \in [Watchers -> Nat]
    /\ arrays \in [Slots -> Seq(Watchers)]
    /\ activecnt \in Int
    /\ idleall \in Int
    /\ refs \in Int

ActiveClamped == \A w \in Watchers : active[w] # 0 => pri[w] \in Pris

WatchInv == WatchTypes /\ ActiveClamped /\ ActiveAgrees /\ RefsBalanced

\* The control: a callback or a pass belongs to a call on the stack, and queue_events walks
\* over watchers that are active.
RunTypes ==
    /\ loop_done \in {"CANCEL", "ONE", "ALL"}
    /\ frames \in Seq([at : Places, once : BOOLEAN])
    /\ mode \in {"app", "inv", "feed", "run"}
    /\ feeding \in [ws : Seq(Watchers), ev : Events]

OnStack == mode # "app" => frames # <<>>

FedActive == mode = "feed" => \A i \in 1..Len(feeding.ws) : active[feeding.ws[i]] # 0

ControlInv == RunTypes /\ OnStack /\ FedActive /\ DrainedBetween

\* The inductive invariant.
RunInv == QueueInv /\ WatchInv /\ ControlInv

Entries == [w : Watchers \cup {NoWatcher}, events : SUBSET Events]

-----------------------------------------------------------------------------
(* Sequences.                                                              *)

\* A function on 1..n is a sequence of length n.
LEMMA FunctionIsSeq ==
    ASSUME NEW S, NEW n \in Nat, NEW f \in [1..n -> S]
    PROVE  f \in Seq(S) /\ Len(f) = n
<1>1. f \in Seq(S)
  BY SeqDef
<1>2. Len(f) \in Nat /\ DOMAIN f = 1..Len(f) /\ DOMAIN f = 1..n
  BY <1>1, LenProperties
<1> QED
  BY <1>1, <1>2

\* Only the empty sequence has length 0.
LEMMA LenZero ==
    ASSUME NEW S, NEW s \in Seq(S)
    PROVE  Len(s) \in Nat /\ (Len(s) = 0 <=> s = <<>>)
  BY EmptySeq, LenProperties

\* A sequence without its last element.
LEMMA DropLast ==
    ASSUME NEW S, NEW q \in Seq(S), NEW r, q # <<>>,
           r = [i \in 1..(Len(q) - 1) |-> q[i]]
    PROVE  /\ Len(q) \in Nat \ {0}
           /\ r \in Seq(S)
           /\ Len(r) = Len(q) - 1
           /\ \A i \in 1..Len(r) : r[i] = q[i]
<1>1. Len(q) \in Nat \ {0}
  BY EmptySeq
<1>2. r \in [1..(Len(q) - 1) -> S]
  BY <1>1, ElementOfSeq
<1>3. r \in Seq(S) /\ Len(r) = Len(q) - 1
  BY <1>1, <1>2, FunctionIsSeq
<1> QED
  BY <1>1, <1>3

-----------------------------------------------------------------------------
(* The parts of TypeOK.                                                    *)

LEMMA TypeParts == TypeOK <=> QueueTypes /\ WatchTypes /\ RunTypes
  BY DEF TypeOK, QueueTypes, WatchTypes, RunTypes

LEMMA Priorities ==
    ASSUME RunAssumption
    PROVE  /\ NUMPRI - 1 \in Pris /\ 0 \in Pris
           /\ \A p \in Pris : p \in Nat /\ p <= NUMPRI - 1
           /\ \A p \in RawPris : Clamp(p) \in Pris
           /\ \A p \in Pris : Clamp(p) = p
  BY DEF RunAssumption, Pris, Clamp

-----------------------------------------------------------------------------
(* The queues.                                                             *)

\* What PendingIndex says of one watcher and of one entry.
LEMMA Queued ==
    ASSUME RunAssumption, QueueInv, NEW w \in Watchers, pending[w] # 0
    PROVE  /\ pri[w] \in Pris
           /\ pending[w] \in 1..Len(pendings[pri[w]])
           /\ pendings[pri[w]][pending[w]].w = w
           /\ pendings[pri[w]][pending[w]].events = acc[w]
<1>1. /\ pri[w] \in Pris
      /\ pending[w] \in 1..Len(pendings[pri[w]])
      /\ pendings[pri[w]][pending[w]].w = w
  BY DEF QueueInv, PendingIndex
<1> QED
  BY <1>1 DEF QueueInv, CallbackEvents, RunAssumption

LEMMA QueueTyped ==
    ASSUME QueueTypes, NEW p \in Pris
    PROVE  /\ pendings[p] \in Seq(Entries)
           /\ Len(pendings[p]) \in Nat
           /\ \A i \in 1..Len(pendings[p]) :
                /\ pendings[p][i] \in Entries
                /\ pendings[p][i].w \in Watchers \cup {NoWatcher}
                /\ pendings[p][i].events \in SUBSET Events
<1>1. pendings[p] \in Seq(Entries)
  BY DEF QueueTypes, Entries
<1>2. Len(pendings[p]) \in Nat
  BY <1>1, LenProperties
<1>3. \A i \in 1..Len(pendings[p]) : pendings[p][i] \in Entries
  BY <1>1, ElementOfSeq
<1> QED
  BY <1>1, <1>2, <1>3 DEF Entries

\* ev_feed_event of a watcher that is pending: its entry gets one more event.
LEMMA FeedPending ==
    ASSUME RunAssumption, QueueInv, NEW w \in Watchers, NEW e \in Events,
           FeedEvent(w, e), pri' = pri, pending[w] # 0
    PROVE  QueueInv'
<1>1. /\ pri[w] \in Pris
      /\ pending[w] \in 1..Len(pendings[pri[w]])
      /\ pendings[pri[w]][pending[w]].w = w
      /\ pendings[pri[w]][pending[w]].events = acc[w]
  BY Queued
<1>2. PICK p \in Pris, i \in Nat, q \in Seq(Entries) :
         p = pri[w] /\ i = pending[w] /\ q = pendings[p] /\ i \in 1..Len(q)
  BY <1>1, QueueTyped DEF QueueInv
<1>3. q[i] \in Entries /\ q[i].w = w /\ q[i].events = acc[w] /\ w # NoWatcher
  BY <1>1, <1>2, ElementOfSeq DEF RunAssumption
<1>4. PICK r \in Entries : r = [q[i] EXCEPT !.events = @ \cup {e}]
  BY <1>3 DEF Entries
<1>5. r.w = w /\ r.events = acc[w] \cup {e}
  BY <1>3, <1>4 DEF Entries
<1>6. PICK t \in Seq(Entries) : t = [q EXCEPT ![i] = r]
  BY <1>2, ExceptSeq
<1>7. Len(t) = Len(q) /\ \A j \in 1..Len(q) : t[j] = IF j = i THEN r ELSE q[j]
  BY <1>2, <1>6, ExceptSeq
<1>8. pendings' = [pendings EXCEPT ![p] = t]
  BY <1>2, <1>4, <1>6 DEF FeedEvent
<1>9. pendings'[p] = t /\ \A a \in Pris : a # p => pendings'[a] = pendings[a]
  BY <1>8 DEF QueueInv, QueueTypes
<1>10. /\ pending' = pending /\ pendingpri' = NUMPRI - 1
       /\ acc' = [acc EXCEPT ![w] = @ \cup {e}]
  BY DEF FeedEvent
<1>11. QueueTypes'
  <2>1. pendings' \in [Pris -> Seq(Entries)]
    BY <1>8 DEF QueueInv, QueueTypes, Entries
  <2> QED
    BY <2>1, <1>10, Priorities DEF QueueInv, QueueTypes, Entries
<1>12. PendingIndex'
  <2>1. ASSUME NEW v \in Watchers, pending'[v] # 0
        PROVE  /\ pri'[v] \in Pris
               /\ pending'[v] \in 1..Len(pendings'[pri'[v]])
               /\ pendings'[pri'[v]][pending'[v]].w = v
    <3>1. /\ pri[v] \in Pris /\ pending[v] \in 1..Len(pendings[pri[v]])
          /\ pendings[pri[v]][pending[v]].w = v
      BY <2>1, <1>10, Queued
    <3>2. /\ Len(pendings'[pri[v]]) = Len(pendings[pri[v]])
          /\ pendings'[pri[v]][pending[v]].w = pendings[pri[v]][pending[v]].w
      <4>1. CASE pri[v] = p /\ pending[v] = i
        BY <4>1, <1>2, <1>3, <1>5, <1>7, <1>9
      <4>2. CASE pri[v] = p /\ pending[v] # i
        BY <4>2, <3>1, <1>2, <1>7, <1>9
      <4>3. CASE pri[v] # p
        BY <4>3, <3>1, <1>9
      <4> QED
        BY <4>1, <4>2, <4>3
    <3> QED
      BY <3>1, <3>2, <1>10
  <2>2. ASSUME NEW a \in Pris, NEW j \in 1..Len(pendings'[a]),
               pendings'[a][j].w # NoWatcher
        PROVE  pri'[pendings'[a][j].w] = a /\ pending'[pendings'[a][j].w] = j
    <3>1. j \in 1..Len(pendings[a]) /\ pendings'[a][j].w = pendings[a][j].w
      BY <1>2, <1>3, <1>5, <1>7, <1>9
    <3> QED
      BY <2>2, <3>1, <1>10 DEF QueueInv, PendingIndex
  <2> QED
    BY <2>1, <2>2 DEF PendingIndex
<1>13. HigherDrained'
  BY <1>10, Priorities DEF HigherDrained
<1>14. CallbackEvents'
  <2>1. ASSUME NEW a \in Pris, NEW j \in 1..Len(pendings'[a]),
               pendings'[a][j].w # NoWatcher
        PROVE  /\ pendings'[a][j].events = acc'[pendings'[a][j].w]
               /\ pendings'[a][j].events # {}
    <3>1. CASE a = p /\ j = i
      BY <3>1, <1>2, <1>5, <1>7, <1>9, <1>10 DEF QueueInv, QueueTypes
    <3>2. CASE ~(a = p /\ j = i)
      <4>1. j \in 1..Len(pendings[a]) /\ pendings'[a][j] = pendings[a][j]
        BY <3>2, <1>2, <1>7, <1>9
      <4>2. pendings[a][j].w # w /\ pendings[a][j].w \in Watchers
        BY <3>2, <4>1, <2>1, <1>2, QueueTyped DEF QueueInv, PendingIndex
      <4>3. acc'[pendings[a][j].w] = acc[pendings[a][j].w]
        BY <4>2, <1>10 DEF QueueInv, QueueTypes
      <4> QED
        BY <4>1, <4>3, <2>1 DEF QueueInv, CallbackEvents
    <3> QED
      BY <3>1, <3>2
  <2> QED
    BY <2>1 DEF CallbackEvents
<1>15. AccPending'
  BY <1>10 DEF QueueInv, QueueTypes, AccPending
<1> QED
  BY <1>11, <1>12, <1>13, <1>14, <1>15 DEF QueueInv

\* ev_feed_event of a watcher that is not: it gets an entry at the end of its queue.
LEMMA FeedNew ==
    ASSUME RunAssumption, QueueInv, NEW w \in Watchers, NEW e \in Events,
           FeedEvent(w, e), pri' = pri, pending[w] = 0, pri[w] \in Pris
    PROVE  QueueInv'
<1>1. PICK p \in Pris, q \in Seq(Entries) : p = pri[w] /\ q = pendings[p]
  BY QueueTyped DEF QueueInv
<1>2. PICK r \in Entries : r = [w |-> w, events |-> {e}]
  BY DEF Entries
<1>3. r.w = w /\ r.events = {e} /\ w # NoWatcher /\ Len(q) \in Nat
  BY <1>1, <1>2, LenProperties DEF RunAssumption
<1>4. PICK t \in Seq(Entries) : t = Append(q, r)
  BY <1>1, <1>2, AppendProperties
<1>5. Len(t) = Len(q) + 1 /\ t[Len(q) + 1] = r /\ \A j \in 1..Len(q) : t[j] = q[j]
  BY <1>1, <1>2, <1>4, AppendProperties
<1>6. pendings' = [pendings EXCEPT ![p] = t]
  BY <1>1, <1>2, <1>4 DEF FeedEvent
<1>7. pendings'[p] = t /\ \A a \in Pris : a # p => pendings'[a] = pendings[a]
  BY <1>6 DEF QueueInv, QueueTypes
<1>8. /\ pending' = [pending EXCEPT ![w] = Len(q) + 1] /\ pendingpri' = NUMPRI - 1
      /\ acc' = [acc EXCEPT ![w] = @ \cup {e}]
  BY <1>1 DEF FeedEvent
<1>9. QueueTypes'
  <2>1. pendings' \in [Pris -> Seq(Entries)]
    BY <1>6 DEF QueueInv, QueueTypes, Entries
  <2> QED
    <3>1. pending' \in [Watchers -> Nat] /\ acc' \in [Watchers -> SUBSET Events]
      BY <1>3, <1>8 DEF QueueInv, QueueTypes
    <3> QED
      BY <2>1, <3>1, <1>8, Priorities DEF QueueInv, QueueTypes, Entries
<1>10. /\ pending'[w] = Len(q) + 1 /\ acc'[w] = {e}
       /\ \A v \in Watchers : v # w => pending'[v] = pending[v] /\ acc'[v] = acc[v]
  BY <1>8 DEF QueueInv, QueueTypes, AccPending
<1>11. ASSUME NEW a \in Pris, NEW j \in 1..Len(pendings[a])
       PROVE  /\ j \in 1..Len(pendings'[a]) /\ pendings'[a][j] = pendings[a][j]
              /\ pendings[a][j].w # w
  BY <1>1, <1>3, <1>5, <1>7 DEF QueueInv, PendingIndex
<1>12. ASSUME NEW a \in Pris, NEW j \in 1..Len(pendings'[a]), ~(a = p /\ j = Len(q) + 1)
       PROVE  j \in 1..Len(pendings[a]) /\ pendings'[a][j] = pendings[a][j]
  BY <1>12, <1>1, <1>3, <1>5, <1>7
<1>13. PendingIndex'
  <2>1. ASSUME NEW v \in Watchers, pending'[v] # 0
        PROVE  /\ pri'[v] \in Pris
               /\ pending'[v] \in 1..Len(pendings'[pri'[v]])
               /\ pendings'[pri'[v]][pending'[v]].w = v
    <3>1. CASE v = w
      BY <3>1, <1>1, <1>3, <1>5, <1>7, <1>10
    <3>2. CASE v # w
      BY <2>1, <3>2, <1>10, <1>11, Queued
    <3> QED
      BY <3>1, <3>2
  <2>2. ASSUME NEW a \in Pris, NEW j \in 1..Len(pendings'[a]),
               pendings'[a][j].w # NoWatcher
        PROVE  pri'[pendings'[a][j].w] = a /\ pending'[pendings'[a][j].w] = j
    <3>1. CASE a = p /\ j = Len(q) + 1
      BY <3>1, <1>1, <1>3, <1>5, <1>7, <1>10
    <3>2. CASE ~(a = p /\ j = Len(q) + 1)
      <4>1. j \in 1..Len(pendings[a]) /\ pendings'[a][j] = pendings[a][j]
        BY <3>2, <1>12
      <4>2. pendings[a][j].w # w
        BY <4>1, <1>11
      <4>3. pendings[a][j].w \in Watchers
        BY <2>2, <4>1, QueueTyped DEF QueueInv
      <4> QED
        BY <2>2, <4>1, <4>2, <4>3, <1>10 DEF QueueInv, PendingIndex
    <3> QED
      BY <3>1, <3>2
  <2> QED
    BY <2>1, <2>2 DEF PendingIndex
<1>14. HigherDrained'
  BY <1>8, Priorities DEF HigherDrained
<1>15. CallbackEvents'
  <2>1. ASSUME NEW a \in Pris, NEW j \in 1..Len(pendings'[a]),
               pendings'[a][j].w # NoWatcher
        PROVE  /\ pendings'[a][j].events = acc'[pendings'[a][j].w]
               /\ pendings'[a][j].events # {}
    <3>1. CASE a = p /\ j = Len(q) + 1
      BY <3>1, <1>1, <1>3, <1>5, <1>7, <1>10
    <3>2. CASE ~(a = p /\ j = Len(q) + 1)
      <4>1. j \in 1..Len(pendings[a]) /\ pendings'[a][j] = pendings[a][j]
        BY <3>2, <1>12
      <4>2. pendings[a][j].w # w
        BY <4>1, <1>11
      <4>3. pendings[a][j].w \in Watchers
        BY <2>1, <4>1, QueueTyped DEF QueueInv
      <4> QED
        BY <2>1, <4>1, <4>2, <4>3, <1>10 DEF QueueInv, CallbackEvents
    <3> QED
      BY <3>1, <3>2
  <2> QED
    BY <2>1 DEF CallbackEvents
<1>16. AccPending'
  BY <1>3, <1>10 DEF QueueInv, AccPending
<1> QED
  BY <1>9, <1>13, <1>14, <1>15, <1>16 DEF QueueInv

LEMMA FeedStep ==
    ASSUME RunAssumption, QueueInv, NEW w \in Watchers, NEW e \in Events,
           FeedEvent(w, e), pri' = pri, pri[w] \in Pris
    PROVE  QueueInv'
  BY FeedPending, FeedNew

LEMMA QueueSame ==
    ASSUME QueueInv, UNCHANGED <<pri, queueVars>>
    PROVE  QueueInv'
<1> USE DEF queueVars
<1>1. QueueTypes'
  BY DEF QueueInv, QueueTypes
<1>2. PendingIndex'
  BY DEF QueueInv, PendingIndex
<1>3. HigherDrained' /\ AccPending'
  BY DEF QueueInv, HigherDrained, AccPending
<1>4. CallbackEvents'
  BY DEF QueueInv, CallbackEvents
<1> QED
  BY <1>1, <1>2, <1>3, <1>4 DEF QueueInv

\* clear_pending: the entry becomes one of pending_w, no entry moves.
LEMMA ClearStep ==
    ASSUME RunAssumption, QueueInv, NEW w \in Watchers, ClearPending(w), pri' = pri
    PROVE  /\ QueueInv'
           /\ \A p \in Pris : Len(pendings'[p]) = Len(pendings[p])
<1>1. CASE pending[w] = 0
  <2>1. /\ pendings' = pendings /\ pendingpri' = pendingpri
        /\ pending' = [pending EXCEPT ![w] = 0] /\ acc' = [acc EXCEPT ![w] = {}]
    BY <1>1 DEF ClearPending
  <2>2. pending' = pending /\ acc' = acc
    BY <1>1, <2>1 DEF QueueInv, QueueTypes, AccPending
  <2> QED
    BY <2>1, <2>2, QueueSame DEF queueVars
<1>2. CASE pending[w] # 0
  <2>1. /\ pri[w] \in Pris
        /\ pending[w] \in 1..Len(pendings[pri[w]])
        /\ pendings[pri[w]][pending[w]].w = w
        /\ pendings[pri[w]][pending[w]].events = acc[w]
    BY <1>2, Queued
  <2>2. PICK p \in Pris, i \in Nat, q \in Seq(Entries) :
           p = pri[w] /\ i = pending[w] /\ q = pendings[p] /\ i \in 1..Len(q)
    BY <2>1, QueueTyped DEF QueueInv
  <2>3. q[i] \in Entries /\ q[i].w = w
    BY <2>1, <2>2, ElementOfSeq
  <2>4. PICK r \in Entries : r = [q[i] EXCEPT !.w = NoWatcher]
    BY <2>3 DEF Entries
  <2>5. r.w = NoWatcher
    BY <2>3, <2>4 DEF Entries
  <2>6. PICK t \in Seq(Entries) : t = [q EXCEPT ![i] = r]
    BY <2>2, ExceptSeq
  <2>7. Len(t) = Len(q) /\ \A j \in 1..Len(q) : t[j] = IF j = i THEN r ELSE q[j]
    BY <2>2, <2>6, ExceptSeq
  <2>8. pendings' = [pendings EXCEPT ![p] = t]
    BY <1>2, <2>2, <2>4, <2>6 DEF ClearPending
  <2>9. pendings'[p] = t /\ \A a \in Pris : a # p => pendings'[a] = pendings[a]
    BY <2>8 DEF QueueInv, QueueTypes
  <2>10. /\ pending' = [pending EXCEPT ![w] = 0] /\ pendingpri' = pendingpri
         /\ acc' = [acc EXCEPT ![w] = {}]
    BY DEF ClearPending
  <2>11. /\ pending'[w] = 0 /\ acc'[w] = {}
         /\ \A v \in Watchers : v # w => pending'[v] = pending[v] /\ acc'[v] = acc[v]
    BY <2>10 DEF QueueInv, QueueTypes
  <2>12. \A a \in Pris : Len(pendings'[a]) = Len(pendings[a])
    BY <2>2, <2>7, <2>9
  <2>13. ASSUME NEW a \in Pris, NEW j \in 1..Len(pendings'[a]), pendings'[a][j].w # NoWatcher
         PROVE  /\ j \in 1..Len(pendings[a]) /\ pendings'[a][j] = pendings[a][j]
                /\ pendings[a][j].w \in Watchers \ {w}
    <3>1. j \in 1..Len(pendings[a]) /\ ~(a = p /\ j = i)
      BY <2>13, <2>2, <2>5, <2>7, <2>9, <2>12
    <3>2. pendings'[a][j] = pendings[a][j]
      BY <3>1, <2>2, <2>7, <2>9
    <3>3. pendings[a][j].w \in Watchers
      BY <2>13, <3>1, <3>2, QueueTyped DEF QueueInv
    <3>4. pendings[a][j].w # w
      BY <2>13, <3>1, <3>2, <2>2 DEF QueueInv, PendingIndex
    <3> QED
      BY <3>1, <3>2, <3>3, <3>4
  <2>14. QueueTypes'
    <3>1. pendings' \in [Pris -> Seq(Entries)]
      BY <2>8 DEF QueueInv, QueueTypes, Entries
    <3>2. pending' \in [Watchers -> Nat] /\ acc' \in [Watchers -> SUBSET Events]
      BY <2>10 DEF QueueInv, QueueTypes
    <3> QED
      BY <3>1, <3>2, <2>10 DEF QueueInv, QueueTypes, Entries
  <2>15. PendingIndex'
    <3>1. ASSUME NEW v \in Watchers, pending'[v] # 0
          PROVE  /\ pri'[v] \in Pris
                 /\ pending'[v] \in 1..Len(pendings'[pri'[v]])
                 /\ pendings'[pri'[v]][pending'[v]].w = v
      <4>1. v # w /\ pending'[v] = pending[v]
        BY <3>1, <2>11
      <4>2. /\ pri[v] \in Pris /\ pending[v] \in 1..Len(pendings[pri[v]])
            /\ pendings[pri[v]][pending[v]].w = v
        BY <3>1, <4>1, Queued
      <4>3. ~(pri[v] = p /\ pending[v] = i)
        BY <4>1, <4>2, <2>2, <2>3
      <4>4. pendings'[pri[v]][pending[v]] = pendings[pri[v]][pending[v]]
        BY <4>2, <4>3, <2>2, <2>7, <2>9
      <4> QED
        BY <4>1, <4>2, <4>4, <2>12
    <3>2. ASSUME NEW a \in Pris, NEW j \in 1..Len(pendings'[a]), pendings'[a][j].w # NoWatcher
          PROVE  pri'[pendings'[a][j].w] = a /\ pending'[pendings'[a][j].w] = j
      <4>1. /\ j \in 1..Len(pendings[a]) /\ pendings'[a][j] = pendings[a][j]
            /\ pendings[a][j].w \in Watchers \ {w}
        BY <3>2, <2>13
      <4> QED
        BY <3>2, <4>1, <2>11 DEF QueueInv, PendingIndex
    <3> QED
      BY <3>1, <3>2 DEF PendingIndex
  <2>16. HigherDrained'
    <3>1. ASSUME NEW a \in Pris, a > pendingpri
          PROVE  pendings'[a] = <<>>
      <4>1. pendings[a] = <<>>
        BY <3>1 DEF QueueInv, HigherDrained
      <4>2. a # p
        BY <4>1, <2>2
      <4> QED
        BY <4>1, <4>2, <2>9
    <3> QED
      BY <3>1, <2>10 DEF HigherDrained
  <2>17. CallbackEvents'
    <3>1. ASSUME NEW a \in Pris, NEW j \in 1..Len(pendings'[a]), pendings'[a][j].w # NoWatcher
          PROVE  /\ pendings'[a][j].events = acc'[pendings'[a][j].w]
                 /\ pendings'[a][j].events # {}
      <4>1. /\ j \in 1..Len(pendings[a]) /\ pendings'[a][j] = pendings[a][j]
            /\ pendings[a][j].w \in Watchers \ {w}
        BY <3>1, <2>13
      <4> QED
        BY <3>1, <4>1, <2>11 DEF QueueInv, CallbackEvents
    <3> QED
      BY <3>1 DEF CallbackEvents
  <2>18. AccPending'
    BY <2>11 DEF QueueInv, AccPending
  <2> QED
    BY <2>12, <2>14, <2>15, <2>16, <2>17, <2>18 DEF QueueInv
<1> QED
  BY <1>1, <1>2

\* ev_invoke_pending takes the last entry of the current level.
LEMMA InvokeOneStep ==
    ASSUME RunAssumption, QueueInv, InvokeOne
    PROVE  QueueInv'
<1>1. PICK p \in Pris, q \in Seq(Entries) : p = pendingpri /\ q = pendings[p]
  BY QueueTyped DEF QueueInv, QueueTypes
<1>2. PICK t : t = [i \in 1..(Len(q) - 1) |-> q[i]]
  OBVIOUS
<1>3. /\ q # <<>> /\ pendings' = [pendings EXCEPT ![p] = t]
      /\ pri' = pri /\ pendingpri' = pendingpri
  BY <1>1, <1>2 DEF InvokeOne, watcherVars
<1>4. /\ Len(q) \in Nat \ {0} /\ t \in Seq(Entries) /\ Len(t) = Len(q) - 1
      /\ \A i \in 1..Len(t) : t[i] = q[i]
  BY <1>1, <1>2, <1>3, DropLast
<1>5. PICK last \in Watchers \cup {NoWatcher} : last = q[Len(q)].w
  BY <1>1, <1>4, QueueTyped DEF QueueInv
<1>6. last = NoWatcher => pending' = pending /\ acc' = acc
  BY <1>1, <1>5 DEF InvokeOne
<1>7. last # NoWatcher => /\ pending' = [pending EXCEPT ![last] = 0]
                          /\ acc' = [acc EXCEPT ![last] = {}]
  BY <1>1, <1>5 DEF InvokeOne
<1>8. /\ \A v \in Watchers : v # last => pending'[v] = pending[v] /\ acc'[v] = acc[v]
      /\ \A v \in Watchers : v = last => pending'[v] = 0 /\ acc'[v] = {}
  BY <1>6, <1>7 DEF QueueInv, QueueTypes, RunAssumption
<1>9. pendings'[p] = t /\ \A a \in Pris : a # p => pendings'[a] = pendings[a]
  BY <1>3 DEF QueueInv, QueueTypes
<1>10. last # NoWatcher => pri[last] = p /\ pending[last] = Len(q)
  BY <1>1, <1>4, <1>5 DEF QueueInv, PendingIndex
<1>11. ASSUME NEW a \in Pris, NEW j \in 1..Len(pendings'[a]), pendings'[a][j].w # NoWatcher
       PROVE  /\ j \in 1..Len(pendings[a]) /\ pendings'[a][j] = pendings[a][j]
              /\ pendings[a][j].w \in Watchers \ {last}
  <2>1. /\ j \in 1..Len(pendings[a]) /\ ~(a = p /\ j = Len(q))
        /\ pendings'[a][j] = pendings[a][j]
    BY <1>1, <1>4, <1>9
  <2>2. pendings[a][j].w \in Watchers
    BY <1>11, <2>1, QueueTyped DEF QueueInv
  <2>3. pendings[a][j].w # last
    BY <1>11, <2>1, <2>2, <1>10 DEF QueueInv, PendingIndex
  <2> QED
    BY <2>1, <2>2, <2>3
<1>12. QueueTypes'
  <2>1. pendings' \in [Pris -> Seq(Entries)]
    BY <1>3, <1>4 DEF QueueInv, QueueTypes, Entries
  <2>2. pending' \in [Watchers -> Nat] /\ acc' \in [Watchers -> SUBSET Events]
    <3>1. CASE last = NoWatcher
      BY <3>1, <1>6 DEF QueueInv, QueueTypes
    <3>2. CASE last # NoWatcher
      <4>1. pending' = [pending EXCEPT ![last] = 0] /\ acc' = [acc EXCEPT ![last] = {}]
        BY <3>2, <1>7
      <4>2. pending \in [Watchers -> Nat] /\ acc \in [Watchers -> SUBSET Events]
        BY DEF QueueInv, QueueTypes
      <4> QED
        BY <4>1, <4>2
    <3> QED
      BY <3>1, <3>2
  <2> QED
    BY <2>1, <2>2, <1>3 DEF QueueInv, QueueTypes, Entries
<1>13. PendingIndex'
  <2>1. ASSUME NEW v \in Watchers, pending'[v] # 0
        PROVE  /\ pri'[v] \in Pris
               /\ pending'[v] \in 1..Len(pendings'[pri'[v]])
               /\ pendings'[pri'[v]][pending'[v]].w = v
    <3>1. v # last /\ pending'[v] = pending[v]
      BY <2>1, <1>8
    <3>2. /\ pri[v] \in Pris /\ pending[v] \in 1..Len(pendings[pri[v]])
          /\ pendings[pri[v]][pending[v]].w = v
      BY <2>1, <3>1, Queued
    <3>3. ~(pri[v] = p /\ pending[v] = Len(q))
      BY <3>1, <3>2, <1>1, <1>5
    <3>4. /\ pending[v] \in 1..Len(pendings'[pri[v]])
          /\ pendings'[pri[v]][pending[v]] = pendings[pri[v]][pending[v]]
      BY <3>2, <3>3, <1>1, <1>4, <1>9
    <3> QED
      BY <3>1, <3>2, <3>4, <1>3
  <2>2. ASSUME NEW a \in Pris, NEW j \in 1..Len(pendings'[a]), pendings'[a][j].w # NoWatcher
        PROVE  pri'[pendings'[a][j].w] = a /\ pending'[pendings'[a][j].w] = j
    BY <2>2, <1>3, <1>8, <1>11 DEF QueueInv, PendingIndex
  <2> QED
    BY <2>1, <2>2 DEF PendingIndex
<1>14. HigherDrained'
  BY <1>1, <1>3, <1>9, Priorities DEF QueueInv, HigherDrained
<1>15. CallbackEvents'
  <2>1. ASSUME NEW a \in Pris, NEW j \in 1..Len(pendings'[a]), pendings'[a][j].w # NoWatcher
        PROVE  /\ pendings'[a][j].events = acc'[pendings'[a][j].w]
               /\ pendings'[a][j].events # {}
    BY <2>1, <1>8, <1>11 DEF QueueInv, CallbackEvents
  <2> QED
    BY <2>1 DEF CallbackEvents
<1>16. AccPending'
  BY <1>8 DEF QueueInv, AccPending
<1> QED
  BY <1>12, <1>13, <1>14, <1>15, <1>16 DEF QueueInv

\* A step that leaves the queues alone, but for the level, and the priority of every
\* watcher that is pending.
LEMMA QueueMoved ==
    ASSUME QueueInv, UNCHANGED <<pending, pendings, acc>>,
           pri' \in [Watchers -> Pris \cup RawPris],
           \A w \in Watchers : pending[w] # 0 => pri'[w] = pri[w],
           pendingpri' \in Pris, HigherDrained'
    PROVE  QueueInv'
<1>1. QueueTypes' /\ AccPending'
  BY DEF QueueInv, QueueTypes, AccPending
<1>2. CallbackEvents'
  BY DEF QueueInv, CallbackEvents
<1>3. PendingIndex'
  <2>1. ASSUME NEW v \in Watchers, pending[v] # 0
        PROVE  /\ pri'[v] \in Pris
               /\ pending[v] \in 1..Len(pendings[pri'[v]])
               /\ pendings[pri'[v]][pending[v]].w = v
    BY <2>1 DEF QueueInv, PendingIndex
  <2>2. ASSUME NEW a \in Pris, NEW j \in 1..Len(pendings[a]), pendings[a][j].w # NoWatcher
        PROVE  pri'[pendings[a][j].w] = a /\ pending[pendings[a][j].w] = j
    <3>1. pendings[a][j].w \in Watchers
      BY <2>2, QueueTyped DEF QueueInv
    <3>2. pri[pendings[a][j].w] = a /\ pending[pendings[a][j].w] = j
      BY <2>2 DEF QueueInv, PendingIndex
    <3>3. pending[pendings[a][j].w] # 0
      BY <3>2
    <3> QED
      BY <3>1, <3>2, <3>3
  <2> QED
    BY <2>1, <2>2 DEF PendingIndex
<1> QED
  BY <1>1, <1>2, <1>3 DEF QueueInv

\* ev_invoke_pending begins at the highest level.
LEMMA EnterStep ==
    ASSUME RunAssumption, QueueInv, UNCHANGED <<pri, pending, pendings, acc>>, EnterInvoke
    PROVE  QueueInv'
<1>1. pendingpri' \in Pris /\ HigherDrained'
  BY Priorities DEF EnterInvoke, HigherDrained
<1> QED
  BY <1>1, QueueMoved DEF QueueInv, QueueTypes

\* ... and goes on to the next when one is empty.
LEMMA InvokeLowerStep ==
    ASSUME RunAssumption, QueueInv, InvokeLower
    PROVE  QueueInv'
<1>1. /\ UNCHANGED <<pri, pending, pendings, acc>> /\ pendings[pendingpri] = <<>>
      /\ pendingpri > 0 /\ pendingpri' = pendingpri - 1
  BY DEF InvokeLower, watcherVars
<1>2. pendingpri \in Pris
  BY DEF QueueInv, QueueTypes
<1>3. pendingpri' \in Pris
  BY <1>1, <1>2, Priorities DEF Pris, RunAssumption
<1>4. HigherDrained'
  BY <1>1, <1>2, Priorities DEF QueueInv, HigherDrained
<1> QED
  BY <1>1, <1>3, <1>4, QueueMoved DEF QueueInv, QueueTypes

-----------------------------------------------------------------------------
(* The reference count.                                                    *)

Counted == {w \in Watchers : active[w] # 0 /\ Kind[w] # "cleanup"}
IdleOn  == {w \in Watchers : active[w] # 0 /\ Kind[w] = "idle"}

LEMMA CountedFinite ==
    ASSUME RunAssumption
    PROVE  IsFiniteSet(Counted) /\ IsFiniteSet(IdleOn)
           /\ Cardinality(Counted) \in Nat /\ Cardinality(IdleOn) \in Nat
  BY FS_Subset, FS_CardinalityType DEF RunAssumption, Counted, IdleOn

\* Which watchers are active does not change.
LEMMA CountSame ==
    ASSUME RefsBalanced, UNCHANGED <<activecnt, idleall, refs>>,
           \A v \in Watchers : active'[v] # 0 <=> active[v] # 0
    PROVE  RefsBalanced'
<1>1. Counted' = Counted /\ IdleOn' = IdleOn
  BY DEF Counted, IdleOn
<1> QED
  BY <1>1 DEF RefsBalanced, Counted, IdleOn

\* One more is.
LEMMA CountUp ==
    ASSUME RunAssumption, RefsBalanced, NEW w \in Watchers, active[w] = 0, active'[w] # 0,
           \A v \in Watchers : v # w => (active'[v] # 0 <=> active[v] # 0),
           activecnt' = activecnt + (IF Kind[w] = "cleanup" THEN 0 ELSE 1),
           idleall' = IF Kind[w] = "idle" THEN idleall + 1 ELSE idleall,
           refs' = refs, refs \in Int
    PROVE  RefsBalanced'
<1>1. /\ Counted' = IF Kind[w] = "cleanup" THEN Counted ELSE Counted \cup {w}
      /\ IdleOn' = IF Kind[w] = "idle" THEN IdleOn \cup {w} ELSE IdleOn
      /\ w \notin Counted /\ w \notin IdleOn
  BY DEF Counted, IdleOn
<1>2. /\ Cardinality(Counted \cup {w}) = Cardinality(Counted) + 1
      /\ Cardinality(IdleOn \cup {w}) = Cardinality(IdleOn) + 1
  BY <1>1, CountedFinite, FS_AddElement
<1>3. activecnt = refs + Cardinality(Counted) /\ idleall = Cardinality(IdleOn)
  BY DEF RefsBalanced, Counted, IdleOn
<1>4. activecnt' = refs' + Cardinality(Counted')
  BY <1>1, <1>2, <1>3, CountedFinite
<1>5. idleall' = Cardinality(IdleOn')
  BY <1>1, <1>2, <1>3
<1> QED
  BY <1>4, <1>5 DEF RefsBalanced, Counted, IdleOn

\* One less is.
LEMMA CountDown ==
    ASSUME RunAssumption, RefsBalanced, NEW w \in Watchers, active[w] # 0, active'[w] = 0,
           \A v \in Watchers : v # w => (active'[v] # 0 <=> active[v] # 0),
           activecnt' = activecnt - (IF Kind[w] = "cleanup" THEN 0 ELSE 1),
           idleall' = IF Kind[w] = "idle" THEN idleall - 1 ELSE idleall,
           refs' = refs, refs \in Int
    PROVE  RefsBalanced'
<1>1. /\ Counted' = IF Kind[w] = "cleanup" THEN Counted ELSE Counted \ {w}
      /\ IdleOn' = IF Kind[w] = "idle" THEN IdleOn \ {w} ELSE IdleOn
      /\ Kind[w] # "cleanup" => w \in Counted
      /\ Kind[w] = "idle" => w \in IdleOn
  BY DEF Counted, IdleOn
<1>2. /\ Kind[w] # "cleanup" => Cardinality(Counted \ {w}) = Cardinality(Counted) - 1
      /\ Kind[w] = "idle" => Cardinality(IdleOn \ {w}) = Cardinality(IdleOn) - 1
  BY <1>1, CountedFinite, FS_RemoveElement
<1>3. activecnt = refs + Cardinality(Counted) /\ idleall = Cardinality(IdleOn)
  BY DEF RefsBalanced, Counted, IdleOn
<1>4. activecnt' = refs' + Cardinality(Counted')
  BY <1>1, <1>2, <1>3, CountedFinite
<1>5. idleall' = Cardinality(IdleOn')
  BY <1>1, <1>2, <1>3
<1> QED
  BY <1>4, <1>5 DEF RefsBalanced, Counted, IdleOn

-----------------------------------------------------------------------------
(* The arrays.                                                             *)

\* The array of w when its priority is p.
SlotAt(w, p) == <<Kind[w], IF Kind[w] = "idle" THEN p ELSE 0>>

LEMMA SlotTyped ==
    ASSUME RunAssumption, NEW w \in Watchers, Kind[w] # "event", NEW p \in Pris
    PROVE  SlotAt(w, p) \in Slots
<1>1. Kind[w] \in Kinds
  BY DEF RunAssumption
<1> QED
  BY <1>1 DEF SlotAt, Slots, Kinds

LEMMA SlotIs ==
    ASSUME NEW w \in Watchers
    PROVE  SlotOf(w) = SlotAt(w, pri[w]) /\ SlotOf(w)' = SlotAt(w, pri'[w])
  BY DEF SlotOf, SlotAt

\* What ActiveAgrees says of one place of an array and of one active watcher.
LEMMA InArray ==
    ASSUME WatchInv, NEW s \in Slots
    PROVE  /\ arrays[s] \in Seq(Watchers) /\ Len(arrays[s]) \in Nat
           /\ \A i \in 1..Len(arrays[s]) :
                /\ arrays[s][i] \in Watchers
                /\ active[arrays[s][i]] = i /\ i # 0
                /\ SlotAt(arrays[s][i], pri[arrays[s][i]]) = s
<1>1. arrays[s] \in Seq(Watchers) /\ Len(arrays[s]) \in Nat
  BY LenProperties DEF WatchInv, WatchTypes
<1>2. \A i \in 1..Len(arrays[s]) : arrays[s][i] \in Watchers
  BY <1>1, ElementOfSeq
<1>3. \A i \in 1..Len(arrays[s]) : active[arrays[s][i]] = i /\ SlotOf(arrays[s][i]) = s /\ i # 0
  BY <1>1 DEF WatchInv, ActiveAgrees
<1> QED
  BY <1>1, <1>2, <1>3 DEF SlotOf, SlotAt

LEMMA ActivePlace ==
    ASSUME WatchInv, NEW w \in Watchers, Kind[w] # "event", active[w] # 0
    PROVE  /\ SlotAt(w, pri[w]) \in Slots
           /\ active[w] \in 1..Len(arrays[SlotAt(w, pri[w])])
           /\ arrays[SlotAt(w, pri[w])][active[w]] = w
  BY SlotIs DEF WatchInv, ActiveAgrees

\* To show ActiveAgrees after a step.
LEMMA AgreesAfter ==
    ASSUME \A s \in Slots : \A i \in 1..Len(arrays'[s]) :
             arrays'[s][i] \in Watchers /\ active'[arrays'[s][i]] = i
             /\ SlotAt(arrays'[s][i], pri'[arrays'[s][i]]) = s,
           \A w \in Watchers : Kind[w] # "event" /\ active'[w] # 0 =>
             /\ SlotAt(w, pri'[w]) \in Slots
             /\ active'[w] \in 1..Len(arrays'[SlotAt(w, pri'[w])])
             /\ arrays'[SlotAt(w, pri'[w])][active'[w]] = w
    PROVE  ActiveAgrees'
  BY DEF ActiveAgrees, SlotOf, SlotAt

\* ev_start of an array watcher.
LEMMA ArrayStartStep ==
    ASSUME RunAssumption, WatchInv, NEW w \in Watchers, Kind[w] # "event",
           ArrayStart(w, IF Kind[w] = "cleanup" THEN 0 ELSE 1)
    PROVE  WatchInv'
<1>1. PICK p \in Pris : p = Clamp(pri[w])
  <2>1. pri[w] \in Pris \cup RawPris
    BY DEF WatchInv, WatchTypes
  <2> QED
    BY <2>1, Priorities
<1>2. pri' = [pri EXCEPT ![w] = p] /\ active[w] = 0
  BY <1>1 DEF ArrayStart
<1>3. pri'[w] = p /\ \A v \in Watchers : v # w => pri'[v] = pri[v]
  BY <1>2 DEF WatchInv, WatchTypes
<1>4. PICK s \in Slots : s = SlotAt(w, p)
  BY SlotTyped
<1>5. SlotOf(w)' = s
  BY <1>3, <1>4, SlotIs
<1>6. PICK a \in Seq(Watchers) : a = arrays[s]
  BY <1>4, InArray
<1>7. PICK b \in Seq(Watchers) : b = Append(a, w)
  BY AppendProperties
<1>8. /\ Len(a) \in Nat /\ Len(b) = Len(a) + 1 /\ b[Len(a) + 1] = w
      /\ \A i \in 1..Len(a) : b[i] = a[i]
  BY <1>7, AppendProperties, LenProperties
<1>9. arrays' = [arrays EXCEPT ![s] = b] /\ active' = [active EXCEPT ![w] = Len(a) + 1]
  BY <1>5, <1>6, <1>7 DEF ArrayStart
<1>10. /\ arrays'[s] = b /\ \A t \in Slots : t # s => arrays'[t] = arrays[t]
       /\ active'[w] = Len(a) + 1 /\ \A v \in Watchers : v # w => active'[v] = active[v]
  BY <1>9 DEF WatchInv, WatchTypes
<1>11. /\ activecnt' = activecnt + (IF Kind[w] = "cleanup" THEN 0 ELSE 1)
       /\ idleall' = IF Kind[w] = "idle" THEN idleall + 1 ELSE idleall
       /\ refs' = refs
  BY DEF ArrayStart
<1>12. WatchTypes'
  <2>1. pri' \in [Watchers -> Pris \cup RawPris]
    BY <1>2 DEF WatchInv, WatchTypes
  <2>2. active' \in [Watchers -> Nat]
    BY <1>8, <1>9 DEF WatchInv, WatchTypes
  <2>3. arrays' \in [Slots -> Seq(Watchers)]
    BY <1>9 DEF WatchInv, WatchTypes
  <2> QED
    BY <2>1, <2>2, <2>3, <1>11 DEF WatchInv, WatchTypes
<1>13. ActiveClamped'
  BY <1>3, <1>10 DEF WatchInv, ActiveClamped
<1>14. ActiveAgrees'
  <2>1. ASSUME NEW t \in Slots, NEW i \in 1..Len(arrays'[t])
        PROVE  /\ arrays'[t][i] \in Watchers /\ active'[arrays'[t][i]] = i
               /\ SlotAt(arrays'[t][i], pri'[arrays'[t][i]]) = t
    <3>1. CASE t = s /\ i = Len(a) + 1
      BY <3>1, <1>3, <1>4, <1>8, <1>10
    <3>2. CASE ~(t = s /\ i = Len(a) + 1)
      <4>1. i \in 1..Len(arrays[t]) /\ arrays'[t][i] = arrays[t][i]
        BY <3>2, <1>6, <1>8, <1>10
      <4>2. /\ arrays[t][i] \in Watchers /\ active[arrays[t][i]] = i /\ i # 0
            /\ SlotAt(arrays[t][i], pri[arrays[t][i]]) = t
        BY <4>1, InArray
      <4>3. arrays[t][i] # w
        BY <4>2, <1>2
      <4> QED
        BY <4>1, <4>2, <4>3, <1>3, <1>10
    <3> QED
      BY <3>1, <3>2
  <2>2. ASSUME NEW v \in Watchers, Kind[v] # "event", active'[v] # 0
        PROVE  /\ SlotAt(v, pri'[v]) \in Slots
               /\ active'[v] \in 1..Len(arrays'[SlotAt(v, pri'[v])])
               /\ arrays'[SlotAt(v, pri'[v])][active'[v]] = v
    <3>1. CASE v = w
      BY <3>1, <1>3, <1>4, <1>8, <1>10
    <3>2. CASE v # w
      <4>1. active[v] = active'[v] /\ pri'[v] = pri[v]
        BY <3>2, <1>3, <1>10
      <4>2. /\ SlotAt(v, pri[v]) \in Slots
            /\ active[v] \in 1..Len(arrays[SlotAt(v, pri[v])])
            /\ arrays[SlotAt(v, pri[v])][active[v]] = v
        BY <2>2, <4>1, ActivePlace
      <4>3. CASE SlotAt(v, pri[v]) = s
        BY <4>1, <4>2, <4>3, <1>6, <1>8, <1>10
      <4>4. CASE SlotAt(v, pri[v]) # s
        BY <4>1, <4>2, <4>4, <1>10
      <4> QED
        BY <4>3, <4>4
    <3> QED
      BY <3>1, <3>2
  <2> QED
    BY <2>1, <2>2, AgreesAfter
<1>15. RefsBalanced'
  <2>1. active'[w] # 0 /\ \A v \in Watchers : v # w => (active'[v] # 0 <=> active[v] # 0)
    BY <1>8, <1>10
  <2> QED
    BY <2>1, <1>2, <1>11, CountUp DEF WatchInv, WatchTypes
<1> QED
  BY <1>12, <1>13, <1>14, <1>15 DEF WatchInv

\* ev_stop of an active array watcher: the last element takes its place.
LEMMA ArrayRemoveStep ==
    ASSUME RunAssumption, WatchInv, NEW w \in Watchers, Kind[w] # "event", active[w] # 0,
           ArrayRemove(w), pri' = pri, refs' = refs,
           activecnt' = activecnt - (IF Kind[w] = "cleanup" THEN 0 ELSE 1),
           idleall' = IF Kind[w] = "idle" THEN idleall - 1 ELSE idleall
    PROVE  WatchInv'
<1>1. PICK s \in Slots : s = SlotAt(w, pri[w])
  BY ActivePlace
<1>2. SlotOf(w) = s
  BY <1>1, SlotIs
<1>3. PICK a \in Seq(Watchers), n \in Nat, k \in Nat :
         a = arrays[s] /\ n = Len(a) /\ k = active[w] /\ k \in 1..n /\ a[k] = w
  BY <1>1, InArray, ActivePlace
<1>4. PICK last \in Watchers : last = a[n]
  BY <1>3, ElementOfSeq
<1>5. active[last] = n /\ SlotAt(last, pri[last]) = s
  BY <1>3, <1>4, InArray
<1>6. PICK b : b = [i \in 1..(n - 1) |-> IF i = k THEN last ELSE a[i]]
  OBVIOUS
<1>7. b \in Seq(Watchers) /\ Len(b) = n - 1
  <2>1. \A i \in 1..(n - 1) : a[i] \in Watchers
    BY <1>3, ElementOfSeq
  <2>2. b \in [1..(n - 1) -> Watchers]
    BY <2>1, <1>6
  <2>3. n - 1 \in Nat
    BY <1>3
  <2> QED
    BY <2>2, <2>3, FunctionIsSeq
<1>8. \A i \in 1..(n - 1) : b[i] = IF i = k THEN last ELSE a[i]
  BY <1>6
<1>9. /\ arrays' = [arrays EXCEPT ![s] = b]
      /\ active' = [active EXCEPT ![last] = k, ![w] = 0]
  BY <1>2, <1>3, <1>4, <1>6 DEF ArrayRemove
<1>10. /\ arrays'[s] = b /\ \A t \in Slots : t # s => arrays'[t] = arrays[t]
       /\ active'[w] = 0 /\ (last # w => active'[last] = k)
       /\ \A v \in Watchers : v # w /\ v # last => active'[v] = active[v]
  BY <1>9 DEF WatchInv, WatchTypes
<1>11. WatchTypes'
  <2>1. active' \in [Watchers -> Nat]
    BY <1>9 DEF WatchInv, WatchTypes
  <2>2. arrays' \in [Slots -> Seq(Watchers)]
    BY <1>7, <1>9 DEF WatchInv, WatchTypes
  <2> QED
    BY <2>1, <2>2 DEF WatchInv, WatchTypes
<1>12. \A v \in Watchers : v # w => (active'[v] # 0 <=> active[v] # 0)
  BY <1>3, <1>5, <1>10
<1>13. ActiveClamped'
  BY <1>10, <1>12 DEF WatchInv, ActiveClamped
<1>14. ActiveAgrees'
  <2>1. ASSUME NEW t \in Slots, NEW i \in 1..Len(arrays'[t])
        PROVE  /\ arrays'[t][i] \in Watchers /\ active'[arrays'[t][i]] = i
               /\ SlotAt(arrays'[t][i], pri'[arrays'[t][i]]) = t
    <3>1. CASE t = s /\ i = k
      <4>1. k \in 1..(n - 1) /\ arrays'[t][i] = last
        BY <3>1, <1>3, <1>7, <1>8, <1>10
      <4>2. last # w
        BY <4>1, <1>3, <1>5
      <4> QED
        BY <3>1, <4>1, <4>2, <1>5, <1>10
    <3>2. CASE ~(t = s /\ i = k)
      <4>1. i \in 1..Len(arrays[t]) /\ arrays'[t][i] = arrays[t][i] /\ ~(t = s /\ i = n)
        BY <3>2, <1>3, <1>7, <1>8, <1>10
      <4>2. /\ arrays[t][i] \in Watchers /\ active[arrays[t][i]] = i
            /\ SlotAt(arrays[t][i], pri[arrays[t][i]]) = t
        BY <4>1, InArray
      <4>3. arrays[t][i] # w
        BY <3>2, <4>2, <1>1, <1>3
      <4>4. arrays[t][i] # last
        BY <4>1, <4>2, <1>5
      <4> QED
        BY <4>1, <4>2, <4>3, <4>4, <1>10
    <3> QED
      BY <3>1, <3>2
  <2>2. ASSUME NEW v \in Watchers, Kind[v] # "event", active'[v] # 0
        PROVE  /\ SlotAt(v, pri'[v]) \in Slots
               /\ active'[v] \in 1..Len(arrays'[SlotAt(v, pri'[v])])
               /\ arrays'[SlotAt(v, pri'[v])][active'[v]] = v
    <3>1. v # w /\ active[v] # 0
      BY <2>2, <1>10, <1>12
    <3>2. /\ SlotAt(v, pri[v]) \in Slots
          /\ active[v] \in 1..Len(arrays[SlotAt(v, pri[v])])
          /\ arrays[SlotAt(v, pri[v])][active[v]] = v
      BY <2>2, <3>1, ActivePlace
    <3>3. CASE v = last
      <4>1. k \in 1..(n - 1)
        BY <3>1, <3>3, <1>3, <1>4
      <4> QED
        BY <4>1, <3>1, <3>3, <1>5, <1>7, <1>8, <1>10
    <3>4. CASE v # last /\ SlotAt(v, pri[v]) = s
      <4>1. active[v] \in 1..(n - 1) /\ active[v] # k /\ active'[v] = active[v]
        BY <3>1, <3>2, <3>4, <1>3, <1>4, <1>10
      <4> QED
        BY <4>1, <3>2, <3>4, <1>3, <1>7, <1>8, <1>10
    <3>5. CASE v # last /\ SlotAt(v, pri[v]) # s
      BY <3>1, <3>2, <3>5, <1>10
    <3> QED
      BY <3>3, <3>4, <3>5
  <2> QED
    BY <2>1, <2>2, AgreesAfter
<1>15. RefsBalanced'
  BY <1>10, <1>12, CountDown DEF WatchInv, WatchTypes
<1> QED
  BY <1>11, <1>13, <1>14, <1>15 DEF WatchInv

\* The arrays stay, and no watcher of an array changes.
LEMMA WatchSame ==
    ASSUME WatchInv, UNCHANGED <<pri, active, arrays, activecnt, idleall, refs>>
    PROVE  WatchInv'
<1>1. WatchTypes' /\ ActiveClamped'
  BY DEF WatchInv, WatchTypes, ActiveClamped
<1>2. ActiveAgrees'
  BY DEF WatchInv, ActiveAgrees, SlotOf
<1>3. RefsBalanced'
  BY CountSame DEF WatchInv
<1> QED
  BY <1>1, <1>2, <1>3 DEF WatchInv

LEMMA ArrayStopStep ==
    ASSUME RunAssumption, WatchInv, NEW w \in Watchers, Kind[w] # "event",
           ArrayStop(w, IF Kind[w] = "cleanup" THEN 0 ELSE 1)
    PROVE  WatchInv'
<1>1. CASE active[w] = 0
  BY <1>1, WatchSame DEF ArrayStop
<1>2. CASE active[w] # 0
  BY <1>2, ArrayRemoveStep DEF ArrayStop
<1> QED
  BY <1>1, <1>2

\* A watcher in no array, or one that is not active, changes.
LEMMA OthersAgree ==
    ASSUME RunAssumption, WatchInv, NEW w \in Watchers, arrays' = arrays,
           \A v \in Watchers : v # w => pri'[v] = pri[v] /\ active'[v] = active[v],
           \/ Kind[w] = "event"
           \/ active[w] = 0 /\ active'[w] = 0
    PROVE  ActiveAgrees'
<1>1. ASSUME NEW t \in Slots, NEW i \in 1..Len(arrays'[t])
      PROVE  /\ arrays'[t][i] \in Watchers /\ active'[arrays'[t][i]] = i
             /\ SlotAt(arrays'[t][i], pri'[arrays'[t][i]]) = t
  <2>1. /\ arrays[t][i] \in Watchers /\ active[arrays[t][i]] = i /\ i # 0
        /\ SlotAt(arrays[t][i], pri[arrays[t][i]]) = t
    BY InArray
  <2>2. Kind[arrays[t][i]] # "event"
    BY <2>1 DEF SlotAt, Slots, Kinds
  <2>3. arrays[t][i] # w
    BY <2>1, <2>2
  <2> QED
    BY <2>1, <2>3
<1>2. ASSUME NEW v \in Watchers, Kind[v] # "event", active'[v] # 0
      PROVE  /\ SlotAt(v, pri'[v]) \in Slots
             /\ active'[v] \in 1..Len(arrays'[SlotAt(v, pri'[v])])
             /\ arrays'[SlotAt(v, pri'[v])][active'[v]] = v
  <2>1. v # w
    BY <1>2
  <2> QED
    BY <1>2, <2>1, ActivePlace
<1> QED
  BY <1>1, <1>2, AgreesAfter

LEMMA EventStartStep ==
    ASSUME RunAssumption, WatchInv, NEW w \in Watchers, EventStart(w)
    PROVE  WatchInv'
<1>1. Clamp(pri[w]) \in Pris
  <2>1. pri[w] \in Pris \cup RawPris
    BY DEF WatchInv, WatchTypes
  <2> QED
    BY <2>1, Priorities
<1>2. /\ Kind[w] = "event" /\ active[w] = 0 /\ pri' = [pri EXCEPT ![w] = Clamp(@)]
      /\ active' = [active EXCEPT ![w] = 1] /\ activecnt' = activecnt + 1
      /\ UNCHANGED <<arrays, idleall, refs>>
  BY DEF EventStart
<1>3. /\ pri'[w] \in Pris /\ active'[w] = 1
      /\ \A v \in Watchers : v # w => pri'[v] = pri[v] /\ active'[v] = active[v]
  BY <1>1, <1>2 DEF WatchInv, WatchTypes
<1>4. WatchTypes'
  BY <1>1, <1>2 DEF WatchInv, WatchTypes
<1>5. ActiveClamped'
  BY <1>3 DEF WatchInv, ActiveClamped
<1>6. ActiveAgrees'
  BY <1>2, <1>3, OthersAgree
<1>7. RefsBalanced'
  BY <1>2, <1>3, CountUp DEF WatchInv, WatchTypes
<1> QED
  BY <1>4, <1>5, <1>6, <1>7 DEF WatchInv

LEMMA EventStopStep ==
    ASSUME RunAssumption, WatchInv, NEW w \in Watchers, EventStop(w)
    PROVE  WatchInv'
<1>1. /\ Kind[w] = "event" /\ pri' = pri /\ active' = [active EXCEPT ![w] = 0]
      /\ activecnt' = IF active[w] = 0 THEN activecnt ELSE activecnt - 1
      /\ UNCHANGED <<arrays, idleall, refs>>
  BY DEF EventStop
<1>2. active'[w] = 0 /\ \A v \in Watchers : v # w => active'[v] = active[v]
  BY <1>1 DEF WatchInv, WatchTypes
<1>3. WatchTypes'
  BY <1>1 DEF WatchInv, WatchTypes
<1>4. ActiveClamped'
  BY <1>1, <1>2 DEF WatchInv, ActiveClamped
<1>5. ActiveAgrees'
  BY <1>1, <1>2, OthersAgree
<1>6. RefsBalanced'
  <2>1. CASE active[w] = 0
    BY <2>1, <1>1, <1>2, CountSame DEF WatchInv
  <2>2. CASE active[w] # 0
    BY <2>2, <1>1, <1>2, CountDown DEF WatchInv, WatchTypes
  <2> QED
    BY <2>1, <2>2
<1> QED
  BY <1>3, <1>4, <1>5, <1>6 DEF WatchInv

LEMMA SetPriorityStep ==
    ASSUME RunAssumption, WatchInv, NEW w \in Watchers, NEW p \in RawPris, SetPriority(w, p)
    PROVE  WatchInv'
<1>1. /\ active[w] = 0 /\ pri' = [pri EXCEPT ![w] = p]
      /\ UNCHANGED <<active, arrays, activecnt, idleall, refs>>
  BY DEF SetPriority
<1>2. \A v \in Watchers : v # w => pri'[v] = pri[v]
  BY <1>1 DEF WatchInv, WatchTypes
<1>3. WatchTypes'
  BY <1>1 DEF WatchInv, WatchTypes
<1>4. ActiveClamped'
  BY <1>1, <1>2 DEF WatchInv, ActiveClamped
<1>5. ActiveAgrees'
  BY <1>1, <1>2, OthersAgree
<1>6. RefsBalanced'
  BY <1>1, CountSame DEF WatchInv
<1> QED
  BY <1>3, <1>4, <1>5, <1>6 DEF WatchInv

\* ev_ref and ev_unref.
LEMMA RefStep ==
    ASSUME RunAssumption, WatchInv, Ref \/ Unref
    PROVE  WatchInv'
<1>1. /\ UNCHANGED <<pri, active, arrays, idleall>>
      /\ \/ activecnt' = activecnt + 1 /\ refs' = refs + 1
         \/ activecnt' = activecnt - 1 /\ refs' = refs - 1
  BY DEF Ref, Unref
<1>2. WatchTypes' /\ ActiveClamped'
  BY <1>1 DEF WatchInv, WatchTypes, ActiveClamped
<1>3. ActiveAgrees'
  BY <1>1 DEF WatchInv, ActiveAgrees, SlotOf
<1>4. RefsBalanced'
  <2>1. Counted' = Counted /\ IdleOn' = IdleOn
    BY <1>1 DEF Counted, IdleOn
  <2>2. activecnt = refs + Cardinality(Counted) /\ idleall = Cardinality(IdleOn)
    BY DEF WatchInv, RefsBalanced, Counted, IdleOn
  <2>3. refs \in Int /\ Cardinality(Counted) \in Nat
    BY CountedFinite DEF WatchInv, WatchTypes
  <2>4. activecnt' = refs' + Cardinality(Counted') /\ idleall' = Cardinality(IdleOn')
    BY <1>1, <2>1, <2>2, <2>3
  <2> QED
    BY <2>4 DEF RefsBalanced, Counted, IdleOn
<1> QED
  BY <1>2, <1>3, <1>4 DEF WatchInv

-----------------------------------------------------------------------------
(* The whole state.                                                        *)

\* The application changes watchers and queues, not where the loop is.
LEMMA AppControl ==
    ASSUME ControlInv, mode = "app", UNCHANGED <<frames, mode, feeding>>,
           loop_done' \in {"CANCEL", "ONE", "ALL"}
    PROVE  ControlInv'
  BY DEF ControlInv, RunTypes, OnStack, FedActive, DrainedBetween

\* Its calls on one watcher.
LEMMA WatcherCalls ==
    ASSUME RunAssumption, RunInv, NEW w \in Watchers,
           \/ PrepareStart(w) \/ PrepareStop(w) \/ CheckStart(w) \/ CheckStop(w)
           \/ IdleStart(w) \/ IdleStop(w) \/ ForkStart(w) \/ ForkStop(w)
           \/ CleanupStart(w) \/ CleanupStop(w) \/ EventStart(w) \/ EventStop(w)
           \/ AppFeed(w) \/ AppClear(w)
           \/ \E p \in RawPris : SetPriority(w, p)
    PROVE  RunInv'
<1> DEFINE count == IF Kind[w] = "cleanup" THEN 0 ELSE 1
<1> USE DEF queueVars, runVars, watcherVars
<1>1. QueueInv /\ WatchInv /\ ControlInv /\ QueueTypes
  BY DEF RunInv, QueueInv
<1>2. /\ mode = "app" /\ UNCHANGED <<frames, mode, feeding, loop_done>>
  BY DEF PrepareStart, PrepareStop, CheckStart, CheckStop, IdleStart, IdleStop, ForkStart,
         ForkStop, CleanupStart, CleanupStop, EventStart, EventStop, AppFeed, AppClear,
         SetPriority, ArrayStart, ArrayStop
<1>3. ControlInv'
  BY <1>1, <1>2, AppControl DEF ControlInv, RunTypes
<1>4. ASSUME pri' = [pri EXCEPT ![w] = Clamp(@)], UNCHANGED queueVars
      PROVE  QueueInv'
  <2>1. pri[w] \in Pris \cup RawPris /\ pri \in [Watchers -> Pris \cup RawPris]
    BY <1>1 DEF QueueTypes
  <2>2. pri' \in [Watchers -> Pris \cup RawPris]
    BY <2>1, <1>4, Priorities
  <2>3. \A v \in Watchers : pending[v] # 0 => pri'[v] = pri[v]
    BY <2>1, <1>1, <1>4, Queued, Priorities
  <2>4. pendingpri' \in Pris /\ HigherDrained'
    BY <1>1, <1>4 DEF QueueInv, QueueTypes, HigherDrained
  <2> QED
    BY <2>2, <2>3, <2>4, <1>1, <1>4, QueueMoved
<1>5. CASE Kind[w] # "event" /\ ArrayStart(w, count)
  <2>1. QueueInv'
    BY <1>4, <1>5 DEF ArrayStart
  <2>2. WatchInv'
    BY <1>1, <1>5, ArrayStartStep
  <2> QED
    BY <2>1, <2>2, <1>3 DEF RunInv
<1>6. CASE Kind[w] # "event" /\ ArrayStop(w, count)
  <2>1. QueueInv'
    BY <1>1, <1>6, ClearStep DEF ArrayStop
  <2>2. WatchInv'
    BY <1>1, <1>6, ArrayStopStep
  <2> QED
    BY <2>1, <2>2, <1>3 DEF RunInv
<1>7. CASE EventStart(w)
  <2>1. QueueInv'
    BY <1>4, <1>7 DEF EventStart
  <2>2. WatchInv'
    BY <1>1, <1>7, EventStartStep
  <2> QED
    BY <2>1, <2>2, <1>3 DEF RunInv
<1>8. CASE EventStop(w)
  <2>1. QueueInv'
    BY <1>1, <1>8, ClearStep DEF EventStop
  <2>2. WatchInv'
    BY <1>1, <1>8, EventStopStep
  <2> QED
    BY <2>1, <2>2, <1>3 DEF RunInv
<1>9. CASE AppFeed(w)
  <2>1. QueueInv'
    BY <1>1, <1>9, FeedStep DEF AppFeed, Events
  <2>2. WatchInv'
    BY <1>1, <1>9, WatchSame DEF AppFeed
  <2> QED
    BY <2>1, <2>2, <1>3 DEF RunInv
<1>10. CASE AppClear(w)
  <2>1. QueueInv'
    BY <1>1, <1>10, ClearStep DEF AppClear
  <2>2. WatchInv'
    BY <1>1, <1>10, WatchSame DEF AppClear
  <2> QED
    BY <2>1, <2>2, <1>3 DEF RunInv
<1>11. CASE \E p \in RawPris : SetPriority(w, p)
  <2>1. PICK p \in RawPris : SetPriority(w, p)
    BY <1>11
  <2>2. pri' = [pri EXCEPT ![w] = p] /\ pending[w] = 0 /\ UNCHANGED queueVars
    BY <2>1 DEF SetPriority
  <2>3. pri' \in [Watchers -> Pris \cup RawPris]
    BY <2>2, <1>1 DEF QueueTypes
  <2>4. \A v \in Watchers : pending[v] # 0 => pri'[v] = pri[v]
    BY <2>2, <1>1 DEF QueueTypes
  <2>5. pendingpri' \in Pris /\ HigherDrained'
    BY <1>1, <2>2 DEF QueueInv, QueueTypes, HigherDrained
  <2>6. QueueInv'
    BY <2>2, <2>3, <2>4, <2>5, <1>1, QueueMoved
  <2>7. WatchInv'
    BY <1>1, <2>1, SetPriorityStep
  <2> QED
    BY <2>6, <2>7, <1>3 DEF RunInv
<1> QED
  BY <1>5, <1>6, <1>7, <1>8, <1>9, <1>10, <1>11
     DEF PrepareStart, PrepareStop, CheckStart, CheckStop, IdleStart, IdleStop, ForkStart,
         ForkStop, CleanupStart, CleanupStop

\* Its calls on the loop.
LEMMA LoopCalls ==
    ASSUME RunAssumption, RunInv,
           \/ Ref \/ Unref
           \/ \E how \in {"CANCEL", "ONE", "ALL"} : Break(how)
           \/ \E once \in BOOLEAN : CallRun(once)
           \/ CallInvokePending
    PROVE  RunInv'
<1> USE DEF queueVars, runVars, watcherVars
<1>1. QueueInv /\ WatchInv /\ ControlInv /\ RunTypes
  BY DEF RunInv, ControlInv
<1>2. CASE Ref \/ Unref
  <2>1. UNCHANGED <<pri, queueVars>>
    BY <1>2 DEF Ref, Unref
  <2>2. mode = "app" /\ UNCHANGED <<frames, mode, feeding, loop_done>>
    BY <1>2 DEF Ref, Unref
  <2> QED
    BY <1>1, <1>2, <2>1, <2>2, QueueSame, RefStep, AppControl DEF RunInv, RunTypes
<1>3. CASE \E how \in {"CANCEL", "ONE", "ALL"} : Break(how)
  <2>1. /\ UNCHANGED <<pri, queueVars>> /\ UNCHANGED <<active, arrays, activecnt, idleall, refs>>
        /\ mode = "app" /\ UNCHANGED <<frames, mode, feeding>>
        /\ loop_done' \in {"CANCEL", "ONE", "ALL"}
    BY <1>3 DEF Break
  <2> QED
    BY <1>1, <2>1, QueueSame, WatchSame, AppControl DEF RunInv
<1>4. CASE (\E once \in BOOLEAN : CallRun(once)) \/ CallInvokePending
  <2>1. /\ UNCHANGED <<pri, pending, pendings, acc>> /\ EnterInvoke
        /\ UNCHANGED <<active, arrays, activecnt, idleall, refs>>
        /\ feeding' = feeding /\ mode' = "inv" /\ loop_done' \in {"CANCEL", loop_done}
    BY <1>4 DEF CallRun, CallInvokePending, EnterInvoke
  <2>2. PICK f \in [at : Places, once : BOOLEAN] : frames' = Append(frames, f)
    <3>1. CASE \E once \in BOOLEAN : CallRun(once)
      BY <3>1 DEF CallRun, Places
    <3>2. CASE CallInvokePending
      BY <3>2 DEF CallInvokePending, Places
    <3> QED
      BY <1>4, <3>1, <3>2
  <2>3. frames' \in Seq([at : Places, once : BOOLEAN]) /\ frames' # <<>>
    BY <1>1, <2>2, AppendProperties DEF RunTypes
  <2>4. ControlInv'
    BY <1>1, <2>1, <2>3 DEF ControlInv, RunTypes, OnStack, FedActive, DrainedBetween
  <2> QED
    BY <1>1, <2>1, <2>4, EnterStep, WatchSame DEF RunInv
<1> QED
  BY <1>2, <1>3, <1>4

Frames == [at : Places, once : BOOLEAN]

\* The innermost call goes on to another place.
LEMMA AtStep ==
    ASSUME RunTypes, frames # <<>>, NEW place \in Places, At(place)
    PROVE  frames' \in Seq(Frames) /\ frames' # <<>> /\ Top'.at = place
<1>1. frames \in Seq(Frames)
  BY DEF RunTypes, Frames
<1>2. PICK n \in Nat \ {0} : n = Len(frames)
  BY <1>1, EmptySeq
<1>3. frames[n] \in Frames
  BY <1>1, <1>2, ElementOfSeq
<1>4. PICK f \in Frames : f = [frames[n] EXCEPT !.at = place]
  BY <1>3 DEF Frames
<1>5. f.at = place
  BY <1>3, <1>4 DEF Frames
<1>6. frames' = [frames EXCEPT ![n] = f]
  BY <1>2, <1>4 DEF At
<1>7. frames' \in Seq(Frames) /\ Len(frames') = n /\ frames'[n] = f
  BY <1>1, <1>2, <1>6, ExceptSeq
<1> QED
  BY <1>2, <1>5, <1>7, EmptySeq DEF Top

\* It returns.
LEMMA ButTopStep ==
    ASSUME RunTypes, frames # <<>>, frames' = ButTop
    PROVE  frames' \in Seq(Frames)
  BY DropLast DEF RunTypes, Frames, ButTop

\* A callback or an empty level of ev_invoke_pending.
LEMMA InvocationStep ==
    ASSUME RunAssumption, RunInv, Invocation
    PROVE  RunInv'
<1> USE DEF queueVars, runVars, watcherVars
<1>1. QueueInv /\ WatchInv /\ ControlInv /\ RunTypes
  BY DEF RunInv, ControlInv
<1>2. UNCHANGED <<pri, active, arrays, activecnt, idleall, refs>>
  BY DEF Invocation, InvokeOne, InvokeLower, InvokeDone, CallbackReturns
<1>3. WatchInv'
  BY <1>1, <1>2, WatchSame
<1>4. CASE InvokeOne
  <2>1. mode = "inv" /\ mode' \in {"inv", "app"} /\ UNCHANGED <<frames, feeding, loop_done>>
    BY <1>4 DEF InvokeOne
  <2>2. ControlInv'
    BY <1>1, <2>1 DEF ControlInv, RunTypes, OnStack, FedActive, DrainedBetween
  <2> QED
    BY <1>1, <1>3, <1>4, <2>2, InvokeOneStep DEF RunInv
<1>5. CASE InvokeLower
  <2>1. mode = "inv" /\ UNCHANGED <<mode, frames, feeding, loop_done>>
    BY <1>5 DEF InvokeLower
  <2>2. ControlInv'
    BY <1>1, <2>1 DEF ControlInv, RunTypes, OnStack, FedActive, DrainedBetween
  <2> QED
    BY <1>1, <1>3, <1>5, <2>2, InvokeLowerStep DEF RunInv
<1>6. CASE InvokeDone
  <2>1. QueueInv'
    BY <1>1, <1>6, QueueSame DEF InvokeDone
  <2>2. \A p \in Pris : pendings'[p] = <<>>
    BY <1>1, <1>6, Priorities DEF InvokeDone, QueueInv, HigherDrained
  <2>3. mode = "inv" /\ frames # <<>>
    BY <1>1, <1>6 DEF InvokeDone, ControlInv, OnStack
  <2>4. \/ mode' = "app" /\ frames' = ButTop
        \/ mode' = "run" /\ frames' = frames
    BY <1>6 DEF InvokeDone
  <2>5. frames' \in Seq(Frames)
    BY <1>1, <2>3, <2>4, ButTopStep DEF RunTypes, Frames
  <2>6. loop_done' = loop_done /\ feeding' = feeding
    BY <1>6 DEF InvokeDone
  <2>7. ControlInv'
    BY <1>1, <2>2, <2>3, <2>4, <2>5, <2>6
       DEF ControlInv, RunTypes, OnStack, FedActive, DrainedBetween, Frames
  <2> QED
    BY <1>3, <2>1, <2>7 DEF RunInv
<1>7. CASE CallbackReturns
  <2>1. QueueInv'
    BY <1>1, <1>7, QueueSame DEF CallbackReturns
  <2>2. frames # <<>> /\ mode' = "inv" /\ UNCHANGED <<frames, feeding, loop_done>>
    BY <1>7 DEF CallbackReturns
  <2>3. ControlInv'
    BY <1>1, <2>2 DEF ControlInv, RunTypes, OnStack, FedActive, DrainedBetween
  <2> QED
    BY <1>3, <2>1, <2>3 DEF RunInv
<1> QED
  BY <1>4, <1>5, <1>6, <1>7 DEF Invocation

\* queue_events begins on an array.
LEMMA QueueStartsStep ==
    ASSUME RunAssumption, RunInv, frames # <<>>, NEW s \in Slots, NEW e \in Events,
           NEW place \in Places, QueueStarts(arrays[s], e, place)
    PROVE  RunInv'
<1> USE DEF queueVars, watcherVars
<1>1. QueueInv /\ WatchInv /\ RunTypes /\ loop_done' = loop_done
  BY DEF RunInv, ControlInv, QueueStarts
<1>2. QueueInv' /\ WatchInv'
  BY <1>1, QueueSame, WatchSame DEF QueueStarts
<1>3. /\ arrays[s] \in Seq(Watchers)
      /\ \A i \in 1..Len(arrays[s]) : active[arrays[s][i]] # 0
  BY <1>1, InArray
<1>4. feeding' = [ws |-> arrays[s], ev |-> e] /\ mode' = "feed" /\ active' = active
  BY DEF QueueStarts
<1>5. frames' \in Seq(Frames) /\ frames' # <<>>
  BY <1>1, AtStep DEF QueueStarts
<1>6. RunTypes'
  BY <1>1, <1>3, <1>4, <1>5 DEF RunTypes, Frames
<1>7. OnStack' /\ DrainedBetween'
  BY <1>4, <1>5 DEF OnStack, DrainedBetween
<1>8. FedActive'
  <2>1. feeding'.ws = arrays[s]
    BY <1>4
  <2> QED
    BY <1>3, <1>4, <2>1 DEF FedActive
<1> QED
  BY <1>2, <1>6, <1>7, <1>8 DEF RunInv, ControlInv

\* ev_run goes on to a place where nothing may be pending only from one where nothing is.
LEMMA GoesOn ==
    ASSUME RunAssumption, RunInv, mode = "run", NEW place \in Places, At(place),
           UNCHANGED <<watcherVars, queueVars, loop_done, mode, feeding>>,
           \/ Top.at \in {"enter", "fork", "prepare", "tail"}
           \/ place \in {"poll", "idle"}
    PROVE  RunInv'
<1> USE DEF queueVars, watcherVars
<1>1. QueueInv /\ WatchInv /\ RunTypes /\ frames # <<>>
  BY DEF RunInv, ControlInv, OnStack
<1>2. QueueInv' /\ WatchInv'
  BY <1>1, QueueSame, WatchSame
<1>3. frames' \in Seq(Frames) /\ frames' # <<>> /\ Top'.at = place
  BY <1>1, AtStep
<1>4. RunTypes' /\ OnStack' /\ FedActive'
  BY <1>1, <1>3 DEF RunTypes, OnStack, FedActive, Frames
<1>5. DrainedBetween'
  BY <1>3 DEF RunInv, ControlInv, DrainedBetween
<1> QED
  BY <1>2, <1>4, <1>5 DEF RunInv, ControlInv

LEMMA ArraySlots ==
    ASSUME RunAssumption
    PROVE  /\ <<"fork", 0>> \in Slots /\ <<"prepare", 0>> \in Slots /\ <<"check", 0>> \in Slots
           /\ \A p \in Pris : <<"idle", p>> \in Slots
  BY DEF Slots, Kinds

\* A step of ev_run outside of ev_invoke_pending.
LEMMA PassStep ==
    ASSUME RunAssumption, RunInv, Pass
    PROVE  RunInv'
<1> USE DEF queueVars, runVars, watcherVars
<1>1. QueueInv /\ WatchInv /\ ControlInv /\ RunTypes
  BY DEF RunInv, ControlInv
<1>2. mode = "run" \/ mode = "feed"
  BY DEF Pass, QueueNext, QueueDone, RunFork, RunPrepare, RunPoll, RunIdle, RunCheck,
         RunAgain, RunReturn, PollFeed, Running
<1>3. frames # <<>>
  BY <1>1, <1>2 DEF ControlInv, OnStack
<1>4. CASE QueueNext
  <2>1. PICK q \in Seq(Watchers) : q = feeding.ws /\ q # <<>>
    BY <1>1, <1>4 DEF QueueNext, RunTypes
  <2>2. /\ Len(q) \in Nat \ {0} /\ Head(q) = q[1] /\ Head(q) \in Watchers
        /\ Tail(q) \in Seq(Watchers) /\ Len(Tail(q)) = Len(q) - 1
        /\ \A i \in 1..Len(Tail(q)) : Tail(q)[i] = q[i + 1]
    BY <2>1, HeadTailProperties, EmptySeq
  <2>3. \A i \in 1..Len(q) : active[q[i]] # 0
    BY <1>1, <1>4, <2>1 DEF QueueNext, ControlInv, FedActive
  <2>4. pri[Head(q)] \in Pris
    BY <1>1, <2>2, <2>3 DEF WatchInv, ActiveClamped
  <2>5. feeding.ev \in Events
    BY <1>1 DEF RunTypes
  <2>6. QueueInv'
    BY <1>1, <1>4, <2>1, <2>2, <2>4, <2>5, FeedStep DEF QueueNext
  <2>7. WatchInv'
    BY <1>1, <1>4, WatchSame DEF QueueNext
  <2>8. /\ mode = "feed" /\ feeding' = [feeding EXCEPT !.ws = Tail(q)]
        /\ UNCHANGED <<loop_done, frames, mode, active>>
    BY <1>4, <2>1 DEF QueueNext
  <2>9. feeding' \in [ws : Seq(Watchers), ev : Events] /\ feeding'.ws = Tail(q)
    BY <1>1, <2>2, <2>8 DEF RunTypes
  <2>10. RunTypes' /\ OnStack' /\ DrainedBetween'
    BY <1>1, <1>3, <2>8, <2>9 DEF RunTypes, OnStack, DrainedBetween
  <2>11. FedActive'
    BY <2>2, <2>3, <2>8, <2>9 DEF FedActive
  <2> QED
    BY <2>6, <2>7, <2>10, <2>11 DEF RunInv, ControlInv
<1>5. CASE QueueDone
  <2>1. WatchInv'
    BY <1>1, <1>5, WatchSame DEF QueueDone
  <2>2. \/ Top.at = "idle" /\ mode' = "run" /\ pendingpri' = pendingpri
        \/ EnterInvoke
    BY <1>5 DEF QueueDone
  <2>3. QueueInv'
    BY <1>1, <1>5, <2>2, QueueSame, EnterStep DEF QueueDone
  <2>4. UNCHANGED <<loop_done, frames, feeding>>
    BY <1>5 DEF QueueDone
  <2>5. \/ Top'.at = "idle" /\ mode' = "run"
        \/ mode' = "inv"
    BY <2>2, <2>4 DEF Top, EnterInvoke
  <2>6. RunTypes' /\ OnStack' /\ FedActive' /\ DrainedBetween'
    BY <1>1, <1>3, <2>4, <2>5 DEF RunTypes, OnStack, FedActive, DrainedBetween
  <2> QED
    BY <2>1, <2>3, <2>6 DEF RunInv, ControlInv
<1>6. CASE RunFork
  <2>1. mode = "run" /\ Top.at = "enter"
    BY <1>6 DEF RunFork, Running
  <2>2. CASE QueueStarts(arrays[<<"fork", 0>>], "FORK", "fork")
    BY <2>2, <1>3, ArraySlots, QueueStartsStep DEF Events, Places
  <2>3. CASE At("fork") /\ UNCHANGED <<watcherVars, queueVars, loop_done, mode, feeding>>
    BY <2>1, <2>3, GoesOn DEF Places
  <2> QED
    BY <1>6, <2>2, <2>3 DEF RunFork
<1>7. CASE RunPrepare
  <2>1. mode = "run" /\ Top.at = "fork"
    BY <1>7 DEF RunPrepare, Running
  <2>2. CASE QueueStarts(arrays[<<"prepare", 0>>], "PREPARE", "prepare")
    BY <2>2, <1>3, ArraySlots, QueueStartsStep DEF Events, Places
  <2>3. CASE At("prepare") /\ UNCHANGED <<watcherVars, queueVars, loop_done, mode, feeding>>
    BY <2>1, <2>3, GoesOn DEF Places
  <2> QED
    BY <1>7, <2>2, <2>3 DEF RunPrepare
<1>8. CASE RunPoll
  BY <1>8, GoesOn DEF RunPoll, Running, Places
<1>9. CASE RunIdle
  <2>1. mode = "run" /\ Top.at = "poll"
    BY <1>9 DEF RunIdle, Running
  <2>2. CASE \E p \in Pris : QueueStarts(arrays[<<"idle", p>>], "IDLE", "idle")
    BY <2>2, <1>3, ArraySlots, QueueStartsStep DEF Events, Places
  <2>3. CASE At("idle") /\ UNCHANGED <<watcherVars, queueVars, loop_done, mode, feeding>>
    BY <2>1, <2>3, GoesOn DEF Places
  <2> QED
    BY <1>9, <2>2, <2>3 DEF RunIdle
<1>10. CASE RunCheck
  BY <1>3, <1>10, ArraySlots, QueueStartsStep DEF RunCheck, Events, Places
<1>11. CASE RunAgain
  BY <1>11, GoesOn DEF RunAgain, Running, Places
<1>12. CASE RunReturn
  <2>1. QueueInv' /\ WatchInv'
    BY <1>1, <1>12, QueueSame, WatchSame DEF RunReturn
  <2>2. /\ loop_done' \in {"CANCEL", loop_done} /\ frames' = ButTop /\ mode' = "app"
        /\ feeding' = feeding
    BY <1>12 DEF RunReturn
  <2>3. frames' \in Seq(Frames)
    BY <1>1, <1>3, <2>2, ButTopStep
  <2>4. ControlInv'
    BY <1>1, <2>2, <2>3 DEF ControlInv, RunTypes, OnStack, FedActive, DrainedBetween, Frames
  <2> QED
    BY <2>1, <2>4 DEF RunInv
<1>13. CASE \E w \in Watchers : PollFeed(w)
  <2>1. PICK w \in Watchers : PollFeed(w)
    BY <1>13
  <2>2. pri[w] \in Pris
    BY <1>1, <2>1 DEF PollFeed, WatchInv, ActiveClamped
  <2>3. QueueInv'
    BY <1>1, <2>1, <2>2, FeedStep DEF PollFeed, Events
  <2>4. WatchInv'
    BY <1>1, <2>1, WatchSame DEF PollFeed
  <2>5. mode = "run" /\ Top.at = "poll" /\ UNCHANGED <<loop_done, frames, mode, feeding>>
    BY <2>1 DEF PollFeed, Running
  <2>6. RunTypes' /\ OnStack' /\ FedActive'
    BY <1>1, <1>3, <2>5 DEF RunTypes, OnStack, FedActive
  <2>7. DrainedBetween'
    BY <2>5 DEF DrainedBetween, Top
  <2> QED
    BY <2>3, <2>4, <2>6, <2>7 DEF RunInv, ControlInv
<1> QED
  BY <1>4, <1>5, <1>6, <1>7, <1>8, <1>9, <1>10, <1>11, <1>12, <1>13 DEF Pass

-----------------------------------------------------------------------------
(* The theorems.                                                           *)

LEMMA InitInv ==
    ASSUME RunAssumption, Init
    PROVE  RunInv
<1>1. QueueInv
  <2>1. QueueTypes
    BY Priorities, EmptySeq DEF Init, QueueTypes
  <2>2. \A p \in Pris : Len(pendings[p]) = 0
    BY EmptySeq DEF Init
  <2>3. PendingIndex /\ CallbackEvents
    BY <2>2 DEF Init, PendingIndex, CallbackEvents
  <2> QED
    BY <2>1, <2>3 DEF Init, QueueInv, HigherDrained, AccPending
<1>2. WatchInv
  <2>1. WatchTypes /\ ActiveClamped
    BY EmptySeq DEF Init, WatchTypes, ActiveClamped
  <2>2. \A s \in Slots : Len(arrays[s]) = 0
    BY EmptySeq DEF Init
  <2>3. ActiveAgrees
    BY <2>2 DEF Init, ActiveAgrees
  <2>4. Counted = {} /\ IdleOn = {}
    BY DEF Init, Counted, IdleOn
  <2>5. RefsBalanced
    <3>1. Cardinality(Counted) = 0 /\ Cardinality(IdleOn) = 0
      BY <2>4, FS_EmptySet
    <3>2. activecnt = refs + Cardinality(Counted) /\ idleall = Cardinality(IdleOn)
      BY <3>1 DEF Init
    <3> QED
      BY <3>2 DEF RefsBalanced, Counted, IdleOn
  <2> QED
    BY <2>1, <2>3, <2>5 DEF WatchInv
<1>3. ControlInv
  <2>1. RunTypes
    <3>1. /\ frames \in Seq([at : Places, once : BOOLEAN])
          /\ feeding \in [ws : Seq(Watchers), ev : Events]
      BY EmptySeq DEF Init, Events
    <3> QED
      BY <3>1 DEF Init, RunTypes
  <2> QED
    BY <2>1 DEF Init, ControlInv, OnStack, FedActive, DrainedBetween
<1> QED
  BY <1>1, <1>2, <1>3 DEF RunInv

LEMMA NextInv ==
    ASSUME RunAssumption, RunInv, [Next]_vars
    PROVE  RunInv'
<1>1. CASE Application
  BY <1>1, WatcherCalls, LoopCalls DEF Application
<1>2. CASE Invocation
  BY <1>2, InvocationStep
<1>3. CASE Pass
  BY <1>3, PassStep
<1>4. CASE UNCHANGED vars
  <2>1. QueueInv' /\ WatchInv'
    BY <1>4, QueueSame, WatchSame DEF RunInv, vars, queueVars
  <2>2. ControlInv'
    BY <1>4 DEF RunInv, ControlInv, RunTypes, OnStack, FedActive, DrainedBetween, Top, vars
  <2> QED
    BY <2>1, <2>2 DEF RunInv
<1> QED
  BY <1>1, <1>2, <1>3, <1>4 DEF Next

\* The invariant of the queues, the arrays and the calls on the stack is inductive, for
\* every call of the application between runs and in callbacks, nested runs included.
THEOREM RunInductive ==
    ASSUME RunAssumption
    PROVE  Spec => []RunInv
<1>1. Init => RunInv
  BY InitInv
<1>2. RunInv /\ [Next]_vars => RunInv'
  BY NextInv
<1> QED
  BY <1>1, <1>2, PTL DEF Spec

\* w->pending and the queue entry that names w agree (verify_watcher and its converse), and
\* pendingpri never leaves the priorities.
THEOREM PendingsAgree ==
    ASSUME RunAssumption
    PROVE  Spec => []PendingAgrees
<1>1. RunInv => PendingAgrees
  BY TypeParts DEF RunInv, QueueInv, WatchInv, ControlInv, PendingAgrees
<1> QED
  BY <1>1, RunInductive, PTL

\* ev_invoke_pending takes the highest priority first whatever its callbacks feed, clear or
\* run, and ev_run goes on from it only when nothing is pending.
THEOREM PrioritiesKept ==
    ASSUME RunAssumption
    PROVE  Spec => []DrainedInOrder
<1>1. RunInv => DrainedInOrder
  BY DEF RunInv, QueueInv, ControlInv, DrainedInOrder
<1> QED
  BY <1>1, RunInductive, PTL

\* The events a queue holds for a watcher are those fed since it was last invoked, cleared
\* or stopped (ev_feed_event, clear_pending, ev_invoke_pending).
THEOREM CallbacksGetEvents ==
    ASSUME RunAssumption
    PROVE  Spec => []CallbackEvents
<1>1. RunInv => CallbackEvents
  BY DEF RunInv, QueueInv
<1> QED
  BY <1>1, RunInductive, PTL

\* w->active is the place of w in its array, across every swap-with-last removal
\* (array_verify).
THEOREM ActivesAgree ==
    ASSUME RunAssumption
    PROVE  Spec => []ActiveAgrees
<1>1. RunInv => ActiveAgrees
  BY DEF RunInv, WatchInv
<1> QED
  BY <1>1, RunInductive, PTL

\* activecnt is the application's references plus one per active watcher that keeps the
\* loop alive, and idleall counts the active idle watchers (ev_ref, ev_unref, ev_start,
\* ev_stop).
THEOREM ReferencesBalance ==
    ASSUME RunAssumption
    PROVE  Spec => []RefsBalanced
<1>1. RunInv => RefsBalanced
  BY DEF RunInv, WatchInv
<1> QED
  BY <1>1, RunInductive, PTL
=============================================================================
