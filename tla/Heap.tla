-------------------------------- MODULE Heap --------------------------------
(***************************************************************************)
(* The d-ary heaps that hold the timers and the periodics (src/ev.c:       *)
(* upheap, downheap, adjustheap, reheap), for DHEAP = 4 (EV_USE_4HEAP) and *)
(* DHEAP = 2.  A heap is a record: h, the ANHE array from HEAP0 on (each   *)
(* entry a watcher and its cached `at'), and act, the watchers' `active'   *)
(* fields, counted from 1 instead of HEAP0.  Moving an element through a   *)
(* hole, as the code does, and swapping it along its path give the same    *)
(* array.                                                                  *)
(***************************************************************************)
EXTENDS Integers, Sequences

CONSTANT DHEAP

ASSUME DHeapAssumption == DHEAP \in Nat /\ DHEAP > 1

\* HPARENT
Parent(k) == (k - 2) \div DHEAP + 1

\* The children downheap looks at: those inside the array.
Children(h, k) == {c \in (DHEAP * (k - 1) + 2)..(DHEAP * k + 1) : c <= Len(h)}

\* The first child with the smallest time.
MinChild(h, k) ==
    CHOOSE c \in Children(h, k) :
        \A d \in Children(h, k) : h[c].at < h[d].at \/ (h[c].at = h[d].at /\ c <= d)

\* Mutant: the displaced element keeps its old active index.
MoveToStale(T, k, j) ==
    [h   |-> [T.h EXCEPT ![k] = T.h[j], ![j] = T.h[k]],
     act |-> T.act]

\* heap[k] = heap[j] (and its active index); the travelling element goes to j.
MoveTo(T, k, j) ==
    [h   |-> [T.h EXCEPT ![k] = T.h[j], ![j] = T.h[k]],
     act |-> [T.act EXCEPT ![T.h[j].w] = k]]

\* heap[k] = he; ev_active (he) = k
Settle(T, k) == [T EXCEPT !.act[T.h[k].w] = k]

\* Mutant: the root is never displaced.
UpStopsEarly(T, k) == k <= DHEAP + 1 \/ T.h[Parent(k)].at <= T.h[k].at

\* UPHEAP_DONE, or the parent is not later.
UpStops(T, k) == k = 1 \/ T.h[Parent(k)].at <= T.h[k].at

RECURSIVE UpHeap(_, _)
UpHeap(T, k) ==
    IF UpStops(T, k) THEN Settle(T, k)
    ELSE UpHeap(MoveTo(T, k, Parent(k)), Parent(k))

RECURSIVE DownHeap(_, _)
DownHeap(T, k) ==
    IF Children(T.h, k) = {} \/ T.h[k].at <= T.h[MinChild(T.h, k)].at
    THEN Settle(T, k)
    ELSE LET c == MinChild(T.h, k) IN DownHeap(MoveTo(T, k, c), c)

AdjustHeap(T, k) ==
    IF k > 1 /\ T.h[k].at <= T.h[Parent(k)].at THEN UpHeap(T, k) ELSE DownHeap(T, k)

\* reheap: upheap on every prefix in turn.
RECURSIVE ReheapFrom(_, _)
ReheapFrom(T, i) == IF i > Len(T.h) THEN T ELSE ReheapFrom(UpHeap(T, i), i + 1)
Reheap(T) == ReheapFrom(T, 1)

\* ev_timer_start / ev_periodic_start: ev_start gives the last index, upheap
\* moves the new entry to its place.
HeapInsert(T, w, at) ==
    LET n == Len(T.h) + 1
    IN  UpHeap([h |-> Append(T.h, [w |-> w, at |-> at]), act |-> [T.act EXCEPT ![w] = n]], n)

\* ev_timer_stop / ev_periodic_stop: the last entry fills the hole.
HeapRemove(T, w) ==
    LET n == Len(T.h)
        k == T.act[w]
        short == [i \in 1..(n - 1) |-> IF i = k THEN T.h[n] ELSE T.h[i]]
        S == [T EXCEPT !.h = short]
        R == IF k < n THEN AdjustHeap(S, k) ELSE S
    IN  [R EXCEPT !.act[w] = 0]

\* A new time for the entry at k (ANHE_at_cache), before it is moved.
Retime(T, k, at) == [T EXCEPT !.h[k].at = at]

-----------------------------------------------------------------------------
\* verify_heap: "heap condition violated", "active index mismatch in heap".
HeapOrdered(T) == \A k \in 2..Len(T.h) : T.h[Parent(k)].at <= T.h[k].at
HeapIndexed(T) ==
    /\ \A k \in 1..Len(T.h) : T.act[T.h[k].w] = k
    /\ \A w \in DOMAIN T.act : T.act[w] # 0 =>
         T.act[w] \in 1..Len(T.h) /\ T.h[T.act[w]].w = w
=============================================================================
