------------------------------- MODULE HeapOps -------------------------------
(***************************************************************************)
(* Every heap of up to MaxLen entries that the operations of the loop can  *)
(* build, and every operation on it.  Watchers are interchangeable, so a   *)
(* heap is kept as the sequence of its times; an operation is applied to   *)
(* it with watcher i at place i, and its full result, with watchers and    *)
(* indices, is kept beside it.                                             *)
(***************************************************************************)
EXTENDS Heap

CONSTANTS
    MaxLen,     \* bound: entries in the heap
    Times       \* the times entries may have

VARIABLES
    times,      \* the heap, as the sequence of its `at' values
    result,     \* the last operation's outcome
    expect      \* the times the watchers should have after it (absent: removed)

vars == <<times, result, expect>>

Ids == 1..MaxLen

\* The heap with watcher i at place i.
Labelled ==
    [h   |-> [i \in 1..Len(times) |-> [w |-> i, at |-> times[i]]],
     act |-> [w \in Ids |-> IF w <= Len(times) THEN w ELSE 0]]

Becomes(T, exp) ==
    /\ result' = T
    /\ expect' = exp
    /\ times' = [i \in 1..Len(T.h) |-> T.h[i].at]

Init ==
    /\ times = <<>>
    /\ result = Labelled
    /\ expect = <<>>

Insert(t) ==
    /\ Len(times) < MaxLen
    /\ Becomes(HeapInsert(Labelled, Len(times) + 1, t), Append(times, t))

Remove(k) ==
    Becomes(HeapRemove(Labelled, k), [i \in DOMAIN times \ {k} |-> times[i]])

\* ev_timer_again on an active timer.
Adjust(k, t) ==
    Becomes(AdjustHeap(Retime(Labelled, k, t), k), [times EXCEPT ![k] = t])

\* timers_reify on a repeating timer: a later time for the root.
Later(t) ==
    /\ times # <<>>
    /\ t >= times[1]
    /\ Becomes(DownHeap(Retime(Labelled, 1, t), 1), [times EXCEPT ![1] = t])

\* periodics_reschedule: new times for the entries, then reheap; here those from
\* place m on get time t.
Reschedule(m, t) ==
    LET new == [i \in DOMAIN times |-> IF i >= m THEN t ELSE times[i]]
        T   == [Labelled EXCEPT !.h = [i \in DOMAIN times |-> [w |-> i, at |-> new[i]]]]
    IN  Becomes(Reheap(T), new)

Next ==
    \/ \E t \in Times : Insert(t) \/ Later(t)
    \/ \E k \in DOMAIN times : Remove(k) \/ \E t \in Times : Adjust(k, t)
    \/ \E t \in Times, m \in {2, Len(times) \div 2 + 1, Len(times) - 1} : Reschedule(m, t)

Spec == Init /\ [][Next]_vars

\* upheap, downheap, adjustheap and reheap restore the heap order (verify_heap),
\* so the entry at HEAP0 is always the earliest.
Ordered == HeapOrdered(result)

\* They keep every watcher's active index on its own entry: nothing is lost or
\* doubled, and each entry keeps the time it had.
Permuted ==
    /\ HeapIndexed(result)
    /\ \A w \in Ids : (result.act[w] # 0) <=> (w \in DOMAIN expect)
    /\ \A w \in DOMAIN expect : result.h[result.act[w]].at = expect[w]
=============================================================================
