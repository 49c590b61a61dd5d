------------------------------ MODULE TimerHeap ------------------------------
(***************************************************************************)
(* The relative timers as the code keeps them (src/ev.c): the timers[] heap*)
(* with its cached deadlines and the watchers' active indices, and the     *)
(* operations on it.  Implements TimerQueue.                               *)
(***************************************************************************)
EXTENDS Heap

CONSTANTS Timers, NoTimer, Afters, Repeats, MaxTime

VARIABLES
    timers,     \* [h |-> the ANHE array from HEAP0, act |-> w->active]
    at,         \* w->at
    repeat,     \* w->repeat
    mn_now, phase, rfeeds, pend, expired

vars == <<timers, at, repeat, mn_now, phase, rfeeds, pend, expired>>

\* The promise: what is in the heap is armed.
Promise == INSTANCE TimerQueue WITH
    armed <- {timers.h[i].w : i \in 1..Len(timers.h)}

TypeOK ==
    /\ timers \in [h : Seq([w : Timers, at : Int]), act : [Timers -> Nat]]
    /\ Promise!TypeOK

Init ==
    /\ timers = [h |-> <<>>, act |-> [w \in Timers |-> 0]]
    /\ at = [w \in Timers |-> 0]
    /\ repeat = [w \in Timers |-> 0]
    /\ mn_now = 0
    /\ phase = "idle"
    /\ rfeeds = <<>>
    /\ pend = <<>>
    /\ expired = {}

Active(w) == timers.act[w] # 0
Queued(w) == \E i \in 1..Len(pend) : pend[i].w = w
App == phase \in {"idle", "invoke"}

\* clear_pending, and what it means for the history variable
ClearPending(w) ==
    /\ pend' = [i \in 1..Len(pend) |->
                  IF pend[i].w = w THEN [pend[i] EXCEPT !.w = NoTimer] ELSE pend[i]]
    /\ expired' = expired \ {w}

-----------------------------------------------------------------------------
ev_timer_set(w, after, rep) ==
    /\ App
    /\ ~Active(w) /\ ~Queued(w)
    /\ at' = [at EXCEPT ![w] = after]
    /\ repeat' = [repeat EXCEPT ![w] = rep]
    /\ UNCHANGED <<timers, mn_now, phase, rfeeds, pend, expired>>

\* ev_at += mn_now, and the insertion.
StartTimer(w, after) ==
    /\ at' = [at EXCEPT ![w] = after + mn_now]
    /\ timers' = HeapInsert(timers, w, after + mn_now)

ev_timer_start(w) ==
    /\ App
    /\ ~Active(w)
    /\ StartTimer(w, at[w])
    /\ UNCHANGED <<repeat, mn_now, phase, rfeeds, pend, expired>>

\* The removal; ev_at becomes relative again.
StopTimer(w) ==
    IF Active(w)
    THEN timers' = HeapRemove(timers, w) /\ at' = [at EXCEPT ![w] = @ - mn_now]
    ELSE UNCHANGED <<timers, at>>

ev_timer_stop(w) ==
    /\ App
    /\ ClearPending(w)
    /\ StopTimer(w)
    /\ UNCHANGED <<repeat, mn_now, phase, rfeeds>>

\* Mutant: a restarted timer is only ever moved away from the root.
AgainDownOnly(w) ==
    /\ App
    /\ ClearPending(w)
    /\ IF repeat[w] = 0 THEN StopTimer(w)
       ELSE IF Active(w)
            THEN /\ at' = [at EXCEPT ![w] = mn_now + repeat[w]]
                 /\ timers' = LET k == timers.act[w]
                              IN  DownHeap(Retime(timers, k, at'[w]), k)
            ELSE StartTimer(w, repeat[w])
    /\ UNCHANGED <<repeat, mn_now, phase, rfeeds>>

ev_timer_again(w) ==
    /\ App
    /\ ClearPending(w)
    /\ IF repeat[w] = 0 THEN StopTimer(w)
       ELSE IF Active(w)
            THEN /\ at' = [at EXCEPT ![w] = mn_now + repeat[w]]
                 /\ timers' = LET k == timers.act[w]
                              IN  AdjustHeap(Retime(timers, k, at'[w]), k)
            ELSE StartTimer(w, repeat[w])
    /\ UNCHANGED <<repeat, mn_now, phase, rfeeds>>

\* Mutant: a clock that went back is taken over.
NowUpdateBack ==
    /\ App
    /\ \E t \in (mn_now - 1)..MaxTime : mn_now' = t
    /\ UNCHANGED <<timers, at, repeat, phase, rfeeds, pend, expired>>

\* ev_now_update, ev_suspend
ev_now_update ==
    /\ App
    /\ \E t \in (mn_now + 1)..MaxTime : mn_now' = t
    /\ UNCHANGED <<timers, at, repeat, phase, rfeeds, pend, expired>>

\* timers_reschedule: every deadline in the heap and its cache are shifted.
TimersReschedule(adjust) ==
    /\ at' = [w \in Timers |-> IF Active(w) THEN at[w] + adjust ELSE at[w]]
    /\ timers' = [timers EXCEPT !.h =
                     [i \in 1..Len(@) |-> [w |-> @[i].w, at |-> at'[@[i].w]]]]

ev_resume ==
    /\ App
    /\ \E t \in mn_now..MaxTime : mn_now' = t /\ TimersReschedule(t - mn_now)
    /\ UNCHANGED <<repeat, phase, rfeeds, pend, expired>>

-----------------------------------------------------------------------------
\* Mutant: a timer is taken on the tick of its deadline.
DueInclusive == timers.h # <<>> /\ timers.h[1].at <= mn_now

\* timers_reify
Due == timers.h # <<>> /\ timers.h[1].at < mn_now

time_update ==
    /\ phase = "idle"
    /\ \E t \in mn_now..MaxTime : mn_now' = t
    /\ phase' = "reify"
    /\ UNCHANGED <<timers, at, repeat, rfeeds, pend, expired>>

NextDeadline(w) == IF at[w] + repeat[w] < mn_now THEN mn_now ELSE at[w] + repeat[w]

ReifyRoot ==
    /\ phase = "reify"
    /\ Due
    /\ LET w == timers.h[1].w
       IN  /\ IF repeat[w] # 0
              THEN /\ at' = [at EXCEPT ![w] = NextDeadline(w)]
                   /\ timers' = DownHeap(Retime(timers, 1, NextDeadline(w)), 1)
              ELSE StopTimer(w)
           /\ rfeeds' = Append(rfeeds, [w |-> w, dl |-> at[w]])
           /\ expired' = expired \cup {w}
    /\ UNCHANGED <<repeat, mn_now, phase, pend>>

feed_reverse_done ==
    /\ phase = "reify"
    /\ ~Due
    /\ pend' = pend \o [i \in 1..Len(rfeeds) |-> rfeeds[Len(rfeeds) + 1 - i]]
    /\ rfeeds' = <<>>
    /\ phase' = "invoke"
    /\ UNCHANGED <<timers, at, repeat, mn_now, expired>>

Invoke ==
    /\ phase = "invoke"
    /\ pend # <<>>
    /\ pend' = [i \in 1..(Len(pend) - 1) |-> pend[i]]
    /\ expired' = expired \ {pend[Len(pend)].w}
    /\ UNCHANGED <<timers, at, repeat, mn_now, phase, rfeeds>>

EndPass ==
    /\ phase = "invoke"
    /\ pend = <<>>
    /\ phase' = "idle"
    /\ UNCHANGED <<timers, at, repeat, mn_now, rfeeds, pend, expired>>

Next ==
    \/ \E w \in Timers :
         \/ \E after \in Afters, rep \in Repeats : ev_timer_set(w, after, rep)
         \/ ev_timer_start(w) \/ ev_timer_stop(w) \/ ev_timer_again(w)
    \/ ev_now_update \/ ev_resume \/ time_update
    \/ ReifyRoot \/ feed_reverse_done \/ Invoke \/ EndPass

Spec == Init /\ [][Next]_vars

-----------------------------------------------------------------------------
(* Properties.                                                             *)

\* verify_heap ("heap condition violated", "active index mismatch in heap",
\* "heap at cache mismatch") after any sequence of starts, stops, restarts,
\* expiries and ev_resume, from callbacks too.
HeapSound ==
    /\ TypeOK
    /\ HeapOrdered(timers)
    /\ HeapIndexed(timers)
    /\ \A i \in 1..Len(timers.h) : timers.h[i].at = at[timers.h[i].w]

\* The heap implements the set of timers: the root is always one of the
\* earliest, and timers_reify stops only when nothing is due.
ImplementsTimerQueue == Promise!Spec

=============================================================================
