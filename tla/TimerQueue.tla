----------------------------- MODULE TimerQueue -----------------------------
(***************************************************************************)
(* What the relative timers of a loop promise (src/ev.c: ev_timer_start,   *)
(* ev_timer_stop, ev_timer_again, timers_reify, feed_reverse): a set of    *)
(* armed timers with deadlines; a pass takes those whose deadline lies     *)
(* before the loop's time, earliest first, and their callbacks run in that *)
(* order.  How the earliest is found is left open: TimerHeap does it with  *)
(* the heap of the code and is shown to implement this module.             *)
(***************************************************************************)
EXTENDS Integers, Sequences

CONSTANTS
    Timers,
    NoTimer,    \* pending_w, in the place of a cleared timer
    Afters,     \* the delays the application uses
    Repeats,    \* the repeat values it uses (0: fires once)
    MaxTime     \* bound: the last reading of the clock

ASSUME TimerAssumption ==
    /\ NoTimer \notin Timers
    /\ Afters \subseteq Int
    /\ Repeats \subseteq Nat
    /\ MaxTime \in Nat

VARIABLES
    armed,      \* the active timers
    at,         \* w->at: absolute while active, relative otherwise
    repeat,     \* w->repeat
    mn_now,     \* the loop's time
    phase,      \* "idle", "reify" (in timers_reify), "invoke" (callbacks)
    rfeeds,     \* expired timers so far: [w, dl]
    pend,       \* the pending queue; its last entry is invoked first
    expired     \* history: timers that expired, neither stopped, restarted by
                \* ev_timer_again nor called back since

vars == <<armed, at, repeat, mn_now, phase, rfeeds, pend, expired>>

Entry == [w : Timers \cup {NoTimer}, dl : Int]

TypeOK ==
    /\ armed \in SUBSET Timers
    /\ at \in [Timers -> Int]
    /\ repeat \in [Timers -> Nat]
    /\ mn_now \in Nat
    /\ phase \in {"idle", "reify", "invoke"}
    /\ rfeeds \in Seq([w : Timers, dl : Int])
    /\ pend \in Seq(Entry)
    /\ expired \in SUBSET Timers

Init ==
    /\ armed = {}
    /\ at = [w \in Timers |-> 0]
    /\ repeat = [w \in Timers |-> 0]
    /\ mn_now = 0
    /\ phase = "idle"
    /\ rfeeds = <<>>
    /\ pend = <<>>
    /\ expired = {}

\* Between passes and in callbacks.
App == phase \in {"idle", "invoke"}

Queued(w) == \E i \in 1..Len(pend) : pend[i].w = w

\* clear_pending
Cleared(w) ==
    [i \in 1..Len(pend) |->
        [w |-> IF pend[i].w = w THEN NoTimer ELSE pend[i].w, dl |-> pend[i].dl]]

-----------------------------------------------------------------------------
\* ev_timer_set, on a timer that is neither active nor pending.
Set(w, after, rep) ==
    /\ App
    /\ w \notin armed
    /\ ~Queued(w)
    /\ at' = [at EXCEPT ![w] = after]
    /\ repeat' = [repeat EXCEPT ![w] = rep]
    /\ UNCHANGED <<armed, mn_now, phase, rfeeds, pend, expired>>

\* ev_timer_start; a timer that is still pending may be started again.
Start(w) ==
    /\ App
    /\ w \notin armed
    /\ armed' = armed \cup {w}
    /\ at' = [at EXCEPT ![w] = @ + mn_now]
    /\ UNCHANGED <<repeat, mn_now, phase, rfeeds, pend, expired>>

\* ev_timer_stop
Stop(w) ==
    /\ App
    /\ pend' = Cleared(w)
    /\ armed' = armed \ {w}
    /\ at' = IF w \in armed THEN [at EXCEPT ![w] = @ - mn_now] ELSE at
    /\ expired' = expired \ {w}
    /\ UNCHANGED <<repeat, mn_now, phase, rfeeds>>

\* Mutant: a queued callback survives the restart.
AgainKeepsPending(w) ==
    /\ App
    /\ pend' = IF repeat[w] # 0 THEN pend ELSE Cleared(w)
    /\ IF repeat[w] # 0
       THEN /\ armed' = armed \cup {w}
            /\ at' = [at EXCEPT ![w] = mn_now + repeat[w]]
       ELSE /\ armed' = armed \ {w}
            /\ at' = IF w \in armed THEN [at EXCEPT ![w] = @ - mn_now] ELSE at
    /\ expired' = expired \ {w}
    /\ UNCHANGED <<repeat, mn_now, phase, rfeeds>>

\* ev_timer_again: restart with the repeat value, or stop.
Again(w) ==
    /\ App
    /\ pend' = Cleared(w)
    /\ IF repeat[w] # 0
       THEN /\ armed' = armed \cup {w}
            /\ at' = [at EXCEPT ![w] = mn_now + repeat[w]]
       ELSE /\ armed' = armed \ {w}
            /\ at' = IF w \in armed THEN [at EXCEPT ![w] = @ - mn_now] ELSE at
    /\ expired' = expired \ {w}
    /\ UNCHANGED <<repeat, mn_now, phase, rfeeds>>

\* Mutant: a clock that went back is taken over.
NowUpdateBack ==
    /\ App
    /\ \E t \in (mn_now - 1)..MaxTime : mn_now' = t
    /\ UNCHANGED <<armed, at, repeat, phase, rfeeds, pend, expired>>

\* ev_now_update and ev_suspend: the loop's time moves on.
NowUpdate ==
    /\ App
    /\ \E t \in (mn_now + 1)..MaxTime : mn_now' = t
    /\ UNCHANGED <<armed, at, repeat, phase, rfeeds, pend, expired>>

\* ev_resume: the time that passed since the last update is given to all timers.
Resume ==
    /\ App
    /\ \E t \in mn_now..MaxTime :
         /\ mn_now' = t
         /\ at' = [w \in Timers |-> IF w \in armed THEN at[w] + (t - mn_now) ELSE at[w]]
    /\ UNCHANGED <<armed, repeat, phase, rfeeds, pend, expired>>

-----------------------------------------------------------------------------
\* time_update at the tail of a pass, and into timers_reify.
BeginReify ==
    /\ phase = "idle"
    /\ \E t \in mn_now..MaxTime : mn_now' = t
    /\ phase' = "reify"
    /\ UNCHANGED <<armed, at, repeat, rfeeds, pend, expired>>

Earliest(w) == w \in armed /\ \A v \in armed : at[w] <= at[v]

\* Mutant: a late repeating timer is rescheduled into the past.
NextDeadlinePast(w) == at[w] + repeat[w]

\* A repeating timer keeps its rhythm, but never with a deadline in the past.
NextDeadline(w) == IF at[w] + repeat[w] < mn_now THEN mn_now ELSE at[w] + repeat[w]

\* One expired timer: rescheduled or stopped.
Expire(w) ==
    /\ phase = "reify"
    /\ Earliest(w)
    /\ at[w] < mn_now
    /\ IF repeat[w] # 0
       THEN /\ at' = [at EXCEPT ![w] = NextDeadline(w)]
            /\ UNCHANGED armed
       ELSE /\ at' = [at EXCEPT ![w] = @ - mn_now]
            /\ armed' = armed \ {w}
    /\ rfeeds' = Append(rfeeds, [w |-> w, dl |-> at[w]])
    /\ expired' = expired \cup {w}
    /\ UNCHANGED <<repeat, mn_now, phase, pend>>

\* Mutant: the expired timers are fed first to last.
FeedForward ==
    /\ phase = "reify"
    /\ \A w \in armed : at[w] >= mn_now
    /\ pend' = pend \o rfeeds
    /\ rfeeds' = <<>>
    /\ phase' = "invoke"
    /\ UNCHANGED <<armed, at, repeat, mn_now, expired>>

\* feed_reverse_done: the expired timers are fed last to first.
EndReify ==
    /\ phase = "reify"
    /\ \A w \in armed : at[w] >= mn_now
    /\ pend' = pend \o [i \in 1..Len(rfeeds) |-> rfeeds[Len(rfeeds) + 1 - i]]
    /\ rfeeds' = <<>>
    /\ phase' = "invoke"
    /\ UNCHANGED <<armed, at, repeat, mn_now, expired>>

\* ev_invoke_pending takes the last entry.
Invoke ==
    /\ phase = "invoke"
    /\ pend # <<>>
    /\ pend' = [i \in 1..(Len(pend) - 1) |-> pend[i]]
    /\ expired' = expired \ {pend[Len(pend)].w}
    /\ UNCHANGED <<armed, at, repeat, mn_now, phase, rfeeds>>

EndPass ==
    /\ phase = "invoke"
    /\ pend = <<>>
    /\ phase' = "idle"
    /\ UNCHANGED <<armed, at, repeat, mn_now, rfeeds, pend, expired>>

Next ==
    \/ \E w \in Timers :
         \/ \E after \in Afters, rep \in Repeats : Set(w, after, rep)
         \/ Start(w) \/ Stop(w) \/ Again(w) \/ Expire(w)
    \/ NowUpdate \/ Resume \/ BeginReify \/ EndReify \/ Invoke \/ EndPass

Spec == Init /\ [][Next]_vars

-----------------------------------------------------------------------------
(* Properties.                                                             *)

\* The queue holds a callback for exactly the timers that expired and were not
\* stopped or restarted since: none is lost, and ev_timer_stop and
\* ev_timer_again cancel the one that is already queued.
ExpiryDelivered ==
    expired = ({pend[i].w : i \in 1..Len(pend)} \ {NoTimer})
              \cup {rfeeds[i].w : i \in 1..Len(rfeeds)}

\* Timers that expire in one pass have their callbacks run in the order of their
\* deadlines (feed_reverse undoes the reversal of the pending queue).
EarlierFirst ==
    /\ \A i, j \in 1..Len(rfeeds) : i < j => rfeeds[i].dl <= rfeeds[j].dl
    /\ \A i, j \in 1..Len(pend) : i < j => pend[i].dl >= pend[j].dl

\* A timer expires at most once per pass, however late the pass is and however
\* small its repeat value: timers_reify terminates.
OncePerPass ==
    /\ \A i, j \in 1..Len(rfeeds) : i # j => rfeeds[i].w # rfeeds[j].w
    /\ \A i, j \in 1..Len(pend) : i # j /\ pend[i].w # NoTimer => pend[i].w # pend[j].w

-----------------------------------------------------------------------------
(* The inductive invariant behind the three.                               *)

\* Between passes nothing is queued, and only timers_reify fills rfeeds.
PhaseShape ==
    /\ phase # "invoke" => pend = <<>>
    /\ phase # "reify" => rfeeds = <<>>

\* What timers_reify took was due and earlier than all that is still armed; what
\* it rescheduled is not due again.
ReifiedPast ==
    \A i \in 1..Len(rfeeds) :
        /\ rfeeds[i].dl < mn_now
        /\ rfeeds[i].w \in armed => at[rfeeds[i].w] >= mn_now
        /\ \A v \in armed : rfeeds[i].dl <= at[v]

TimerInv ==
    /\ TypeOK
    /\ PhaseShape
    /\ ReifiedPast
    /\ ExpiryDelivered
    /\ EarlierFirst
    /\ OncePerPass
=============================================================================
