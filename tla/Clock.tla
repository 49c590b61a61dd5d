-------------------------------- MODULE Clock --------------------------------
(***************************************************************************)
(* Time keeping and periodics (src/ev.c: time_update, ev_now_update,       *)
(* ev_now_set, ev_suspend, ev_resume, timerfdcb, evtimerfd_init,           *)
(* ev_periodic_start/stop/again, periodic_recalc, periodics_reify,         *)
(* periodics_reschedule, and the part of ev_run that sizes the sleep).     *)
(* Two clocks run beside the loop: mono never jumps, wall can be set.  The *)
(* loop sees them through mn_now, rt_now and the offset it last measured.  *)
(* The two clocks of one refresh are read at once: the repetitions in      *)
(* time_update only matter when they are not.  The heap is the set of      *)
(* armed periodics (its functions are HeapOps' subject), and one relative  *)
(* timer stands for all: they are shifted alike.                           *)
(***************************************************************************)
EXTENDS Integers

CONSTANTS
    Periodics,  \* the ev_periodic watchers
    Off,        \* the relative timer's deadline while it is stopped
    Half,       \* MIN_TIMEJUMP * .5; the unit of time is a fraction of it
    BlockTime,  \* MAX_BLOCKTIME
    BlockTime2, \* MAX_BLOCKTIME2
    Interval,   \* interval of the periodics that have one
    CbStep,     \* a reschedule callback returns now + CbStep
    Delay,      \* after of the relative timer
    MaxStale,   \* how old the sample given to ev_now_set may be
    MaxAhead,   \* and how far ahead of the clock
    Ticks,      \* by how much time may pass at once
    Moves,      \* by how much the wall clock may be set
    MaxMono,    \* bound: the last reading of the monotonic clock
    MaxSets     \* bound: how often the wall clock is set

MinJump == 2 * Half

ASSUME ClockAssumption ==
    /\ Half \in Nat \ {0} /\ Interval \in Nat \ {0}
    /\ BlockTime \in Nat /\ BlockTime2 \in Nat /\ BlockTime <= BlockTime2
    /\ CbStep \in Nat \ {0} /\ Delay \in Nat
    /\ MaxStale \in Nat /\ MaxAhead \in Nat /\ "timerfd" \notin Periodics
    /\ Ticks \subseteq Nat \ {0} /\ Moves \subseteq Int /\ MaxMono \in Nat /\ MaxSets \in Nat

VARIABLES
    mono, wall,     \* the system's clocks
    sets,           \* how often wall was set
    monotonic,      \* have_monotonic
    mn_now, rt_now, \* the loop's time (ev_rt_now)
    rtmn_diff,      \* their offset, as last measured
    now_floor,      \* mn_now at that measurement
    now_set,        \* ev_now_set supplied the clock of the coming pass
    kind,           \* of each periodic: "interval", "callback", "once"
    armed, at,      \* the active periodics and their next times
    rel,            \* deadline of the relative timer
    timerfd,        \* "unused" (-2), "open", "failed" (-1)
    cancelled,      \* the timerfd is readable
    phase,          \* "idle", "poll", "reify", "invoke"
    nowait, wait,   \* the pass: its flag and waittime
    pend,           \* queued periodics, and "timerfd"
    synced,         \* history: wall - mono at the last refresh by the loop
    must            \* history: rt_now is from a refresh that had to notice a jump

clocks == <<mono, wall, sets>>
time == <<mn_now, rt_now, rtmn_diff, now_floor, synced, must>>
tfd == <<timerfd, cancelled>>
pass == <<phase, nowait, wait>>
vars == <<clocks, monotonic, time, now_set, kind, armed, at, rel, tfd, pass, pend>>

Kinds == {"interval", "callback", "once"}

TypeOK ==
    /\ mono \in Nat /\ wall \in Int /\ sets \in Nat /\ monotonic \in BOOLEAN
    /\ {mn_now, rt_now, rtmn_diff, now_floor, synced} \subseteq Int
    /\ now_set \in BOOLEAN /\ must \in BOOLEAN
    /\ kind \in [Periodics -> Kinds] /\ armed \subseteq Periodics
    /\ at \in [Periodics -> Int] /\ (rel # Off => rel \in Int)
    /\ timerfd \in {"unused", "open", "failed"} /\ cancelled \in BOOLEAN
    /\ phase \in {"idle", "poll", "reify", "invoke"} /\ nowait \in BOOLEAN
    /\ wait \in 0..BlockTime2
    /\ pend \subseteq Periodics \cup {"timerfd"}

\* loop_init: time_update's variables from one reading of the clocks.
Init ==
    /\ mono = 0 /\ wall = 0 /\ sets = 0
    /\ monotonic \in BOOLEAN
    /\ mn_now = 0 /\ rt_now = 0 /\ rtmn_diff = 0 /\ now_floor = 0 /\ now_set = FALSE
    /\ kind \in [Periodics -> Kinds]
    /\ armed = {} /\ at = [w \in Periodics |-> 0] /\ rel = Off
    /\ timerfd = "unused" /\ cancelled = FALSE
    /\ phase = "idle" /\ nowait = FALSE /\ wait = 0 /\ pend = {}
    /\ synced = 0 /\ must = FALSE

-----------------------------------------------------------------------------
Abs(x) == IF x < 0 THEN -x ELSE x
Least(x, y) == IF x < y THEN x ELSE y

\* time_jumped
TimeJumped(moved) == Abs(moved) >= MinJump

\* periodic_recalc (offset 0): the first multiple of the interval after now.
Recalc(now) ==
    LET a == Interval * (now \div Interval)
    IN  IF a <= now THEN a + Interval ELSE a

\* The next time of a periodic that is started, expires or is rescheduled.
NextAt(w, now) ==
    CASE kind[w] = "callback" -> now + CbStep
      [] kind[w] = "interval" -> Recalc(now)
      [] kind[w] = "once"     -> at[w]

\* Mutant: the periodics stay where they were.
RescheduledNot(now) == at

\* periodics_reschedule
Rescheduled(now) == [w \in Periodics |-> IF w \in armed THEN NextAt(w, now) ELSE at[w]]

\* Mutant: the relative timers are left alone.
RelKept(adjust) == rel

\* timers_reschedule
RelShifted(adjust) == IF rel = Off THEN Off ELSE rel + adjust

\* What a refresh that reads both clocks, mo and wa, leaves behind: the offset of
\* the reading mn the loop uses, and rescheduled periodics if it moved.
Refresh(mn, mo, wa, jumped) ==
    /\ now_floor' = mn
    /\ rt_now' = wa
    /\ rtmn_diff' = wa - mn
    /\ at' = IF jumped THEN Rescheduled(wa) ELSE at
    /\ synced' = wa - mo
    /\ must' = (Abs(wa - mo - synced) >= MinJump + MaxStale + MaxAhead)

\* The offset is good for another half MIN_TIMEJUMP.
Interpolate(mn) ==
    /\ rt_now' = rtmn_diff + mn
    /\ must' = FALSE
    /\ UNCHANGED <<rtmn_diff, now_floor, at, synced>>

\* time_update, with the clocks at mo and wa; without a monotonic clock a jump is
\* what a wait of maxBlock cannot explain.
TimeUpdate(mo, wa, maxBlock) ==
    IF monotonic
    THEN /\ mn_now' = mo
         /\ IF mo - now_floor < Half THEN Interpolate(mo)
            ELSE Refresh(mo, mo, wa, TimeJumped(rtmn_diff - (wa - mo)))
         /\ UNCHANGED rel
    ELSE LET jumped == mn_now > wa \/ wa > mn_now + maxBlock + MinJump
         IN  /\ mn_now' = wa /\ rt_now' = wa /\ must' = FALSE
             /\ rel' = IF jumped THEN RelShifted(wa - mn_now) ELSE rel
             /\ at' = IF jumped THEN Rescheduled(wa) ELSE at
             /\ UNCHANGED <<rtmn_diff, now_floor, synced>>

\* EV_TSTAMP_HUGE: no wait is too long.
Huge == MaxMono + 100

-----------------------------------------------------------------------------
(* The system.                                                             *)

Tick(d) ==
    /\ phase # "poll"
    /\ mono + d <= MaxMono
    /\ mono' = mono + d /\ wall' = wall + d
    /\ UNCHANGED <<sets, monotonic, time, now_set, kind, armed, at, rel, tfd, pass, pend>>

\* TFD_TIMER_CANCEL_ON_SET makes an armed timerfd readable.
SetWall(m) ==
    /\ sets < MaxSets
    /\ wall' = wall + m /\ sets' = sets + 1
    /\ cancelled' = (cancelled \/ timerfd = "open")
    /\ UNCHANGED <<mono, monotonic, time, now_set, kind, armed, at, rel, timerfd, pass, pend>>

-----------------------------------------------------------------------------
(* Calls, between passes and from callbacks.                               *)

App == phase \in {"idle", "invoke"}

\* ev_now_update, ev_suspend
NowUpdate ==
    /\ App
    /\ TimeUpdate(mono, wall, Huge)
    /\ UNCHANGED <<clocks, monotonic, now_set, kind, armed, tfd, pass, pend>>

\* Mutant: every refresh reschedules.
NowSetAlways(s) ==
    /\ App
    /\ monotonic
    /\ LET mn == IF s > mn_now THEN s ELSE mn_now
       IN  /\ mn_now' = mn
           /\ IF mn - now_floor < Half THEN Interpolate(mn)
              ELSE Refresh(mn, mono, wall, TRUE)
    /\ now_set' = TRUE
    /\ UNCHANGED <<clocks, monotonic, kind, armed, rel, tfd, pass, pend>>

\* ev_now_set with a sample s; now_set_refresh.  (Without a monotonic clock it is
\* ev_now_update.)
NowSet(s) ==
    /\ App
    /\ monotonic
    /\ LET mn == IF s > mn_now THEN s ELSE mn_now
       IN  /\ mn_now' = mn
           /\ IF mn - now_floor < Half THEN Interpolate(mn)
              ELSE Refresh(mn, mono, wall, TimeJumped(rtmn_diff - (wall - mn)))
    /\ now_set' = TRUE
    /\ UNCHANGED <<clocks, monotonic, kind, armed, rel, tfd, pass, pend>>

\* ev_resume: the timers are given the time since mn_now, the periodics are
\* rescheduled whether or not anything jumped.
Resume ==
    /\ App
    /\ monotonic
    /\ mn_now' = mono
    /\ IF mono - now_floor < Half
       THEN /\ rt_now' = rtmn_diff + mono
            /\ must' = FALSE
            /\ UNCHANGED <<rtmn_diff, now_floor, synced>>
       ELSE /\ rt_now' = wall /\ rtmn_diff' = wall - mono /\ now_floor' = mono
            /\ synced' = wall - mono /\ must' = FALSE
    /\ rel' = RelShifted(mono - mn_now)
    /\ at' = Rescheduled(rt_now')
    /\ UNCHANGED <<clocks, monotonic, now_set, kind, armed, tfd, pass, pend>>

\* ev_timer_start on the relative timer.
TimerStart ==
    /\ App
    /\ rel = Off
    /\ rel' = mn_now + Delay
    /\ UNCHANGED <<clocks, monotonic, time, now_set, kind, armed, at, tfd, pass, pend>>

\* evtimerfd_init: the timerfd may be refused; an armed one is read at once, which
\* moves rt_now.
TimerfdInit ==
    IF timerfd # "unused" THEN UNCHANGED <<timerfd, rt_now, must>>
    ELSE \/ timerfd' = "failed" /\ UNCHANGED <<rt_now, must>>
         \/ timerfd' = "open" /\ rt_now' = wall /\ must' = FALSE

\* ev_periodic_start; one that fires once was given its time by ev_periodic_set.
PeriodicStart(w) ==
    /\ App
    /\ w \notin armed
    /\ TimerfdInit
    /\ armed' = armed \cup {w}
    /\ at' = [at EXCEPT ![w] = IF kind[w] = "once" THEN rt_now' + Delay ELSE NextAt(w, rt_now')]
    /\ UNCHANGED <<clocks, monotonic, mn_now, rtmn_diff, now_floor, synced, now_set,
                   kind, rel, cancelled, pass, pend>>

PeriodicStop(w) ==
    /\ App
    /\ w \in armed \cup pend
    /\ armed' = armed \ {w} /\ pend' = pend \ {w}
    /\ UNCHANGED <<clocks, monotonic, time, now_set, kind, at, rel, tfd, pass>>

\* ev_periodic_again on an active periodic: stop and start.
PeriodicAgain(w) ==
    /\ App
    /\ w \in armed
    /\ pend' = pend \ {w}
    /\ at' = [at EXCEPT ![w] = NextAt(w, rt_now)]
    /\ UNCHANGED <<clocks, monotonic, time, now_set, kind, armed, rel, tfd, pass>>

-----------------------------------------------------------------------------
(* A pass of ev_run.                                                       *)

\* Mutant: a time already past makes the wait negative.
WaitTimeRaw(mn, rt, times, r) ==
    LET tos == {times[w] - rt : w \in armed} \cup (IF r = Off THEN {} ELSE {r - mn})
    IN  CHOOSE t \in tos \cup {BlockTime} : \A u \in tos : t <= u

\* The longest sleep, shortened by the timers and the periodics.
WaitTime(mn, rt, times, r) ==
    LET most == IF monotonic /\ timerfd # "failed" THEN BlockTime2 ELSE BlockTime
        tos == {times[w] - rt : w \in armed} \cup (IF r = Off THEN {} ELSE {r - mn})
    IN  IF \E t \in tos : t < 0 THEN 0
        ELSE CHOOSE t \in tos \cup {most} : t <= most /\ \A u \in tos : t <= u

\* Up to the poll: a blocking pass reads the clock and sizes its sleep.
RunBlocking ==
    /\ phase = "idle"
    /\ TimeUpdate(mono, wall, Huge)
    /\ phase' = "poll" /\ nowait' = FALSE
    /\ wait' = WaitTime(mn_now', rt_now', at', rel')
    /\ UNCHANGED <<clocks, monotonic, now_set, kind, armed, tfd, pend>>

\* EVRUN_NOWAIT
RunNowait ==
    /\ phase = "idle"
    /\ phase' = "poll" /\ nowait' = TRUE /\ wait' = 0
    /\ UNCHANGED <<clocks, monotonic, time, now_set, kind, armed, at, rel, tfd, pend>>

\* The poll returns after d, at once if the timerfd is readable; the tail of the pass
\* reads the clock unless a NOWAIT pass was given one.
PollReturns(d) ==
    /\ phase = "poll"
    /\ d <= wait /\ mono + d <= MaxMono /\ (cancelled => d = 0)
    /\ mono' = mono + d /\ wall' = wall + d
    /\ IF now_set /\ nowait
       THEN UNCHANGED <<time, at, rel>>
       ELSE TimeUpdate(mono + d, wall + d, IF nowait THEN Huge ELSE wait)
    /\ now_set' = FALSE
    /\ pend' = IF cancelled THEN pend \cup {"timerfd"} ELSE pend
    /\ phase' = "reify"
    /\ UNCHANGED <<sets, monotonic, kind, armed, tfd, nowait, wait>>

\* timers_reify and periodics_reify.
Reify ==
    /\ phase = "reify"
    /\ LET due == {w \in armed : at[w] < rt_now}
       IN  /\ pend' = pend \cup due
           /\ at' = [w \in Periodics |-> IF w \in due THEN NextAt(w, rt_now) ELSE at[w]]
           /\ armed' = {w \in armed : w \in due => kind[w] # "once"}
    /\ rel' = IF rel # Off /\ rel < mn_now THEN Off ELSE rel
    /\ phase' = "invoke"
    /\ UNCHANGED <<clocks, monotonic, time, now_set, kind, tfd, nowait, wait>>

Invoke(w) ==
    /\ phase = "invoke"
    /\ w \in pend
    /\ pend' = pend \ {w}
    /\ UNCHANGED <<clocks, monotonic, time, now_set, kind, armed, at, rel, tfd, pass>>

\* timerfdcb, at the lowest priority: it re-arms the timerfd and measures the offset
\* afresh, but keeps rtmn_diff.
TimerfdCb ==
    /\ phase = "invoke"
    /\ pend = {"timerfd"}
    /\ pend' = {}
    /\ cancelled' = FALSE
    /\ rt_now' = wall /\ must' = FALSE
    /\ LET moved == IF monotonic THEN rtmn_diff - (wall - mono) ELSE 0
       IN  at' = IF TimeJumped(moved) THEN Rescheduled(wall) ELSE at
    /\ UNCHANGED <<clocks, monotonic, mn_now, rtmn_diff, now_floor, synced, now_set,
                   kind, armed, rel, timerfd, pass>>

\* The timerfd wakes with no clock set: its own deadline, or loop_fork feeds it.
TimerfdWakes ==
    /\ phase = "idle"
    /\ timerfd = "open" /\ ~cancelled
    /\ cancelled' = TRUE
    /\ UNCHANGED <<clocks, monotonic, time, now_set, kind, armed, at, rel, timerfd, pass, pend>>

EndPass ==
    /\ phase = "invoke"
    /\ pend = {}
    /\ phase' = "idle"
    /\ UNCHANGED <<clocks, monotonic, time, now_set, kind, armed, at, rel, tfd, nowait, wait, pend>>

Next ==
    \/ \E d \in Ticks : Tick(d)
    \/ \E m \in Moves : SetWall(m)
    \/ \E s \in (mono - MaxStale)..(mono + MaxAhead) : NowSet(s)
    \/ \E w \in Periodics :
         PeriodicStart(w) \/ PeriodicStop(w) \/ PeriodicAgain(w) \/ Invoke(w)
    \/ \E d \in Ticks \cup {0} : PollReturns(d)
    \/ NowUpdate \/ Resume \/ TimerStart \/ RunBlocking \/ RunNowait \/ Reify
    \/ TimerfdCb \/ TimerfdWakes \/ EndPass

Spec == Init /\ [][Next]_vars

-----------------------------------------------------------------------------
(* Properties.                                                             *)

\* What the embedder owes ev_now_set: a reading made right before the pass, so that
\* its age and its lead together cannot look like a jump of the wall clock.
SampleFresh == MaxStale + MaxAhead < MinJump

\* A periodic that waits is moved only by being fed, by a call of the application, or
\* because the wall clock really was set since the loop last measured it: a refresh,
\* a stale sample or a spurious wake of the timerfd never pushes it past its fire.
NeverPushed ==
    [][\A w \in armed \cap armed' :
          \/ at'[w] = at[w]
          \/ w \in pend' \ pend
          \/ wall - mono # synced
          \/ ~monotonic
          \/ PeriodicAgain(w)
          \/ Resume]_vars

\* When a refresh shows that the wall clock jumped, every repeating periodic has a
\* next time that is ahead of the new time by at most its interval: it neither waits
\* for the old time nor fires for what was skipped.
JumpNoticed ==
    must =>
        \A w \in armed :
            kind[w] = "interval" => rt_now < at[w] /\ at[w] <= rt_now + Interval

\* A relative timer never has more left to wait than its delay, however the wall
\* clock moves, with or without a monotonic clock; a sample that is ahead of the
\* clock, from which the timer was started, can add its lead and no more.
DelayKept == rel # Off => rel - mn_now <= Delay + MaxAhead

\* TypeOK and DelayKept: the computed sleep is never negative and never longer than
\* the longest the loop allows itself, and no relative timer is put off.
TimesSound == TypeOK /\ DelayKept

\* With the timerfd to tell it of jumps, a loop that goes to sleep, with no jump left
\* to hear of, does not sleep past the next time of a periodic by the wall clock.
NoOversleep ==
    phase = "poll" /\ ~nowait /\ timerfd = "open" /\ ~cancelled =>
        \A w \in armed : wait <= (IF at[w] > wall THEN at[w] - wall ELSE 0) + MinJump
=============================================================================
