----------------------------- MODULE ClockProofs -----------------------------
(***************************************************************************)
(* Proofs about Clock, for any set of periodics, any interval, delay and   *)
(* block time, and samples of any age and lead: the times are well typed   *)
(* and the sleep is bounded, no relative timer is put off, a jump of the   *)
(* wall clock is noticed, and no periodic is pushed past its fire.         *)
(***************************************************************************)
EXTENDS Clock, WellFoundedInduction, TLAPS

\* The loop's monotonic time is ahead of the clock by no more than a sample was.
LeadBounded == monotonic => mn_now <= mono + MaxAhead

\* What is left of a relative timer, by the loop's time and by the clock the next
\* time_update will read.
RelBounded ==
    rel # Off =>
        /\ rel - mn_now <= Delay + MaxAhead
        /\ monotonic => rel - mono <= Delay + MaxAhead

\* The offset the loop keeps differs from the true one at its last refresh by no more
\* than the age or the lead of the sample that refresh used.
OffsetBounded ==
    monotonic => /\ rtmn_diff - synced <= MaxStale
                 /\ synced - rtmn_diff <= MaxAhead

\* Periodics are queued by periodics_reify only, and the pass ends with an empty queue.
QueueShape == phase # "invoke" => pend \subseteq {"timerfd"}

\* The inductive invariant.
ClockInv ==
    TypeOK /\ LeadBounded /\ RelBounded /\ OffsetBounded /\ QueueShape /\ JumpNoticed

-----------------------------------------------------------------------------
(* The operators of the model.                                             *)

\* periodic_recalc lands after now, by at most one interval.
LEMMA RecalcAhead ==
    ASSUME NEW now \in Int
    PROVE  /\ Recalc(now) \in Int
           /\ now < Recalc(now) /\ Recalc(now) <= now + Interval
<1> USE ClockAssumption
<1>1. now \div Interval \in Int
  OBVIOUS
<1>2. Interval * (now \div Interval) \in Int
  BY <1>1
<1>3. Interval * (now \div Interval) <= now
  OBVIOUS
<1>4. now < Interval * (now \div Interval) + Interval
  OBVIOUS
<1> QED
  BY <1>2, <1>3, <1>4 DEF Recalc

\* The next time of a periodic is a time; of a repeating one, in the coming interval.
LEMMA NextAtAhead ==
    ASSUME TypeOK, NEW w \in Periodics, NEW now \in Int
    PROVE  /\ NextAt(w, now) \in Int
           /\ kind[w] = "interval" => now < NextAt(w, now) /\ NextAt(w, now) <= now + Interval
<1>1. kind[w] \in Kinds /\ at[w] \in Int
  BY DEF TypeOK
<1>2. CASE kind[w] = "callback"
  BY <1>2, ClockAssumption DEF NextAt
<1>3. CASE kind[w] = "interval"
  BY <1>3, RecalcAhead DEF NextAt
<1>4. CASE kind[w] = "once"
  BY <1>1, <1>4 DEF NextAt
<1> QED
  BY <1>1, <1>2, <1>3, <1>4 DEF Kinds

\* The same for all of periodics_reschedule.
LEMMA RescheduledAhead ==
    ASSUME TypeOK, NEW now \in Int
    PROVE  /\ Rescheduled(now) \in [Periodics -> Int]
           /\ \A w \in armed : kind[w] = "interval" =>
                 now < Rescheduled(now)[w] /\ Rescheduled(now)[w] <= now + Interval
<1>1. ASSUME NEW w \in Periodics
      PROVE  (IF w \in armed THEN NextAt(w, now) ELSE at[w]) \in Int
  BY NextAtAhead DEF TypeOK
<1>2. Rescheduled(now) \in [Periodics -> Int]
  BY <1>1 DEF Rescheduled
<1>3. ASSUME NEW w \in armed
      PROVE  Rescheduled(now)[w] = NextAt(w, now) /\ w \in Periodics
  BY DEF TypeOK, Rescheduled
<1> QED
  BY <1>2, <1>3, NextAtAhead

\* A set of sleeps has a shortest one.
LEMMA ShortestExists ==
    ASSUME NEW S, S \subseteq Nat, S # {}
    PROVE  \E t \in S : \A u \in S : t <= u
<1> DEFINE R == OpToRel(<, Nat)
<1>1. IsWellFoundedOn(R, Nat)
  BY NatLessThanWellFounded
<1>2. ASSUME NEW u \in Nat, NEW t \in Nat, u < t
      PROVE  <<u, t>> \in R
  BY <1>2 DEF OpToRel
<1> HIDE DEF R
<1>3. PICK t \in S : \A u \in S : ~ (<<u, t>> \in R)
  BY <1>1, WFMin
<1>4. ASSUME NEW u \in S
      PROVE  t <= u
  <2>1. u \in Nat /\ t \in Nat
    OBVIOUS
  <2>2. ~ (u < t)
    BY <1>2, <1>3, <2>1, Zenon
  <2> QED
    BY <2>1, <2>2
<1> QED
  BY <1>4

\* The sleep is never negative, nor longer than the loop allows itself.
LEMMA WaitBounded ==
    ASSUME TypeOK, NEW mn \in Int, NEW rt \in Int, NEW times \in [Periodics -> Int],
           NEW r, r # Off => r \in Int
    PROVE  WaitTime(mn, rt, times, r) \in 0..BlockTime2
<1> DEFINE most == IF monotonic /\ timerfd # "failed" THEN BlockTime2 ELSE BlockTime
           tos == {times[w] - rt : w \in armed} \cup (IF r = Off THEN {} ELSE {r - mn})
           best == {t \in tos \cup {most} : t <= most /\ \A u \in tos : t <= u}
<1>1. most \in Nat /\ most <= BlockTime2 /\ BlockTime2 \in Nat
  BY ClockAssumption
<1>2. tos \subseteq Int
  BY DEF TypeOK
<1>3. CASE \E t \in tos : t < 0
  BY <1>1, <1>3 DEF WaitTime
<1>4. CASE ~ \E t \in tos : t < 0
  <2>1. tos \cup {most} \subseteq Nat
    BY <1>1, <1>2, <1>4
  <2> HIDE DEF most, tos
  <2>2. PICK t \in tos \cup {most} : \A u \in tos \cup {most} : t <= u
    BY <2>1, ShortestExists
  <2>3. t \in best
    BY <2>2
  <2>4. (CHOOSE x \in tos \cup {most} : x <= most /\ \A u \in tos : x <= u) \in best
    BY <2>3
  <2>5. (CHOOSE x \in tos \cup {most} : x <= most /\ \A u \in tos : x <= u) \in 0..BlockTime2
    BY <1>1, <2>1, <2>4
  <2> QED
    BY <1>4, <2>5 DEF WaitTime, most, tos
<1> QED
  BY <1>3, <1>4

-----------------------------------------------------------------------------
(* The inductive invariant.                                                *)

\* TypeOK in two parts: times and sets, and flags.
Times ==
    /\ mono \in Nat /\ wall \in Int /\ sets \in Nat
    /\ mn_now \in Int /\ rt_now \in Int /\ rtmn_diff \in Int /\ now_floor \in Int /\ synced \in Int
    /\ kind \in [Periodics -> Kinds] /\ armed \subseteq Periodics
    /\ at \in [Periodics -> Int] /\ (rel # Off => rel \in Int)
    /\ wait \in 0..BlockTime2
    /\ pend \subseteq Periodics \cup {"timerfd"}

Flags ==
    /\ monotonic \in BOOLEAN /\ now_set \in BOOLEAN /\ must \in BOOLEAN
    /\ timerfd \in {"unused", "open", "failed"} /\ cancelled \in BOOLEAN
    /\ phase \in {"idle", "poll", "reify", "invoke"} /\ nowait \in BOOLEAN

LEMMA TypeParts == (TypeOK <=> Times /\ Flags) /\ (TypeOK' <=> Times' /\ Flags')
BY DEF TypeOK, Times, Flags

\* The loop's view of time, apart from mn_now.
Measured ==
    /\ rt_now \in Int /\ rtmn_diff \in Int /\ now_floor \in Int /\ synced \in Int
    /\ must \in BOOLEAN /\ at \in [Periodics -> Int]

\* A reading of both clocks measures the offset as well as the sample allows, and
\* reschedules whenever it had to notice a jump.
LEMMA RefreshStep ==
    ASSUME ClockInv, monotonic, NEW mn \in Int, NEW mo \in Int, NEW wa \in Int,
           mo - MaxStale <= mn, mn <= mo + MaxAhead,
           Refresh(mn, mo, wa, TimeJumped(rtmn_diff - (wa - mn))),
           kind' = kind, armed' = armed, monotonic' = monotonic
    PROVE  Measured' /\ OffsetBounded' /\ JumpNoticed'
<1> USE ClockAssumption
<1>1. TypeOK /\ OffsetBounded
  BY DEF ClockInv
<1>2. /\ Rescheduled(wa) \in [Periodics -> Int]
      /\ \A w \in armed : kind[w] = "interval" =>
            wa < Rescheduled(wa)[w] /\ Rescheduled(wa)[w] <= wa + Interval
  BY <1>1, RescheduledAhead
<1>3. /\ rt_now' = wa /\ rtmn_diff' = wa - mn /\ synced' = wa - mo /\ now_floor' = mn
      /\ must' = (Abs(wa - mo - synced) >= MinJump + MaxStale + MaxAhead)
      /\ at' = IF TimeJumped(rtmn_diff - (wa - mn)) THEN Rescheduled(wa) ELSE at
  BY DEF Refresh
<1>4. Measured'
  BY <1>1, <1>2, <1>3 DEF Measured, TypeOK
<1>5. OffsetBounded'
  BY <1>3 DEF OffsetBounded
<1>6. must' => TimeJumped(rtmn_diff - (wa - mn))
  <2>1. must' => Abs(wa - mo - synced) >= MinJump + MaxStale + MaxAhead
    BY <1>3, Zenon
  <2>2. Abs(wa - mo - synced) >= MinJump + MaxStale + MaxAhead
        => TimeJumped(rtmn_diff - (wa - mn))
    BY <1>1 DEF TypeOK, OffsetBounded, TimeJumped, Abs, MinJump
  <2> QED
    BY <2>1, <2>2
<1>7. JumpNoticed'
  <2> SUFFICES ASSUME must'
               PROVE  \A w \in armed : kind[w] = "interval" =>
                         rt_now' < at'[w] /\ at'[w] <= rt_now' + Interval
    BY DEF JumpNoticed
  <2>1. rt_now' = wa /\ at' = Rescheduled(wa)
    BY <1>3, <1>6
  <2> QED
    BY <1>2, <2>1
<1> QED
  BY <1>4, <1>5, <1>7

LEMMA InterpolateStep ==
    ASSUME ClockInv, NEW mn \in Int, Interpolate(mn), monotonic' = monotonic
    PROVE  Measured' /\ OffsetBounded' /\ JumpNoticed'
<1>1. /\ rt_now' \in Int /\ rtmn_diff' \in Int /\ now_floor' \in Int /\ synced' \in Int
      /\ at' \in [Periodics -> Int]
  BY DEF ClockInv, TypeOK, Interpolate
<1>2. must' \in BOOLEAN
  BY DEF Interpolate
<1>3. OffsetBounded'
  BY DEF ClockInv, OffsetBounded, Interpolate
<1>4. JumpNoticed'
  BY DEF JumpNoticed, Interpolate
<1> QED
  BY <1>1, <1>2, <1>3, <1>4 DEF Measured

\* time_update, whatever kind of clock the loop has.
LEMMA TimeUpdateStep ==
    ASSUME ClockInv, NEW mo \in Int, NEW wa \in Int, NEW maxBlock \in Int,
           TimeUpdate(mo, wa, maxBlock), mono <= mo, mono' = mo,
           kind' = kind, armed' = armed, monotonic' = monotonic
    PROVE  /\ Measured' /\ mn_now' \in Int /\ (rel' # Off => rel' \in Int)
           /\ LeadBounded' /\ RelBounded' /\ OffsetBounded' /\ JumpNoticed'
<1> USE ClockAssumption
<1>1. TypeOK /\ RelBounded
  BY DEF ClockInv
<1>2. CASE monotonic
  <2>1. mn_now' = mo /\ rel' = rel
    BY <1>2 DEF TimeUpdate
  <2>2. Measured' /\ OffsetBounded' /\ JumpNoticed'
    <3>1. CASE mo - now_floor < Half
      BY <1>2, <3>1, InterpolateStep DEF TimeUpdate
    <3>2. CASE ~(mo - now_floor < Half)
      BY <1>2, <3>2, RefreshStep DEF TimeUpdate
    <3> QED
      BY <3>1, <3>2
  <2>3. LeadBounded' /\ RelBounded'
    BY <1>1, <1>2, <2>1 DEF TypeOK, LeadBounded, RelBounded
  <2> QED
    BY <1>1, <2>1, <2>2, <2>3 DEF TypeOK
<1>3. CASE ~monotonic
  <2> DEFINE jumped == mn_now > wa \/ wa > mn_now + maxBlock + MinJump
  <2>1. /\ mn_now' = wa /\ rt_now' = wa /\ must' = FALSE
        /\ rel' = IF jumped THEN RelShifted(wa - mn_now) ELSE rel
        /\ at' = IF jumped THEN Rescheduled(wa) ELSE at
        /\ UNCHANGED <<rtmn_diff, now_floor, synced>>
    BY <1>3 DEF TimeUpdate
  <2>2. Measured'
    BY <1>1, <2>1, RescheduledAhead DEF TypeOK, Measured
  <2>3. rel' # Off => rel' \in Int /\ rel' - mn_now' <= Delay + MaxAhead
    BY <1>1, <2>1 DEF TypeOK, RelBounded, RelShifted
  <2>4. LeadBounded' /\ RelBounded' /\ OffsetBounded' /\ JumpNoticed'
    BY <1>3, <2>1, <2>3 DEF LeadBounded, RelBounded, OffsetBounded, JumpNoticed
  <2> QED
    BY <2>1, <2>2, <2>3, <2>4
<1> QED
  BY <1>1, <1>2, <1>3 DEF TypeOK

LEMMA InitInv == Init => ClockInv
<1> USE ClockAssumption
<1> SUFFICES ASSUME Init PROVE ClockInv
  OBVIOUS
<1>1. Times
  BY DEF Init, Times
<1>2. Flags
  BY DEF Init, Flags
<1>3. LeadBounded /\ RelBounded /\ OffsetBounded
  BY DEF Init, LeadBounded, RelBounded, OffsetBounded
<1>4. QueueShape /\ JumpNoticed
  BY DEF Init, QueueShape, JumpNoticed
<1> QED
  BY <1>1, <1>2, <1>3, <1>4, TypeParts DEF ClockInv

\* Steps of the clocks, and calls that do not read one.
LEMMA NoReading ==
    ASSUME ClockInv,
           \/ \E d \in Ticks : Tick(d)
           \/ \E m \in Moves : SetWall(m)
           \/ TimerStart \/ RunNowait \/ TimerfdWakes \/ EndPass
           \/ \E w \in Periodics : PeriodicStop(w) \/ Invoke(w)
    PROVE  ClockInv'
<1> USE ClockAssumption DEF clocks, time, tfd, pass
<1>0. Times /\ Flags /\ LeadBounded /\ RelBounded /\ OffsetBounded /\ QueueShape /\ JumpNoticed
  BY TypeParts DEF ClockInv
<1>1. ASSUME NEW d \in Ticks, Tick(d) PROVE ClockInv'
  <2>1. Times'
    BY <1>0, <1>1 DEF Tick, Times
  <2>2. Flags'
    BY <1>0, <1>1 DEF Tick, Flags
  <2>3. LeadBounded' /\ RelBounded'
    BY <1>0, <1>1 DEF Tick, Times, LeadBounded, RelBounded
  <2>4. OffsetBounded' /\ QueueShape' /\ JumpNoticed'
    BY <1>0, <1>1 DEF Tick, OffsetBounded, QueueShape, JumpNoticed
  <2> QED
    BY <2>1, <2>2, <2>3, <2>4, TypeParts DEF ClockInv
<1>2. ASSUME NEW m \in Moves, SetWall(m) PROVE ClockInv'
  <2>1. Times'
    BY <1>0, <1>2 DEF SetWall, Times
  <2>2. Flags'
    BY <1>0, <1>2 DEF SetWall, Flags
  <2>3. LeadBounded' /\ RelBounded' /\ OffsetBounded' /\ QueueShape' /\ JumpNoticed'
    BY <1>0, <1>2 DEF SetWall, LeadBounded, RelBounded, OffsetBounded, QueueShape, JumpNoticed
  <2> QED
    BY <2>1, <2>2, <2>3, TypeParts DEF ClockInv
<1>3. CASE TimerStart
  <2>1. Times'
    BY <1>0, <1>3 DEF TimerStart, Times
  <2>2. Flags'
    BY <1>0, <1>3 DEF TimerStart, Flags
  <2>3. RelBounded'
    BY <1>0, <1>3 DEF TimerStart, Times, LeadBounded, RelBounded
  <2>4. LeadBounded' /\ OffsetBounded' /\ QueueShape' /\ JumpNoticed'
    BY <1>0, <1>3 DEF TimerStart, LeadBounded, OffsetBounded, QueueShape, JumpNoticed
  <2> QED
    BY <2>1, <2>2, <2>3, <2>4, TypeParts DEF ClockInv
<1>4. CASE RunNowait \/ TimerfdWakes \/ EndPass
  <2>1. Times'
    BY <1>0, <1>4 DEF RunNowait, TimerfdWakes, EndPass, Times
  <2>2. Flags'
    BY <1>0, <1>4 DEF RunNowait, TimerfdWakes, EndPass, Flags
  <2>3. LeadBounded' /\ RelBounded' /\ OffsetBounded' /\ JumpNoticed'
    BY <1>0, <1>4 DEF RunNowait, TimerfdWakes, EndPass, LeadBounded, RelBounded, OffsetBounded,
                      JumpNoticed
  <2>4. QueueShape'
    BY <1>0, <1>4 DEF RunNowait, TimerfdWakes, EndPass, QueueShape
  <2> QED
    BY <2>1, <2>2, <2>3, <2>4, TypeParts DEF ClockInv
<1>5. ASSUME NEW w \in Periodics, PeriodicStop(w) \/ Invoke(w) PROVE ClockInv'
  <2>1. Times'
    BY <1>0, <1>5 DEF PeriodicStop, Invoke, Times
  <2>2. Flags'
    BY <1>0, <1>5 DEF PeriodicStop, Invoke, Flags
  <2>3. LeadBounded' /\ RelBounded' /\ OffsetBounded'
    BY <1>0, <1>5 DEF PeriodicStop, Invoke, LeadBounded, RelBounded, OffsetBounded
  <2>4. QueueShape' /\ JumpNoticed'
    BY <1>0, <1>5 DEF PeriodicStop, Invoke, QueueShape, JumpNoticed
  <2> QED
    BY <2>1, <2>2, <2>3, <2>4, TypeParts DEF ClockInv
<1> QED
  BY <1>1, <1>2, <1>3, <1>4, <1>5

\* time_update is all that ev_now_update does, and the first thing a blocking pass does.
LEMMA UpdateSteps ==
    ASSUME ClockInv, NowUpdate \/ RunBlocking
    PROVE  ClockInv'
<1> USE ClockAssumption DEF clocks, tfd, pass
<1>0. TypeOK /\ Times /\ Flags /\ QueueShape
  BY TypeParts DEF ClockInv
<1>1. /\ TimeUpdate(mono, wall, Huge)
      /\ UNCHANGED <<mono, wall, sets, monotonic, now_set, kind, armed, timerfd, cancelled, pend>>
  BY DEF NowUpdate, RunBlocking
<1>2. mono \in Int /\ wall \in Int /\ Huge \in Int /\ mono <= mono
  BY <1>0 DEF Times, Huge
<1>3. /\ Measured' /\ mn_now' \in Int /\ (rel' # Off => rel' \in Int)
      /\ LeadBounded' /\ RelBounded' /\ OffsetBounded' /\ JumpNoticed'
  BY <1>1, <1>2, TimeUpdateStep
<1>4. wait' \in 0..BlockTime2
  <2>1. CASE NowUpdate
    BY <1>0, <2>1 DEF NowUpdate, Times
  <2>2. CASE RunBlocking
    <3>1. rt_now' \in Int /\ at' \in [Periodics -> Int]
      BY <1>3 DEF Measured
    <3> QED
      BY <1>0, <1>3, <2>2, <3>1, WaitBounded DEF RunBlocking
  <2> QED
    BY <2>1, <2>2
<1>5. Times'
  BY <1>0, <1>1, <1>3, <1>4 DEF Times, Measured
<1>6. Flags'
  BY <1>0, <1>1, <1>3 DEF Flags, Measured, NowUpdate, RunBlocking
<1>7. QueueShape'
  BY <1>0, <1>1 DEF QueueShape, NowUpdate, RunBlocking
<1> QED
  BY <1>3, <1>5, <1>6, <1>7, TypeParts DEF ClockInv

\* ev_now_set: the sample replaces the loop's time only if it is later.
LEMMA NowSetStep ==
    ASSUME ClockInv, NEW s \in (mono - MaxStale)..(mono + MaxAhead), NowSet(s)
    PROVE  ClockInv'
<1> USE ClockAssumption DEF clocks, tfd, pass
<1> DEFINE mn == IF s > mn_now THEN s ELSE mn_now
<1>0. TypeOK /\ Times /\ Flags /\ LeadBounded /\ RelBounded /\ QueueShape
  BY TypeParts DEF ClockInv
<1>1. /\ monotonic /\ mn_now' = mn /\ now_set' = TRUE
      /\ IF mn - now_floor < Half THEN Interpolate(mn)
         ELSE Refresh(mn, mono, wall, TimeJumped(rtmn_diff - (wall - mn)))
      /\ UNCHANGED <<mono, wall, sets, monotonic, kind, armed, rel, timerfd, cancelled,
                     phase, nowait, wait, pend>>
  BY DEF NowSet
<1>2. /\ mn \in Int /\ mono \in Int /\ wall \in Int
      /\ mono - MaxStale <= mn /\ mn <= mono + MaxAhead /\ mn_now <= mn
  BY <1>0, <1>1 DEF Times, LeadBounded
<1> HIDE DEF mn
<1>3. Measured' /\ OffsetBounded' /\ JumpNoticed'
  BY <1>1, <1>2, InterpolateStep, RefreshStep
<1>4. LeadBounded' /\ RelBounded'
  BY <1>0, <1>1, <1>2 DEF Times, LeadBounded, RelBounded
<1>5. Times'
  BY <1>0, <1>1, <1>2, <1>3 DEF Times, Measured
<1>6. Flags'
  BY <1>0, <1>1, <1>3 DEF Flags, Measured
<1>7. QueueShape'
  BY <1>0, <1>1 DEF QueueShape
<1> QED
  BY <1>3, <1>4, <1>5, <1>6, <1>7, TypeParts DEF ClockInv

\* ev_resume shifts the relative timers by what it moves the loop's time.
LEMMA ResumeStep ==
    ASSUME ClockInv, Resume
    PROVE  ClockInv'
<1> USE ClockAssumption DEF clocks, tfd, pass
<1>0. TypeOK /\ Times /\ Flags /\ RelBounded /\ OffsetBounded /\ QueueShape
  BY TypeParts DEF ClockInv
<1>1. /\ monotonic /\ mn_now' = mono /\ must' = FALSE
      /\ rel' = RelShifted(mono - mn_now) /\ at' = Rescheduled(rt_now')
      /\ UNCHANGED <<mono, wall, sets, monotonic, now_set, kind, armed, timerfd, cancelled,
                     phase, nowait, wait, pend>>
  BY DEF Resume
<1>2. /\ rt_now' \in Int /\ rtmn_diff' \in Int /\ now_floor' \in Int /\ synced' \in Int
      /\ OffsetBounded'
  BY <1>0 DEF Resume, Times, OffsetBounded
<1>3. at' \in [Periodics -> Int]
  BY <1>0, <1>1, <1>2, RescheduledAhead
<1>4. (rel' # Off => rel' \in Int) /\ LeadBounded' /\ RelBounded'
  BY <1>0, <1>1 DEF Times, LeadBounded, RelBounded, RelShifted
<1>5. Times'
  BY <1>0, <1>1, <1>2, <1>3, <1>4 DEF Times
<1>6. Flags'
  BY <1>0, <1>1 DEF Flags
<1>7. QueueShape' /\ JumpNoticed'
  BY <1>0, <1>1 DEF QueueShape, JumpNoticed
<1> QED
  BY <1>2, <1>4, <1>5, <1>6, <1>7, TypeParts DEF ClockInv

\* The tail of a pass.
LEMMA PollStep ==
    ASSUME ClockInv, NEW d \in Ticks \cup {0}, PollReturns(d)
    PROVE  ClockInv'
<1> USE ClockAssumption DEF clocks, tfd, pass
<1>0. TypeOK /\ Times /\ Flags /\ LeadBounded /\ RelBounded /\ OffsetBounded /\ QueueShape
      /\ JumpNoticed
  BY TypeParts DEF ClockInv
<1>1. /\ mono' = mono + d /\ wall' = wall + d /\ now_set' = FALSE /\ phase' = "reify"
      /\ pend' = IF cancelled THEN pend \cup {"timerfd"} ELSE pend
      /\ phase = "poll"
      /\ UNCHANGED <<sets, monotonic, kind, armed, timerfd, cancelled, nowait, wait>>
  BY DEF PollReturns
<1>2. mono + d \in Nat /\ wall + d \in Int /\ mono <= mono + d /\ Huge \in Int /\ wait \in Int
  BY <1>0 DEF Times, Huge
<1>3. /\ Measured' /\ mn_now' \in Int /\ (rel' # Off => rel' \in Int)
      /\ LeadBounded' /\ RelBounded' /\ OffsetBounded' /\ JumpNoticed'
  <2>1. CASE now_set /\ nowait
    <3>1. UNCHANGED <<mn_now, rt_now, rtmn_diff, now_floor, synced, must, at, rel>>
      BY <2>1 DEF PollReturns, time
    <3>2. Measured' /\ mn_now' \in Int /\ (rel' # Off => rel' \in Int)
      BY <1>0, <3>1 DEF Measured, Times, Flags
    <3>3. LeadBounded' /\ RelBounded'
      BY <1>0, <1>1, <1>2, <3>1 DEF LeadBounded, RelBounded, Times
    <3>4. OffsetBounded' /\ JumpNoticed'
      BY <1>0, <1>1, <3>1 DEF OffsetBounded, JumpNoticed
    <3> QED
      BY <3>2, <3>3, <3>4
  <2>2. CASE ~(now_set /\ nowait)
    <3>1. PICK mb \in Int : TimeUpdate(mono + d, wall + d, mb)
      BY <1>2, <2>2 DEF PollReturns
    <3> QED
      BY <1>1, <1>2, <3>1, TimeUpdateStep
  <2> QED
    BY <2>1, <2>2
<1>4. Times'
  BY <1>0, <1>1, <1>2, <1>3 DEF Times, Measured
<1>5. Flags'
  BY <1>0, <1>1, <1>3 DEF Flags, Measured
<1>6. QueueShape'
  BY <1>0, <1>1 DEF QueueShape
<1> QED
  BY <1>3, <1>4, <1>5, <1>6, TypeParts DEF ClockInv

\* The steps that give periodics their next times, at the time the loop has.
LEMMA PeriodicStartStep ==
    ASSUME ClockInv, NEW w \in Periodics, PeriodicStart(w)
    PROVE  ClockInv'
<1> USE ClockAssumption DEF clocks, pass
<1>0. TypeOK /\ Times /\ Flags /\ LeadBounded /\ RelBounded /\ OffsetBounded /\ QueueShape
      /\ JumpNoticed
  BY TypeParts DEF ClockInv
<1>1. /\ armed' = armed \cup {w}
      /\ at' = [at EXCEPT ![w] = IF kind[w] = "once" THEN rt_now' + Delay ELSE NextAt(w, rt_now')]
      /\ UNCHANGED <<mono, wall, sets, monotonic, mn_now, rtmn_diff, now_floor, synced, now_set,
                     kind, rel, cancelled, phase, nowait, wait, pend>>
  BY DEF PeriodicStart
<1>2. /\ rt_now' \in Int
      /\ timerfd' \in {"unused", "open", "failed"}
      /\ (must' = must /\ rt_now' = rt_now) \/ must' = FALSE
  BY <1>0 DEF PeriodicStart, TimerfdInit, Times, Flags
<1>3. /\ NextAt(w, rt_now') \in Int
      /\ kind[w] = "interval" =>
            rt_now' < NextAt(w, rt_now') /\ NextAt(w, rt_now') <= rt_now' + Interval
  BY <1>0, <1>2, NextAtAhead
<1>4. at' \in [Periodics -> Int]
  BY <1>0, <1>1, <1>2, <1>3 DEF Times
<1>5. Times'
  BY <1>0, <1>1, <1>2, <1>4 DEF Times
<1>6. must' \in BOOLEAN
  BY <1>0, <1>2 DEF Flags
<1>7. Flags'
  BY <1>0, <1>1, <1>2, <1>6 DEF Flags
<1>8. LeadBounded' /\ RelBounded' /\ OffsetBounded' /\ QueueShape'
  BY <1>0, <1>1 DEF LeadBounded, RelBounded, OffsetBounded, QueueShape
<1>9. JumpNoticed'
  <2>1. CASE must' = FALSE
    BY <2>1 DEF JumpNoticed
  <2>2. CASE must' = must /\ rt_now' = rt_now
    <3> SUFFICES ASSUME must, NEW v \in armed', kind[v] = "interval"
                 PROVE  rt_now < at'[v] /\ at'[v] <= rt_now + Interval
      BY <1>1, <2>2 DEF JumpNoticed
    <3>1. CASE v = w
      <4>1. at'[w] = NextAt(w, rt_now')
        BY <1>0, <1>1, <3>1 DEF Times
      <4> QED
        BY <1>3, <2>2, <3>1, <4>1
    <3>2. CASE v # w
      <4>1. v \in armed /\ at'[v] = at[v]
        BY <1>0, <1>1, <3>2 DEF Times
      <4> QED
        BY <1>0, <4>1 DEF JumpNoticed
    <3> QED
      BY <3>1, <3>2
  <2> QED
    BY <1>2, <2>1, <2>2
<1> QED
  BY <1>5, <1>7, <1>8, <1>9, TypeParts DEF ClockInv

LEMMA PeriodicAgainStep ==
    ASSUME ClockInv, NEW w \in Periodics, PeriodicAgain(w)
    PROVE  ClockInv'
<1> USE ClockAssumption DEF clocks, time, tfd, pass
<1>0. TypeOK /\ Times /\ Flags /\ LeadBounded /\ RelBounded /\ OffsetBounded /\ QueueShape
      /\ JumpNoticed
  BY TypeParts DEF ClockInv
<1>1. /\ pend' = pend \ {w} /\ at' = [at EXCEPT ![w] = NextAt(w, rt_now)]
      /\ UNCHANGED <<mono, wall, sets, monotonic, mn_now, rt_now, rtmn_diff, now_floor, synced,
                     must, now_set, kind, armed, rel, timerfd, cancelled, phase, nowait, wait>>
  BY DEF PeriodicAgain
<1>2. /\ NextAt(w, rt_now) \in Int
      /\ kind[w] = "interval" =>
            rt_now < NextAt(w, rt_now) /\ NextAt(w, rt_now) <= rt_now + Interval
  BY <1>0, NextAtAhead DEF Times
<1>3. at' \in [Periodics -> Int]
  BY <1>0, <1>1, <1>2 DEF Times
<1>4. Times'
  BY <1>0, <1>1, <1>3 DEF Times
<1>5. Flags'
  BY <1>0, <1>1 DEF Flags
<1>6. LeadBounded' /\ RelBounded' /\ OffsetBounded' /\ QueueShape'
  BY <1>0, <1>1 DEF LeadBounded, RelBounded, OffsetBounded, QueueShape
<1>7. JumpNoticed'
  <2> SUFFICES ASSUME must, NEW v \in armed, kind[v] = "interval"
               PROVE  rt_now < at'[v] /\ at'[v] <= rt_now + Interval
    BY <1>1 DEF JumpNoticed
  <2>1. at'[v] = IF v = w THEN NextAt(w, rt_now) ELSE at[v]
    BY <1>0, <1>1 DEF Times
  <2> QED
    BY <1>0, <1>2, <2>1 DEF JumpNoticed
<1> QED
  BY <1>4, <1>5, <1>6, <1>7, TypeParts DEF ClockInv

LEMMA ReifyStep ==
    ASSUME ClockInv, Reify
    PROVE  ClockInv'
<1> USE ClockAssumption DEF clocks, time, tfd
<1> DEFINE due == {w \in armed : at[w] < rt_now}
<1>0. TypeOK /\ Times /\ Flags /\ LeadBounded /\ RelBounded /\ OffsetBounded /\ JumpNoticed
  BY TypeParts DEF ClockInv
<1>1. /\ pend' = pend \cup due
      /\ at' = [w \in Periodics |-> IF w \in due THEN NextAt(w, rt_now) ELSE at[w]]
      /\ armed' = {w \in armed : w \in due => kind[w] # "once"}
      /\ rel' = IF rel # Off /\ rel < mn_now THEN Off ELSE rel
      /\ phase' = "invoke"
      /\ UNCHANGED <<mono, wall, sets, monotonic, mn_now, rt_now, rtmn_diff, now_floor, synced,
                     must, now_set, kind, timerfd, cancelled, nowait, wait>>
  BY DEF Reify
<1>2. due \subseteq armed
  OBVIOUS
<1> HIDE DEF due
<1>3. ASSUME NEW w \in Periodics
      PROVE  /\ NextAt(w, rt_now) \in Int
             /\ kind[w] = "interval" =>
                   rt_now < NextAt(w, rt_now) /\ NextAt(w, rt_now) <= rt_now + Interval
  BY <1>0, NextAtAhead DEF Times
<1>4. at' \in [Periodics -> Int]
  <2>1. ASSUME NEW w \in Periodics
        PROVE  (IF w \in due THEN NextAt(w, rt_now) ELSE at[w]) \in Int
    BY <1>0, <1>3 DEF Times
  <2> QED
    BY <1>1, <2>1
<1>5. Times'
  BY <1>0, <1>1, <1>2, <1>4 DEF Times
<1>6. Flags'
  BY <1>0, <1>1 DEF Flags
<1>7. LeadBounded' /\ RelBounded' /\ OffsetBounded' /\ QueueShape'
  BY <1>0, <1>1 DEF LeadBounded, RelBounded, OffsetBounded, QueueShape
<1>8. JumpNoticed'
  <2> SUFFICES ASSUME must, NEW w \in armed', kind[w] = "interval"
               PROVE  rt_now < at'[w] /\ at'[w] <= rt_now + Interval
    BY <1>1 DEF JumpNoticed
  <2>1. w \in armed /\ w \in Periodics
    BY <1>0, <1>1 DEF Times
  <2>2. at'[w] = IF w \in due THEN NextAt(w, rt_now) ELSE at[w]
    BY <1>1, <2>1
  <2> QED
    BY <1>0, <1>3, <2>1, <2>2 DEF JumpNoticed
<1> QED
  BY <1>5, <1>6, <1>7, <1>8, TypeParts DEF ClockInv

LEMMA TimerfdCbStep ==
    ASSUME ClockInv, TimerfdCb
    PROVE  ClockInv'
<1> USE ClockAssumption DEF clocks, pass
<1>0. TypeOK /\ Times /\ Flags /\ LeadBounded /\ RelBounded /\ OffsetBounded
  BY TypeParts DEF ClockInv
<1>1. /\ pend' = {} /\ cancelled' = FALSE /\ rt_now' = wall /\ must' = FALSE
      /\ at' = Rescheduled(wall) \/ at' = at
      /\ UNCHANGED <<mono, wall, sets, monotonic, mn_now, rtmn_diff, now_floor, synced, now_set,
                     kind, armed, rel, timerfd, phase, nowait, wait>>
  BY DEF TimerfdCb
<1>2. at' \in [Periodics -> Int]
  BY <1>0, <1>1, RescheduledAhead DEF Times
<1>3. Times'
  BY <1>0, <1>1, <1>2 DEF Times
<1>4. Flags'
  BY <1>0, <1>1 DEF Flags
<1>5. LeadBounded' /\ RelBounded' /\ OffsetBounded' /\ QueueShape' /\ JumpNoticed'
  BY <1>0, <1>1 DEF LeadBounded, RelBounded, OffsetBounded, QueueShape, JumpNoticed
<1> QED
  BY <1>3, <1>4, <1>5, TypeParts DEF ClockInv

LEMMA NextInv == ClockInv /\ [Next]_vars => ClockInv'
<1> SUFFICES ASSUME ClockInv, [Next]_vars PROVE ClockInv'
  OBVIOUS
<1>1. CASE UNCHANGED vars
  BY <1>1 DEF vars, clocks, time, tfd, pass, ClockInv, TypeOK, LeadBounded, RelBounded,
              OffsetBounded, QueueShape, JumpNoticed
<1>2. CASE Next
  BY <1>2, NoReading, UpdateSteps, NowSetStep, ResumeStep, PollStep, PeriodicStartStep,
     PeriodicAgainStep, ReifyStep, TimerfdCbStep DEF Next
<1> QED
  BY <1>1, <1>2

\* The invariant of Clock: with it the types and the bounds on the loop's times hold
\* in every reachable state.
THEOREM ClockInductive == Spec => []ClockInv
BY InitInv, NextInv, PTL DEF Spec

\* The loop never computes a negative or an unbounded sleep, and no relative timer has
\* more left to wait than its delay and the lead of a supplied clock, however the wall
\* clock is set, the loop suspended and resumed, and with or without a monotonic clock.
THEOREM TimesStaySound == Spec => []TimesSound
<1>1. ClockInv => TimesSound
  BY DEF ClockInv, TimesSound, DelayKept, RelBounded
<1> QED
  BY <1>1, ClockInductive, PTL

\* A refresh that shows the wall clock set, by whichever of time_update and ev_now_set
\* it is made, leaves every repeating periodic within one interval of the new time.
THEOREM JumpsNoticed == Spec => []JumpNoticed
<1>1. ClockInv => JumpNoticed
  BY DEF ClockInv
<1> QED
  BY <1>1, ClockInductive, PTL

-----------------------------------------------------------------------------
(* No periodic is pushed past its fire.                                    *)

\* With the wall clock where the loop last measured it, no reading that an acceptable
\* sample mn can give looks like a jump.
LEMMA NoFalseJump ==
    ASSUME ClockInv, SampleFresh, monotonic, wall - mono = synced,
           NEW mn \in Int, NEW mo \in Int, NEW wa \in Int, wa - mo = wall - mono,
           mo - MaxStale <= mn, mn <= mo + MaxAhead
    PROVE  ~TimeJumped(rtmn_diff - (wa - mn))
BY ClockAssumption DEF ClockInv, TypeOK, OffsetBounded, SampleFresh, TimeJumped, Abs, MinJump

\* So time_update leaves the periodics alone.
LEMMA UpdateKeeps ==
    ASSUME ClockInv, SampleFresh, monotonic, wall - mono = synced,
           NEW mo \in Int, NEW wa \in Int, wa - mo = wall - mono, NEW maxBlock \in Int,
           TimeUpdate(mo, wa, maxBlock)
    PROVE  at' = at
<1>1. ~TimeJumped(rtmn_diff - (wa - mo))
  BY NoFalseJump, ClockAssumption
<1> QED
  BY <1>1 DEF TimeUpdate, Interpolate, Refresh

LEMMA PushStep ==
    ASSUME ClockInv, SampleFresh, Next, NEW w \in armed \cap armed',
           monotonic, wall - mono = synced, ~PeriodicAgain(w), ~Resume
    PROVE  at'[w] = at[w] \/ w \in pend' \ pend
<1> USE ClockAssumption DEF clocks, time
<1>0. /\ TypeOK /\ LeadBounded /\ QueueShape /\ w \in Periodics
      /\ mono \in Int /\ wall \in Int /\ mn_now \in Int /\ Huge \in Int /\ wait \in Int
  BY DEF ClockInv, TypeOK, Huge
<1>1. ASSUME \/ \E d \in Ticks : Tick(d)
             \/ \E m \in Moves : SetWall(m)
             \/ \E v \in Periodics : PeriodicStop(v) \/ Invoke(v)
             \/ TimerStart \/ RunNowait \/ TimerfdWakes \/ EndPass
      PROVE  at' = at
  BY <1>1 DEF Tick, SetWall, PeriodicStop, Invoke, TimerStart, RunNowait, TimerfdWakes, EndPass
<1>2. ASSUME NowUpdate \/ RunBlocking
      PROVE  at' = at
  <2>1. TimeUpdate(mono, wall, Huge)
    BY <1>2 DEF NowUpdate, RunBlocking
  <2> QED
    BY <1>0, <2>1, UpdateKeeps
<1>3. ASSUME NEW s \in (mono - MaxStale)..(mono + MaxAhead), NowSet(s)
      PROVE  at' = at
  <2> DEFINE mn == IF s > mn_now THEN s ELSE mn_now
  <2>1. mn \in Int /\ mono - MaxStale <= mn /\ mn <= mono + MaxAhead
    BY <1>0 DEF LeadBounded
  <2>2. IF mn - now_floor < Half THEN Interpolate(mn)
        ELSE Refresh(mn, mono, wall, TimeJumped(rtmn_diff - (wall - mn)))
    BY <1>3 DEF NowSet
  <2> HIDE DEF mn
  <2>3. ~TimeJumped(rtmn_diff - (wall - mn))
    BY <1>0, <2>1, NoFalseJump
  <2> QED
    BY <2>2, <2>3 DEF Interpolate, Refresh
<1>4. ASSUME NEW d \in Ticks \cup {0}, PollReturns(d)
      PROVE  at' = at
  <2>1. CASE now_set /\ nowait
    BY <1>4, <2>1 DEF PollReturns
  <2>2. CASE ~(now_set /\ nowait)
    <3>1. PICK mb \in Int : TimeUpdate(mono + d, wall + d, mb)
      BY <1>0, <1>4, <2>2 DEF PollReturns
    <3>2. mono + d \in Int /\ wall + d \in Int /\ (wall + d) - (mono + d) = wall - mono
      BY <1>0
    <3> QED
      BY <3>1, <3>2, UpdateKeeps
  <2> QED
    BY <2>1, <2>2
<1>5. ASSUME NEW v \in Periodics, PeriodicStart(v)
      PROVE  at'[w] = at[w]
  <2>1. v # w
    BY <1>5 DEF PeriodicStart
  <2> QED
    BY <1>0, <1>5, <2>1 DEF PeriodicStart, TypeOK
<1>6. ASSUME NEW v \in Periodics, PeriodicAgain(v)
      PROVE  at'[w] = at[w]
  <2>1. v # w
    BY <1>6
  <2> QED
    BY <1>0, <1>6, <2>1 DEF PeriodicAgain, TypeOK
<1>7. ASSUME Reify
      PROVE  at'[w] = at[w] \/ w \in pend' \ pend
  <2>1. w \notin pend
    BY <1>0, <1>7 DEF Reify, QueueShape
  <2>2. at[w] < rt_now => w \in pend'
    BY <1>7 DEF Reify
  <2>3. ~(at[w] < rt_now) => at'[w] = at[w]
    BY <1>0, <1>7 DEF Reify
  <2> QED
    BY <2>1, <2>2, <2>3
<1>8. ASSUME TimerfdCb
      PROVE  at' = at
  <2>1. ~TimeJumped(rtmn_diff - (wall - mono))
    BY <1>0, NoFalseJump
  <2> QED
    BY <1>8, <2>1 DEF TimerfdCb
<1> QED
  BY <1>1, <1>2, <1>3, <1>4, <1>5, <1>6, <1>7, <1>8 DEF Next

\* If the embedder hands ev_now_set fresh samples, then while the wall clock stays
\* where the loop measured it no refresh, no sample and no spurious timerfd wake
\* moves the next time of a periodic without feeding it.
THEOREM NothingPushed ==
    ASSUME SampleFresh
    PROVE  Spec => NeverPushed
<1>1. ClockInv /\ [Next]_vars =>
         [\A w \in armed \cap armed' :
             \/ at'[w] = at[w]
             \/ w \in pend' \ pend
             \/ wall - mono # synced
             \/ ~monotonic
             \/ PeriodicAgain(w)
             \/ Resume]_vars
  BY PushStep
<1> QED
  BY <1>1, ClockInductive, PTL DEF NeverPushed, Spec
=============================================================================
