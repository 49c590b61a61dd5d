-------------------------- MODULE TimerQueueProofs --------------------------
(***************************************************************************)
(* Proofs about TimerQueue, for any set of timers, delays and repeat       *)
(* values: TimerInv is inductive, and with it ExpiryDelivered,             *)
(* EarlierFirst and OncePerPass hold.  One lemma per kind of step: what    *)
(* leaves the queues alone, what clears an entry, the expiry of a timer,   *)
(* the feeding of the expired ones and the call of a callback.             *)
(***************************************************************************)
EXTENDS TimerQueue, SequenceTheorems, TLAPS

\* Steps that touch neither queue and expire nothing: the invariant speaks of
\* deadlines only while timers_reify runs, and none of them is possible then.
LEMMA CallsStep ==
    ASSUME TimerInv, TypeOK', App, rfeeds' = rfeeds, pend' = pend,
           expired' = expired, phase' = phase
    PROVE  TimerInv'
<1>1. rfeeds = <<>>
  BY DEF TimerInv, PhaseShape, App
<1>2. ReifiedPast'
  BY <1>1 DEF ReifiedPast
<1> QED
  BY <1>2 DEF TimerInv, PhaseShape, ExpiryDelivered, EarlierFirst, OncePerPass

\* Clearing the queued callback of a timer is what withdraws its expiry.
LEMMA ClearStep ==
    ASSUME TimerInv, NEW w \in Timers, TypeOK', App, rfeeds' = rfeeds,
           pend' = Cleared(w), expired' = expired \ {w}, phase' = phase
    PROVE  TimerInv'
<1> USE TimerAssumption
<1>1. rfeeds = <<>>
  BY DEF TimerInv, PhaseShape, App
<1>2. ReifiedPast'
  BY <1>1 DEF ReifiedPast
<1>3. /\ pend \in Seq(Entry)
      /\ Len(pend') = Len(pend)
      /\ \A i \in 1..Len(pend) :
            /\ pend[i] \in Entry
            /\ pend'[i].dl = pend[i].dl
            /\ pend'[i].w = IF pend[i].w = w THEN NoTimer ELSE pend[i].w
  <2>1. pend \in Seq(Entry) /\ pend' \in Seq(Entry)
    BY DEF TimerInv, TypeOK
  <2>2. /\ Len(pend) \in Nat
        /\ \A i \in 1..Len(pend) : pend[i] \in Entry
        /\ DOMAIN pend' = 1..Len(pend')
        /\ Len(pend') \in Nat
    BY <2>1, LenProperties, ElementOfSeq
  <2>3. /\ DOMAIN pend' = 1..Len(pend)
        /\ \A i \in 1..Len(pend) :
              pend'[i] = [w |-> IF pend[i].w = w THEN NoTimer ELSE pend[i].w,
                          dl |-> pend[i].dl]
    BY DEF Cleared
  <2>4. Len(pend') = Len(pend)
    BY <2>2, <2>3
  <2> QED
    BY <2>1, <2>2, <2>3, <2>4
<1>4. PhaseShape'
  <2>1. pend = <<>> => pend' = <<>>
    BY DEF Cleared
  <2> QED
    BY <2>1 DEF TimerInv, PhaseShape
<1>5. ExpiryDelivered'
  <2>1. expired = {pend[i].w : i \in 1..Len(pend)} \ {NoTimer}
    BY <1>1 DEF TimerInv, ExpiryDelivered
  <2>2. {pend'[i].w : i \in 1..Len(pend')} \ {NoTimer}
          = ({pend[i].w : i \in 1..Len(pend)} \ {NoTimer}) \ {w}
    BY <1>3
  <2>3. {rfeeds'[i].w : i \in 1..Len(rfeeds')} = {}
    BY <1>1
  <2>4. expired' = ({pend'[i].w : i \in 1..Len(pend')} \ {NoTimer})
                   \cup {rfeeds'[i].w : i \in 1..Len(rfeeds')}
    BY <2>1, <2>2, <2>3
  <2> QED
    BY <2>4 DEF ExpiryDelivered
<1>6. EarlierFirst'
  BY <1>1, <1>3 DEF TimerInv, EarlierFirst
<1>7. OncePerPass'
  BY <1>1, <1>3 DEF TimerInv, OncePerPass
<1> QED
  BY <1>2, <1>4, <1>5, <1>6, <1>7 DEF TimerInv

\* timers_reify takes one more timer: it is not among those already taken, since
\* they are stopped or rescheduled to the loop's time or later.
LEMMA ExpireStep ==
    ASSUME TimerInv, NEW w \in Timers, TypeOK', Expire(w)
    PROVE  TimerInv'
<1> USE TimerAssumption
<1> DEFINE n == Len(rfeeds)
<1>1. /\ n \in Nat
      /\ Len(rfeeds') = n + 1
      /\ \A i \in 1..n : /\ rfeeds'[i] = rfeeds[i]
                         /\ rfeeds[i].w \in Timers
                         /\ rfeeds[i].dl \in Int
      /\ rfeeds'[n + 1].w = w
      /\ rfeeds'[n + 1].dl = at[w]
  <2> DEFINE Taken == [w : Timers, dl : Int]
             e == [w |-> w, dl |-> at[w]]
  <2>1. rfeeds \in Seq(Taken) /\ e \in Taken
    BY DEF TimerInv, TypeOK
  <2>2. rfeeds' = Append(rfeeds, e)
    BY DEF Expire
  <2>3. n \in Nat /\ \A i \in 1..n : rfeeds[i] \in Taken
    BY <2>1, LenProperties, ElementOfSeq
  <2>4. e.w = w /\ e.dl = at[w]
    OBVIOUS
  <2> HIDE DEF e, Taken
  <2>5. /\ Len(rfeeds') = n + 1
        /\ rfeeds'[n + 1] = e
        /\ \A i \in 1..n : rfeeds'[i] = rfeeds[i]
    BY <2>1, <2>2, <2>3, AppendProperties
  <2> QED
    BY <2>3, <2>4, <2>5 DEF Taken
<1>2. \A i \in 1..n : rfeeds[i].w # w /\ rfeeds[i].dl <= at[w]
  <2>1. w \in armed /\ at[w] < mn_now /\ at[w] \in Int /\ mn_now \in Nat
    BY DEF TimerInv, TypeOK, Expire, Earliest
  <2>2. \A i \in 1..n : /\ rfeeds[i].w \in armed => at[rfeeds[i].w] >= mn_now
                        /\ rfeeds[i].dl <= at[w]
    BY <2>1 DEF TimerInv, ReifiedPast
  <2> QED
    BY <2>1, <2>2
<1>3. /\ at \in [Timers -> Int]
      /\ repeat \in [Timers -> Nat]
      /\ mn_now \in Nat
      /\ mn_now' = mn_now
      /\ armed \subseteq Timers
      /\ armed' \subseteq armed
      /\ at[w] < mn_now
      /\ \A v \in armed : at[w] <= at[v]
      /\ pend' = pend
      /\ phase' = phase
      /\ phase = "reify"
      /\ pend = <<>>
  BY DEF TimerInv, TypeOK, PhaseShape, Expire, Earliest
<1>4. \A v \in armed' : /\ v # w => at'[v] = at[v]
                        /\ v = w => at'[v] >= mn_now
                        /\ at[w] <= at'[v]
                        /\ at'[v] \in Int
  <2>1. CASE repeat[w] # 0
    <3>1. at' = [at EXCEPT ![w] = NextDeadline(w)]
      BY <2>1 DEF Expire
    <3>2. NextDeadline(w) \in Int /\ NextDeadline(w) >= mn_now
      BY <1>3 DEF NextDeadline
    <3> QED
      BY <1>3, <3>1, <3>2
  <2>2. CASE repeat[w] = 0
    <3>1. w \notin armed' /\ \A v \in armed' : at'[v] = at[v]
      BY <2>2, <1>3 DEF Expire
    <3> QED
      BY <1>3, <3>1
  <2> QED
    BY <2>1, <2>2
<1>5. ReifiedPast'
  <2> SUFFICES ASSUME NEW i \in 1..(n + 1)
               PROVE  /\ rfeeds'[i].dl < mn_now
                      /\ rfeeds'[i].w \in armed' => at'[rfeeds'[i].w] >= mn_now
                      /\ \A v \in armed' : rfeeds'[i].dl <= at'[v]
    BY <1>1, <1>3 DEF ReifiedPast
  <2>1. CASE i = n + 1
    BY <2>1, <1>1, <1>3, <1>4
  <2>2. CASE i \in 1..n
    <3>1. /\ rfeeds[i].dl < mn_now
          /\ rfeeds[i].w \in armed => at[rfeeds[i].w] >= mn_now
          /\ rfeeds[i].dl <= at[w]
          /\ rfeeds[i].w # w
      BY <2>2, <1>2 DEF TimerInv, ReifiedPast
    <3>2. \A v \in armed' : rfeeds[i].dl <= at'[v]
      BY <2>2, <3>1, <1>1, <1>3, <1>4
    <3> QED
      BY <2>2, <3>1, <3>2, <1>1, <1>3, <1>4
  <2> QED
    BY <2>1, <2>2, <1>1
<1>6. ExpiryDelivered'
  <2>1. {rfeeds'[i].w : i \in 1..Len(rfeeds')} = {rfeeds[i].w : i \in 1..n} \cup {w}
    <3>1. 1..Len(rfeeds') = (1..n) \cup {n + 1}
      BY <1>1
    <3> QED
      BY <3>1, <1>1
  <2>2. expired' = expired \cup {w}
    BY DEF Expire
  <2> QED
    BY <1>3, <2>1, <2>2 DEF TimerInv, ExpiryDelivered
<1>7. EarlierFirst'
  <2>1. \A i, j \in 1..(n + 1) : i < j => rfeeds'[i].dl <= rfeeds'[j].dl
    <3> TAKE i, j \in 1..(n + 1)
    <3> HAVE i < j
    <3>1. CASE j = n + 1
      BY <3>1, <1>1, <1>2
    <3>2. CASE j \in 1..n
      BY <3>2, <1>1 DEF TimerInv, EarlierFirst
    <3> QED
      BY <3>1, <3>2, <1>1
  <2> QED
    BY <1>1, <1>3, <2>1 DEF TimerInv, EarlierFirst
<1>8. OncePerPass'
  <2>1. \A i, j \in 1..(n + 1) : i # j => rfeeds'[i].w # rfeeds'[j].w
    <3> TAKE i, j \in 1..(n + 1)
    <3> HAVE i # j
    <3>1. CASE i \in 1..n /\ j \in 1..n
      BY <3>1, <1>1 DEF TimerInv, OncePerPass
    <3>2. CASE i = n + 1 \/ j = n + 1
      BY <3>2, <1>1, <1>2
    <3> QED
      BY <3>1, <3>2, <1>1
  <2> QED
    BY <1>1, <1>3, <2>1 DEF TimerInv, OncePerPass
<1>9. PhaseShape'
  BY <1>3 DEF PhaseShape
<1> QED
  BY <1>5, <1>6, <1>7, <1>8, <1>9 DEF TimerInv

\* What the reverse of a sequence is.
LEMMA ReverseProperties ==
    ASSUME NEW S, NEW s \in Seq(S), NEW r,
           r = [i \in 1..Len(s) |-> s[Len(s) + 1 - i]]
    PROVE  /\ r \in Seq(S)
           /\ Len(r) = Len(s)
           /\ \A i \in 1..Len(s) : /\ Len(s) + 1 - i \in 1..Len(s)
                                   /\ r[i] = s[Len(s) + 1 - i]
                                   /\ s[i] = r[Len(s) + 1 - i]
<1>1. Len(s) \in Nat
  BY LenProperties
<1>2. \A i \in 1..Len(s) : Len(s) + 1 - i \in 1..Len(s) /\ Len(s) + 1 - (Len(s) + 1 - i) = i
  BY <1>1
<1>3. \A i \in 1..Len(s) : s[i] \in S
  BY ElementOfSeq
<1>4. r \in [1..Len(s) -> S]
  BY <1>2, <1>3
<1>5. r \in Seq(S)
  BY <1>1, <1>4, SeqDef
<1>6. Len(r) \in Nat /\ DOMAIN r = 1..Len(r) /\ DOMAIN r = 1..Len(s)
  BY <1>4, <1>5, LenProperties
<1>7. Len(r) = Len(s)
  BY <1>1, <1>6
<1> QED
  BY <1>2, <1>5, <1>7

\* feed_reverse_done: the queue was empty, so it becomes the expired timers in
\* reverse, the earliest one last, where ev_invoke_pending starts.
LEMMA EndReifyStep ==
    ASSUME TimerInv, TypeOK', EndReify
    PROVE  TimerInv'
<1> USE TimerAssumption
<1>1. PICK n \in Nat : n = Len(rfeeds)
  BY LenProperties DEF TimerInv, TypeOK
<1> DEFINE Taken == [w : Timers, dl : Int]
<1>2. /\ rfeeds \in Seq(Taken)
      /\ pend = <<>>
      /\ rfeeds' = <<>>
      /\ phase' = "invoke"
      /\ expired' = expired
  BY DEF TimerInv, TypeOK, PhaseShape, EndReify
<1>3. pend' = [i \in 1..Len(rfeeds) |-> rfeeds[Len(rfeeds) + 1 - i]]
  <2> DEFINE rev == [i \in 1..Len(rfeeds) |-> rfeeds[Len(rfeeds) + 1 - i]]
  <2>1. pend' = <<>> \o rev
    BY <1>2 DEF EndReify
  <2> HIDE DEF Taken
  <2>2. rev \in Seq(Taken)
    BY <1>2, ReverseProperties
  <2> HIDE DEF rev
  <2>3. pend' = rev
    BY <2>1, <2>2, ConcatEmptySeq
  <2> QED
    BY <2>3 DEF rev
<1>4. /\ Len(pend') = n
      /\ \A i \in 1..n : /\ n + 1 - i \in 1..n
                         /\ pend'[i] = rfeeds[n + 1 - i]
                         /\ rfeeds[i] = pend'[n + 1 - i]
      /\ \A i \in 1..n : rfeeds[i] \in Taken
  <2> HIDE DEF Taken
  <2> QED
    BY <1>1, <1>2, <1>3, ReverseProperties, ElementOfSeq
<1>5. \A i \in 1..n : rfeeds[i].w \in Timers /\ rfeeds[i].dl \in Int
  BY <1>4
<1>6. Len(rfeeds') = 0 /\ 1..Len(rfeeds') = {}
  BY <1>2
<1>7. ExpiryDelivered'
  <2>1. {pend'[i].w : i \in 1..n} = {rfeeds[i].w : i \in 1..n}
    <3> HIDE DEF Taken
    <3> QED
      BY <1>4
  <2>2. expired = {rfeeds[i].w : i \in 1..n}
    BY <1>1, <1>2 DEF TimerInv, ExpiryDelivered
  <2>3. NoTimer \notin {rfeeds[i].w : i \in 1..n}
    BY <1>5
  <2>4. {rfeeds'[i].w : i \in 1..Len(rfeeds')} = {}
    BY <1>6
  <2>5. expired' = ({pend'[i].w : i \in 1..Len(pend')} \ {NoTimer})
                   \cup {rfeeds'[i].w : i \in 1..Len(rfeeds')}
    BY <1>2, <1>4, <2>1, <2>2, <2>3, <2>4
  <2> QED
    BY <2>5 DEF ExpiryDelivered
<1>8. EarlierFirst'
  <2>1. \A i, j \in 1..n : i < j => pend'[i].dl >= pend'[j].dl
    <3> TAKE i, j \in 1..n
    <3> HAVE i < j
    <3>1. n + 1 - j < n + 1 - i /\ n + 1 - j \in 1..n /\ n + 1 - i \in 1..n
      OBVIOUS
    <3>2. rfeeds[n + 1 - j].dl <= rfeeds[n + 1 - i].dl
      BY <1>1, <3>1 DEF TimerInv, EarlierFirst
    <3> QED
      BY <1>4, <1>5, <3>1, <3>2
  <2> QED
    BY <1>4, <1>6, <2>1 DEF EarlierFirst
<1>9. OncePerPass'
  <2>1. \A i, j \in 1..n : i # j => pend'[i].w # pend'[j].w
    <3> TAKE i, j \in 1..n
    <3> HAVE i # j
    <3>1. n + 1 - j # n + 1 - i /\ n + 1 - j \in 1..n /\ n + 1 - i \in 1..n
      OBVIOUS
    <3>2. rfeeds[n + 1 - i].w # rfeeds[n + 1 - j].w
      BY <1>1, <3>1 DEF TimerInv, OncePerPass
    <3> QED
      BY <1>4, <3>2
  <2> QED
    BY <1>4, <1>6, <2>1 DEF OncePerPass
<1>10. PhaseShape' /\ ReifiedPast'
  BY <1>2, <1>6 DEF PhaseShape, ReifiedPast
<1> QED
  BY <1>7, <1>8, <1>9, <1>10 DEF TimerInv

\* ev_invoke_pending calls one timer back, and no other entry is for that timer.
LEMMA InvokeStep ==
    ASSUME TimerInv, TypeOK', Invoke
    PROVE  TimerInv'
<1> USE TimerAssumption
<1> DEFINE n == Len(pend)
<1>1. /\ n \in Nat
      /\ n # 0
      /\ phase = "invoke"
      /\ phase' = "invoke"
      /\ rfeeds = <<>>
      /\ rfeeds' = <<>>
      /\ expired' = expired \ {pend[n].w}
      /\ NoTimer \notin expired
  BY DEF TimerInv, TypeOK, PhaseShape, Invoke
<1>2. /\ Len(pend') = n - 1
      /\ \A i \in 1..(n - 1) : i \in 1..n /\ pend'[i] = pend[i]
  BY <1>1 DEF Invoke
<1>3. ExpiryDelivered'
  <2>1. expired = {pend[i].w : i \in 1..n} \ {NoTimer}
    BY <1>1 DEF TimerInv, ExpiryDelivered
  <2>2. \A i \in 1..(n - 1) : pend[i].w # NoTimer => pend[i].w # pend[n].w
    <3>1. n \in 1..n /\ \A i \in 1..(n - 1) : i # n /\ i \in 1..n
      BY <1>1
    <3> QED
      BY <3>1 DEF TimerInv, OncePerPass
  <2>3. 1..n = (1..(n - 1)) \cup {n}
    BY <1>1
  <2>4. {pend[i].w : i \in 1..n} = {pend[i].w : i \in 1..(n - 1)} \cup {pend[n].w}
    BY <2>3
  <2>5. {pend'[i].w : i \in 1..(n - 1)} = {pend[i].w : i \in 1..(n - 1)}
    BY <1>2
  <2>6. expired' = {pend[i].w : i \in 1..(n - 1)} \ {NoTimer}
    BY <1>1, <2>1, <2>2, <2>4
  <2>7. {rfeeds'[i].w : i \in 1..Len(rfeeds')} = {}
    BY <1>1
  <2>8. expired' = ({pend'[i].w : i \in 1..Len(pend')} \ {NoTimer})
                   \cup {rfeeds'[i].w : i \in 1..Len(rfeeds')}
    BY <1>2, <2>5, <2>6, <2>7
  <2> QED
    BY <2>8 DEF ExpiryDelivered
<1>4. EarlierFirst'
  BY <1>1, <1>2 DEF TimerInv, EarlierFirst
<1>5. OncePerPass'
  BY <1>1, <1>2 DEF TimerInv, OncePerPass
<1>6. PhaseShape' /\ ReifiedPast'
  BY <1>1 DEF PhaseShape, ReifiedPast
<1> QED
  BY <1>3, <1>4, <1>5, <1>6 DEF TimerInv

\* Every step keeps the variables within their types; what is queued names a timer
\* or stands cleared.
LEMMA TypeStep ==
    ASSUME TimerInv, [Next]_vars
    PROVE  TypeOK'
<1> USE TimerAssumption
<1>1. TypeOK
  BY DEF TimerInv
<1>2. ASSUME NEW w \in Timers, NEW after \in Afters, NEW rep \in Repeats, Set(w, after, rep)
      PROVE  TypeOK'
  BY <1>1, <1>2 DEF TypeOK, Set
<1>3. ASSUME NEW w \in Timers, Start(w)
      PROVE  TypeOK'
  BY <1>1, <1>3 DEF TypeOK, Start
<1>4. ASSUME NEW w \in Timers
      PROVE  Cleared(w) \in Seq(Entry)
  <2>1. pend \in Seq(Entry) /\ Len(pend) \in Nat
    BY <1>1, LenProperties DEF TypeOK
  <2>2. \A i \in 1..Len(pend) : pend[i] \in Entry
    BY <2>1, ElementOfSeq
  <2>3. Cleared(w) \in [1..Len(pend) -> Entry]
    BY <2>2 DEF Cleared, Entry
  <2> QED
    BY <2>1, <2>3, SeqDef
<1>5. ASSUME NEW w \in Timers, Stop(w)
      PROVE  TypeOK'
  BY <1>1, <1>4, <1>5 DEF TypeOK, Stop
<1>6. ASSUME NEW w \in Timers, Again(w)
      PROVE  TypeOK'
  BY <1>1, <1>4, <1>6 DEF TypeOK, Again
<1>7. ASSUME NEW w \in Timers, Expire(w)
      PROVE  TypeOK'
  <2>1. [w |-> w, dl |-> at[w]] \in [w : Timers, dl : Int]
    BY <1>1 DEF TypeOK
  <2>2. rfeeds' \in Seq([w : Timers, dl : Int])
    BY <1>1, <1>7, <2>1, AppendProperties DEF TypeOK, Expire
  <2>3. NextDeadline(w) \in Int
    BY <1>1 DEF TypeOK, NextDeadline
  <2>4. at' \in [Timers -> Int] /\ armed' \in SUBSET Timers
    BY <1>1, <1>7, <2>3 DEF TypeOK, Expire
  <2> QED
    BY <1>1, <1>7, <2>2, <2>4 DEF TypeOK, Expire
<1>8. CASE NowUpdate \/ Resume \/ BeginReify
  BY <1>1, <1>8 DEF TypeOK, NowUpdate, Resume, BeginReify
<1>9. CASE EndReify
  <2> DEFINE Taken == [w : Timers, dl : Int]
             rev == [i \in 1..Len(rfeeds) |-> rfeeds[Len(rfeeds) + 1 - i]]
  <2>1. Taken \subseteq Entry
    BY DEF Entry
  <2>2. rfeeds \in Seq(Taken) /\ pend \in Seq(Entry)
    BY <1>1 DEF TypeOK
  <2> HIDE DEF Taken
  <2>3. rev \in Seq(Taken)
    BY <2>2, ReverseProperties
  <2>4. pend' = pend \o rev /\ rfeeds' = <<>>
    BY <1>9 DEF EndReify
  <2> HIDE DEF rev
  <2>5. pend' \in Seq(Entry)
    BY <2>1, <2>2, <2>3, <2>4, SeqMonotonic, ConcatProperties
  <2> QED
    BY <1>1, <1>9, <2>4, <2>5 DEF TypeOK, EndReify
<1>10. CASE Invoke
  <2>1. pend \in Seq(Entry) /\ pend # <<>> /\ Len(pend) \in Nat \ {0}
    BY <1>1, <1>10, LenProperties, EmptySeq DEF TypeOK, Invoke
  <2>2. Len(pend) - 1 \in Nat /\ \A i \in 1..(Len(pend) - 1) : i \in 1..Len(pend)
    BY <2>1
  <2>3. pend' \in [1..(Len(pend) - 1) -> Entry]
    BY <1>10, <2>1, <2>2, ElementOfSeq DEF Invoke
  <2>4. pend' \in Seq(Entry)
    BY <2>2, <2>3, SeqDef
  <2> QED
    BY <1>1, <1>10, <2>4 DEF TypeOK, Invoke
<1>11. CASE EndPass
  BY <1>1, <1>11 DEF TypeOK, EndPass
<1>12. CASE UNCHANGED vars
  BY <1>1, <1>12 DEF TypeOK, vars
<1> QED
  BY <1>2, <1>3, <1>5, <1>6, <1>7, <1>8, <1>9, <1>10, <1>11, <1>12 DEF Next

\* TimerInv is an invariant of the timers, whatever the application calls and
\* whenever the clock advances.
THEOREM TimersInductive == Spec => []TimerInv
<1>1. Init => TimerInv
  <2> SUFFICES ASSUME Init PROVE TimerInv
    OBVIOUS
  <2>1. TypeOK
    BY TimerAssumption, EmptySeq DEF Init, TypeOK
  <2>2. Len(pend) = 0 /\ Len(rfeeds) = 0
    BY DEF Init
  <2> QED
    BY <2>1, <2>2 DEF Init, TimerInv, PhaseShape, ReifiedPast, ExpiryDelivered,
                      EarlierFirst, OncePerPass
<1>2. TimerInv /\ [Next]_vars => TimerInv'
  <2> SUFFICES ASSUME TimerInv, [Next]_vars PROVE TimerInv'
    OBVIOUS
  <2>1. TypeOK'
    BY TypeStep
  <2>2. ASSUME NEW w \in Timers, NEW after \in Afters, NEW rep \in Repeats, Set(w, after, rep)
        PROVE  TimerInv'
    BY <2>1, <2>2, CallsStep DEF Set
  <2>3. ASSUME NEW w \in Timers, Start(w)
        PROVE  TimerInv'
    BY <2>1, <2>3, CallsStep DEF Start
  <2>4. ASSUME NEW w \in Timers, Stop(w) \/ Again(w)
        PROVE  TimerInv'
    BY <2>1, <2>4, ClearStep DEF Stop, Again
  <2>5. ASSUME NEW w \in Timers, Expire(w)
        PROVE  TimerInv'
    BY <2>1, <2>5, ExpireStep
  <2>6. CASE NowUpdate \/ Resume
    BY <2>1, <2>6, CallsStep DEF NowUpdate, Resume
  <2>7. CASE BeginReify
    <3>1. rfeeds = <<>> /\ pend = <<>> /\ rfeeds' = rfeeds /\ pend' = pend /\ expired' = expired
      BY <2>7 DEF TimerInv, PhaseShape, BeginReify
    <3>2. PhaseShape' /\ ReifiedPast'
      BY <2>7, <3>1 DEF PhaseShape, ReifiedPast, BeginReify
    <3> QED
      BY <2>1, <3>1, <3>2 DEF TimerInv, ExpiryDelivered, EarlierFirst, OncePerPass
  <2>8. CASE EndReify
    BY <2>1, <2>8, EndReifyStep
  <2>9. CASE Invoke
    BY <2>1, <2>9, InvokeStep
  <2>10. CASE EndPass
    <3>1. rfeeds = <<>> /\ pend = <<>> /\ rfeeds' = rfeeds /\ pend' = pend /\ expired' = expired
      BY <2>10 DEF TimerInv, PhaseShape, EndPass
    <3>2. PhaseShape' /\ ReifiedPast'
      BY <2>10, <3>1 DEF PhaseShape, ReifiedPast, EndPass
    <3> QED
      BY <2>1, <3>1, <3>2 DEF TimerInv, ExpiryDelivered, EarlierFirst, OncePerPass
  <2>11. CASE UNCHANGED vars
    BY <2>11 DEF vars, TimerInv, TypeOK, PhaseShape, ReifiedPast, ExpiryDelivered,
                 EarlierFirst, OncePerPass
  <2> QED
    BY <2>2, <2>3, <2>4, <2>5, <2>6, <2>7, <2>8, <2>9, <2>10, <2>11 DEF Next
<1> QED
  BY <1>1, <1>2, PTL DEF Spec

\* A timer that expired is called back unless it is stopped or restarted first, and
\* nothing else is.
THEOREM ExpiriesDelivered == Spec => []ExpiryDelivered
<1>1. TimerInv => ExpiryDelivered
  BY DEF TimerInv
<1> QED
  BY <1>1, TimersInductive, PTL

\* The callbacks of one pass run in the order of the deadlines.
THEOREM DeadlineOrder == Spec => []EarlierFirst
<1>1. TimerInv => EarlierFirst
  BY DEF TimerInv
<1> QED
  BY <1>1, TimersInductive, PTL

\* No timer is taken twice by one timers_reify, nor queued twice.
THEOREM TakenOnce == Spec => []OncePerPass
<1>1. TimerInv => OncePerPass
  BY DEF TimerInv
<1> QED
  BY <1>1, TimersInductive, PTL
=============================================================================
