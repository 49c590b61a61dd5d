-------------------------------- MODULE EvRun --------------------------------
(***************************************************************************)
(* The dispatch core of a loop (src/ev.c): the pending queues              *)
(* (ev_feed_event, clear_pending, ev_invoke_pending), the watchers kept in *)
(* arrays (prepare, check, idle, fork, cleanup), the reference count and   *)
(* the passes of ev_run, with callbacks that start, stop, feed and clear   *)
(* any watcher, break out of the loop and run it recursively.              *)
(*                                                                         *)
(* What the backend, the timers and the signals feed is the poll phase:    *)
(* any active watcher of kind "event" may get its event there.             *)
(***************************************************************************)
EXTENDS Integers, Sequences, FiniteSets

CONSTANTS
    Watchers,
    Kind,       \* the type of each watcher
    NoWatcher,  \* pending_w, which takes the place of a cleared watcher
    NUMPRI,     \* number of priority levels
    RawPris,    \* what ev_set_priority may have stored before the start
    MaxDepth,   \* bound: nested ev_run / ev_invoke_pending calls
    MaxQueue,   \* bound: queue length up to which the application feeds
    MaxRef      \* bound: net ev_ref / ev_unref calls of the application

Kinds == {"event", "prepare", "check", "idle", "fork", "cleanup"}

\* What the proofs assume of the constants; MCEvRun lets TLC evaluate it.
RunAssumption ==
    /\ IsFiniteSet(Watchers)
    /\ Kind \in [Watchers -> Kinds]
    /\ NoWatcher \notin Watchers
    /\ NUMPRI \in Nat \ {0}
    /\ RawPris \subseteq Int
    /\ MaxDepth \in Nat
    /\ MaxQueue \in Nat
    /\ MaxRef \in Nat

VARIABLES
    pri,        \* w->priority - EV_MINPRI
    active,     \* w->active: 0, or the 1-based place in its array
    pending,    \* w->pending: 0, or the 1-based place in its queue
    arrays,     \* prepares[], checks[], idles[pri][], forks[], cleanups[]
    pendings,   \* pendings[pri][0..pendingcnt[pri] - 1]
    pendingpri,
    activecnt,
    idleall,
    loop_done,
    frames,     \* the ev_run / ev_invoke_pending calls on the stack
    mode,       \* who runs: "app", "inv" (ev_invoke_pending), "feed", "run"
    feeding,    \* queue_events under way: the watchers left and the event
    refs,       \* history: ev_ref minus ev_unref by the application
    acc         \* history: events fed to w since it was last invoked or cleared

vars == <<pri, active, pending, arrays, pendings, pendingpri, activecnt,
          idleall, loop_done, frames, mode, feeding, refs, acc>>

Pris   == 0..(NUMPRI - 1)
Events == {"EVENT", "PREPARE", "CHECK", "IDLE", "FORK", "CUSTOM"}
Slots  == (Kinds \ {"event", "idle"}) \X {0} \cup {"idle"} \X Pris

\* The array w belongs to: idle watchers have one per priority.
SlotOf(w) == <<Kind[w], IF Kind[w] = "idle" THEN pri[w] ELSE 0>>

Places == {"enter", "fork", "prepare", "poll", "idle", "tail", "direct"}

TypeOK ==
    /\ pri \in [Watchers -> Pris \cup RawPris]
    /\ active \in [Watchers -> Nat]
    /\ pending \in [Watchers -> Nat]
    /\ arrays \in [Slots -> Seq(Watchers)]
    /\ pendings \in [Pris -> Seq([w : Watchers \cup {NoWatcher},
                                  events : SUBSET Events])]
    /\ pendingpri \in Pris
    /\ activecnt \in Int
    /\ idleall \in Int
    /\ loop_done \in {"CANCEL", "ONE", "ALL"}
    /\ frames \in Seq([at : Places, once : BOOLEAN])
    /\ mode \in {"app", "inv", "feed", "run"}
    /\ feeding \in [ws : Seq(Watchers), ev : Events]
    /\ refs \in Int
    /\ acc \in [Watchers -> SUBSET Events]

Init ==
    /\ pri \in [Watchers -> RawPris]
    /\ active = [w \in Watchers |-> 0]
    /\ pending = [w \in Watchers |-> 0]
    /\ arrays = [s \in Slots |-> <<>>]
    /\ pendings = [p \in Pris |-> <<>>]
    /\ pendingpri = 0
    /\ activecnt = 0
    /\ idleall = 0
    /\ loop_done = "CANCEL"
    /\ frames = <<>>
    /\ mode = "app"
    /\ feeding = [ws |-> <<>>, ev |-> "CUSTOM"]
    /\ refs = 0
    /\ acc = [w \in Watchers |-> {}]

watcherVars == <<pri, active, arrays, activecnt, idleall, refs>>
queueVars   == <<pending, pendings, pendingpri, acc>>
runVars     == <<loop_done, frames, mode, feeding>>

-----------------------------------------------------------------------------
(* The pending queues.                                                     *)

\* Mutant: an event fed from a callback does not send ev_invoke_pending back to
\* the highest level.
FeedEventKeepLevel(w, e) ==
    /\ IF pending[w] # 0
       THEN /\ pendings' = [pendings EXCEPT ![pri[w]][pending[w]].events = @ \cup {e}]
            /\ UNCHANGED pending
       ELSE /\ pending' = [pending EXCEPT ![w] = Len(pendings[pri[w]]) + 1]
            /\ pendings' = [pendings EXCEPT ![pri[w]] =
                                Append(@, [w |-> w, events |-> {e}])]
    /\ UNCHANGED pendingpri
    /\ acc' = [acc EXCEPT ![w] = @ \cup {e}]

\* Mutant: an event for a watcher already pending replaces the earlier ones.
FeedEventReplace(w, e) ==
    /\ IF pending[w] # 0
       THEN /\ pendings' = [pendings EXCEPT ![pri[w]][pending[w]].events = {e}]
            /\ UNCHANGED pending
       ELSE /\ pending' = [pending EXCEPT ![w] = Len(pendings[pri[w]]) + 1]
            /\ pendings' = [pendings EXCEPT ![pri[w]] =
                                Append(@, [w |-> w, events |-> {e}])]
    /\ pendingpri' = NUMPRI - 1
    /\ acc' = [acc EXCEPT ![w] = @ \cup {e}]

\* ev_feed_event
FeedEvent(w, e) ==
    /\ IF pending[w] # 0
       THEN /\ pendings' = [pendings EXCEPT ![pri[w]][pending[w]].events = @ \cup {e}]
            /\ UNCHANGED pending
       ELSE /\ pending' = [pending EXCEPT ![w] = Len(pendings[pri[w]]) + 1]
            /\ pendings' = [pendings EXCEPT ![pri[w]] =
                                Append(@, [w |-> w, events |-> {e}])]
    /\ pendingpri' = NUMPRI - 1
    /\ acc' = [acc EXCEPT ![w] = @ \cup {e}]

\* Mutant: the queue keeps naming the cleared watcher.
ClearPendingKeepEntry(w) ==
    /\ pending' = [pending EXCEPT ![w] = 0]
    /\ acc' = [acc EXCEPT ![w] = {}]
    /\ UNCHANGED <<pendings, pendingpri>>

\* clear_pending: the entry stays in the queue, for pending_w.
ClearPending(w) ==
    /\ pendings' = IF pending[w] = 0 THEN pendings
                   ELSE [pendings EXCEPT ![pri[w]][pending[w]].w = NoWatcher]
    /\ pending' = [pending EXCEPT ![w] = 0]
    /\ acc' = [acc EXCEPT ![w] = {}]
    /\ UNCHANGED pendingpri

\* ev_invoke_pending: pendingpri = NUMPRI and the first --pendingpri.
EnterInvoke == pendingpri' = NUMPRI - 1 /\ mode' = "inv"

Top == frames[Len(frames)]
ButTop == [i \in 1..(Len(frames) - 1) |-> frames[i]]
At(place) == frames' = [frames EXCEPT ![Len(frames)].at = place]

\* The entry at the end of queue p is taken off and its callback is entered;
\* the one of pending_w does nothing.
InvokeOne ==
    /\ mode = "inv"
    /\ LET q == pendings[pendingpri]
           last == q[Len(q)].w
       IN  /\ q # <<>>
           /\ pendings' = [pendings EXCEPT ![pendingpri] =
                               [i \in 1..(Len(q) - 1) |-> q[i]]]
           /\ IF last = NoWatcher
              THEN UNCHANGED <<pending, acc, mode>>
              ELSE /\ pending' = [pending EXCEPT ![last] = 0]
                   /\ acc' = [acc EXCEPT ![last] = {}]
                   /\ mode' = "app"
    /\ UNCHANGED <<watcherVars, pendingpri, loop_done, frames, feeding>>

\* Mutant: the lowest level is left without looking whether it is the last.
InvokeLowerPast ==
    /\ mode = "inv"
    /\ pendings[pendingpri] = <<>>
    /\ pendingpri' = pendingpri - 1
    /\ UNCHANGED <<watcherVars, pending, pendings, acc, runVars>>

InvokeLower ==
    /\ mode = "inv"
    /\ pendings[pendingpri] = <<>>
    /\ pendingpri > 0
    /\ pendingpri' = pendingpri - 1
    /\ UNCHANGED <<watcherVars, pending, pendings, acc, runVars>>

\* The last level is empty: back to the caller, ev_run or the application.
InvokeDone ==
    /\ mode = "inv"
    /\ pendings[pendingpri] = <<>>
    /\ pendingpri = 0
    /\ IF Top.at = "direct"
       THEN frames' = ButTop /\ mode' = "app"
       ELSE mode' = "run" /\ UNCHANGED frames
    /\ UNCHANGED <<watcherVars, queueVars, loop_done, feeding>>

CallbackReturns ==
    /\ mode = "app"
    /\ frames # <<>>
    /\ mode' = "inv"
    /\ UNCHANGED <<watcherVars, queueVars, loop_done, frames, feeding>>

-----------------------------------------------------------------------------
(* What the application calls, between runs and in callbacks.              *)

\* pri_adjust
Clamp(p) == IF p < 0 THEN 0 ELSE IF p > NUMPRI - 1 THEN NUMPRI - 1 ELSE p

\* ev_start / ev_stop with the array bookkeeping every array type repeats:
\* append; swap the last element into the hole.  count is what the type does
\* to activecnt.
ArrayStart(w, count) ==
    /\ mode = "app"
    /\ active[w] = 0
    /\ pri' = [pri EXCEPT ![w] = Clamp(@)]
    /\ LET s == SlotOf(w)'
       IN  /\ arrays' = [arrays EXCEPT ![s] = Append(@, w)]
           /\ active' = [active EXCEPT ![w] = Len(arrays[s]) + 1]
    /\ activecnt' = activecnt + count
    /\ idleall' = IF Kind[w] = "idle" THEN idleall + 1 ELSE idleall
    /\ UNCHANGED <<queueVars, runVars, refs>>

\* Mutant: the element moved into the hole keeps its old index.
ArrayRemoveStale(w) ==
    LET s == SlotOf(w)
        n == Len(arrays[s])
        last == arrays[s][n]
    IN  /\ arrays' = [arrays EXCEPT ![s] =
                         [i \in 1..(n - 1) |-> IF i = active[w] THEN last ELSE @[i]]]
        /\ active' = [active EXCEPT ![w] = 0]

ArrayRemove(w) ==
    LET s == SlotOf(w)
        n == Len(arrays[s])
        last == arrays[s][n]
    IN  /\ arrays' = [arrays EXCEPT ![s] =
                         [i \in 1..(n - 1) |-> IF i = active[w] THEN last ELSE @[i]]]
        /\ active' = [active EXCEPT ![last] = active[w], ![w] = 0]

ArrayStop(w, count) ==
    /\ mode = "app"
    /\ ClearPending(w)
    /\ IF active[w] = 0
       THEN UNCHANGED <<arrays, active, activecnt, idleall>>
       ELSE /\ ArrayRemove(w)
            /\ activecnt' = activecnt - count
            /\ idleall' = IF Kind[w] = "idle" THEN idleall - 1 ELSE idleall
    /\ UNCHANGED <<pri, refs, runVars>>

PrepareStart(w) == Kind[w] = "prepare" /\ ArrayStart(w, 1)
PrepareStop(w)  == Kind[w] = "prepare" /\ ArrayStop(w, 1)
CheckStart(w)   == Kind[w] = "check" /\ ArrayStart(w, 1)
CheckStop(w)    == Kind[w] = "check" /\ ArrayStop(w, 1)
IdleStart(w)    == Kind[w] = "idle" /\ ArrayStart(w, 1)
IdleStop(w)     == Kind[w] = "idle" /\ ArrayStop(w, 1)
ForkStart(w)    == Kind[w] = "fork" /\ ArrayStart(w, 1)
ForkStop(w)     == Kind[w] = "fork" /\ ArrayStop(w, 1)

\* Mutant: the reference is not taken back before ev_stop drops it.
CleanupStopNoRef(w) == Kind[w] = "cleanup" /\ ArrayStop(w, 1)

\* A cleanup watcher gives its reference back at once and takes it again before
\* ev_stop.
CleanupStart(w) == Kind[w] = "cleanup" /\ ArrayStart(w, 0)
CleanupStop(w)  == Kind[w] = "cleanup" /\ ArrayStop(w, 0)

\* io, timer, signal ... watchers: ev_start and ev_stop alone.
EventStart(w) ==
    /\ mode = "app"
    /\ Kind[w] = "event"
    /\ active[w] = 0
    /\ pri' = [pri EXCEPT ![w] = Clamp(@)]
    /\ active' = [active EXCEPT ![w] = 1]
    /\ activecnt' = activecnt + 1
    /\ UNCHANGED <<arrays, idleall, refs, queueVars, runVars>>

EventStop(w) ==
    /\ mode = "app"
    /\ Kind[w] = "event"
    /\ ClearPending(w)
    /\ active' = [active EXCEPT ![w] = 0]
    /\ activecnt' = IF active[w] = 0 THEN activecnt ELSE activecnt - 1
    /\ UNCHANGED <<pri, arrays, idleall, refs, runVars>>

\* ev_feed_event by the application, on an active or inactive watcher.
AppFeed(w) ==
    /\ mode = "app"
    /\ pri[w] \in Pris
    /\ Len(pendings[pri[w]]) < MaxQueue
    /\ FeedEvent(w, "CUSTOM")
    /\ UNCHANGED <<watcherVars, runVars>>

\* ev_clear_pending
AppClear(w) ==
    /\ mode = "app"
    /\ pending[w] # 0
    /\ ClearPending(w)
    /\ UNCHANGED <<watcherVars, runVars>>

\* ev_set_priority: the manual allows it on a watcher neither active nor pending.
SetPriority(w, p) ==
    /\ mode = "app"
    /\ active[w] = 0 /\ pending[w] = 0
    /\ pri' = [pri EXCEPT ![w] = p]
    /\ UNCHANGED <<active, arrays, activecnt, idleall, refs, queueVars, runVars>>

Ref ==
    /\ mode = "app"
    /\ refs < MaxRef
    /\ activecnt' = activecnt + 1
    /\ refs' = refs + 1
    /\ UNCHANGED <<pri, active, arrays, idleall, queueVars, runVars>>

Unref ==
    /\ mode = "app"
    /\ refs > -MaxRef
    /\ activecnt' = activecnt - 1
    /\ refs' = refs - 1
    /\ UNCHANGED <<pri, active, arrays, idleall, queueVars, runVars>>

Break(how) ==
    /\ mode = "app"
    /\ loop_done' = how
    /\ UNCHANGED <<watcherVars, queueVars, frames, mode, feeding>>

\* ev_run: loop_done is reset and what is pending is invoked first.
CallRun(once) ==
    /\ mode = "app"
    /\ Len(frames) < MaxDepth
    /\ frames' = Append(frames, [at |-> "enter", once |-> once])
    /\ loop_done' = "CANCEL"
    /\ EnterInvoke
    /\ UNCHANGED <<watcherVars, pending, pendings, acc, feeding>>

\* ev_invoke_pending called by the application.
CallInvokePending ==
    /\ mode = "app"
    /\ Len(frames) < MaxDepth
    /\ frames' = Append(frames, [at |-> "direct", once |-> TRUE])
    /\ EnterInvoke
    /\ UNCHANGED <<watcherVars, pending, pendings, acc, loop_done, feeding>>

-----------------------------------------------------------------------------
(* One pass of ev_run.                                                     *)

Running(place) == mode = "run" /\ Top.at = place

\* queue_events over an array, one element per step.
QueueStarts(ws, e, place) ==
    /\ feeding' = [ws |-> ws, ev |-> e]
    /\ mode' = "feed"
    /\ At(place)
    /\ UNCHANGED <<watcherVars, queueVars, loop_done>>

QueueNext ==
    /\ mode = "feed"
    /\ feeding.ws # <<>>
    /\ FeedEvent(Head(feeding.ws), feeding.ev)
    /\ feeding' = [feeding EXCEPT !.ws = Tail(@)]
    /\ UNCHANGED <<watcherVars, loop_done, frames, mode>>

\* After the fork, prepare and check watchers comes EV_INVOKE_PENDING; after
\* the idle watchers come the checks.
QueueDone ==
    /\ mode = "feed"
    /\ feeding.ws = <<>>
    /\ IF Top.at = "idle"
       THEN mode' = "run" /\ UNCHANGED pendingpri
       ELSE EnterInvoke
    /\ UNCHANGED <<watcherVars, pending, pendings, acc, loop_done, frames, feeding>>

\* The pass begins; postfork may have been raised by ev_loop_fork or the pid check.
RunFork ==
    /\ Running("enter")
    /\ \/ /\ arrays[<<"fork", 0>>] # <<>>
          /\ QueueStarts(arrays[<<"fork", 0>>], "FORK", "fork")
       \/ At("fork") /\ UNCHANGED <<watcherVars, queueVars, loop_done, mode, feeding>>

RunPrepare ==
    /\ Running("fork")
    /\ IF arrays[<<"prepare", 0>>] # <<>>
       THEN QueueStarts(arrays[<<"prepare", 0>>], "PREPARE", "prepare")
       ELSE At("prepare") /\ UNCHANGED <<watcherVars, queueVars, loop_done, mode, feeding>>

RunPoll ==
    /\ Running("prepare")
    /\ loop_done = "CANCEL"
    /\ At("poll")
    /\ UNCHANGED <<watcherVars, queueVars, loop_done, mode, feeding>>

\* backend_poll, timers_reify and periodics_reify feed active watchers.
PollFeed(w) ==
    /\ Running("poll")
    /\ Kind[w] = "event"
    /\ active[w] # 0
    /\ pending[w] = 0
    /\ FeedEvent(w, "EVENT")
    /\ UNCHANGED <<watcherVars, runVars>>

\* idle_reify: the highest level that has something pending or idle decides.
IdleLevels == {p \in Pris : arrays[<<"idle", p>>] # <<>>}
IdleLevel(p) ==
    /\ p \in IdleLevels
    /\ \A q \in IdleLevels : q <= p
    /\ \A q \in p..(NUMPRI - 1) : pendings[q] = <<>>

RunIdle ==
    /\ Running("poll")
    /\ \/ /\ idleall # 0
          /\ \E p \in Pris : IdleLevel(p) /\ QueueStarts(arrays[<<"idle", p>>], "IDLE", "idle")
       \/ /\ idleall = 0 \/ \A p \in Pris : ~IdleLevel(p)
          /\ At("idle")
          /\ UNCHANGED <<watcherVars, queueVars, loop_done, mode, feeding>>

RunCheck ==
    /\ Running("idle")
    /\ QueueStarts(arrays[<<"check", 0>>], "CHECK", "tail")

RunAgain ==
    /\ Running("tail")
    /\ activecnt # 0 /\ loop_done = "CANCEL" /\ ~Top.once
    /\ At("enter")
    /\ UNCHANGED <<watcherVars, queueVars, loop_done, mode, feeding>>

\* ev_run returns: EVBREAK_ONE ends here, EVBREAK_ALL stays for the callers.
RunReturn ==
    /\ \/ Running("prepare") /\ loop_done # "CANCEL"
       \/ /\ Running("tail")
          /\ activecnt = 0 \/ loop_done # "CANCEL" \/ Top.once
    /\ loop_done' = IF loop_done = "ONE" THEN "CANCEL" ELSE loop_done
    /\ frames' = ButTop
    /\ mode' = "app"
    /\ UNCHANGED <<watcherVars, queueVars, feeding>>

Application ==
    \/ \E w \in Watchers :
         \/ PrepareStart(w) \/ PrepareStop(w) \/ CheckStart(w) \/ CheckStop(w)
         \/ IdleStart(w) \/ IdleStop(w) \/ ForkStart(w) \/ ForkStop(w)
         \/ CleanupStart(w) \/ CleanupStop(w) \/ EventStart(w) \/ EventStop(w)
         \/ AppFeed(w) \/ AppClear(w)
         \/ \E p \in RawPris : SetPriority(w, p)
    \/ Ref \/ Unref
    \/ \E how \in {"CANCEL", "ONE", "ALL"} : Break(how)
    \/ \E once \in BOOLEAN : CallRun(once)
    \/ CallInvokePending

Invocation == InvokeOne \/ InvokeLower \/ InvokeDone \/ CallbackReturns

Pass ==
    \/ QueueNext \/ QueueDone
    \/ RunFork \/ RunPrepare \/ RunPoll \/ RunIdle \/ RunCheck \/ RunAgain \/ RunReturn
    \/ \E w \in Watchers : PollFeed(w)

Next == Application \/ Invocation \/ Pass

Spec == Init /\ [][Next]_vars
-----------------------------------------------------------------------------
(* Properties.                                                             *)

\* verify_watcher ("pending watcher not on pending queue") and its converse: the
\* pending field of a watcher and the queue entry that names it agree, whatever
\* callbacks, nested runs, stops and clears came between feed and invocation.
PendingIndex ==
    /\ \A w \in Watchers : pending[w] # 0 =>
         /\ pri[w] \in Pris
         /\ pending[w] \in 1..Len(pendings[pri[w]])
         /\ pendings[pri[w]][pending[w]].w = w
    /\ \A p \in Pris : \A i \in 1..Len(pendings[p]) :
         LET w == pendings[p][i].w
         IN  w # NoWatcher => pri[w] = p /\ pending[w] = i

\* PendingIndex, and every field has its type: pendingpri stays a priority while
\* ev_invoke_pending counts it down.
PendingAgrees == TypeOK /\ PendingIndex

\* array_verify ("active index mismatch") and its converse, across the
\* swap-with-last removal: every active array watcher is in its array, once.
ActiveAgrees ==
    /\ \A s \in Slots : \A i \in 1..Len(arrays[s]) :
         SlotOf(arrays[s][i]) = s /\ active[arrays[s][i]] = i
    /\ \A w \in Watchers : Kind[w] # "event" /\ active[w] # 0 =>
         /\ SlotOf(w) \in Slots
         /\ active[w] \in 1..Len(arrays[SlotOf(w)])
         /\ arrays[SlotOf(w)][active[w]] = w

\* ev_ref / ev_unref stay balanced: the count that keeps ev_run alive is the
\* application's own references plus one per active watcher, cleanups excepted,
\* and idleall counts the active idle watchers.
RefsBalanced ==
    /\ activecnt = refs + Cardinality({w \in Watchers :
                                         active[w] # 0 /\ Kind[w] # "cleanup"})
    /\ idleall = Cardinality({w \in Watchers : active[w] # 0 /\ Kind[w] = "idle"})

\* The shared pendingpri: no queue above it ever holds an event, so
\* ev_invoke_pending always takes the highest priority first, also when a
\* callback fed, ran the loop recursively and fed again.
HigherDrained == \A q \in Pris : q > pendingpri => pendings[q] = <<>>

\* ev_run goes on from EV_INVOKE_PENDING only when nothing is pending.
DrainedBetween ==
    mode = "run" /\ Top.at \in {"enter", "fork", "prepare", "tail"} =>
        \A p \in Pris : pendings[p] = <<>>

\* HigherDrained and DrainedBetween: callbacks run in the order of their priorities, and
\* ev_run goes on only when all of them have run.
DrainedInOrder == HigherDrained /\ DrainedBetween

\* A callback gets exactly the events fed to its watcher since it was last
\* invoked, cleared or stopped, and a stopped watcher is not called at all.
CallbackEvents ==
    \A p \in Pris : \A i \in 1..Len(pendings[p]) :
        LET e == pendings[p][i]
        IN  e.w # NoWatcher => e.events = acc[e.w] /\ e.events # {}
=============================================================================
