------------------------------- MODULE Libevent ------------------------------
(***************************************************************************)
(* The libevent emulation (src/event.c): an event is an io or a signal     *)
(* watcher (one half, they share memory) and a timer, driven by one loop.  *)
(***************************************************************************)
EXTENDS Naturals, Sequences, SequencesExt

CONSTANTS
    Events,         \* events
    Set,            \* what event_set gave each: [kind : "io", "signal" or "timeout", persist]
    MaxAdds         \* bound on calls of event_add and event_active

ASSUME EventAssumption ==
    /\ "none" \notin Events /\ MaxAdds \in Nat
    /\ Set \in [Events -> [kind : {"io", "signal", "timeout"}, persist : BOOLEAN]]

VARIABLES
    lact,           \* active watchers, a set of <<event, "iosig" or "to">>
    lpend,          \* the pending queue: [w : watcher, got : subset of {"io", "timeout", "error"}]
    lflag,          \* [event -> subset of {"timeout", "inserted", "signal", "active"}]: ev_flags
    lbase,          \* "none", "init" (event_init) or "freed"
    lonce,          \* event_base_once: memory allocated (ev_x_once), its ev_once waits
    lgone,          \* history: [event -> event_del was the last call on it]
    lran,           \* history: [event -> callbacks since it was last added or activated]
    ladds           \* counts towards MaxAdds

lvars == <<lact, lpend, lflag, lbase, lonce, lgone, lran, ladds>>

EvWatchers == Events \X {"iosig", "to"}
NoWatcher == <<"none", "none">>

EventTypeOK ==
    /\ lact \subseteq EvWatchers /\ lbase \in {"none", "init", "freed"} /\ lonce \in BOOLEAN
    /\ \A i \in DOMAIN lpend : lpend[i].w \in EvWatchers \cup {NoWatcher}
    /\ lflag \in [Events -> SUBSET {"timeout", "inserted", "signal", "active"}]
    /\ lgone \in [Events -> BOOLEAN] /\ lran \in [Events -> 0 .. 3] /\ ladds \in 0 .. MaxAdds

EventInit ==
    /\ lact = {} /\ lpend = <<>> /\ lflag = [e \in Events |-> {}] /\ lbase = "none" /\ lonce = FALSE
    /\ lgone = [e \in Events |-> FALSE] /\ lran = [e \in Events |-> 0] /\ ladds = 0

-----------------------------------------------------------------------------
\* The loop: feed, and the stop that clears what is pending.
EvFed(q, w, e) ==
    IF \E i \in DOMAIN q : q[i].w = w
    THEN [i \in DOMAIN q |-> IF q[i].w = w THEN [q[i] EXCEPT !.got = @ \cup {e}] ELSE q[i]]
    ELSE Append(q, [w |-> w, got |-> {e}])
EvCleared(q, W) == [i \in DOMAIN q |-> IF q[i].w \in W THEN [q[i] EXCEPT !.w = NoWatcher] ELSE q[i]]

Base == lbase = "init"
CanAdd == Base /\ ladds < MaxAdds
Touched(e) == ladds' = ladds + 1 /\ lgone' = [lgone EXCEPT ![e] = FALSE] /\ lran' = [lran EXCEPT ![e] = 0]

\* event_init attaches the default loop, or event_base_new makes one, which event_base_free
\* destroys.
EvInit == lbase = "none" /\ lbase' = "init" /\ UNCHANGED <<lact, lpend, lflag, lonce, lgone, lran, ladds>>
EvBaseFree ==
    /\ Base
    /\ lbase' = "freed" /\ lact' = {} /\ lpend' = <<>>
    /\ UNCHANGED <<lflag, lonce, lgone, lran, ladds>>

HalfFlag(e) ==
    CASE Set[e].kind = "io" -> {"inserted"} [] Set[e].kind = "signal" -> {"signal"} [] OTHER -> {}

\* Mutant: an event added again without a timeout keeps the flag of the last one.
AddFlagsKept(e, tv) ==
    lflag[e] \cup {"active"} \cup HalfFlag(e) \cup (IF tv THEN {"timeout"} ELSE {})
AddFlags(e, tv) ==
    (lflag[e] \ {"timeout"}) \cup {"active"} \cup (IF <<e, "iosig">> \in lact THEN {} ELSE HalfFlag(e))
    \cup (IF tv THEN {"timeout"} ELSE {})

\* event_add: the watcher is started unless it is active; with a timeout (0 counts as a
\* microsecond) the timer runs from now, without one it is stopped; either way what it had
\* pending is cleared (ev_timer_again, ev_timer_stop).
EventAdd(e, tv) ==
    /\ CanAdd
    /\ lact' = (lact \ {<<e, "to">>}) \cup (IF HalfFlag(e) = {} THEN {} ELSE {<<e, "iosig">>})
               \cup (IF tv THEN {<<e, "to">>} ELSE {})
    /\ lpend' = EvCleared(lpend, {<<e, "to">>})
    /\ lflag' = [lflag EXCEPT ![e] = AddFlags(e, tv)]
    /\ Touched(e) /\ UNCHANGED <<lbase, lonce>>

\* Mutant: only what is active is stopped.
DelActiveOnly(e, q) == EvCleared(q, {w \in {<<e, "iosig">>, <<e, "to">>} : w \in lact})
\* event_del stops both halves, active or not: a stop clears a pending activation.
DelPending(e, q) == EvCleared(q, {<<e, "iosig">>, <<e, "to">>})

Deleted(e, q) ==
    /\ lact' = lact \ {<<e, "iosig">>, <<e, "to">>}
    /\ lpend' = DelPending(e, q)
    /\ lflag' = [lflag EXCEPT ![e] = {}]

EventDel(e) ==
    /\ Base /\ Deleted(e, lpend)
    /\ lgone' = [lgone EXCEPT ![e] = TRUE]
    /\ UNCHANGED <<lbase, lonce, lran, ladds>>

\* event_active feeds the halves without starting them.
EventActive(e, R) ==
    /\ CanAdd
    /\ LET q == IF "timeout" \in R THEN EvFed(lpend, <<e, "to">>, "timeout") ELSE lpend
       IN  lpend' = IF "io" \in R THEN EvFed(q, <<e, "iosig">>, "io") ELSE q
    /\ Touched(e) /\ UNCHANGED <<lact, lflag, lbase, lonce>>

\* The loop feeds an active watcher: ready or signalled, killed (the io watcher is stopped), or
\* expired (the timer repeats).
EvReady(e) ==
    /\ Base /\ <<e, "iosig">> \in lact
    /\ lpend' = EvFed(lpend, <<e, "iosig">>, "io")
    /\ UNCHANGED <<lact, lflag, lbase, lonce, lgone, lran, ladds>>
EvKilled(e) ==
    /\ Base /\ <<e, "iosig">> \in lact /\ Set[e].kind = "io"
    /\ lpend' = EvFed(lpend, <<e, "iosig">>, "error") /\ lact' = lact \ {<<e, "iosig">>}
    /\ UNCHANGED <<lflag, lbase, lonce, lgone, lran, ladds>>
EvExpired(e) ==
    /\ Base /\ <<e, "to">> \in lact
    /\ lpend' = EvFed(lpend, <<e, "to">>, "timeout")
    /\ UNCHANGED <<lact, lflag, lbase, lonce, lgone, lran, ladds>>

\* Mutant: an event that does not persist is deleted only by its timeout.
RemovesTimeoutOnly(e, half, got) == half = "to" \/ "error" \in got
\* ev_x_cb_io, ev_x_cb_sig, ev_x_cb_to: which of them delete the event first.
Removes(e, half, got) ==
    \/ half = "to" \/ "error" \in got
    \/ half = "iosig" /\ Set[e].kind # "signal" /\ ~Set[e].persist

EventCallback ==
    /\ Base /\ lpend # <<>>
    /\ LET p == Last(lpend)  q == Front(lpend)  e == p.w[1]
       IN  IF p.w = NoWatcher THEN lpend' = q /\ UNCHANGED <<lact, lflag, lran>>
           ELSE /\ lran[e] < 3
                /\ lran' = [lran EXCEPT ![e] = @ + 1]
                /\ IF Removes(e, p.w[2], p.got) THEN Deleted(e, q)
                   ELSE lpend' = q /\ UNCHANGED <<lact, lflag>>
    /\ UNCHANGED <<lbase, lonce, lgone, ladds>>

\* event_base_once allocates only what something can free: it refuses a call without events
\* and without a timeout.  Its callback frees the memory.
EventOnce(io, to) ==
    /\ Base /\ ~lonce /\ (io \/ to) /\ lonce' = TRUE
    /\ UNCHANGED <<lact, lpend, lflag, lbase, lgone, lran, ladds>>
EventOnceCb == Base /\ lonce /\ lonce' = FALSE /\ UNCHANGED <<lact, lpend, lflag, lbase, lgone, lran, ladds>>

EventNext ==
    \/ EvInit \/ EvBaseFree \/ EventCallback \/ EventOnceCb
    \/ \E io, to \in BOOLEAN : EventOnce(io, to)
    \/ \E e \in Events :
         \/ \E tv \in BOOLEAN : EventAdd(e, tv)
         \/ EventDel(e) \/ EvReady(e) \/ EvKilled(e) \/ EvExpired(e)
         \/ \E R \in SUBSET {"io", "timeout"} : EventActive(e, R)

EventSpec == EventInit /\ [][EventNext]_lvars

-----------------------------------------------------------------------------
\* "After event_del, the callback does not run, however the event was made pending": nothing
\* of a deleted event is active or pending.
DelIsFinal ==
    \A e \in Events : lgone[e] =>
        /\ {<<e, "iosig">>, <<e, "to">>} \cap lact = {}
        /\ \A i \in DOMAIN lpend : lpend[i].w[1] # e

\* An event that does not persist runs its callback once for each time it is added or
\* activated, its descriptor and its timeout in one pass included.
OneCallback ==
    \A e \in Events : (Set[e].kind # "signal" /\ ~Set[e].persist) => lran[e] <= 1

\* ev_flags tells what the loop has: an event said to wait for its descriptor or its timeout
\* does, or its callback is about to say otherwise.
FlagsAgree ==
    \A e \in Events : Base =>
        /\ "timeout" \in lflag[e] <=> <<e, "to">> \in lact
        /\ {"inserted", "signal"} \cap lflag[e] # {} =>
              <<e, "iosig">> \in lact \/ \E i \in DOMAIN lpend : lpend[i].w = <<e, "iosig">>

\* After event_del nothing of an event is active or pending; an event that does not persist
\* runs once for each time it is added or activated; ev_flags says of it what its watchers say.
EventSound == DelIsFinal /\ OneCallback /\ FlagsAgree
=============================================================================
