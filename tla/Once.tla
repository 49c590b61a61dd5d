-------------------------------- MODULE Once ---------------------------------
(***************************************************************************)
(* ev_once (src/ev.c): a private allocation with an io and a timer half,   *)
(* freed by the first callback or, at the loop's destruction, by           *)
(* once_reclaim.  A slot of memory is used again after it is freed.        *)
(***************************************************************************)
EXTENDS Naturals, Sequences, SequencesExt

CONSTANTS
    Slots,          \* what ev_malloc may return
    MaxOnce         \* bound on calls of ev_once

\* 0 stands for pending_w's missing memory.
OnceAssumption == 0 \notin Slots /\ MaxOnce \in Nat

VARIABLES
    omem,           \* [slot -> "free" or "live"]
    ohalf,          \* active watchers, a set of <<slot, "io" or "to">>
    opending,       \* the pending queue: records [w : half, got : events]; w = NoHalf is pending_w
    ofed,           \* history: [slot -> events fed to either half since ev_once]
    oerr,           \* history: a freed slot was used, or a callback lost an event
    ocalls,         \* ev_once calls so far
    oloop           \* "up", or "gone" after ev_loop_destroy

ovars == <<omem, ohalf, opending, ofed, oerr, ocalls, oloop>>

Halves == Slots \X {"io", "to"}
NoHalf == <<0, "none">>
OnceEvents == {"read", "timer", "error"}

OnceTypeOK ==
    /\ omem \in [Slots -> {"free", "live"}] /\ ohalf \subseteq Halves
    /\ \A i \in DOMAIN opending : opending[i].w \in Halves \cup {NoHalf}
                                  /\ opending[i].got \subseteq OnceEvents
    /\ ofed \in [Slots -> SUBSET OnceEvents] /\ ocalls \in 0 .. MaxOnce
    /\ oloop \in {"up", "gone"}

OnceInit ==
    /\ omem = [s \in Slots |-> "free"] /\ ohalf = {} /\ opending = <<>>
    /\ ofed = [s \in Slots |-> {}] /\ oerr = FALSE /\ ocalls = 0 /\ oloop = "up"

-----------------------------------------------------------------------------
\* ev_feed_event, clear_pending (ev_clear_pending returns what was pending).
OnceFed(q, h, e) ==
    IF \E i \in DOMAIN q : q[i].w = h
    THEN [i \in DOMAIN q |-> IF q[i].w = h THEN [q[i] EXCEPT !.got = @ \cup e] ELSE q[i]]
    ELSE Append(q, [w |-> h, got |-> e])
OnceCleared(q, h) == [i \in DOMAIN q |-> IF q[i].w = h THEN [q[i] EXCEPT !.w = NoHalf] ELSE q[i]]
Waiting(q, h) == UNION {q[i].got : i \in {j \in DOMAIN q : q[j].w = h}}

\* ev_once: nothing without a descriptor's events or a timeout, nothing could fire.
EvOnce(s, io, to) ==
    /\ oloop = "up" /\ ocalls < MaxOnce /\ omem[s] = "free"
    /\ io \/ to
    /\ omem' = [omem EXCEPT ![s] = "live"]
    /\ ohalf' = ohalf \cup (IF io THEN {<<s, "io">>} ELSE {}) \cup (IF to THEN {<<s, "to">>} ELSE {})
    /\ ofed' = [ofed EXCEPT ![s] = {}]
    /\ ocalls' = ocalls + 1
    /\ UNCHANGED <<opending, oerr, oloop>>

OnceFeed(h, e) ==
    /\ opending' = OnceFed(opending, h, e)
    /\ ofed' = [ofed EXCEPT ![h[1]] = @ \cup e]
    /\ UNCHANGED <<omem, oerr, ocalls, oloop>>

\* fd_event feeds the io half; fd_kill stops it first; timers_reify stops a timer that
\* does not repeat.
OnceReady(s) == <<s, "io">> \in ohalf /\ OnceFeed(<<s, "io">>, {"read"}) /\ UNCHANGED ohalf
OnceKilled(s) ==
    <<s, "io">> \in ohalf /\ OnceFeed(<<s, "io">>, {"error"}) /\ ohalf' = ohalf \ {<<s, "io">>}
OnceExpired(s) ==
    <<s, "to">> \in ohalf /\ OnceFeed(<<s, "to">>, {"timer"}) /\ ohalf' = ohalf \ {<<s, "to">>}

\* once_cb: both halves are stopped, which clears what is pending, before the memory goes.
OnceCb(s, q) ==
    /\ ohalf' = ohalf \ {<<s, "io">>, <<s, "to">>}
    /\ opending' = OnceCleared(OnceCleared(q, <<s, "io">>), <<s, "to">>)

\* Mutant: the other half's pending events are not collected.
OnceReventsOwn(h, got, q) == got

\* once_cb_io and once_cb_to add what the other half has pending.
OnceRevents(h, got, q) ==
    got \cup Waiting(q, <<h[1], IF h[2] = "io" THEN "to" ELSE "io">>)

\* ev_invoke_pending takes the last entry; pending_w's callback does nothing.
OnceInvoke ==
    /\ oloop = "up" /\ opending # <<>>
    /\ LET p == Last(opending)  q == Front(opending)  s == p.w[1]
       IN  IF p.w = NoHalf THEN opending' = q /\ UNCHANGED <<omem, ohalf, oerr>>
           ELSE /\ OnceCb(s, q)
                /\ omem' = [omem EXCEPT ![s] = "free"]
                /\ oerr' = (oerr \/ omem[s] = "free" \/ OnceRevents(p.w, p.got, q) # ofed[s])
    /\ UNCHANGED <<ofed, ocalls, oloop>>

\* Mutant: only the descriptors' lists and the heap are walked.
OnceReclaimActive == {h[1] : h \in ohalf}

\* once_reclaim: every ev_once found in a pending queue, a descriptor's list or the heap.
OnceReclaim ==
    {h[1] : h \in ohalf} \cup ({opending[i].w[1] : i \in DOMAIN opending} \cap Slots)

\* ev_loop_destroy
OnceLoopDestroy ==
    /\ oloop = "up"
    /\ omem' = [s \in Slots |-> IF s \in OnceReclaim THEN "free" ELSE omem[s]]
    /\ ohalf' = {} /\ opending' = <<>> /\ oloop' = "gone"
    /\ UNCHANGED <<ofed, oerr, ocalls>>

OnceNext ==
    \/ \E s \in Slots : \/ \E io, to \in BOOLEAN : EvOnce(s, io, to)
                        \/ OnceReady(s) \/ OnceKilled(s) \/ OnceExpired(s)
    \/ OnceInvoke \/ OnceLoopDestroy

OnceSpec == OnceInit /\ [][OnceNext]_ovars

-----------------------------------------------------------------------------
\* once_cb frees what ev_once allocated when nothing of the loop leads to it any more, and
\* no sooner: a live one has an active or a pending half (the loop can still free it), a
\* freed one has none, and a destroyed loop leaves none.
OnceReachable ==
    \A s \in Slots :
    (omem[s] = "live") <=> \/ \E k \in {"io", "to"} : <<s, k>> \in ohalf
                           \/ \E i \in DOMAIN opending : opending[i].w[1] = s

\* One callback gets everything both halves were fed (descriptor and timeout in one pass
\* give one call with both events), and no callback runs on freed memory.
OnceAllEvents == ~oerr

\* Both: the memory of an ev_once lives as long as the loop can lead to it, and its one
\* callback gets everything, never on freed memory.
OnceSound == OnceReachable /\ OnceAllEvents
=============================================================================
