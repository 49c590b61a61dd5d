------------------------------- MODULE EvPipe -------------------------------
(***************************************************************************)
(* The cross-thread wake-up of a loop (src/ev.c: evpipe_write, pipecb,     *)
(* evpipe_pending, ev_async_send, ev_feed_signal and the part of ev_run    *)
(* that blocks).  Any thread or signal handler ("sender") raises a source  *)
(* (an ev_async, or a signal number) by storing its `sent' field and       *)
(* calling evpipe_write, which sets the pending flag of the source's kind  *)
(* and either leaves a note in pipe_write_skipped or writes the evpipe.    *)
(* The loop thread runs passes, blocking or not, and delivers in pipecb.   *)
(*                                                                         *)
(* Every load and store of a shared variable is a step of its own; memory  *)
(* is sequentially consistent (the code fences between its stores and its  *)
(* loads).  A signal handler that interrupts a thread is a sender whose    *)
(* steps all fall between two steps of that thread: one of the             *)
(* interleavings below.                                                    *)
(***************************************************************************)
EXTENDS Integers, FiniteSets

CONSTANTS
    Senders,    \* threads and signal handlers that may raise a source
    Asyncs,     \* the ev_async watchers of the loop
    Sigs,       \* the signal numbers bound to the loop
    NoSource,   \* the target of a sender that is not sending
    PipeCap,    \* bytes (or eventfd count) the evpipe holds before EAGAIN
    DrainMax    \* bytes pipecb takes with one read (4 for a pipe)

ASSUME PipeAssumption ==
    /\ PipeCap \in Nat \ {0}
    /\ DrainMax \in Nat \ {0}
    /\ Asyncs \cap Sigs = {}
    /\ NoSource \notin Asyncs \cup Sigs

VARIABLES
    wanted,     \* pipe_write_wanted
    skipped,    \* pipe_write_skipped, what ev_wake_pending_addr shows
    flag,       \* sig_pending and async_pending
    sent,       \* asyncs[i]->sent, signals[i].pending
    pipe,       \* bytes in the evpipe
    spc,        \* next step of each sender
    target,     \* the source each sender is raising
    started,    \* the sources registered with the loop
    lpc,        \* next step of the loop thread
    wait,       \* 1 iff this pass's waittime is positive
    revents,    \* events pending for pipe_w
    cur,        \* the flag pipecb is working on
    todo,       \* the sources its scan has still to look at
    fed,        \* sources whose watchers have an event pending
    owed,       \* history: raised while started, callback not yet run
    promised    \* history: raised before this pass, callback not yet run

senderVars == <<spc, target>>
loopVars   == <<lpc, wait, revents, cur, todo>>
history    == <<owed, promised>>
vars == <<wanted, skipped, flag, sent, pipe, spc, target, started,
          lpc, wait, revents, cur, todo, fed, owed, promised>>

Sources == Asyncs \cup Sigs
Flags   == {"sig", "async"}
FlagOf(x) == IF x \in Sigs THEN "sig" ELSE "async"

SenderSteps == {"idle", "load_flag", "set_flag", "set_skipped",
                "load_wanted", "clear_skipped", "write"}
LoopSteps   == {"top", "size", "poll", "unwant", "tail", "tail_flags", "drain",
                "clear_skipped", "load_flag", "clear_flag", "scan", "invoke"}

TypeOK ==
    /\ wanted \in {0, 1}
    /\ skipped \in {0, 1}
    /\ flag \in [Flags -> {0, 1}]
    /\ sent \in [Sources -> {0, 1}]
    /\ pipe \in 0..PipeCap
    /\ spc \in [Senders -> SenderSteps]
    /\ target \in [Senders -> Sources \cup {NoSource}]
    /\ started \in SUBSET Sources
    /\ lpc \in LoopSteps
    /\ wait \in {0, 1}
    /\ revents \in SUBSET {"READ", "CUSTOM"}
    /\ cur \in Flags
    /\ todo \in SUBSET Sources
    /\ fed \in SUBSET Sources
    /\ owed \in SUBSET Sources
    /\ promised \in SUBSET Sources

Init ==
    /\ wanted = 0
    /\ skipped = 0
    /\ flag = [f \in Flags |-> 0]
    /\ sent = [x \in Sources |-> 0]
    /\ pipe = 0
    /\ spc = [s \in Senders |-> "idle"]
    /\ target = [s \in Senders |-> NoSource]
    /\ started = Sources
    /\ lpc = "top"
    /\ wait = 0
    /\ revents = {}
    /\ cur = "sig"
    /\ todo = {}
    /\ fed = {}
    /\ owed = {}
    /\ promised = {}

-----------------------------------------------------------------------------
(* Senders.                                                                *)

SenderGoes(s, from, to) ==
    /\ spc[s] = from
    /\ spc' = [spc EXCEPT ![s] = to]
    /\ target' = IF to = "idle" THEN [target EXCEPT ![s] = NoSource] ELSE target

\* ev_async_send (w->sent) and ev_feed_signal (signals[].pending): the store
\* that precedes evpipe_write.
Raise(s, x) ==
    /\ spc[s] = "idle"
    /\ spc' = [spc EXCEPT ![s] = "load_flag"]
    /\ target' = [target EXCEPT ![s] = x]
    /\ sent' = [sent EXCEPT ![x] = 1]
    /\ owed' = IF x \in started THEN owed \cup {x} ELSE owed
    /\ UNCHANGED <<wanted, skipped, flag, pipe, started, loopVars, fed, promised>>

\* Mutant: the early return tests either flag, not the caller's.
LoadFlagAny(s) ==
    /\ SenderGoes(s, "load_flag",
                  IF \E f \in Flags : flag[f] = 1 THEN "idle" ELSE "set_flag")
    /\ UNCHANGED <<wanted, skipped, flag, sent, pipe, started, loopVars, fed, history>>

\* The early return: somebody else's wake is already under way.
LoadFlag(s) ==
    /\ SenderGoes(s, "load_flag",
                  IF flag[FlagOf(target[s])] = 1 THEN "idle" ELSE "set_flag")
    /\ UNCHANGED <<wanted, skipped, flag, sent, pipe, started,
                   loopVars, fed, history>>

SetFlag(s) ==
    /\ SenderGoes(s, "set_flag", "set_skipped")
    /\ flag' = [flag EXCEPT ![FlagOf(target[s])] = 1]
    /\ UNCHANGED <<wanted, skipped, sent, pipe, started, loopVars,
                   fed, history>>

SetSkipped(s) ==
    /\ SenderGoes(s, "set_skipped", "load_wanted")
    /\ skipped' = 1
    /\ UNCHANGED <<wanted, flag, sent, pipe, started, loopVars, fed,
                   history>>

LoadWanted(s) ==
    /\ SenderGoes(s, "load_wanted", IF wanted = 1 THEN "clear_skipped" ELSE "idle")
    /\ UNCHANGED <<wanted, skipped, flag, sent, pipe, started,
                   loopVars, fed, history>>

ClearSkipped(s) ==
    /\ SenderGoes(s, "clear_skipped", "write")
    /\ skipped' = 0
    /\ UNCHANGED <<wanted, flag, sent, pipe, started, loopVars, fed,
                   history>>

\* The descriptor is non-blocking: a full evpipe refuses the write (EAGAIN)
\* and the result is ignored.
WritePipe(s) ==
    /\ SenderGoes(s, "write", "idle")
    /\ pipe' = IF pipe < PipeCap THEN pipe + 1 ELSE pipe
    /\ UNCHANGED <<wanted, skipped, flag, sent, started, loopVars, fed,
                   history>>

\* evpipe_write after the `sent' store: runs to its end once entered.
EvpipeWrite(s) ==
    \/ LoadFlag(s)
    \/ SetFlag(s)
    \/ SetSkipped(s)
    \/ LoadWanted(s)
    \/ ClearSkipped(s)
    \/ WritePipe(s)

-----------------------------------------------------------------------------
(* The loop thread: one pass of ev_run.                                    *)

LoopGoes(from, to) ==
    /\ lpc = from
    /\ lpc' = to

\* What the sends completed so far (past the flag) entitle this pass to.
Due == {x \in owed : \A s \in Senders :
            target[s] = x => spc[s] \notin {"load_flag", "set_flag"}}

\* A pass that may block announces that it wants the evpipe written.
RunBlocking ==
    /\ LoopGoes("top", "size")
    /\ wanted' = 1
    /\ promised' = Due
    /\ UNCHANGED <<skipped, flag, sent, pipe, senderVars, started, wait,
                   revents, cur, todo, fed, owed>>

\* An EVRUN_NOWAIT pass does not touch pipe_write_wanted before the poll.
RunNowait ==
    /\ LoopGoes("top", "poll")
    /\ wait' = 0
    /\ promised' = Due
    /\ UNCHANGED <<wanted, skipped, flag, sent, pipe, senderVars, started,
                   revents, cur, todo, fed, owed>>

\* Mutant: the sleep is sized without looking at pipe_write_skipped.
SizeWaitBlind ==
    /\ LoopGoes("size", "poll")
    /\ wait' \in {0, 1}
    /\ UNCHANGED <<wanted, skipped, flag, sent, pipe, senderVars, started,
                   revents, cur, todo, fed, history>>

\* waittime: zero if a wake was skipped; also zero, whatever the flags, when an
\* idle watcher is active, nothing is active or a timer is already due.
SizeWait ==
    /\ LoopGoes("size", "poll")
    /\ wait' \in {0} \cup (IF skipped = 1 THEN {} ELSE {1})
    /\ UNCHANGED <<wanted, skipped, flag, sent, pipe, senderVars, started,
                   revents, cur, todo, fed, history>>

\* The backend reports pipe_w whenever it looks and there is a byte.
PollReturns ==
    /\ LoopGoes("poll", "unwant")
    /\ revents' = IF pipe > 0 THEN {"READ"} ELSE {}
    /\ UNCHANGED <<wanted, skipped, flag, sent, pipe, senderVars, started,
                   wait, cur, todo, fed, history>>

\* backend_poll ends because the evpipe is readable.
PollWoken == wait = 1 /\ pipe > 0 /\ PollReturns

\* backend_poll ends for a reason of its own: timeout, EINTR, another fd.
PollTimeout == wait = 1 /\ pipe = 0 /\ PollReturns

PollNow == wait = 0 /\ PollReturns

\* No poll: iocnt = 0, or EVRUN_NOPOLL, on a pass that would not block.
PollSkipped ==
    /\ LoopGoes("poll", "unwant")
    /\ wait = 0
    /\ revents' = {}
    /\ UNCHANGED <<wanted, skipped, flag, sent, pipe, senderVars, started,
                   wait, cur, todo, fed, history>>

Unwant ==
    /\ LoopGoes("unwant", "tail")
    /\ wanted' = 0
    /\ wait' = 0
    /\ UNCHANGED <<skipped, flag, sent, pipe, senderVars, started, revents,
                   cur, todo, fed, history>>

\* From the tail the pass invokes pipe_w if it has events; ev_run reads
\* pipe_write_skipped, then (evpipe_pending) sig_pending and async_pending, and
\* feeds EV_CUSTOM if any is set.
AfterTail(events) ==
    /\ revents' = events
    /\ cur' = "sig"
    /\ lpc' = IF events = {} THEN "invoke" ELSE "drain"

TailSkipped ==
    /\ lpc = "tail"
    /\ IF skipped = 1
       THEN AfterTail(revents \cup {"CUSTOM"})
       ELSE lpc' = "tail_flags" /\ UNCHANGED <<cur, revents>>
    /\ UNCHANGED <<wanted, skipped, flag, sent, pipe, senderVars, started,
                   wait, todo, fed, history>>

\* Mutant: the tail trusts pipe_write_skipped alone.
TailFlagsIgnored ==
    /\ lpc = "tail_flags"
    /\ AfterTail(revents)
    /\ UNCHANGED <<wanted, skipped, flag, sent, pipe, senderVars, started,
                   wait, todo, fed, history>>

TailFlags ==
    /\ lpc = "tail_flags"
    /\ IF flag[cur] = 1
       THEN AfterTail(revents \cup {"CUSTOM"})
       ELSE IF cur = "sig"
            THEN cur' = "async" /\ UNCHANGED <<lpc, revents>>
            ELSE AfterTail(revents)
    /\ UNCHANGED <<wanted, skipped, flag, sent, pipe, senderVars, started,
                   wait, todo, fed, history>>

\* pipecb: read the evpipe, but only when the backend reported it.
Drain ==
    /\ LoopGoes("drain", "clear_skipped")
    /\ pipe' = IF "READ" \notin revents THEN pipe
               ELSE IF pipe > DrainMax THEN pipe - DrainMax ELSE 0
    /\ revents' = {}
    /\ UNCHANGED <<wanted, skipped, flag, sent, senderVars, started, wait,
                   cur, todo, fed, history>>

PipecbClearSkipped ==
    /\ LoopGoes("clear_skipped", "load_flag")
    /\ skipped' = 0
    /\ UNCHANGED <<wanted, flag, sent, pipe, senderVars, started, wait,
                   revents, cur, todo, fed, history>>

\* pipecb handles sig_pending first, then async_pending.
NextFlag ==
    IF cur = "sig" THEN lpc' = "load_flag" /\ cur' = "async"
                   ELSE lpc' = "invoke" /\ cur' = "sig"

PipecbLoadFlag ==
    /\ lpc = "load_flag"
    /\ IF flag[cur] = 1 THEN lpc' = "clear_flag" /\ UNCHANGED cur ELSE NextFlag
    /\ UNCHANGED <<wanted, skipped, flag, sent, pipe, senderVars, started,
                   wait, revents, todo, fed, history>>

\* Mutant: the pending flag is not reset before the scan.
PipecbKeepFlag ==
    /\ LoopGoes("clear_flag", "scan")
    /\ todo' = {x \in started : FlagOf(x) = cur}
    /\ UNCHANGED <<wanted, skipped, flag, sent, pipe, senderVars, started, wait,
                   revents, cur, fed, history>>

PipecbClearFlag ==
    /\ LoopGoes("clear_flag", "scan")
    /\ flag' = [flag EXCEPT ![cur] = 0]
    /\ todo' = {x \in started : FlagOf(x) = cur}
    /\ UNCHANGED <<wanted, skipped, sent, pipe, senderVars, started, wait,
                   revents, cur, fed, history>>

\* One element of the scan; ev_feed_event (or ev_feed_signal_event) if raised.  A
\* send that falls between the test and the reset of `sent' is the same as one
\* just before the test: the callback that follows answers both.
PipecbScan ==
    /\ lpc = "scan"
    /\ \E x \in todo :
         /\ todo' = todo \ {x}
         /\ sent' = [sent EXCEPT ![x] = 0]
         /\ fed' = IF sent[x] = 1 THEN fed \cup {x} ELSE fed
    /\ UNCHANGED <<wanted, skipped, flag, pipe, senderVars, started, lpc,
                   wait, revents, cur, history>>

PipecbScanned ==
    /\ lpc = "scan"
    /\ todo = {}
    /\ NextFlag
    /\ UNCHANGED <<wanted, skipped, flag, sent, pipe, senderVars, started,
                   wait, revents, todo, fed, history>>

\* ev_invoke_pending runs the callback of a fed watcher.
Invoke ==
    /\ lpc = "invoke"
    /\ \E x \in fed :
         /\ fed' = fed \ {x}
         /\ owed' = owed \ {x}
         /\ promised' = promised \ {x}
    /\ UNCHANGED <<wanted, skipped, flag, sent, pipe, senderVars, started,
                   loopVars>>

EndPass ==
    /\ LoopGoes("invoke", "top")
    /\ fed = {}
    /\ UNCHANGED <<wanted, skipped, flag, sent, pipe, senderVars, started,
                   wait, revents, cur, todo, fed, history>>

\* The application, between passes or in a callback.  w->sent = 0 and then the
\* registration; nothing the loop does falls between the two.
AsyncStart(x) ==
    /\ lpc \in {"top", "invoke"}
    /\ x \in Asyncs \ started
    /\ sent' = [sent EXCEPT ![x] = 0]
    /\ started' = started \cup {x}
    /\ UNCHANGED <<wanted, skipped, flag, pipe, senderVars, loopVars, fed,
                   history>>

\* clear_pending and the removal from asyncs[]; `sent' keeps its value.
AsyncStop(x) ==
    /\ lpc \in {"top", "invoke"}
    /\ x \in Asyncs \cap started
    /\ started' = started \ {x}
    /\ fed' = fed \ {x}
    /\ owed' = owed \ {x}
    /\ promised' = promised \ {x}
    /\ UNCHANGED <<wanted, skipped, flag, sent, pipe, senderVars, loopVars>>

\* Every step of a pass that does not wait for the outside world.
LoopStep ==
    \/ RunBlocking \/ RunNowait \/ SizeWait
    \/ PollWoken \/ PollNow \/ PollSkipped
    \/ Unwant \/ TailSkipped \/ TailFlags
    \/ Drain \/ PipecbClearSkipped \/ PipecbLoadFlag \/ PipecbClearFlag
    \/ PipecbScan \/ PipecbScanned
    \/ Invoke \/ EndPass

Next ==
    \/ \E s \in Senders : (\E x \in Sources : Raise(s, x)) \/ EvpipeWrite(s)
    \/ LoopStep
    \/ PollTimeout
    \/ \E x \in Asyncs : AsyncStart(x) \/ AsyncStop(x)

Spec == Init /\ [][Next]_vars

\* The application keeps running passes, callbacks return and a sender that
\* entered evpipe_write leaves it.  Nothing is assumed of PollTimeout: delivery
\* may not depend on the sleep ending by itself.
Fairness ==
    /\ WF_vars(LoopStep)
    /\ \A s \in Senders : WF_vars(EvpipeWrite(s))

FairSpec == Spec /\ Fairness
-----------------------------------------------------------------------------
(* Properties.                                                             *)

Asleep == lpc = "poll" /\ wait = 1 /\ pipe = 0
Quiescent == \A s \in Senders : spc[s] = "idle"

\* No lost wake-up (ev_run, evpipe_write, pipecb): the loop never sleeps in its
\* backend, with nothing in the evpipe to end the sleep, when a send to a
\* started watcher has returned and has not been delivered.
NoLostWakeup ==
    Asleep /\ Quiescent => \A x \in started : sent[x] = 0 /\ x \notin owed

\* The tail of ev_run: every send that had raised its pending flag when a pass
\* began has had its callback run when that pass ends, whether or not the pass
\* polled and whether the sender took the skip path or wrote the evpipe.
PassDelivers == lpc = "top" => promised = {}

\* What the code says of ev_wake_pending_addr: "cleared by the pass that delivers
\* it", so between passes, with no send in progress, an undelivered wake shows
\* in pipe_write_skipped and an embedder may skip passes while it reads 0.
WakePendingShown ==
    lpc = "top" /\ Quiescent /\ skipped = 0 => owed = {}

\* Delivery under FairSpec: a raised source has its callback run (or is
\* stopped), without help from any poll timeout.
EventuallyDelivered == \A x \in Sources : x \in owed ~> x \notin owed

-----------------------------------------------------------------------------
(* The inductive invariant behind NoLostWakeup and PassDelivers.           *)

\* A send under way that has stored `sent' but not yet the flag.
Raising(x) ==
    \E s \in Senders : target[s] = x /\ spc[s] \in {"load_flag", "set_flag"}

\* pipecb has (perhaps) consumed the byte and the skip note but has still to
\* look at flag f.
PipecbWillLoad(f) ==
    \/ lpc = "clear_skipped"
    \/ lpc \in {"load_flag", "clear_flag"} /\ (cur = f \/ f = "async")
    \/ lpc = "scan" /\ cur = "sig" /\ f = "async"

\* Outside pipecb nothing is half done.
PassShape ==
    /\ lpc \notin {"load_flag", "clear_flag", "scan", "invoke"} => fed = {}
    /\ lpc \notin {"tail_flags", "load_flag", "clear_flag", "scan"} => cur = "sig"

\* What is owed is recorded, in `sent' or in the pending queue.
OwedRecorded ==
    /\ owed \subseteq started
    /\ \A x \in owed : sent[x] = 1 \/ x \in fed

\* A `sent' nobody scanned is behind a raised flag, or a sender is about to
\* raise it, or the scan will reach it.
SentFlagged ==
    \A x \in started : sent[x] = 1 =>
        \/ flag[FlagOf(x)] = 1
        \/ Raising(x)
        \/ lpc = "scan" /\ cur = FlagOf(x) /\ x \in todo

\* A raised flag has left a trace that ends or prevents the next sleep.
FlagTraced ==
    \A f \in Flags : flag[f] = 1 =>
        \/ skipped = 1
        \/ pipe > 0
        \/ \E s \in Senders : spc[s] \in {"set_skipped", "clear_skipped", "write"}
        \/ PipecbWillLoad(f)

\* While the loop sleeps its wish for a byte is visible, and a skip note
\* belongs to a sender that is about to see it.
SleepSeen ==
    /\ lpc = "size" => wanted = 1
    /\ lpc = "poll" /\ wait = 1 =>
         /\ wanted = 1
         /\ skipped = 1 => \E s \in Senders :
                               spc[s] \in {"load_wanted", "clear_skipped"}

\* Where a promised source is, at each step of the pass.
PromiseHeld ==
    /\ promised \subseteq owed
    /\ lpc = "top" => promised = {}
    /\ lpc = "invoke" => promised \subseteq fed
    /\ \A x \in promised :
         \/ x \in fed
         \/ /\ sent[x] = 1
            /\ flag[FlagOf(x)] = 1
            /\ lpc \in {"tail_flags", "load_flag", "clear_flag", "scan"} /\ cur = "async"
                  => FlagOf(x) = "async" /\ lpc # "scan"
            /\ lpc = "scan" => FlagOf(x) # cur
         \/ sent[x] = 1 /\ lpc = "scan" /\ cur = FlagOf(x) /\ x \in todo

IInv ==
    /\ TypeOK
    /\ PassShape
    /\ OwedRecorded
    /\ SentFlagged
    /\ FlagTraced
    /\ SleepSeen
    /\ PromiseHeld
=============================================================================
