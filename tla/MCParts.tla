------------------------------- MODULE MCParts -------------------------------
(***************************************************************************)
(* Small instances of the parts that are modelled each by itself, checked  *)
(* in one run: a behaviour picks a part in its initial state, runs that    *)
(* part's module and leaves the others as they are: those this module      *)
(* extends in their initial states, the others off.  The properties of the *)
(* extended modules are checked as they stand; each other one is the part  *)
(* module's, stated for the behaviours of that part.                       *)
(***************************************************************************)
EXTENDS Signals, Child, Embed, Once, Stat, Reflock, LoopLife, Libevent, IoUring, Win32Fd, TLC

VARIABLES
    part,                                                           \* the part that runs
    twant, tevents, tchanged, tiofdset, tegen, tfile, tphase, tmisfed, tops, \* FdTable
    aio_buf, viaepoll, submits, agen, reqs, aring, eregs,           \* LinuxAio
    kind, pollfds, pollidxs, vec, kchanges, kernel, asked,          \* ReadyBackends
    wp,                                                             \* Wepoll
    tr, members,                                                    \* RBTree
    times, hresult, expect                                          \* HeapOps

\* Two loops; one signal has watchers on both, two of them on one loop.
MCLoopOf == <<"A", "B", "B", "B">>
MCSigOf  == <<"s", "s", "t", "s">>

\* A watcher of any child and one for each of two that share no hash chain.
MCPidOf == "a" :> 0 @@ "b" :> 2 @@ "c" :> 1

\* An event of each kind.
MCSet ==
    "a" :> [kind |-> "io", persist |-> FALSE] @@ "b" :> [kind |-> "timeout", persist |-> TRUE]
    @@ "c" :> [kind |-> "signal", persist |-> TRUE]

\* Two of three sockets share a hash chain (the registry, of one number, has to grow).
MCBucket == "u" :> 1 @@ "v" :> 0 @@ "w" :> 0

ASSUME SigHolds == SignalsAssumption
ASSUME LockHolds == LockAssumption
ASSUME OnceHolds == OnceAssumption

\* The backends: enough operations to close a watched descriptor, reopen it and watch it again
\* while the other one is served; io_uring's rings are of two, so that both overflow.
Aio   == INSTANCE LinuxAio WITH
    MaxOps <- 5, want <- twant, events <- tevents, changed <- tchanged, iofdset <- tiofdset,
    egen <- tegen, file <- tfile, phase <- tphase, misfed <- tmisfed, ops <- tops
Ready == INSTANCE ReadyBackends WITH
    MaxOps <- 5, want <- twant, events <- tevents, changed <- tchanged, iofdset <- tiofdset,
    egen <- tegen, file <- tfile, phase <- tphase, misfed <- tmisfed, ops <- tops

\* Two sockets and one thread in epoll_wait; one socket and two threads.  Poll groups are of
\* one socket, so that a second socket, or a second registration, takes a second group.
AskedFor == {<<{"IN"}, FALSE>>, <<{"IN", "OUT"}, TRUE>>}
Wep  == INSTANCE Wepoll WITH
    SockKeys <- 1..2, Objs <- 1..2, WThreads <- 1..1, MaxGroup <- 1, MaxCtl <- 3, Asked <- AskedFor
WepT == INSTANCE Wepoll WITH
    SockKeys <- 1..1, Objs <- 1..2, WThreads <- 1..2, MaxGroup <- 1, MaxCtl <- 3, Asked <- AskedFor
Tree == INSTANCE RBTree WITH TreeKeys <- 1..7

\* 4-heaps of up to eight entries: three levels, the last node partly filled.
Heaps == INSTANCE HeapOps WITH DHEAP <- 4, MaxLen <- 8, Times <- 0..2, result <- hresult

-----------------------------------------------------------------------------
Parts == {"signals", "child", "iouring", "linuxaio", "ready", "stat", "life", "embed",
          "once", "libevent", "wepoll", "wepoll threads", "reflock", "rbtree", "win32fd", "heap"}

OnTable == {"linuxaio", "ready"}

fdtable == <<twant, tevents, tchanged, tiofdset, tegen, tfile, tphase, tmisfed, tops>>
aio   == <<aio_buf, viaepoll, submits, agen, reqs, aring, eregs>>
ready == <<kind, pollfds, pollidxs, vec, kchanges, kernel, asked>>

partsVars == <<part, vars, cvars, fdtable, uvars, aio, ready, st, L, em, wp, rl, wf,
               ovars, lvars, tr, members, times, hresult, expect>>

Off == "off"

\* The parts that do not run are off, or rest in one initial state.
OthersOff ==
    /\ Init /\ (part # "signals" => \A l \in Loops : sigfd[l] = "unused" /\ ~nomask[l])
    /\ EmbedInit /\ (part # "embed" => ~em.cb /\ em.inepoll /\ em.outepoll)
    /\ ChildInit /\ OnceInit /\ RefInit /\ EventInit /\ RingInit /\ FdInit
    /\ StatInit /\ (part # "stat" => ~st.local /\ st.fs = "none" /\ st.ino = 0)
    /\ LoopInit /\ (part # "life" => ~L.default)
    /\ part \notin OnTable =>
         /\ twant = Off /\ tevents = Off /\ tchanged = Off /\ tiofdset = Off /\ tegen = Off
         /\ tfile = Off /\ tphase = Off /\ tmisfed = Off /\ tops = Off
    /\ part # "linuxaio" =>
         /\ aio_buf = Off /\ viaepoll = Off /\ submits = Off /\ agen = Off
         /\ reqs = Off /\ aring = Off /\ eregs = Off
    /\ part # "ready" =>
         /\ kind = Off /\ pollfds = Off /\ pollidxs = Off /\ vec = Off
         /\ kchanges = Off /\ kernel = Off /\ asked = Off
    /\ part \notin {"wepoll", "wepoll threads"} => wp = Off
    /\ part # "rbtree" => tr = Off /\ members = Off
    /\ part # "heap" => times = Off /\ hresult = Off /\ expect = Off

\* They stay so.
OthersKept ==
    /\ part' = part
    /\ IF part = "signals" THEN TRUE ELSE UNCHANGED vars
    /\ IF part = "child" THEN TRUE ELSE UNCHANGED cvars
    /\ IF part \in OnTable THEN TRUE ELSE UNCHANGED fdtable
    /\ IF part = "iouring" THEN TRUE ELSE UNCHANGED uvars
    /\ IF part = "linuxaio" THEN TRUE ELSE UNCHANGED aio
    /\ IF part = "ready" THEN TRUE ELSE UNCHANGED ready
    /\ IF part = "stat" THEN TRUE ELSE UNCHANGED st
    /\ IF part = "life" THEN TRUE ELSE UNCHANGED L
    /\ IF part = "embed" THEN TRUE ELSE UNCHANGED em
    /\ IF part \in {"wepoll", "wepoll threads"} THEN TRUE ELSE UNCHANGED wp
    /\ IF part = "reflock" THEN TRUE ELSE UNCHANGED rl
    /\ IF part = "win32fd" THEN TRUE ELSE UNCHANGED wf
    /\ IF part = "once" THEN TRUE ELSE UNCHANGED ovars
    /\ IF part = "libevent" THEN TRUE ELSE UNCHANGED lvars
    /\ IF part = "rbtree" THEN TRUE ELSE UNCHANGED <<tr, members>>
    /\ IF part = "heap" THEN TRUE ELSE UNCHANGED <<times, hresult, expect>>

PartsInit ==
    /\ part \in Parts
    /\ OthersOff
    /\ \/ part \in {"signals", "child", "embed", "once", "reflock", "life", "libevent", "iouring",
                    "win32fd", "stat"}
       \/ part = "linuxaio" /\ Aio!AioInit
       \/ part = "ready" /\ Ready!ReadyInit
       \/ part = "wepoll" /\ Wep!WepollInit
       \/ part = "wepoll threads" /\ WepT!WepollInit
       \/ part = "rbtree" /\ Tree!TreeInit
       \/ part = "heap" /\ Heaps!Init

PartsNext ==
    \/ part = "signals" /\ OthersKept /\ Next
    \/ part = "child" /\ OthersKept /\ ChildNext
    \/ part = "iouring" /\ OthersKept /\ RingNext
    \/ part = "linuxaio" /\ OthersKept /\ Aio!AioNext
    \/ part = "ready" /\ OthersKept /\ Ready!ReadyNext
    \/ part = "stat" /\ OthersKept /\ StatNext
    \/ part = "life" /\ OthersKept /\ LoopNext
    \/ part = "embed" /\ OthersKept /\ EmbedNext
    \/ part = "once" /\ OthersKept /\ OnceNext
    \/ part = "libevent" /\ OthersKept /\ EventNext
    \/ part = "wepoll" /\ OthersKept /\ Wep!WepollNext
    \/ part = "wepoll threads" /\ OthersKept /\ WepT!WepollNext
    \/ part = "reflock" /\ OthersKept /\ RefNext
    \/ part = "rbtree" /\ OthersKept /\ Tree!TreeNext
    \/ part = "win32fd" /\ OthersKept /\ FdNext
    \/ part = "heap" /\ OthersKept /\ Heaps!Next

PartsSpec == PartsInit /\ [][PartsNext]_partsVars

-----------------------------------------------------------------------------
(* Properties, each one of the part's module.                              *)

\* Every part's variables keep their types; in particular no ring holds more than its size and
\* no tree link or index leaves the nodes, descriptors and slots there are.
PartsTypeOK ==
    CASE part = "signals" -> TypeOK
      [] part = "child" -> ChildTypeOK
      [] part = "iouring" -> RingTypeOK
      [] part = "linuxaio" -> Aio!AioTypeOK
      [] part = "ready" -> Ready!ReadyTypeOK
      [] part = "stat" -> StatTypeOK
      [] part = "life" -> LoopTypeOK
      [] part = "embed" -> EmbedTypeOK
      [] part = "once" -> OnceTypeOK
      [] part = "libevent" -> EventTypeOK
      [] part = "wepoll" -> Wep!WepollTypeOK
      [] part = "wepoll threads" -> WepT!WepollTypeOK
      [] part = "reflock" -> RefTypeOK
      [] part = "rbtree" -> Tree!TreeTypeOK
      [] part = "win32fd" -> FdTypeOK
      [] part = "heap" -> Len(times) <= 8

\* The other backends, as RingSound says of io_uring: a watched descriptor will be heard of, and
\* no late event, of a file that is no longer the one open under the number, reaches its watcher.
\* linuxaio: it is queued, requested, completed or with epoll, also after io_submit took part of
\* the queue only.  poll, select, kqueue, port: what is watched is what the watchers ask for, on
\* the file the descriptor now is, and the array of poll agrees with pollidxs whatever order
\* entries were removed in.
BackendSound ==
    /\ part = "linuxaio" => Aio!AioSound
    /\ part = "ready" => Ready!ReadySound

\* While a thread waits, the kernel's poll of each socket covers what is asked for, or a
\* completion that renews it is on its way.
WepollHears ==
    /\ part = "wepoll" => Wep!WepollHears
    /\ part = "wepoll threads" => WepT!WepollHears

\* A sock_state is not freed while the kernel or a waiting thread has it, except by port_delete
\* and then only with its poll asked to cancel; a deleted port leaves none; and poll groups count
\* the sockets that hold them, those with room at the tail where poll_group_acquire looks.
WepollMemory ==
    /\ part = "wepoll" => Wep!WepollMemory /\ Wep!GroupRoom
    /\ part = "wepoll threads" => WepT!WepollMemory /\ WepT!GroupRoom

\* wepoll's tree stays a balanced search tree of the keys added and not deleted.
TreeSound == part = "rbtree" => Tree!TreeSound

\* upheap, downheap, adjustheap and reheap restore the heap order and keep every watcher's
\* active index on its own entry, with its own time.
HeapKept == part = "heap" => Heaps!Ordered /\ Heaps!Permuted
=============================================================================
