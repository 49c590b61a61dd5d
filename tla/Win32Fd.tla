------------------------------- MODULE Win32Fd -------------------------------
(***************************************************************************)
(* The registry of small integers for Windows sockets (src/ev.c:           *)
(* ev_win32_fd_acquire, ev_win32_fd_release, ev_win32_fd_reserve), each    *)
(* operation under its lock, with an allocation that may fail at every     *)
(* place it is made.                                                       *)
(***************************************************************************)
EXTENDS Naturals, Sequences, FiniteSets, SequencesExt, Functions

CONSTANTS
    Handles,        \* sockets
    Bucket,         \* the hash: [handle -> bucket]
    FirstMax,       \* the first capacity (64)
    MaxRefs,        \* bound on references to one entry
    MaxFails        \* bound on failed allocations

ASSUME RegistryAssumption ==
    /\ "none" \notin Handles /\ Bucket \in [Handles -> Nat]
    /\ FirstMax \in Nat \ {0} /\ MaxRefs \in Nat

VARIABLE wf         \* byfd, freelist : the storage behind ev_win32_fd_by_fd (entries or 0) and
                    \*   ev_win32_fd_free, functions on 0 .. capacity - 1
                    \* bymax, freemax : the capacities announced;  freecnt, next
                    \* ents : entries, [handle -> [fd, refs, owned]], absent ones with refs 0
                    \* chain : [bucket -> sequence of handles]
                    \* fails : failed allocations;  wild : history, a write past a table

Buckets == Range(Bucket)
NoEnt == [fd |-> 0, refs |-> 0, owned |-> FALSE]
Cleared(n) == [i \in 0 .. n - 1 |-> "none"]

FdTypeOK ==
    /\ wf.bymax \in Nat /\ wf.freemax \in Nat /\ wf.freecnt \in Nat /\ wf.next \in Nat
    /\ wf.chain \in [Buckets -> Seq(Handles)] /\ \A h \in Handles : wf.ents[h].refs \in 0 .. MaxRefs
    /\ Range(wf.byfd) \subseteq Handles \cup {"none"} /\ wf.fails \in 0 .. MaxFails

FdInit ==
    wf = [byfd |-> Cleared(0), freelist |-> Cleared(0), bymax |-> 0, freemax |-> 0, freecnt |-> 0, next |-> 0,
          ents |-> [h \in Handles |-> NoEnt], chain |-> [b \in Buckets |-> <<>>], fails |-> 0, wild |-> FALSE]

-----------------------------------------------------------------------------
\* The smallest doubling of the capacity that holds fd (one doubling is enough: the next
\* index is at most the capacity).
NewMax(s) == IF s.bymax = 0 THEN FirstMax ELSE 2 * s.bymax
Grown(old, n) == [i \in 0 .. n - 1 |-> IF i \in DOMAIN old THEN old[i] ELSE "none"]
Failed(s) == [s EXCEPT !.fails = @ + 1]

\* Mutant: the lookup table grows first and its capacity is announced; then the free list.
ReserveFreeLast(s, fail) ==
    LET n == NewMax(s)
        by == [s EXCEPT !.byfd = Grown(@, n), !.bymax = n]
    IN  IF s.next < s.bymax THEN s
        ELSE IF fail = "first" THEN Failed(s)
        ELSE IF fail = "second" THEN Failed(by)
        ELSE [by EXCEPT !.freelist = Grown(@, n), !.freemax = n]

\* ev_win32_fd_reserve for the next index: the free list grows first, each capacity is
\* announced once its storage is there.
Reserve(s, fail) ==
    LET n == NewMax(s)
        free == IF s.freemax < n THEN [s EXCEPT !.freelist = Grown(@, n), !.freemax = n] ELSE s
    IN  IF s.next < s.bymax THEN s
        ELSE IF fail = "first" /\ s.freemax < n THEN Failed(s)
        ELSE IF fail \in {"first", "second"} THEN Failed(free)
        ELSE [free EXCEPT !.byfd = Grown(@, n), !.bymax = n]

Alloc(s) ==
    IF s.freecnt > 0 THEN [fd |-> s.freelist[s.freecnt - 1], s |-> [s EXCEPT !.freecnt = @ - 1]]
    ELSE [fd |-> s.next, s |-> [s EXCEPT !.next = @ + 1]]

\* Writing past a table's storage is the history's wild.
PushFree(s, fd) ==
    IF s.freecnt \in DOMAIN s.freelist
    THEN [s EXCEPT !.freelist[s.freecnt] = fd, !.freecnt = @ + 1]
    ELSE [s EXCEPT !.wild = TRUE]

\* ev_win32_fd_acquire (ev_win32_socket_fd does not own the handle).
Acquire(h, owned, fail) ==
    /\ fail # "no" => wf.fails < MaxFails
    /\ wf.ents[h].refs < MaxRefs
    /\ LET r == IF wf.freecnt = 0 THEN Reserve(wf, fail) ELSE wf
           a == Alloc(r)
           entry == [a.s EXCEPT !.ents[h] = [fd |-> a.fd, refs |-> 1, owned |-> owned],
                                !.chain[Bucket[h]] = <<h>> \o @,
                                !.wild = @ \/ a.fd \notin DOMAIN a.s.byfd,
                                !.byfd = [i \in DOMAIN @ |-> IF i = a.fd THEN h ELSE @[i]]]
       IN  wf' = IF Contains(wf.chain[Bucket[h]], h) THEN [wf EXCEPT !.ents[h].refs = @ + 1]
                 ELSE IF r.fails > wf.fails THEN r
                 ELSE IF fail = "calloc" THEN Failed(PushFree(a.s, a.fd))
                 ELSE entry

\* Mutant: the chain is cut where the entry was.
UnchainedRest(q, h) == SubSeq(q, 1, (CHOOSE i \in DOMAIN q : q[i] = h) - 1)
Unchained(q, h) == IF Contains(q, h) THEN RemoveAt(q, CHOOSE i \in DOMAIN q : q[i] = h) ELSE q

\* ev_win32_fd_release; the socket is closed by the caller's wish, if it is owned.
Release(fd) ==
    /\ fd \in DOMAIN wf.byfd /\ wf.byfd[fd] # "none"
    /\ LET h == wf.byfd[fd]
           gone == [wf EXCEPT !.ents[h] = NoEnt, !.byfd[fd] = "none",
                              !.chain[Bucket[h]] = Unchained(@, h)]
       IN  wf' = IF wf.ents[h].refs > 1 THEN [wf EXCEPT !.ents[h].refs = @ - 1]
                 ELSE PushFree(gone, fd)

FdNext ==
    \/ \E h \in Handles, owned \in BOOLEAN, fail \in {"no", "first", "second", "calloc"} : Acquire(h, owned, fail)
    \/ \E fd \in DOMAIN wf.byfd : Release(fd)

FdSpec == FdInit /\ [][FdNext]_wf

-----------------------------------------------------------------------------
\* Every index issued is in use by one handle or on the free list once, so that a failed
\* acquire or a release neither leaks one nor hands it out twice; nothing is written past
\* the storage of a table, whichever allocation failed before.
Used == {fd \in DOMAIN wf.byfd : wf.byfd[fd] # "none"}
Listed == [i \in 0 .. wf.freecnt - 1 |-> wf.freelist[i]]
IndexOnce ==
    /\ ~wf.wild
    /\ Used \cup Range(Listed) = 0 .. wf.next - 1 /\ Used \cap Range(Listed) = {}
    /\ Cardinality(Range(Listed)) = wf.freecnt

\* The two ways to an entry agree: the bucket's chain leads from a handle, the table from its
\* index, to the same entry.
ByFdAgrees ==
    \A h \in Handles :
        /\ Contains(wf.chain[Bucket[h]], h) <=> wf.ents[h].refs > 0
        /\ wf.ents[h].refs > 0 => wf.byfd[wf.ents[h].fd] = h

\* Both: each number is used by one handle or free once, and the hash chains and
\* ev_win32_fd_by_fd lead to the same entries, whichever allocation failed.
RegistrySound == IndexOnce /\ ByFdAgrees
=============================================================================
