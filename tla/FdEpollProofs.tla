---------------------------- MODULE FdEpollProofs ----------------------------
(***************************************************************************)
(* Proofs about FdEpoll, for any descriptors, files and watchers and any   *)
(* order of starts, stops, closes, reopenings, forks and failures: no      *)
(* change is forgotten between fd_change and fd_reify, no event of a file  *)
(* that is gone reaches a watcher, and what is watched is registered.      *)
(***************************************************************************)
EXTENDS FdEpoll, SequenceTheorems, FiniteSetTheorems, TLAPS

\* A file is open under one number, once; a file a child holds is closed here.
FilesOnce ==
    /\ \A fd \in FDs : fdtab[fd] # NoFile => fdtab[fd] \in used \ held
    /\ \A fd, x \in FDs : fdtab[fd] = fdtab[x] /\ fdtab[fd] # NoFile => fd = x
    /\ held \subseteq used

\* What is watched is open.
WatchedOpen == \A w \in active : fdtab[FdOf[w]] # NoFile

\* The registrations: of files opened at some time, that epoll accepts, and of different
\* files under one number in different generations.
KernSound ==
    \A e \in kern :
        /\ e.file \in used \ EpermFiles
        /\ e.gen <= egen[e.fd]
        /\ \A x \in kern : x.fd = e.fd /\ x.gen = e.gen => x.file = e.file

\* The registration of the open file is the newest, with the mask the loop recorded if it
\* recorded one (the end of epoll_poll forgets the mask of a descriptor it takes off
\* epoll_eperms).
CurrentNewest ==
    \A e \in kern : e.file = fdtab[e.fd] =>
        e.gen = egen[e.fd] /\ (e.mask = emask[e.fd] \/ emask[e.fd] = {})

\* What epoll refused is on the list.
EpermListed == \A fd \in FDs : emask[fd] = EPERM => eperms[fd] > 0

\* A descriptor whose last watcher stopped is flagged until fd_reify has seen it.
Flagged == \A fd \in FDs : On(fd) = {} /\ events[fd] # {} => reify[fd] # {}

\* Nobody can hear of fd before epoll_modify is called for it again: it has no events, or
\* fd_reify will call epoll_modify whatever the events, or there is no watcher, and the
\* next one comes with EV__IOFDSET.
NextIsSet(fd) ==
    On(fd) = {} /\ \A w \in Watchers : FdOf[w] = fd => w \in stale \cup iofdset
Unarmed(fd) == events[fd] = {} \/ "IOFDSET" \in reify[fd] \/ NextIsSet(fd)

\* The kernel knows what the loop thinks it told it.
Served(fd) ==
    IF fdtab[fd] \in EpermFiles THEN eperms[fd] > 0 /\ emask[fd] = EPERM
    ELSE Entry(fd, events[fd], egen[fd]) \in kern

OldUnarmed == \A e \in kern : e.file # fdtab[e.fd] /\ e.gen = egen[e.fd] => Unarmed(e.fd)
ArmedServed == \A fd \in FDs : postfork \/ Unarmed(fd) \/ Served(fd)

\* The inductive invariant.
FdInv ==
    /\ TypeOK /\ ChangesListed /\ FilesOnce /\ WatchedOpen /\ KernSound
    /\ CurrentNewest /\ EpermListed /\ Flagged /\ OldUnarmed /\ ArmedServed

Entries == [fd : FDs, file : Files, mask : Masks, gen : Nat]

-----------------------------------------------------------------------------
(* Sequences and what they hold.                                           *)

Elems(s) == {s[i] : i \in 1..Len(s)}

LEMMA FunctionIsSeq ==
    ASSUME NEW S, NEW n \in Nat, NEW f \in [1..n -> S]
    PROVE  f \in Seq(S) /\ Len(f) = n
<1>1. f \in Seq(S)
  BY SeqDef
<1>2. Len(f) \in Nat /\ DOMAIN f = 1..Len(f) /\ DOMAIN f = 1..n
  BY <1>1, LenProperties
<1> QED
  BY <1>1, <1>2

LEMMA ElemsAppend ==
    ASSUME NEW S, NEW s \in Seq(S), NEW x \in S
    PROVE  /\ Append(s, x) \in Seq(S) /\ Len(Append(s, x)) = Len(s) + 1
           /\ Elems(Append(s, x)) = Elems(s) \cup {x}
<1>1. /\ Append(s, x) \in Seq(S) /\ Len(Append(s, x)) = Len(s) + 1 /\ Len(s) \in Nat
      /\ \A i \in 1..Len(s) : Append(s, x)[i] = s[i]
      /\ Append(s, x)[Len(s) + 1] = x
  BY AppendProperties, LenProperties
<1>2. \A y : y \in Elems(Append(s, x)) => y \in Elems(s) \cup {x}
  BY <1>1 DEF Elems
<1>3. \A y : y \in Elems(s) \cup {x} => y \in Elems(Append(s, x))
  <2>1. x \in Elems(Append(s, x))
    BY <1>1 DEF Elems
  <2>2. \A y \in Elems(s) : y \in Elems(Append(s, x))
    BY <1>1 DEF Elems
  <2> QED
    BY <2>1, <2>2
<1> QED
  BY <1>1, <1>2, <1>3

LEMMA ElemsTail ==
    ASSUME NEW S, NEW s \in Seq(S), s # <<>>
    PROVE  /\ Head(s) \in S /\ Tail(s) \in Seq(S) /\ Len(Tail(s)) = Len(s) - 1
           /\ Elems(s) = {Head(s)} \cup Elems(Tail(s))
<1>1. /\ Head(s) \in S /\ Tail(s) \in Seq(S) /\ Len(Tail(s)) = Len(s) - 1
      /\ Len(s) \in Nat \ {0} /\ Head(s) = s[1]
      /\ \A i \in 1..Len(Tail(s)) : Tail(s)[i] = s[i + 1]
  BY HeadTailProperties, EmptySeq
<1>2. \A y \in Elems(s) : y \in {Head(s)} \cup Elems(Tail(s))
  <2>1. SUFFICES ASSUME NEW i \in 1..Len(s), i # 1
                 PROVE  s[i] \in Elems(Tail(s))
    BY <1>1 DEF Elems
  <2>2. i - 1 \in 1..Len(Tail(s)) /\ Tail(s)[i - 1] = s[i]
    BY <1>1, <2>1
  <2> QED
    BY <2>2 DEF Elems
<1>3. Elems(Tail(s)) \subseteq Elems(s)
  <2>1. SUFFICES ASSUME NEW i \in 1..Len(Tail(s))
                 PROVE  Tail(s)[i] \in Elems(s)
    BY DEF Elems
  <2>2. i + 1 \in 1..Len(s) /\ s[i + 1] = Tail(s)[i]
    BY <1>1
  <2> QED
    BY <2>2 DEF Elems
<1>4. Head(s) \in Elems(s)
  BY <1>1 DEF Elems
<1> QED
  BY <1>1, <1>2, <1>3, <1>4

LEMMA ElemsConcat ==
    ASSUME NEW S, NEW s \in Seq(S), NEW t \in Seq(S)
    PROVE  /\ s \o t \in Seq(S) /\ Len(s \o t) = Len(s) + Len(t)
           /\ Elems(s \o t) = Elems(s) \cup Elems(t)
<1>1. /\ s \o t \in Seq(S) /\ Len(s \o t) = Len(s) + Len(t)
      /\ Len(s) \in Nat /\ Len(t) \in Nat
      /\ \A i \in 1..(Len(s) + Len(t)) :
            (s \o t)[i] = IF i <= Len(s) THEN s[i] ELSE t[i - Len(s)]
  BY ConcatProperties, LenProperties
<1>2. Elems(s \o t) \subseteq Elems(s) \cup Elems(t)
  <2>1. SUFFICES ASSUME NEW i \in 1..Len(s \o t)
                 PROVE  (s \o t)[i] \in Elems(s) \cup Elems(t)
    BY DEF Elems
  <2>2. CASE i <= Len(s)
    BY <1>1, <2>2 DEF Elems
  <2>3. CASE i > Len(s)
    <3>1. i - Len(s) \in 1..Len(t) /\ (s \o t)[i] = t[i - Len(s)]
      BY <1>1, <2>3
    <3> QED
      BY <3>1 DEF Elems
  <2> QED
    BY <1>1, <2>2, <2>3
<1>3. Elems(s) \subseteq Elems(s \o t)
  BY <1>1 DEF Elems
<1>4. Elems(t) \subseteq Elems(s \o t)
  <2>1. SUFFICES ASSUME NEW i \in 1..Len(t)
                 PROVE  t[i] \in Elems(s \o t)
    BY DEF Elems
  <2>2. i + Len(s) \in 1..Len(s \o t) /\ (s \o t)[i + Len(s)] = t[i]
    BY <1>1
  <2> QED
    BY <2>2 DEF Elems
<1> QED
  BY <1>1, <1>2, <1>3, <1>4

\* Ascending lists the descriptors of the set and no other: how many are smaller is a
\* one-to-one map of the set into its places, so every place is taken.
LEMMA AscendingElems ==
    ASSUME FdAssumption, NEW S \in SUBSET FDs
    PROVE  Ascending(S) \in Seq(FDs) /\ Elems(Ascending(S)) = S
<1>1. IsFiniteSet(S)
  <2>1. IsFiniteSet(FDs)
    BY FS_Interval DEF FDs, FdAssumption
  <2> QED
    BY <2>1, FS_Subset
<1>2. PICK n \in Nat : n = Cardinality(S)
  BY <1>1, FS_CardinalityType
<1>3. S \subseteq Int
  BY DEF FDs, FdAssumption
<1> DEFINE Below(x) == {y \in S : y < x}
           places == 0..(n - 1)
<1>4. \A x \in S : IsFiniteSet(Below(x)) /\ Cardinality(Below(x)) \in Nat
  BY <1>1, FS_Subset, FS_CardinalityType
<1>5. \A x \in S : Cardinality(Below(x)) \in places
  <2>1. SUFFICES ASSUME NEW x \in S
                 PROVE  Cardinality(Below(x)) \in places
    OBVIOUS
  <2>2. IsFiniteSet(S \ {x}) /\ Cardinality(S \ {x}) = n - 1
    BY <1>1, <1>2, FS_RemoveElement
  <2>3. Below(x) \in SUBSET (S \ {x})
    BY <1>3
  <2>4. Cardinality(Below(x)) <= n - 1
    BY <2>2, <2>3, FS_Subset
  <2> QED
    BY <1>4, <2>4
<1>6. \A x, y \in S : x < y => Cardinality(Below(x)) # Cardinality(Below(y))
  <2>1. SUFFICES ASSUME NEW x \in S, NEW y \in S, x < y
                 PROVE  Cardinality(Below(x)) # Cardinality(Below(y))
    OBVIOUS
  <2>2. PICK a, b : a = Below(x) /\ b = Below(y)
    OBVIOUS
  <2>3. x \in Int /\ y \in Int /\ x \notin a
    BY <1>3, <2>2
  <2>4. \A z \in a : z \in b
    BY <1>3, <2>1, <2>2, <2>3
  <2>5. x \in b
    BY <2>1, <2>2
  <2>6. /\ IsFiniteSet(a) /\ IsFiniteSet(b)
        /\ Cardinality(a) \in Nat /\ Cardinality(b) \in Nat
    BY <1>4, <2>2
  <2>7. Cardinality(a \cup {x}) = Cardinality(a) + 1
    BY <2>3, <2>6, FS_AddElement
  <2>8. a \cup {x} \in SUBSET b
    BY <2>4, <2>5
  <2>9. Cardinality(a \cup {x}) <= Cardinality(b)
    BY <2>6, <2>8, FS_Subset
  <2>10. Cardinality(a) # Cardinality(b)
    BY <2>6, <2>7, <2>9
  <2> QED
    BY <2>2, <2>10
<1>7. PICK rank : rank = [x \in S |-> Cardinality(Below(x))]
  OBVIOUS
<1>8. rank \in [S -> places] /\ \A x \in S : rank[x] = Cardinality(Below(x))
  BY <1>5, <1>7
<1>9. \A x, y \in S : rank[x] = rank[y] => x = y
  <2>1. \A x, y \in S : x < y => rank[x] # rank[y]
    BY <1>6, <1>8
  <2> QED
    BY <1>3, <2>1
<1>10. rank \in Injection(S, places)
  BY <1>8, <1>9 DEF Injection, IsInjective
<1>11. IsFiniteSet(places) /\ Cardinality(places) = n
  BY FS_Interval
<1>12. rank \in Surjection(S, places)
  BY <1>2, <1>10, <1>11, FS_Injection
<1>13. \A k \in places : \E x \in S : rank[x] = k
  BY <1>12 DEF Surjection
<1>14. Ascending(S) = [i \in 1..n |-> CHOOSE x \in S : Cardinality(Below(x)) = i - 1]
  BY <1>2 DEF Ascending
<1>15. ASSUME NEW i \in 1..n
       PROVE  Ascending(S)[i] \in S /\ rank[Ascending(S)[i]] = i - 1
  <2>1. \E x \in S : Cardinality(Below(x)) = i - 1
    BY <1>8, <1>13
  <2>2. Ascending(S)[i] = CHOOSE x \in S : Cardinality(Below(x)) = i - 1
    BY <1>14
  <2>3. Ascending(S)[i] \in S /\ Cardinality(Below(Ascending(S)[i])) = i - 1
    BY <2>1, <2>2
  <2> QED
    BY <2>3, <1>8
<1>16. Ascending(S) \in [1..n -> FDs]
  BY <1>14, <1>15
<1>17. Ascending(S) \in Seq(FDs) /\ Len(Ascending(S)) = n
  BY <1>16, FunctionIsSeq
<1>18. ASSUME NEW x \in S
       PROVE  x \in Elems(Ascending(S))
  <2>1. rank[x] + 1 \in 1..n
    BY <1>8
  <2>2. Ascending(S)[rank[x] + 1] = x
    BY <1>8, <1>9, <1>15, <2>1
  <2> QED
    BY <2>1, <2>2, <1>17 DEF Elems
<1> QED
  BY <1>15, <1>17, <1>18 DEF Elems

-----------------------------------------------------------------------------
(* Small facts.                                                            *)

LEMMA EpermNoMask == EPERM \notin Masks
<1>1. "EPERM" \in EPERM /\ "EPERM" \notin RW
  BY DEF EPERM, RW
<1> QED
  BY <1>1 DEF Masks

LEMMA ChangesAre == Changes = Elems(fdchanges)
  BY DEF Changes, Elems

LEMMA ChangesAreNext == Changes' = Elems(fdchanges')
  BY DEF Changes, Elems

\* Where the watchers of fd and what they want stay the same.
LEMMA OnSame ==
    ASSUME UNCHANGED active, NEW fd
    PROVE  On(fd)' = On(fd) /\ (UNCHANGED wevents => Wanted(fd)' = Wanted(fd))
  BY DEF On, Wanted

\* Unarmed, as long as the events stay, no flag is taken away and a watcher that comes
\* brings EV__IOFDSET.
LEMMA UnarmedKept ==
    ASSUME NEW fd, Unarmed(fd), events'[fd] = events[fd], reify[fd] \subseteq reify'[fd],
           NextIsSet(fd) => NextIsSet(fd)' \/ "IOFDSET" \in reify'[fd]
    PROVE  Unarmed(fd)'
  BY DEF Unarmed

\* The part of the invariant about the kernel, when only watchers and flags change.
LEMMA KernKept ==
    ASSUME FdInv, UNCHANGED <<fdtab, used, held, kern, emask, egen, eperms>>
    PROVE  FilesOnce' /\ KernSound' /\ CurrentNewest' /\ EpermListed'
<1>1. FilesOnce' /\ EpermListed'
  BY DEF FdInv, FilesOnce, EpermListed
<1>2. KernSound' /\ CurrentNewest'
  BY DEF FdInv, KernSound, CurrentNewest
<1> QED
  BY <1>1, <1>2

LEMMA ArmsKept ==
    ASSUME FdInv, TypeOK, UNCHANGED <<fdtab, kern, emask, egen, eperms, events>>,
           postfork => postfork', \A fd \in FDs : Unarmed(fd) => Unarmed(fd)'
    PROVE  OldUnarmed' /\ ArmedServed'
<1>1. \A e \in kern : e.fd \in FDs
  BY DEF TypeOK
<1>2. OldUnarmed'
  BY <1>1 DEF FdInv, OldUnarmed
<1>3. \A fd \in FDs : Served(fd)' <=> Served(fd)
  BY DEF Served, Entry
<1>4. ArmedServed'
  BY <1>3 DEF FdInv, ArmedServed
<1> QED
  BY <1>2, <1>4

\* fd_change.
LEMMA FdChangeStep ==
    ASSUME TypeOK, ChangesListed, NEW fd \in FDs, NEW flags \in SUBSET {"REIFY", "IOFDSET"},
           FdChange(fd, flags)
    PROVE  /\ reify' \in [FDs -> SUBSET {"REIFY", "IOFDSET"}]
           /\ reify'[fd] = reify[fd] \cup flags
           /\ \A x \in FDs : x # fd => reify'[x] = reify[x]
           /\ fdchanges' \in Seq(FDs) /\ Len(fdchanges) <= Len(fdchanges')
           /\ Changes \subseteq Changes' /\ fd \in Changes'
<1>1. reify' = [reify EXCEPT ![fd] = @ \cup flags] /\ reify \in [FDs -> SUBSET {"REIFY", "IOFDSET"}]
  BY DEF FdChange, TypeOK
<1>2. /\ reify' \in [FDs -> SUBSET {"REIFY", "IOFDSET"}]
      /\ reify'[fd] = reify[fd] \cup flags
      /\ \A x \in FDs : x # fd => reify'[x] = reify[x]
  BY <1>1
<1>3. fdchanges \in Seq(FDs) /\ Len(fdchanges) \in Nat
  BY LenProperties DEF TypeOK
<1>4. CASE reify[fd] = {}
  <2>1. fdchanges' = Append(fdchanges, fd)
    BY <1>4 DEF FdChange
  <2> QED
    BY <1>2, <1>3, <2>1, ElemsAppend, ChangesAre, ChangesAreNext
<1>5. CASE reify[fd] # {}
  <2>1. fdchanges' = fdchanges /\ fd \in Changes
    BY <1>5 DEF FdChange, ChangesListed
  <2>2. Changes' = Changes
    BY <2>1, ChangesAre, ChangesAreNext
  <2> QED
    BY <1>2, <1>3, <2>1, <2>2
<1> QED
  BY <1>4, <1>5

-----------------------------------------------------------------------------
(* The calls on a watcher.                                                 *)

LEMMA SetStep ==
    ASSUME FdAssumption, FdInv, NEW w \in Watchers, NEW ev \in Masks, Set(w, ev)
    PROVE  FdInv'
<1> USE DEF kernVars
<1>1. /\ w \notin active /\ wevents' = [wevents EXCEPT ![w] = ev]
      /\ iofdset' = iofdset \cup {w} /\ stale' = stale \ {w}
      /\ UNCHANGED <<fdtab, used, held, kern, active, fed, events, reify, emask, egen, fdchanges,
                     left, eperms, postfork, phase>>
  BY DEF Set
<1>2. TypeOK /\ ChangesListed
  BY DEF FdInv
<1>3. TypeOK'
  <2>1. wevents' \in [Watchers -> Masks] /\ iofdset' \in SUBSET Watchers /\ stale' \in SUBSET Watchers
    BY <1>1, <1>2 DEF TypeOK
  <2> QED
    BY <1>1, <1>2, <2>1 DEF TypeOK
<1>4. \A fd \in FDs : On(fd)' = On(fd) /\ Wanted(fd)' = Wanted(fd)
  <2>1. \A v \in active : wevents'[v] = wevents[v]
    BY <1>1, <1>2 DEF TypeOK
  <2> QED
    BY <1>1, <2>1 DEF On, Wanted
<1>5. ChangesListed' /\ Flagged'
  <2>1. Changes' = Changes
    BY <1>1 DEF Changes
  <2> QED
    BY <1>1, <1>4, <2>1 DEF FdInv, ChangesListed, Flagged
<1>6. WatchedOpen'
  BY <1>1 DEF FdInv, WatchedOpen
<1>7. \A fd \in FDs : Unarmed(fd) => Unarmed(fd)'
  BY <1>1, <1>4 DEF Unarmed, NextIsSet
<1> QED
  BY <1>1, <1>2, <1>3, <1>5, <1>6, <1>7, KernKept, ArmsKept DEF FdInv

LEMMA StartStep ==
    ASSUME FdAssumption, FdInv, NEW w \in Watchers, Start(w)
    PROVE  FdInv'
<1> USE DEF kernVars
<1>1. PICK flags \in SUBSET {"REIFY", "IOFDSET"} :
         flags = {"REIFY"} \cup (IF w \in iofdset THEN {"IOFDSET"} ELSE {})
  OBVIOUS
<1>2. /\ w \notin active /\ w \notin stale /\ fdtab[FdOf[w]] # NoFile
      /\ active' = active \cup {w} /\ FdChange(FdOf[w], flags) /\ iofdset' = iofdset \ {w}
      /\ UNCHANGED <<fdtab, used, held, kern, wevents, stale, fed, events, emask, egen, left, eperms,
                     postfork, phase>>
  BY <1>1 DEF Start
<1>3. TypeOK /\ ChangesListed /\ FdOf[w] \in FDs
  BY DEF FdInv, FdAssumption
<1>4. /\ reify' \in [FDs -> SUBSET {"REIFY", "IOFDSET"}]
      /\ reify'[FdOf[w]] = reify[FdOf[w]] \cup flags
      /\ \A x \in FDs : x # FdOf[w] => reify'[x] = reify[x]
      /\ fdchanges' \in Seq(FDs) /\ Len(fdchanges) <= Len(fdchanges')
      /\ Changes \subseteq Changes' /\ FdOf[w] \in Changes'
  BY <1>1, <1>2, <1>3, FdChangeStep
<1>5. TypeOK'
  <2>1. Len(fdchanges) \in Nat /\ Len(fdchanges') \in Nat
    BY <1>3, <1>4, LenProperties DEF TypeOK
  <2>2. left' \in 0..Len(fdchanges')
    BY <1>2, <1>3, <1>4, <2>1 DEF TypeOK
  <2>3. active' \in SUBSET Watchers /\ iofdset' \in SUBSET Watchers
    BY <1>2, <1>3 DEF TypeOK
  <2> QED
    BY <1>2, <1>3, <1>4, <2>2, <2>3 DEF TypeOK
<1>6. \A fd \in FDs : fd # FdOf[w] => On(fd)' = On(fd) /\ Wanted(fd)' = Wanted(fd)
  BY <1>2 DEF On, Wanted
<1>7. ChangesListed'
  BY <1>2, <1>3, <1>4, <1>6 DEF ChangesListed
<1>8. Flagged'
  BY <1>2, <1>3, <1>4, <1>6 DEF FdInv, Flagged, On
<1>9. WatchedOpen'
  BY <1>2 DEF FdInv, WatchedOpen
<1>10. ASSUME NEW fd \in FDs, Unarmed(fd)
       PROVE  Unarmed(fd)'
  <2>1. reify[fd] \subseteq reify'[fd]
    BY <1>4
  <2>2. CASE fd # FdOf[w]
    <3>1. NextIsSet(fd) => NextIsSet(fd)'
      BY <1>2, <1>6, <2>2 DEF NextIsSet
    <3> QED
      BY <1>2, <1>10, <2>1, <3>1, UnarmedKept
  <2>3. CASE fd = FdOf[w]
    <3>1. NextIsSet(fd) => "IOFDSET" \in reify'[fd]
      BY <1>1, <1>2, <1>4, <2>3 DEF NextIsSet
    <3> QED
      BY <1>2, <1>10, <2>1, <3>1, UnarmedKept
  <2> QED
    BY <2>2, <2>3
<1> QED
  BY <1>2, <1>3, <1>5, <1>7, <1>8, <1>9, <1>10, KernKept, ArmsKept DEF FdInv

LEMMA StopStep ==
    ASSUME FdAssumption, FdInv, NEW w \in Watchers, w \in active,
           active' = active \ {w}, FdChange(FdOf[w], {"REIFY"}),
           fed' \in [Watchers -> SUBSET (RW \cup {"ERROR"})],
           UNCHANGED <<fdtab, used, held, kern, wevents, iofdset, stale, events, emask, egen, left,
                       eperms, postfork, phase>>
    PROVE  FdInv'
<1>1. TypeOK /\ ChangesListed /\ FdOf[w] \in FDs
  BY DEF FdInv, FdAssumption
<1>2. /\ reify' \in [FDs -> SUBSET {"REIFY", "IOFDSET"}]
      /\ reify'[FdOf[w]] = reify[FdOf[w]] \cup {"REIFY"}
      /\ \A x \in FDs : x # FdOf[w] => reify'[x] = reify[x]
      /\ fdchanges' \in Seq(FDs) /\ Len(fdchanges) <= Len(fdchanges')
      /\ Changes \subseteq Changes' /\ FdOf[w] \in Changes'
  BY <1>1, FdChangeStep
<1>3. TypeOK'
  <2>1. Len(fdchanges) \in Nat /\ Len(fdchanges') \in Nat
    BY <1>1, <1>2, LenProperties DEF TypeOK
  <2>2. left' \in 0..Len(fdchanges')
    BY <1>1, <1>2, <2>1 DEF TypeOK
  <2>3. active' \in SUBSET Watchers
    BY <1>1 DEF TypeOK
  <2> QED
    BY <1>1, <1>2, <2>2, <2>3 DEF TypeOK
<1>4. \A fd \in FDs : fd # FdOf[w] => On(fd)' = On(fd) /\ Wanted(fd)' = Wanted(fd)
  BY DEF On, Wanted
<1>5. ChangesListed'
  BY <1>1, <1>2, <1>4 DEF ChangesListed
<1>6. Flagged'
  BY <1>1, <1>2, <1>4 DEF FdInv, Flagged
<1>7. WatchedOpen'
  BY DEF FdInv, WatchedOpen
<1>8. ASSUME NEW fd \in FDs, Unarmed(fd)
      PROVE  Unarmed(fd)'
  <2>1. reify[fd] \subseteq reify'[fd]
    BY <1>2
  <2>2. NextIsSet(fd) => NextIsSet(fd)'
    BY DEF NextIsSet, On
  <2> QED
    BY <1>8, <2>1, <2>2, UnarmedKept
<1> QED
  BY <1>1, <1>3, <1>5, <1>6, <1>7, <1>8, KernKept, ArmsKept DEF FdInv

LEMMA ModifyStep ==
    ASSUME FdAssumption, FdInv, NEW w \in Watchers, NEW ev \in Masks, Modify(w, ev)
    PROVE  FdInv'
<1> USE DEF kernVars
<1>1. /\ wevents' = [wevents EXCEPT ![w] = ev]
      /\ UNCHANGED <<fdtab, used, held, kern, active, iofdset, stale, fed, events, emask, egen, left,
                     eperms, postfork, phase>>
      /\ w \in active => FdChange(FdOf[w], {})
      /\ w \notin active => UNCHANGED <<reify, fdchanges>>
  BY DEF Modify
<1>2. TypeOK /\ ChangesListed /\ FdOf[w] \in FDs
  BY DEF FdInv, FdAssumption
<1>3. /\ reify' = reify
      /\ fdchanges' \in Seq(FDs) /\ Len(fdchanges) <= Len(fdchanges')
      /\ Changes \subseteq Changes' /\ (w \in active => FdOf[w] \in Changes')
  <2>1. Len(fdchanges) \in Nat /\ reify \in [FDs -> SUBSET {"REIFY", "IOFDSET"}]
    BY <1>2, LenProperties DEF TypeOK
  <2>2. CASE w \in active
    <3>1. FdChange(FdOf[w], {}) /\ {} \in SUBSET {"REIFY", "IOFDSET"}
      BY <2>2, <1>1
    <3>2. /\ reify' \in [FDs -> SUBSET {"REIFY", "IOFDSET"}]
          /\ reify'[FdOf[w]] = reify[FdOf[w]] \cup {}
          /\ \A x \in FDs : x # FdOf[w] => reify'[x] = reify[x]
          /\ fdchanges' \in Seq(FDs) /\ Len(fdchanges) <= Len(fdchanges')
          /\ Changes \subseteq Changes' /\ FdOf[w] \in Changes'
      BY <1>2, <3>1, FdChangeStep
    <3>3. reify' = reify
      BY <2>1, <3>2
    <3> QED
      BY <3>2, <3>3
  <2>3. CASE w \notin active
    BY <2>1, <2>3, <1>1, <1>2 DEF TypeOK, Changes
  <2> QED
    BY <2>2, <2>3
<1>4. TypeOK'
  <2>1. Len(fdchanges) \in Nat /\ Len(fdchanges') \in Nat
    BY <1>2, <1>3, LenProperties DEF TypeOK
  <2>2. left' \in 0..Len(fdchanges')
    BY <1>1, <1>2, <1>3, <2>1 DEF TypeOK
  <2>3. wevents' \in [Watchers -> Masks]
    BY <1>1, <1>2 DEF TypeOK
  <2> QED
    BY <1>1, <1>2, <1>3, <2>2, <2>3 DEF TypeOK
<1>5. \A fd \in FDs : On(fd)' = On(fd)
  BY <1>1 DEF On
<1>6. \A fd \in FDs : fd # FdOf[w] \/ w \notin active => Wanted(fd)' = Wanted(fd)
  <2>1. \A v \in Watchers : v # w => wevents'[v] = wevents[v]
    BY <1>1, <1>2 DEF TypeOK
  <2>2. \A fd \in FDs : fd # FdOf[w] \/ w \notin active => \A v \in On(fd) : wevents'[v] = wevents[v]
    BY <1>2, <2>1 DEF On, TypeOK
  <2> QED
    BY <1>5, <2>2 DEF Wanted
<1>7. ChangesListed'
  BY <1>1, <1>2, <1>3, <1>6 DEF ChangesListed
<1>8. Flagged'
  BY <1>1, <1>3, <1>5 DEF FdInv, Flagged
<1>9. WatchedOpen'
  BY <1>1 DEF FdInv, WatchedOpen
<1>10. \A fd \in FDs : Unarmed(fd) => Unarmed(fd)'
  BY <1>1, <1>3, <1>5 DEF Unarmed, NextIsSet
<1> QED
  BY <1>1, <1>2, <1>4, <1>7, <1>8, <1>9, <1>10, KernKept, ArmsKept DEF FdInv

\* A step that only feeds watchers, moves between the phases or asks for a fork.
LEMMA QuietStep ==
    ASSUME FdInv,
           UNCHANGED <<fdtab, used, held, kern, active, wevents, iofdset, stale, events, reify,
                       emask, egen, fdchanges, eperms>>,
           fed' \in [Watchers -> SUBSET (RW \cup {"ERROR"})],
           left' \in 0..Len(fdchanges), phase' \in {"app", "reify", "poll"},
           postfork' \in BOOLEAN, postfork => postfork'
    PROVE  FdInv'
<1>1. TypeOK /\ TypeOK'
  BY DEF FdInv, TypeOK
<1>2. \A fd \in FDs : On(fd)' = On(fd) /\ Wanted(fd)' = Wanted(fd)
  BY DEF On, Wanted
<1>3. Changes' = Changes
  BY DEF Changes
<1>4. ChangesListed' /\ Flagged'
  BY <1>2, <1>3 DEF FdInv, ChangesListed, Flagged
<1>5. WatchedOpen'
  BY DEF FdInv, WatchedOpen
<1>6. \A fd \in FDs : Unarmed(fd) => Unarmed(fd)'
  BY <1>2 DEF Unarmed, NextIsSet
<1> QED
  BY <1>1, <1>4, <1>5, <1>6, KernKept, ArmsKept DEF FdInv

-----------------------------------------------------------------------------
(* The process.                                                            *)

LEMMA OpenStep ==
    ASSUME FdAssumption, FdInv, NEW fd \in FDs, NEW f \in Files, Open(fd, f)
    PROVE  FdInv'
<1> USE DEF watchVars
<1>1. /\ fdtab[fd] = NoFile /\ f \notin used /\ f # NoFile
      /\ fdtab' = [fdtab EXCEPT ![fd] = f] /\ used' = used \cup {f}
      /\ UNCHANGED <<held, kern, active, wevents, iofdset, stale, fed, events, reify, emask, egen,
                     fdchanges, left, eperms, postfork, phase>>
  BY DEF Open, FdAssumption
<1>2. TypeOK /\ FilesOnce
  BY DEF FdInv
<1>3. fdtab'[fd] = f /\ \A x \in FDs : x # fd => fdtab'[x] = fdtab[x]
  BY <1>1, <1>2 DEF TypeOK
<1>4. TypeOK'
  <2>1. fdtab' \in [FDs -> Files \cup {NoFile}] /\ used' \in SUBSET Files
    BY <1>1, <1>2 DEF TypeOK
  <2> QED
    BY <1>1, <1>2, <2>1 DEF TypeOK
<1>5. \A x \in FDs : On(x)' = On(x) /\ Wanted(x)' = Wanted(x)
  BY <1>1 DEF On, Wanted
<1>6. ChangesListed' /\ Flagged'
  <2>1. Changes' = Changes
    BY <1>1 DEF Changes
  <2> QED
    BY <1>1, <1>5, <2>1 DEF FdInv, ChangesListed, Flagged
<1>7. WatchedOpen'
  <2>1. \A w \in active : FdOf[w] \in FDs
    BY <1>2 DEF FdAssumption, TypeOK
  <2> QED
    BY <1>1, <1>3, <2>1 DEF FdInv, WatchedOpen
<1>8. FilesOnce'
  <2>1. \A x \in FDs : fdtab'[x] # NoFile => fdtab'[x] \in used' \ held
    BY <1>1, <1>2, <1>3 DEF FilesOnce
  <2>2. \A x, y \in FDs : fdtab'[x] = fdtab'[y] /\ fdtab'[x] # NoFile => x = y
    BY <1>1, <1>2, <1>3 DEF FilesOnce
  <2> QED
    BY <1>1, <1>2, <2>1, <2>2 DEF FilesOnce
<1>9. \A e \in kern : e.fd \in FDs /\ e.file # f /\ e.file # NoFile
  BY <1>1, <1>2 DEF FdInv, TypeOK, KernSound, FdAssumption
<1>10. KernSound'
  BY <1>1 DEF FdInv, KernSound
<1>11. CurrentNewest'
  BY <1>1, <1>3, <1>9 DEF FdInv, CurrentNewest
<1>12. EpermListed'
  BY <1>1 DEF FdInv, EpermListed
<1>13. \A x \in FDs : Unarmed(x)' <=> Unarmed(x)
  BY <1>1, <1>5 DEF Unarmed, NextIsSet
<1>14. OldUnarmed'
  BY <1>1, <1>3, <1>9, <1>13 DEF FdInv, OldUnarmed
<1>15. ArmedServed'
  <2>1. ~ Served(fd)
    <3>1. fdtab[fd] \notin EpermFiles
      BY <1>1 DEF FdAssumption
    <3>2. Entry(fd, events[fd], egen[fd]).file = NoFile
      BY <1>1 DEF Entry
    <3> QED
      BY <1>9, <3>1, <3>2 DEF Served
  <2>2. \A x \in FDs : x # fd => (Served(x)' <=> Served(x))
    BY <1>1, <1>3 DEF Served, Entry
  <2> QED
    BY <1>1, <1>13, <2>1, <2>2 DEF FdInv, ArmedServed
<1> QED
  BY <1>4, <1>6, <1>7, <1>8, <1>10, <1>11, <1>12, <1>14, <1>15 DEF FdInv

\* The kernel forgets the file unless a child still holds it; either way nobody hears of
\* the number until the next ev_io_set.
LEMMA CloseStep ==
    ASSUME FdAssumption, FdInv, NEW fd \in FDs, NEW child \in BOOLEAN, Close(fd, child)
    PROVE  FdInv'
<1>1. /\ fdtab[fd] # NoFile /\ On(fd) = {} /\ fdtab' = [fdtab EXCEPT ![fd] = NoFile]
      /\ stale' = stale \cup {w \in Watchers : FdOf[w] = fd}
      /\ held' \in {held, held \cup {fdtab[fd]}} /\ kern' \subseteq kern
      /\ \A e \in kern : e.file # fdtab[fd] => e \in kern'
      /\ UNCHANGED <<used, active, wevents, iofdset, fed, events, reify, emask, egen, fdchanges,
                     left, eperms, postfork, phase>>
  BY DEF Close
<1>2. TypeOK /\ FilesOnce
  BY DEF FdInv
<1>3. fdtab'[fd] = NoFile /\ \A x \in FDs : x # fd => fdtab'[x] = fdtab[x]
  BY <1>1, <1>2 DEF TypeOK
<1>4. fdtab[fd] \in used \ held /\ fdtab[fd] \in Files
  BY <1>1, <1>2 DEF FilesOnce, TypeOK
<1>5. TypeOK'
  <2>1. fdtab' \in [FDs -> Files \cup {NoFile}] /\ held' \in SUBSET Files /\ stale' \in SUBSET Watchers
    BY <1>1, <1>2, <1>4 DEF TypeOK
  <2>2. kern' \in SUBSET Entries
    BY <1>1, <1>2 DEF TypeOK, Entries
  <2> QED
    BY <1>1, <1>2, <2>1, <2>2 DEF TypeOK, Entries
<1>6. \A x \in FDs : On(x)' = On(x) /\ Wanted(x)' = Wanted(x)
  BY <1>1 DEF On, Wanted
<1>7. ChangesListed' /\ Flagged'
  <2>1. Changes' = Changes
    BY <1>1 DEF Changes
  <2> QED
    BY <1>1, <1>6, <2>1 DEF FdInv, ChangesListed, Flagged
<1>8. WatchedOpen'
  <2>1. \A w \in active : FdOf[w] \in FDs /\ FdOf[w] # fd
    BY <1>1, <1>2 DEF FdAssumption, TypeOK, On
  <2> QED
    BY <1>1, <1>3, <2>1 DEF FdInv, WatchedOpen
<1>9. FilesOnce'
  <2>1. \A x \in FDs : fdtab'[x] # NoFile => fdtab'[x] \in used' \ held'
    BY <1>1, <1>2, <1>3 DEF FilesOnce
  <2>2. \A x, y \in FDs : fdtab'[x] = fdtab'[y] /\ fdtab'[x] # NoFile => x = y
    BY <1>1, <1>2, <1>3 DEF FilesOnce
  <2>3. held' \subseteq used'
    BY <1>1, <1>2, <1>4 DEF FilesOnce
  <2> QED
    BY <2>1, <2>2, <2>3 DEF FilesOnce
<1>10. \A e \in kern : e.fd \in FDs /\ e.file # NoFile
  BY <1>2 DEF FdAssumption, TypeOK
<1>11. KernSound'
  BY <1>1 DEF FdInv, KernSound
<1>12. CurrentNewest'
  <2>1. ASSUME NEW e \in kern', e.file = fdtab'[e.fd]
        PROVE  e.file = fdtab[e.fd]
    BY <2>1, <1>1, <1>3, <1>10
  <2> QED
    BY <1>1, <2>1 DEF FdInv, CurrentNewest
<1>13. EpermListed'
  BY <1>1 DEF FdInv, EpermListed
<1>14. \A x \in FDs : Unarmed(x) => Unarmed(x)'
  BY <1>1, <1>6 DEF Unarmed, NextIsSet
<1>15. Unarmed(fd)'
  BY <1>1, <1>6 DEF Unarmed, NextIsSet
<1>16. OldUnarmed'
  <2>1. SUFFICES ASSUME NEW e \in kern', e.file # fdtab'[e.fd], e.gen = egen'[e.fd]
                 PROVE  Unarmed(e.fd)'
    BY DEF OldUnarmed
  <2>2. CASE e.fd = fd
    BY <1>15, <2>2
  <2>3. CASE e.fd # fd
    <3>1. e \in kern /\ e.fd \in FDs /\ e.file # fdtab[e.fd] /\ e.gen = egen[e.fd]
      BY <1>1, <1>3, <1>10, <2>1, <2>3
    <3>2. Unarmed(e.fd)
      BY <3>1 DEF FdInv, OldUnarmed
    <3> QED
      BY <3>1, <3>2, <1>14
  <2> QED
    BY <2>2, <2>3
<1>17. ArmedServed'
  <2>1. ASSUME NEW x \in FDs, x # fd, Served(x)
        PROVE  Served(x)'
    <3>1. CASE fdtab[x] \in EpermFiles
      BY <2>1, <3>1, <1>1, <1>3 DEF Served
    <3>2. CASE fdtab[x] \notin EpermFiles
      <4>1. PICK e \in kern : e = Entry(x, events[x], egen[x])
        BY <2>1, <3>2 DEF Served
      <4>2. e.file = fdtab[x] /\ e.fd = x
        BY <4>1 DEF Entry
      <4>3. fdtab[x] # fdtab[fd]
        BY <2>1, <1>1, <1>2 DEF FilesOnce
      <4>4. e \in kern'
        BY <4>2, <4>3, <1>1
      <4>5. fdtab'[x] = fdtab[x] /\ Entry(x, events[x], egen[x])' = e
        BY <2>1, <4>1, <1>1, <1>3 DEF Entry
      <4> QED
        BY <3>2, <4>4, <4>5, <1>1 DEF Served, Entry
    <3> QED
      BY <3>1, <3>2
  <2> QED
    BY <1>1, <1>14, <1>15, <2>1 DEF FdInv, ArmedServed
<1> QED
  BY <1>5, <1>7, <1>8, <1>9, <1>11, <1>12, <1>13, <1>16, <1>17 DEF FdInv

LEMMA ChildClosesStep ==
    ASSUME FdAssumption, FdInv, NEW f \in Files, ChildCloses(f)
    PROVE  FdInv'
<1> USE DEF watchVars
<1>1. /\ f \in held /\ held' = held \ {f} /\ kern' = {e \in kern : e.file # f}
      /\ UNCHANGED <<fdtab, used, active, wevents, iofdset, stale, fed, events, reify, emask, egen,
                     fdchanges, left, eperms, postfork, phase>>
  BY DEF ChildCloses
<1>2. TypeOK /\ FilesOnce
  BY DEF FdInv
<1>3. TypeOK'
  <2>1. kern' \in SUBSET Entries /\ held' \in SUBSET Files
    BY <1>1, <1>2 DEF TypeOK, Entries
  <2> QED
    BY <1>1, <1>2, <2>1 DEF TypeOK, Entries
<1>4. \A x \in FDs : On(x)' = On(x) /\ Wanted(x)' = Wanted(x)
  BY <1>1 DEF On, Wanted
<1>5. ChangesListed' /\ Flagged'
  <2>1. Changes' = Changes
    BY <1>1 DEF Changes
  <2> QED
    BY <1>1, <1>4, <2>1 DEF FdInv, ChangesListed, Flagged
<1>6. WatchedOpen' /\ FilesOnce' /\ EpermListed'
  BY <1>1 DEF FdInv, WatchedOpen, FilesOnce, EpermListed
<1>7. KernSound' /\ CurrentNewest'
  BY <1>1 DEF FdInv, KernSound, CurrentNewest
<1>8. \A x \in FDs : Unarmed(x)' <=> Unarmed(x)
  BY <1>1, <1>4 DEF Unarmed, NextIsSet
<1>9. OldUnarmed'
  <2>1. \A e \in kern' : e \in kern /\ e.fd \in FDs
    BY <1>1, <1>2 DEF TypeOK
  <2> QED
    BY <1>1, <1>8, <2>1 DEF FdInv, OldUnarmed
<1>10. ArmedServed'
  <2>1. ASSUME NEW x \in FDs, Served(x), fdtab[x] \notin EpermFiles
        PROVE  Served(x)'
    <3>1. PICK e \in kern : e = Entry(x, events[x], egen[x])
      BY <2>1 DEF Served
    <3>2. e.file = fdtab[x]
      BY <3>1 DEF Entry
    <3>3. fdtab[x] # f
      <4>1. e.file \in Files
        BY <1>2 DEF TypeOK
      <4>2. fdtab[x] # NoFile
        BY <3>2, <4>1 DEF FdAssumption
      <4> QED
        BY <4>2, <1>1, <1>2 DEF FilesOnce
    <3>4. e \in kern'
      BY <3>1, <3>2, <3>3, <1>1
    <3> QED
      BY <2>1, <3>1, <3>4, <1>1 DEF Served, Entry
  <2>2. ASSUME NEW x \in FDs, Served(x), fdtab[x] \in EpermFiles
        PROVE  Served(x)'
    BY <2>2, <1>1 DEF Served
  <2> QED
    BY <1>1, <1>8, <2>1, <2>2 DEF FdInv, ArmedServed
<1> QED
  BY <1>3, <1>5, <1>6, <1>7, <1>9, <1>10 DEF FdInv

-----------------------------------------------------------------------------
(* The pass.                                                               *)

\* epoll_fork: a new epoll set, and fd_rearm_all lists every armed descriptor.
LEMMA EpollForkStep ==
    ASSUME FdAssumption, FdInv, EpollFork
    PROVE  FdInv'
<1> USE DEF kernVars, watchVars
<1>1. TypeOK /\ ChangesListed /\ FilesOnce
  BY DEF FdInv
<1>2. PICK armed \in SUBSET FDs : armed = {fd \in FDs : events[fd] # {}}
  OBVIOUS
<1>3. PICK new \in SUBSET FDs : new = {fd \in armed : reify[fd] = {}}
  OBVIOUS
<1>4. /\ kern' = {} /\ postfork' = FALSE /\ phase' = "reify" /\ left' = Len(fdchanges')
      /\ UNCHANGED <<fdtab, used, held, active, wevents, iofdset, stale, fed, egen, eperms>>
  BY DEF EpollFork
<1>5. /\ events' = [fd \in FDs |-> {}]
      /\ emask' = [fd \in FDs |-> IF fd \in armed THEN {} ELSE emask[fd]]
      /\ reify' = [fd \in FDs |-> IF fd \in armed THEN {"REIFY", "IOFDSET"} ELSE reify[fd]]
      /\ fdchanges' = fdchanges \o Ascending(new)
  BY <1>2, <1>3 DEF EpollFork, FdRearmAll
<1>6. fdchanges' \in Seq(FDs) /\ Changes' = Changes \cup new
  <2>1. fdchanges \in Seq(FDs)
    BY <1>1 DEF TypeOK
  <2>2. Ascending(new) \in Seq(FDs) /\ Elems(Ascending(new)) = new
    BY AscendingElems
  <2> QED
    BY <2>1, <2>2, <1>5, ElemsConcat, ChangesAre, ChangesAreNext
<1>7. TypeOK'
  <2>1. left' \in 0..Len(fdchanges')
    BY <1>4, <1>6, LenProperties
  <2>2. events' \in [FDs -> Masks] /\ reify' \in [FDs -> SUBSET {"REIFY", "IOFDSET"}]
    BY <1>1, <1>5 DEF TypeOK, Masks
  <2>3. emask' \in [FDs -> Masks \cup {EPERM}]
    <3>1. {} \in Masks
      BY DEF Masks
    <3> QED
      BY <1>1, <1>5, <3>1 DEF TypeOK
  <2> QED
    BY <1>1, <1>4, <1>6, <2>1, <2>2, <2>3 DEF TypeOK
<1>8. ChangesListed'
  <2>1. SUFFICES ASSUME NEW fd \in FDs, Wanted(fd)' # events'[fd] \/ reify'[fd] # {}
                 PROVE  fd \in Changes'
    BY DEF ChangesListed
  <2>2. Wanted(fd)' = Wanted(fd)
    BY <1>4 DEF Wanted, On
  <2>3. CASE fd \in armed
    BY <1>1, <1>3, <1>6, <2>3 DEF ChangesListed
  <2>4. CASE fd \notin armed
    BY <1>1, <1>2, <1>5, <1>6, <2>1, <2>2, <2>4 DEF ChangesListed
  <2> QED
    BY <2>3, <2>4
<1>9. FilesOnce' /\ WatchedOpen'
  BY <1>4 DEF FdInv, FilesOnce, WatchedOpen
<1>10. KernSound' /\ CurrentNewest' /\ OldUnarmed'
  BY <1>4 DEF KernSound, CurrentNewest, OldUnarmed
<1>11. EpermListed'
  BY <1>4, <1>5 DEF FdInv, EpermListed, EPERM
<1>12. Flagged' /\ ArmedServed'
  BY <1>5 DEF Flagged, ArmedServed, Unarmed
<1> QED
  BY <1>7, <1>8, <1>9, <1>10, <1>11, <1>12 DEF FdInv

\* One round of fd_reify as far as the table is concerned, whatever epoll_modify does to the
\* kernel: the watchers of fd stay, or fd_kill stops them all.
LEMMA ReifyTable ==
    ASSUME FdAssumption, FdInv, ReifyOne, NEW fd \in FDs, fd = Head(fdchanges),
           kern' \in SUBSET Entries, emask' \in [FDs -> Masks \cup {EPERM}],
           egen' \in [FDs -> Nat], eperms' \in [FDs -> Nat],
           \/ UNCHANGED <<active, fed, stale>>
           \/ On(fd) # {} /\ FdKill(fd)
    PROVE  /\ TypeOK' /\ ChangesListed' /\ Flagged' /\ WatchedOpen' /\ FilesOnce'
           /\ events'[fd] = Wanted(fd)
           /\ \A x \in FDs : x # fd => events'[x] = events[x] /\ reify'[x] = reify[x]
           /\ \A x \in FDs : x # fd => (Unarmed(x) => Unarmed(x)')
<1> USE DEF kernVars
<1>1. TypeOK /\ ChangesListed /\ FilesOnce
  BY DEF FdInv
<1>2. /\ left > 0 /\ left' = left - 1 /\ events' = [events EXCEPT ![fd] = Wanted(fd)]
      /\ reify' = [reify EXCEPT ![fd] = IF active' # active THEN {"REIFY"} ELSE {}]
      /\ fdchanges' = IF active' # active THEN Append(Tail(fdchanges), fd) ELSE Tail(fdchanges)
      /\ UNCHANGED <<fdtab, used, held, wevents, iofdset, postfork, phase>>
  BY DEF ReifyOne
<1>3. fdchanges \in Seq(FDs) /\ fdchanges # <<>> /\ Len(fdchanges) \in Nat
  BY <1>1, <1>2, LenProperties, EmptySeq DEF TypeOK
<1>4. /\ Tail(fdchanges) \in Seq(FDs) /\ Len(Tail(fdchanges)) = Len(fdchanges) - 1
      /\ Elems(fdchanges) = {fd} \cup Elems(Tail(fdchanges))
  BY <1>3, ElemsTail
<1>5. /\ fdchanges' \in Seq(FDs) /\ Len(fdchanges') >= Len(fdchanges) - 1
      /\ \A x \in Changes : x # fd => x \in Changes'
      /\ active' # active => fd \in Changes'
  <2>1. CASE active' # active
    <3>1. fdchanges' = Append(Tail(fdchanges), fd)
      BY <1>2, <2>1
    <3>2. PICK t \in Seq(FDs) : t = Tail(fdchanges)
      BY <1>4
    <3>3. /\ Append(t, fd) \in Seq(FDs) /\ Len(Append(t, fd)) = Len(t) + 1
          /\ Elems(Append(t, fd)) = Elems(t) \cup {fd}
      BY ElemsAppend
    <3>4. Changes = {fd} \cup Elems(t) /\ Changes' = Elems(t) \cup {fd}
      BY <1>4, <3>1, <3>2, <3>3, ChangesAre, ChangesAreNext
    <3>5. fdchanges' \in Seq(FDs) /\ Len(fdchanges') >= Len(fdchanges) - 1
      BY <1>3, <1>4, <3>1, <3>2, <3>3
    <3> QED
      BY <3>4, <3>5
  <2>2. CASE active' = active
    BY <1>2, <1>3, <1>4, <2>2, ChangesAre, ChangesAreNext
  <2> QED
    BY <2>1, <2>2
<1>6. /\ events'[fd] = Wanted(fd) /\ reify'[fd] = IF active' # active THEN {"REIFY"} ELSE {}
      /\ \A x \in FDs : x # fd => events'[x] = events[x] /\ reify'[x] = reify[x]
  BY <1>1, <1>2 DEF TypeOK
<1>7. /\ active' \subseteq active /\ active' \in SUBSET Watchers
      /\ stale \subseteq stale' /\ stale' \in SUBSET Watchers
      /\ fed' \in [Watchers -> SUBSET (RW \cup {"ERROR"})]
      /\ \A x \in FDs : x # fd => On(x)' = On(x)
      /\ active' # active => On(fd)' = {}
  <2>1. CASE UNCHANGED <<active, fed, stale>>
    BY <1>1, <2>1 DEF TypeOK, On
  <2>2. CASE FdKill(fd)
    <3>1. /\ active' = active \ On(fd)
          /\ fed' = [w \in Watchers |-> IF w \in On(fd) THEN {"ERROR"} \cup RW ELSE fed[w]]
          /\ stale' = IF RetryUnset THEN stale ELSE stale \cup {w \in Watchers : FdOf[w] = fd}
      BY <2>2 DEF FdKill
    <3>2. active' \in SUBSET Watchers
      BY <1>1, <3>1 DEF TypeOK
    <3>5. stale \subseteq stale' /\ stale' \in SUBSET Watchers
      <4>1. stale \in SUBSET Watchers
        BY <1>1 DEF TypeOK
      <4>2. CASE RetryUnset
        BY <3>1, <4>1, <4>2
      <4>3. CASE ~ RetryUnset
        BY <3>1, <4>1, <4>3
      <4> QED
        BY <4>2, <4>3
    <3>3. fed' \in [Watchers -> SUBSET (RW \cup {"ERROR"})]
      <4>1. \A w \in Watchers : fed[w] \in SUBSET (RW \cup {"ERROR"})
        BY <1>1 DEF TypeOK
      <4> QED
        BY <3>1, <4>1
    <3>4. On(fd)' = {} /\ \A x \in FDs : x # fd => On(x)' = On(x)
      BY <3>1 DEF On
    <3> QED
      BY <3>1, <3>2, <3>3, <3>4, <3>5
  <2> QED
    BY <2>1, <2>2
<1>8. TypeOK'
  <2>1. left' \in 0..Len(fdchanges')
    BY <1>1, <1>2, <1>3, <1>5, LenProperties DEF TypeOK
  <2>2. Wanted(fd) \in Masks
    BY <1>1 DEF Wanted, On, TypeOK, Masks
  <2>3. events' \in [FDs -> Masks] /\ reify' \in [FDs -> SUBSET {"REIFY", "IOFDSET"}]
    BY <1>1, <1>2, <2>2 DEF TypeOK
  <2> QED
    BY <1>1, <1>2, <1>5, <1>7, <2>1, <2>3 DEF TypeOK, Entries
<1>9. ChangesListed'
  <2>1. SUFFICES ASSUME NEW x \in FDs, Wanted(x)' # events'[x] \/ reify'[x] # {}
                 PROVE  x \in Changes'
    BY DEF ChangesListed
  <2>2. CASE x # fd
    <3>1. Wanted(x)' = Wanted(x)
      BY <1>2, <1>7, <2>2 DEF Wanted
    <3> QED
      BY <1>1, <1>5, <1>6, <2>1, <2>2, <3>1 DEF ChangesListed
  <2>3. CASE x = fd /\ active' = active
    <3>1. Wanted(x)' = Wanted(x)
      BY <1>2, <2>3 DEF Wanted, On
    <3> QED
      BY <1>6, <2>1, <2>3, <3>1
  <2>4. CASE x = fd /\ active' # active
    BY <1>5, <2>4
  <2> QED
    BY <2>2, <2>3, <2>4
<1>10. Flagged'
  <2>1. SUFFICES ASSUME NEW x \in FDs, On(x)' = {}, events'[x] # {}
                 PROVE  reify'[x] # {}
    BY DEF Flagged
  <2>2. CASE x # fd
    BY <1>6, <1>7, <2>1, <2>2 DEF FdInv, Flagged
  <2>3. CASE x = fd /\ active' = active
    <3>1. On(fd) = {}
      BY <2>1, <2>3 DEF On
    <3>2. Wanted(fd) = {}
      BY <3>1 DEF Wanted
    <3> QED
      BY <1>6, <2>1, <2>3, <3>2
  <2>4. CASE x = fd /\ active' # active
    BY <1>6, <2>4
  <2> QED
    BY <2>2, <2>3, <2>4
<1>11. WatchedOpen' /\ FilesOnce'
  BY <1>2, <1>7 DEF FdInv, WatchedOpen, FilesOnce
<1>12. \A x \in FDs : x # fd => (Unarmed(x) => Unarmed(x)')
  BY <1>2, <1>6, <1>7 DEF Unarmed, NextIsSet
<1> QED
  BY <1>6, <1>8, <1>9, <1>10, <1>11, <1>12

\* A step that changes the kernel's registration of fd's open file and nothing else there.
OthersKept(fd) ==
    /\ UNCHANGED <<fdtab, used, postfork>>
    /\ \A e \in kern : e.fd # fd \/ e.file # fdtab[fd] => e \in kern'
    /\ \A e \in kern' : e \in kern \/ (e.fd = fd /\ e.file = fdtab[fd])
    /\ \A x \in FDs : x # fd => /\ events'[x] = events[x] /\ emask'[x] = emask[x]
                                /\ egen'[x] = egen[x] /\ eperms'[x] = eperms[x]
                                /\ (Unarmed(x) => Unarmed(x)')

\* What such a step must make of fd itself.
MovesSound(fd) ==
    /\ egen[fd] <= egen'[fd]
    /\ \A e \in kern' : e.fd = fd /\ e.file = fdtab[fd] =>
         /\ e.file \in used \ EpermFiles /\ e.gen = egen'[fd]
         /\ e.mask = emask'[fd] \/ emask'[fd] = {}
         /\ e \in kern \/ egen[fd] < egen'[fd]
            \/ \E x \in kern : x.fd = fd /\ x.file = fdtab[fd] /\ x.gen = e.gen
    /\ emask'[fd] = EPERM => eperms'[fd] > 0
    /\ (\E e \in kern' : e.fd = fd /\ e.file # fdtab[fd] /\ e.gen = egen'[fd]) => Unarmed(fd)'
    /\ postfork \/ Unarmed(fd)' \/ Served(fd)'

LEMMA KernMoves ==
    ASSUME FdAssumption, FdInv, NEW fd \in FDs, TypeOK', OthersKept(fd), MovesSound(fd)
    PROVE  KernSound' /\ CurrentNewest' /\ EpermListed' /\ OldUnarmed' /\ ArmedServed'
<1>0. /\ UNCHANGED <<fdtab, used, postfork>>
      /\ \A e \in kern : e.fd # fd \/ e.file # fdtab[fd] => e \in kern'
      /\ \A e \in kern' : e \in kern \/ (e.fd = fd /\ e.file = fdtab[fd])
      /\ \A x \in FDs : x # fd => /\ events'[x] = events[x] /\ emask'[x] = emask[x]
                                  /\ egen'[x] = egen[x] /\ eperms'[x] = eperms[x]
                                  /\ (Unarmed(x) => Unarmed(x)')
      /\ egen[fd] <= egen'[fd]
      /\ \A e \in kern' : e.fd = fd /\ e.file = fdtab[fd] =>
           /\ e.file \in used \ EpermFiles /\ e.gen = egen'[fd]
           /\ e.mask = emask'[fd] \/ emask'[fd] = {}
           /\ e \in kern \/ egen[fd] < egen'[fd]
              \/ \E x \in kern : x.fd = fd /\ x.file = fdtab[fd] /\ x.gen = e.gen
      /\ emask'[fd] = EPERM => eperms'[fd] > 0
      /\ (\E e \in kern' : e.fd = fd /\ e.file # fdtab[fd] /\ e.gen = egen'[fd]) => Unarmed(fd)'
      /\ postfork \/ Unarmed(fd)' \/ Served(fd)'
  BY DEF OthersKept, MovesSound
<1> USE <1>0
<1>1. TypeOK /\ KernSound /\ CurrentNewest /\ EpermListed /\ OldUnarmed /\ ArmedServed
  BY DEF FdInv
<1>2. \A e \in kern : e.fd \in FDs /\ e.gen \in Nat
  BY <1>1 DEF TypeOK
<1>3. \A e \in kern' : e.fd \in FDs /\ e.gen \in Nat
  BY DEF TypeOK
<1>4. \A x \in FDs : egen[x] \in Nat /\ egen'[x] \in Nat
  BY <1>1 DEF TypeOK
<1>5. KernSound'
  <2>1. SUFFICES ASSUME NEW e \in kern'
                 PROVE  /\ e.file \in used \ EpermFiles
                        /\ e.gen <= egen'[e.fd]
                        /\ \A x \in kern' : x.fd = e.fd /\ x.gen = e.gen => x.file = e.file
    BY DEF KernSound
  <2>2. e.file \in used \ EpermFiles
    BY <1>1 DEF KernSound
  <2>3. e.gen <= egen'[e.fd]
    BY <1>1, <1>2, <1>3, <1>4 DEF KernSound
  <2>4. ASSUME NEW x \in kern', x.fd = e.fd, x.gen = e.gen
        PROVE  x.file = e.file
    <3>1. CASE x \in kern /\ e \in kern
      BY <1>1, <2>4, <3>1 DEF KernSound
    <3>2. CASE x \notin kern /\ e \notin kern
      BY <3>2
    <3>3. CASE x \notin kern /\ e \in kern
      <4>1. x.fd = fd /\ x.file = fdtab[fd] /\ x.gen = egen'[fd] /\ e.fd = fd
        BY <2>4, <3>3
      <4>2. CASE egen[fd] < egen'[fd]
        <5>1. e.gen <= egen[fd]
          BY <1>1, <3>3, <4>1 DEF KernSound
        <5> QED
          BY <1>2, <1>4, <2>4, <3>3, <4>1, <4>2, <5>1
      <4>3. CASE \E c \in kern : c.fd = fd /\ c.file = fdtab[fd] /\ c.gen = x.gen
        BY <1>1, <2>4, <3>3, <4>1, <4>3 DEF KernSound
      <4> QED
        BY <3>3, <4>1, <4>2, <4>3
    <3>4. CASE e \notin kern /\ x \in kern
      <4>1. e.fd = fd /\ e.file = fdtab[fd] /\ e.gen = egen'[fd] /\ x.fd = fd
        BY <2>4, <3>4
      <4>2. CASE egen[fd] < egen'[fd]
        <5>1. x.gen <= egen[fd]
          BY <1>1, <3>4, <4>1 DEF KernSound
        <5> QED
          BY <1>2, <1>4, <2>4, <3>4, <4>1, <4>2, <5>1
      <4>3. CASE \E c \in kern : c.fd = fd /\ c.file = fdtab[fd] /\ c.gen = e.gen
        BY <1>1, <2>4, <3>4, <4>1, <4>3 DEF KernSound
      <4> QED
        BY <3>4, <4>1, <4>2, <4>3
    <3> QED
      BY <3>1, <3>2, <3>3, <3>4
  <2> QED
    BY <2>2, <2>3, <2>4
<1>6. CurrentNewest'
  <2>1. SUFFICES ASSUME NEW e \in kern', e.file = fdtab[e.fd]
                 PROVE  e.gen = egen'[e.fd] /\ (e.mask = emask'[e.fd] \/ emask'[e.fd] = {})
    BY DEF CurrentNewest
  <2>2. CASE e.fd = fd
    BY <2>1, <2>2
  <2>3. CASE e.fd # fd
    BY <1>1, <1>3, <2>1, <2>3 DEF CurrentNewest
  <2> QED
    BY <2>2, <2>3
<1>7. EpermListed'
  BY <1>1 DEF EpermListed
<1>8. OldUnarmed'
  <2>1. SUFFICES ASSUME NEW e \in kern', e.file # fdtab[e.fd], e.gen = egen'[e.fd]
                 PROVE  Unarmed(e.fd)'
    BY DEF OldUnarmed
  <2>2. CASE e.fd = fd
    BY <2>1, <2>2
  <2>3. CASE e.fd # fd
    <3>1. e \in kern /\ e.fd \in FDs /\ e.gen = egen[e.fd]
      BY <1>3, <2>1, <2>3
    <3>2. Unarmed(e.fd)
      BY <1>1, <2>1, <3>1 DEF OldUnarmed
    <3> QED
      BY <2>3, <3>1, <3>2
  <2> QED
    BY <2>2, <2>3
<1>9. ArmedServed'
  <2>1. ASSUME NEW x \in FDs, x # fd, Served(x)
        PROVE  Served(x)'
    <3>1. CASE fdtab[x] \in EpermFiles
      BY <2>1, <3>1 DEF Served
    <3>2. CASE fdtab[x] \notin EpermFiles
      <4>1. PICK e \in kern : e = Entry(x, events[x], egen[x])
        BY <2>1, <3>2 DEF Served
      <4>2. e.fd = x /\ e \in kern'
        BY <2>1, <4>1 DEF Entry
      <4>3. Entry(x, events[x], egen[x])' = e
        BY <2>1, <4>1 DEF Entry
      <4> QED
        BY <3>2, <4>2, <4>3 DEF Served
    <3> QED
      BY <3>1, <3>2
  <2> QED
    BY <1>1, <2>1 DEF ArmedServed
<1> QED
  BY <1>5, <1>6, <1>7, <1>8, <1>9

\* The case that epoll_modify does nothing.
LEMMA KernStill ==
    ASSUME FdAssumption, FdInv, NEW fd \in FDs, TypeOK',
           UNCHANGED <<fdtab, used, postfork, kern, emask, egen, eperms>>,
           \A x \in FDs : x # fd => events'[x] = events[x] /\ (Unarmed(x) => Unarmed(x)'),
           Unarmed(fd)' \/ ~ \E e \in kern : e.fd = fd /\ e.file # fdtab[fd] /\ e.gen = egen[fd],
           postfork \/ Unarmed(fd)' \/ Served(fd)'
    PROVE  KernSound' /\ CurrentNewest' /\ EpermListed' /\ OldUnarmed' /\ ArmedServed'
<1>1. TypeOK /\ KernSound /\ CurrentNewest /\ EpermListed
  BY DEF FdInv
<1>2. OthersKept(fd)
  <2>1. /\ UNCHANGED <<fdtab, used, postfork>>
        /\ \A e \in kern : e.fd # fd \/ e.file # fdtab[fd] => e \in kern'
    OBVIOUS
  <2>2. \A e \in kern' : e \in kern \/ (e.fd = fd /\ e.file = fdtab[fd])
    OBVIOUS
  <2>3. \A x \in FDs : x # fd => /\ events'[x] = events[x] /\ emask'[x] = emask[x]
                                 /\ egen'[x] = egen[x] /\ eperms'[x] = eperms[x]
                                 /\ (Unarmed(x) => Unarmed(x)')
    OBVIOUS
  <2> QED
    BY <2>1, <2>2, <2>3 DEF OthersKept
<1>3. egen[fd] <= egen'[fd] /\ (emask'[fd] = EPERM => eperms'[fd] > 0)
  BY <1>1 DEF TypeOK, EpermListed
<1>4. \A e \in kern : e.file \in used \ EpermFiles
  BY <1>1 DEF KernSound
<1>5. \A e \in kern : e.fd = fd /\ e.file = fdtab[fd] =>
        e.gen = egen[fd] /\ (e.mask = emask[fd] \/ emask[fd] = {})
  BY <1>1 DEF CurrentNewest
<1>6. MovesSound(fd)
  BY <1>3, <1>4, <1>5 DEF MovesSound
<1> QED
  BY <1>2, <1>6, KernMoves

LEMMA ReifyOneStep ==
    ASSUME FdAssumption, ~ RetryUnset, FdInv, ReifyOne
    PROVE  FdInv'
<1> USE DEF kernVars
<1>1. /\ TypeOK /\ KernSound /\ CurrentNewest /\ EpermListed /\ OldUnarmed /\ ArmedServed
      /\ FilesOnce /\ WatchedOpen
  BY DEF FdInv
<1>2. fdchanges # <<>> /\ fdchanges \in Seq(FDs)
  BY <1>1, EmptySeq DEF ReifyOne, TypeOK
<1>3. PICK fd \in FDs : fd = Head(fdchanges)
  BY <1>2, ElemsTail
<1>4. PICK nev \in Masks : nev = Wanted(fd)
  <2>1. \A w \in On(fd) : wevents[w] \in SUBSET RW
    BY <1>1 DEF On, TypeOK, Masks
  <2>2. Wanted(fd) \in SUBSET RW
    BY <2>1 DEF Wanted
  <2> QED
    BY <2>2 DEF Masks
<1>5. /\ UNCHANGED <<fdtab, used, held, postfork, wevents, iofdset>>
      /\ \/ /\ "IOFDSET" \in reify[fd] \/ nev # events[fd]
            /\ EpollModify(fd, events[fd], nev)
         \/ /\ ~("IOFDSET" \in reify[fd] \/ nev # events[fd])
            /\ UNCHANGED <<emask, egen, kern, eperms, active, fed, stale>>
  BY <1>3, <1>4 DEF ReifyOne
<1>6. /\ kern \in SUBSET Entries /\ emask \in [FDs -> Masks \cup {EPERM}]
      /\ egen \in [FDs -> Nat] /\ eperms \in [FDs -> Nat]
  BY <1>1 DEF TypeOK, Entries
<1>7. \A e \in kern : e.fd \in FDs /\ e.gen \in Nat /\ e.gen <= egen[e.fd]
                      /\ e.file \in used \ EpermFiles
  <2>1. \A e \in kern : e.fd \in FDs /\ e.gen \in Nat
    BY <1>6 DEF Entries
  <2>2. \A e \in kern : e.gen <= egen[e.fd] /\ e.file \in used \ EpermFiles
    BY <1>1 DEF KernSound
  <2> QED
    BY <2>1, <2>2
\* nothing happens in the kernel
<1>8. CASE /\ UNCHANGED <<emask, egen, kern, eperms, active, fed, stale>>
           /\ \/ nev = {}
              \/ ~("IOFDSET" \in reify[fd]) /\ nev = events[fd]
              \/ nev # {} /\ fdtab[fd] \notin EpermFiles /\ Registered(fd) /\ emask[fd] = nev
  <2>1. /\ TypeOK' /\ ChangesListed' /\ Flagged' /\ WatchedOpen' /\ FilesOnce'
        /\ events'[fd] = nev
        /\ \A x \in FDs : x # fd => events'[x] = events[x] /\ reify'[x] = reify[x]
        /\ \A x \in FDs : x # fd => (Unarmed(x) => Unarmed(x)')
    BY <1>3, <1>4, <1>6, <1>8, ReifyTable
  <2>2. CASE nev = {}
    <3>1. Unarmed(fd)'
      BY <2>1, <2>2 DEF Unarmed
    <3>3. KernSound' /\ CurrentNewest' /\ EpermListed' /\ OldUnarmed' /\ ArmedServed'
      BY <1>5, <1>8, <2>1, <3>1, KernStill
    <3> QED
      BY <2>1, <3>3 DEF FdInv
  <2>3. CASE nev # {} /\ ~("IOFDSET" \in reify[fd]) /\ nev = events[fd]
    <3>1. Unarmed(fd) => Unarmed(fd)'
      <4>1. On(fd)' = On(fd)
        BY <1>8 DEF On
      <4> QED
        BY <1>5, <1>8, <2>3, <4>1 DEF Unarmed, NextIsSet
    <3>2. Served(fd) => Served(fd)'
      BY <1>5, <1>8, <2>1, <2>3 DEF Served, Entry
    <3>3. (\E e \in kern : e.fd = fd /\ e.file # fdtab[fd] /\ e.gen = egen[fd]) => Unarmed(fd)'
      BY <1>1, <3>1 DEF OldUnarmed
    <3>4. postfork \/ Unarmed(fd)' \/ Served(fd)'
      BY <1>1, <3>1, <3>2 DEF ArmedServed
    <3>6. KernSound' /\ CurrentNewest' /\ EpermListed' /\ OldUnarmed' /\ ArmedServed'
      BY <1>5, <1>8, <2>1, <3>3, <3>4, KernStill
    <3> QED
      BY <2>1, <3>6 DEF FdInv
  <2>4. CASE nev # {} /\ fdtab[fd] \notin EpermFiles /\ Registered(fd) /\ emask[fd] = nev
    <3>1. PICK c \in kern : c.fd = fd /\ c.file = fdtab[fd]
      BY <2>4 DEF Registered
    <3>2. c.gen = egen[fd] /\ c.mask = nev
      BY <1>1, <2>4, <3>1 DEF CurrentNewest
    <3>3. c = Entry(fd, nev, egen[fd])
      BY <1>6, <3>1, <3>2 DEF Entry, Entries
    <3>4. Served(fd)'
      BY <1>5, <1>8, <2>1, <2>4, <3>3 DEF Served, Entry
    <3>5. ~ \E e \in kern : e.fd = fd /\ e.file # fdtab[fd] /\ e.gen = egen[fd]
      BY <1>1, <3>1, <3>2 DEF KernSound
    <3>7. KernSound' /\ CurrentNewest' /\ EpermListed' /\ OldUnarmed' /\ ArmedServed'
      BY <1>5, <1>8, <2>1, <3>4, <3>5, KernStill
    <3> QED
      BY <2>1, <3>7 DEF FdInv
  <2> QED
    BY <1>8, <2>2, <2>3, <2>4
\* EPERM
<1>9. CASE ModifyEperm(fd, nev)
  <2>1. /\ nev # {} /\ fdtab[fd] \in EpermFiles
        /\ emask' = [emask EXCEPT ![fd] = EPERM] /\ egen' = [egen EXCEPT ![fd] = @ + 1]
        /\ eperms' = IF emask[fd] = EPERM THEN eperms ELSE [eperms EXCEPT ![fd] = @ + 1]
        /\ UNCHANGED <<kern, active, fed, stale>>
    BY <1>9 DEF ModifyEperm
  <2>2. /\ emask' \in [FDs -> Masks \cup {EPERM}] /\ egen' \in [FDs -> Nat]
        /\ eperms' \in [FDs -> Nat]
    BY <1>6, <2>1
  <2>3. /\ emask'[fd] = EPERM /\ egen'[fd] = egen[fd] + 1
        /\ \A x \in FDs : x # fd => /\ emask'[x] = emask[x] /\ egen'[x] = egen[x]
                                    /\ eperms'[x] = eperms[x]
    BY <1>6, <2>1
  <2>4. eperms'[fd] > 0
    BY <1>1, <1>6, <2>1 DEF EpermListed
  <2>5. /\ TypeOK' /\ ChangesListed' /\ Flagged' /\ WatchedOpen' /\ FilesOnce'
        /\ events'[fd] = nev
        /\ \A x \in FDs : x # fd => events'[x] = events[x] /\ reify'[x] = reify[x]
        /\ \A x \in FDs : x # fd => (Unarmed(x) => Unarmed(x)')
    BY <1>3, <1>4, <1>6, <2>1, <2>2, ReifyTable
  <2>6. Served(fd)'
    BY <1>5, <2>1, <2>3, <2>4 DEF Served
  <2>7. \A e \in kern : e.fd = fd => e.file # fdtab[fd] /\ e.gen # egen'[fd]
    BY <1>6, <1>7, <2>1, <2>3
  <2>8. egen[fd] <= egen'[fd]
    BY <1>6, <2>3
  <2>9. KernSound' /\ CurrentNewest' /\ EpermListed' /\ OldUnarmed' /\ ArmedServed'
    <3>1. OthersKept(fd)
      <4>1. /\ UNCHANGED <<fdtab, used, postfork>>
            /\ \A e \in kern : e.fd # fd \/ e.file # fdtab[fd] => e \in kern'
        BY <1>5, <2>1
      <4>2. \A e \in kern' : e \in kern \/ (e.fd = fd /\ e.file = fdtab[fd])
        BY <2>1
      <4>3. \A x \in FDs : x # fd => /\ events'[x] = events[x] /\ emask'[x] = emask[x]
                                     /\ egen'[x] = egen[x] /\ eperms'[x] = eperms[x]
                                     /\ (Unarmed(x) => Unarmed(x)')
        BY <2>3, <2>5
      <4> QED
        BY <4>1, <4>2, <4>3 DEF OthersKept
    <3>2. MovesSound(fd)
      BY <2>1, <2>4, <2>6, <2>7, <2>8 DEF MovesSound
    <3> QED
      BY <2>5, <3>1, <3>2, KernMoves
  <2> QED
    BY <2>5, <2>9 DEF FdInv
\* a registration is made
<1>10. CASE ModifyDone(fd, events[fd], nev)
  <2>1. /\ nev # {} /\ fdtab[fd] \notin EpermFiles
        /\ emask' = [emask EXCEPT ![fd] = nev] /\ egen' = [egen EXCEPT ![fd] = @ + 1]
        /\ kern' = Register(fd, nev, egen[fd] + 1)
        /\ UNCHANGED <<eperms, active, fed, stale>>
    BY <1>10 DEF ModifyDone
  <2>2. /\ emask' \in [FDs -> Masks \cup {EPERM}] /\ egen' \in [FDs -> Nat]
        /\ egen[fd] \in Nat /\ egen'[fd] = egen[fd] + 1 /\ emask'[fd] = nev
        /\ \A x \in FDs : x # fd => emask'[x] = emask[x] /\ egen'[x] = egen[x]
    BY <1>6, <2>1
  <2>3. fdtab[fd] \in used /\ fdtab[fd] \in Files
    <3>1. PICK w \in active : FdOf[w] = fd
      BY <1>4, <2>1 DEF Wanted, On
    <3>2. fdtab[fd] # NoFile
      BY <1>1, <3>1 DEF WatchedOpen
    <3> QED
      BY <1>1, <3>2 DEF FilesOnce, TypeOK
  <2>4. PICK c : c = Entry(fd, nev, egen[fd] + 1)
    OBVIOUS
  <2>5. c \in Entries /\ c.fd = fd /\ c.file = fdtab[fd] /\ c.mask = nev /\ c.gen = egen[fd] + 1
    BY <2>2, <2>3, <2>4 DEF Entry, Entries
  <2>6. kern' = {e \in kern : ~(e.fd = fd /\ e.file = fdtab[fd])} \cup {c}
    BY <2>1, <2>4 DEF Register, Others
  <2>7. kern' \in SUBSET Entries
    BY <1>6, <2>5, <2>6
  <2>8. /\ TypeOK' /\ ChangesListed' /\ Flagged' /\ WatchedOpen' /\ FilesOnce'
        /\ events'[fd] = nev
        /\ \A x \in FDs : x # fd => events'[x] = events[x] /\ reify'[x] = reify[x]
        /\ \A x \in FDs : x # fd => (Unarmed(x) => Unarmed(x)')
    BY <1>3, <1>4, <1>6, <2>1, <2>2, <2>7, ReifyTable
  <2>9. Served(fd)'
    <3>1. Entry(fd, events[fd], egen[fd])' = c
      BY <1>5, <2>2, <2>4, <2>8 DEF Entry
    <3> QED
      BY <1>5, <2>1, <2>6, <3>1 DEF Served
  <2>10. ~ \E e \in kern' : e.fd = fd /\ e.file # fdtab[fd] /\ e.gen = egen'[fd]
    BY <1>7, <2>2, <2>5, <2>6
  <2>11. \A e \in kern' : e.fd = fd /\ e.file = fdtab[fd] => e = c
    BY <2>6
  <2>12. /\ \A e \in kern : e.fd # fd \/ e.file # fdtab[fd] => e \in kern'
         /\ \A e \in kern' : e \in kern \/ (e.fd = fd /\ e.file = fdtab[fd])
    <3>1. \A e \in kern : e.fd # fd \/ e.file # fdtab[fd] => e \in kern'
      BY <2>6
    <3>2. \A e \in kern' : e \in kern \/ e = c
      BY <2>6
    <3> QED
      BY <3>1, <3>2, <2>5
  <2>13. \A e \in kern' : e.fd = fd /\ e.file = fdtab[fd] =>
           /\ e.file \in used \ EpermFiles /\ e.gen = egen'[fd]
           /\ e.mask = emask'[fd] /\ egen[fd] < egen'[fd]
    BY <2>1, <2>2, <2>3, <2>5, <2>11
  <2>14. emask'[fd] # EPERM /\ egen[fd] <= egen'[fd]
    BY <2>2, EpermNoMask
  <2>15. KernSound' /\ CurrentNewest' /\ EpermListed' /\ OldUnarmed' /\ ArmedServed'
    <3>1. OthersKept(fd)
      BY <1>5, <2>1, <2>2, <2>8, <2>12 DEF OthersKept
    <3>2. MovesSound(fd)
      BY <2>9, <2>10, <2>13, <2>14 DEF MovesSound
    <3> QED
      BY <2>8, <3>1, <3>2, KernMoves
  <2> QED
    BY <2>8, <2>15 DEF FdInv
\* fd_kill
<1>11. CASE ModifyFailed(fd, nev)
  <2>1. /\ nev # {} /\ ~ Registered(fd) /\ emask' = [emask EXCEPT ![fd] = nev]
        /\ FdKill(fd) /\ UNCHANGED <<egen, kern, eperms>>
    BY <1>11 DEF ModifyFailed
  <2>2. /\ emask' \in [FDs -> Masks \cup {EPERM}] /\ emask'[fd] = nev
        /\ \A x \in FDs : x # fd => emask'[x] = emask[x]
    BY <1>6, <2>1
  <2>3. On(fd) # {}
    BY <1>4, <2>1 DEF Wanted
  <2>4. /\ TypeOK' /\ ChangesListed' /\ Flagged' /\ WatchedOpen' /\ FilesOnce'
        /\ events'[fd] = nev
        /\ \A x \in FDs : x # fd => events'[x] = events[x] /\ reify'[x] = reify[x]
        /\ \A x \in FDs : x # fd => (Unarmed(x) => Unarmed(x)')
    BY <1>3, <1>4, <1>6, <2>1, <2>2, <2>3, ReifyTable
  <2>5. Unarmed(fd)'
    <3>1. active' = active \ On(fd) /\ stale' = stale \cup {w \in Watchers : FdOf[w] = fd}
      BY <2>1 DEF FdKill
    <3>2. On(fd)' = {}
      BY <3>1 DEF On
    <3> QED
      BY <3>1, <3>2 DEF Unarmed, NextIsSet
  <2>6. \A e \in kern : ~(e.fd = fd /\ e.file = fdtab[fd])
    BY <2>1 DEF Registered
  <2>7. emask'[fd] # EPERM
    BY <2>2, EpermNoMask
  <2>8. KernSound' /\ CurrentNewest' /\ EpermListed' /\ OldUnarmed' /\ ArmedServed'
    <3>1. OthersKept(fd)
      <4>1. /\ UNCHANGED <<fdtab, used, postfork>>
            /\ \A e \in kern : e.fd # fd \/ e.file # fdtab[fd] => e \in kern'
        BY <1>5, <2>1
      <4>2. \A e \in kern' : e \in kern \/ (e.fd = fd /\ e.file = fdtab[fd])
        BY <2>1
      <4>3. \A x \in FDs : x # fd => /\ events'[x] = events[x] /\ emask'[x] = emask[x]
                                     /\ egen'[x] = egen[x] /\ eperms'[x] = eperms[x]
                                     /\ (Unarmed(x) => Unarmed(x)')
        BY <2>1, <2>2, <2>4
      <4> QED
        BY <4>1, <4>2, <4>3 DEF OthersKept
    <3>2. egen[fd] <= egen'[fd]
      BY <1>6, <2>1
    <3>3. MovesSound(fd)
      BY <2>1, <2>5, <2>6, <2>7, <3>2 DEF MovesSound
    <3> QED
      BY <2>4, <3>1, <3>3, KernMoves
  <2> QED
    BY <2>4, <2>8 DEF FdInv
<1>12. \/ ~("IOFDSET" \in reify[fd]) /\ nev = events[fd]
          /\ UNCHANGED <<emask, egen, kern, eperms, active, fed, stale>>
       \/ nev = {} /\ UNCHANGED <<emask, egen, kern, eperms, active, fed, stale>>
       \/ ModifyEperm(fd, nev) \/ ModifyUnchanged(fd, events[fd], nev)
       \/ ModifyDone(fd, events[fd], nev) \/ ModifyFailed(fd, nev)
  BY <1>5 DEF EpollModify
<1> QED
  BY <1>8, <1>9, <1>10, <1>11, <1>12 DEF ModifyUnchanged

\* The parts of the invariant about the table and the watchers, when only what the loop
\* recorded of the kernel changes and watchers are fed.
LEMMA TableKept ==
    ASSUME FdInv,
           UNCHANGED <<fdtab, used, held, active, wevents, iofdset, stale, events, reify, egen,
                       fdchanges, left>>,
           kern' \in SUBSET Entries, emask' \in [FDs -> Masks \cup {EPERM}],
           eperms' \in [FDs -> Nat], fed' \in [Watchers -> SUBSET (RW \cup {"ERROR"})],
           postfork' \in BOOLEAN, phase' \in {"app", "reify", "poll"}
    PROVE  /\ TypeOK' /\ ChangesListed' /\ Flagged' /\ WatchedOpen' /\ FilesOnce'
           /\ \A fd \in FDs : Unarmed(fd)' <=> Unarmed(fd)
<1>1. TypeOK'
  BY DEF FdInv, TypeOK, Entries
<1>2. \A fd \in FDs : On(fd)' = On(fd) /\ Wanted(fd)' = Wanted(fd)
  BY DEF On, Wanted
<1>3. ChangesListed' /\ Flagged'
  <2>1. Changes' = Changes
    BY DEF Changes
  <2> QED
    BY <1>2, <2>1 DEF FdInv, ChangesListed, Flagged
<1>4. WatchedOpen' /\ FilesOnce'
  BY DEF FdInv, WatchedOpen, FilesOnce
<1>5. \A fd \in FDs : Unarmed(fd)' <=> Unarmed(fd)
  BY <1>2 DEF Unarmed, NextIsSet
<1> QED
  BY <1>1, <1>3, <1>4, <1>5

LEMMA FdEventTyped ==
    ASSUME TypeOK, NEW fd, NEW got \in Masks, FdEvent(fd, got)
    PROVE  fed' \in [Watchers -> SUBSET (RW \cup {"ERROR"})]
<1>1. fed \in [Watchers -> SUBSET (RW \cup {"ERROR"})]
  BY DEF TypeOK
<1>2. CASE reify[fd] # {}
  BY <1>1, <1>2 DEF FdEvent
<1>3. CASE reify[fd] = {}
  <2>1. fed' = [w \in Watchers |-> IF w \in On(fd) THEN fed[w] \cup (wevents[w] \cap got)
                                   ELSE fed[w]]
    BY <1>3 DEF FdEvent
  <2>2. \A w \in Watchers : fed[w] \cup (wevents[w] \cap got) \in SUBSET (RW \cup {"ERROR"})
    BY <1>1 DEF Masks
  <2> QED
    BY <1>1, <2>1, <2>2
<1> QED
  BY <1>2, <1>3

\* epoll_wait reports an entry: it is stale and the backend asks for a new epoll set, or it is
\* the open file's and the registration is corrected.
LEMMA PollEventStep ==
    ASSUME FdAssumption, FdInv, NEW e \in kern, NEW got \in Masks, PollEvent(e, got)
    PROVE  FdInv'
<1> USE DEF kernVars, watchVars
<1>1. /\ TypeOK /\ KernSound /\ CurrentNewest /\ EpermListed /\ OldUnarmed /\ ArmedServed
      /\ FilesOnce
  BY DEF FdInv
<1>2. PICK fd \in FDs : fd = e.fd
  BY <1>1 DEF TypeOK
<1>3. /\ kern \in SUBSET Entries /\ emask \in [FDs -> Masks \cup {EPERM}]
      /\ egen \in [FDs -> Nat] /\ eperms \in [FDs -> Nat] /\ events \in [FDs -> Masks]
      /\ fed \in [Watchers -> SUBSET (RW \cup {"ERROR"})] /\ postfork \in BOOLEAN
      /\ left \in 0..Len(fdchanges) /\ phase \in {"app", "reify", "poll"}
  BY <1>1 DEF TypeOK, Entries
<1>4. UNCHANGED <<fdtab, used, held, active, wevents, iofdset, stale, events, reify, egen, fdchanges,
                  left, eperms, phase>>
  BY DEF PollEvent
<1>5. CASE e.gen # egen[fd] /\ postfork' = TRUE /\ UNCHANGED <<emask, kern, fed>>
  BY <1>3, <1>4, <1>5, QuietStep
<1>6. CASE FdEvent(fd, got) /\ UNCHANGED <<emask, kern, postfork>>
  <2>1. fed' \in [Watchers -> SUBSET (RW \cup {"ERROR"})]
    BY <1>1, <1>6, FdEventTyped
  <2> QED
    BY <1>3, <1>4, <1>6, <2>1, QuietStep
<1>7. CASE /\ emask' = [emask EXCEPT ![fd] = events[fd]] /\ ~ Registered(fd)
           /\ postfork' = TRUE /\ UNCHANGED <<kern, fed>>
  <2>1. /\ emask' \in [FDs -> Masks \cup {EPERM}] /\ emask'[fd] \in Masks
        /\ \A x \in FDs : x # fd => emask'[x] = emask[x]
    BY <1>3, <1>7
  <2>2. /\ TypeOK' /\ ChangesListed' /\ Flagged' /\ WatchedOpen' /\ FilesOnce'
        /\ \A x \in FDs : Unarmed(x)' <=> Unarmed(x)
    BY <1>3, <1>4, <1>7, <2>1, TableKept
  <2>3. KernSound' /\ ArmedServed'
    BY <1>1, <1>4, <1>7 DEF KernSound, ArmedServed
  <2>4. \A x \in kern : x.fd \in FDs
    BY <1>3 DEF Entries
  <2>5. CurrentNewest'
    <3>1. \A x \in kern : x.file = fdtab[x.fd] => x.fd # fd
      BY <1>7 DEF Registered
    <3> QED
      BY <1>1, <1>4, <1>7, <2>1, <2>4, <3>1 DEF CurrentNewest
  <2>6. EpermListed'
    BY <1>1, <1>4, <2>1, EpermNoMask DEF EpermListed
  <2>7. OldUnarmed'
    BY <1>1, <1>4, <1>7, <2>2, <2>4 DEF OldUnarmed
  <2> QED
    BY <2>2, <2>3, <2>5, <2>6, <2>7 DEF FdInv
<1>8. CASE /\ e.gen = egen[fd] /\ Registered(fd)
           /\ emask' = [emask EXCEPT ![fd] = events[fd]]
           /\ kern' = IF events[fd] = {} THEN Others(fd) ELSE Register(fd, events[fd], e.gen)
           /\ FdEvent(fd, got) /\ UNCHANGED postfork
  <2>1. PICK c \in kern : c.fd = fd /\ c.file = fdtab[fd]
    BY <1>8 DEF Registered
  <2>2. c.gen = egen[fd] /\ e.file = fdtab[fd]
    BY <1>1, <1>2, <1>8, <2>1 DEF CurrentNewest, KernSound
  <2>3. fdtab[fd] \in used \ EpermFiles /\ fdtab[fd] \in Files
    <3>1. e.file \in used \ EpermFiles /\ e.file \in Files
      BY <1>1, <1>3 DEF KernSound, Entries
    <3> QED
      BY <2>2, <3>1
  <2>4. /\ emask' \in [FDs -> Masks \cup {EPERM}] /\ emask'[fd] = events[fd]
        /\ emask'[fd] # EPERM /\ egen[fd] \in Nat
        /\ \A x \in FDs : x # fd => emask'[x] = emask[x]
    BY <1>3, <1>8, EpermNoMask
  <2>5. fed' \in [Watchers -> SUBSET (RW \cup {"ERROR"})]
    BY <1>1, <1>8, FdEventTyped
  <2>6. ~ \E x \in kern : x.fd = fd /\ x.file # fdtab[fd] /\ x.gen = egen[fd]
    BY <1>1, <2>1, <2>2 DEF KernSound
  <2>7. PICK n : n = Entry(fd, events[fd], egen[fd])
    OBVIOUS
  <2>8. /\ n \in Entries /\ n.fd = fd /\ n.file = fdtab[fd] /\ n.mask = events[fd]
        /\ n.gen = egen[fd]
    BY <1>3, <2>3, <2>7 DEF Entry, Entries
  <2>9. /\ events[fd] = {} => kern' = {x \in kern : ~(x.fd = fd /\ x.file = fdtab[fd])}
        /\ events[fd] # {} => kern' = {x \in kern : ~(x.fd = fd /\ x.file = fdtab[fd])} \cup {n}
    BY <1>8, <2>7 DEF Register, Others
  <2>10. kern' \in SUBSET Entries
    BY <1>3, <2>8, <2>9
  <2>11. /\ TypeOK' /\ ChangesListed' /\ Flagged' /\ WatchedOpen' /\ FilesOnce'
         /\ \A x \in FDs : Unarmed(x)' <=> Unarmed(x)
    BY <1>3, <1>4, <1>8, <2>4, <2>5, <2>10, TableKept
  <2>12. /\ \A x \in kern : x.fd # fd \/ x.file # fdtab[fd] => x \in kern'
         /\ \A x \in kern' : x \in kern \/ x = n
         /\ \A x \in kern' : x.fd = fd /\ x.file = fdtab[fd] => x = n
    BY <2>9
  <2>13. OthersKept(fd)
    <3>1. \A x \in kern' : x \in kern \/ (x.fd = fd /\ x.file = fdtab[fd])
      BY <2>8, <2>12
    <3>2. \A x \in FDs : x # fd => /\ events'[x] = events[x] /\ emask'[x] = emask[x]
                                   /\ egen'[x] = egen[x] /\ eperms'[x] = eperms[x]
                                   /\ (Unarmed(x) => Unarmed(x)')
      BY <1>4, <2>4, <2>11
    <3> QED
      BY <1>4, <1>8, <2>12, <3>1, <3>2 DEF OthersKept
  <2>14. MovesSound(fd)
    <3>1. egen[fd] <= egen'[fd] /\ egen'[fd] = egen[fd]
      BY <1>4, <2>4
    <3>2. \A x \in kern' : x.fd = fd /\ x.file = fdtab[fd] =>
            /\ x.file \in used \ EpermFiles /\ x.gen = egen'[fd] /\ x.mask = emask'[fd]
            /\ c.fd = fd /\ c.file = fdtab[fd] /\ c.gen = x.gen
      BY <2>1, <2>2, <2>3, <2>4, <2>8, <2>12, <3>1
    <3>3. ~ \E x \in kern' : x.fd = fd /\ x.file # fdtab[fd] /\ x.gen = egen'[fd]
      BY <2>6, <2>8, <2>12, <3>1
    <3>4. Unarmed(fd)' \/ Served(fd)'
      <4>1. CASE events[fd] = {}
        BY <1>4, <4>1 DEF Unarmed
      <4>2. CASE events[fd] # {}
        <5>1. Entry(fd, events[fd], egen[fd])' = n
          BY <1>4, <2>7 DEF Entry
        <5> QED
          BY <1>4, <2>3, <2>9, <4>2, <5>1 DEF Served
      <4> QED
        BY <4>1, <4>2
    <3> QED
      BY <2>4, <3>1, <3>2, <3>3, <3>4 DEF MovesSound
  <2>15. KernSound' /\ CurrentNewest' /\ EpermListed' /\ OldUnarmed' /\ ArmedServed'
    BY <2>11, <2>13, <2>14, KernMoves
  <2> QED
    BY <2>11, <2>15 DEF FdInv
<1> QED
  BY <1>2, <1>5, <1>6, <1>7, <1>8 DEF PollEvent

\* The end of epoll_poll: a descriptor that leaves epoll_eperms has no events, or its mask
\* says it was registered again.
LEMMA EndPollStep ==
    ASSUME FdAssumption, FdInv, EndPoll
    PROVE  FdInv'
<1> USE DEF kernVars, watchVars
<1>1. /\ TypeOK /\ KernSound /\ CurrentNewest /\ EpermListed /\ OldUnarmed /\ ArmedServed
  BY DEF FdInv
<1>2. PICK listed \in SUBSET FDs : listed = {fd \in FDs : eperms[fd] > 0}
  OBVIOUS
<1>3. PICK still \in SUBSET FDs : still = {fd \in listed : emask[fd] = EPERM /\ events[fd] # {}}
  OBVIOUS
<1>4. /\ eperms' = [fd \in FDs |-> IF fd \in still THEN eperms[fd] ELSE 0]
      /\ emask' = [fd \in FDs |-> IF fd \in listed \ still THEN {} ELSE emask[fd]]
      /\ fed' = [w \in Watchers |->
                   IF w \in active /\ FdOf[w] \in still /\ reify[FdOf[w]] = {}
                   THEN fed[w] \cup (wevents[w] \cap events[FdOf[w]]) ELSE fed[w]]
      /\ phase' = "app"
      /\ UNCHANGED <<fdtab, used, held, kern, active, wevents, iofdset, stale, events, reify, egen,
                     fdchanges, left, postfork>>
  BY <1>2, <1>3 DEF EndPoll
<1>5. /\ kern \in SUBSET Entries /\ emask \in [FDs -> Masks \cup {EPERM}]
      /\ eperms \in [FDs -> Nat] /\ postfork \in BOOLEAN
      /\ fed \in [Watchers -> SUBSET (RW \cup {"ERROR"})] /\ wevents \in [Watchers -> Masks]
  BY <1>1 DEF TypeOK, Entries
<1>6. {} \in Masks /\ {} # EPERM
  BY DEF Masks, EPERM
<1>7. emask' \in [FDs -> Masks \cup {EPERM}] /\ eperms' \in [FDs -> Nat]
  BY <1>4, <1>5, <1>6
<1>8. fed' \in [Watchers -> SUBSET (RW \cup {"ERROR"})]
  <2>1. \A w \in Watchers :
          fed[w] \cup (wevents[w] \cap events[FdOf[w]]) \in SUBSET (RW \cup {"ERROR"})
    BY <1>5 DEF Masks
  <2> QED
    BY <1>4, <1>5, <2>1
<1>9. /\ TypeOK' /\ ChangesListed' /\ Flagged' /\ WatchedOpen' /\ FilesOnce'
      /\ \A fd \in FDs : Unarmed(fd)' <=> Unarmed(fd)
  <2>1. kern' \in SUBSET Entries /\ postfork' \in BOOLEAN /\ phase' \in {"app", "reify", "poll"}
    BY <1>4, <1>5
  <2> QED
    BY <1>4, <1>7, <1>8, <2>1, TableKept
<1>10. \A e \in kern : e.fd \in FDs
  BY <1>5 DEF Entries
<1>11. KernSound'
  BY <1>1, <1>4 DEF KernSound
<1>12. CurrentNewest'
  <2>1. \A fd \in FDs : emask'[fd] = emask[fd] \/ emask'[fd] = {}
    BY <1>4
  <2> QED
    BY <1>1, <1>4, <1>10, <2>1 DEF CurrentNewest
<1>13. EpermListed'
  <2>1. SUFFICES ASSUME NEW fd \in FDs, emask'[fd] = EPERM
                 PROVE  eperms'[fd] > 0
    BY DEF EpermListed
  <2>2. emask[fd] = EPERM /\ fd \notin listed \ still
    BY <1>4, <1>6, <2>1
  <2>3. fd \in listed
    BY <1>1, <1>2, <2>2 DEF EpermListed
  <2> QED
    BY <1>2, <1>4, <2>2, <2>3
<1>14. OldUnarmed'
  BY <1>1, <1>4, <1>9, <1>10 DEF OldUnarmed
<1>15. ArmedServed'
  <2>1. SUFFICES ASSUME NEW fd \in FDs, ~ Unarmed(fd), Served(fd)
                 PROVE  Served(fd)'
    BY <1>1, <1>4, <1>9 DEF ArmedServed
  <2>2. CASE fdtab[fd] \in EpermFiles
    <3>1. fd \in still
      BY <1>2, <1>3, <2>1, <2>2 DEF Served, Unarmed
    <3> QED
      BY <1>4, <2>1, <2>2, <3>1 DEF Served
  <2>3. CASE fdtab[fd] \notin EpermFiles
    BY <1>4, <2>1, <2>3 DEF Served, Entry
  <2> QED
    BY <2>2, <2>3
<1> QED
  BY <1>9, <1>11, <1>12, <1>13, <1>14, <1>15 DEF FdInv

-----------------------------------------------------------------------------
(* The theorems.                                                           *)

LEMMA InitInv ==
    ASSUME FdAssumption, Init
    PROVE  FdInv
<1>1. TypeOK
  <2>1. fdchanges \in Seq(FDs) /\ left \in 0..Len(fdchanges)
    BY EmptySeq DEF Init
  <2>2. {} \in Masks
    BY DEF Masks
  <2> QED
    BY <2>1, <2>2 DEF Init, TypeOK
<1>2. ChangesListed
  BY DEF Init, ChangesListed, Wanted, On
<1>3. FilesOnce /\ WatchedOpen /\ KernSound /\ CurrentNewest
  BY DEF Init, FilesOnce, WatchedOpen, KernSound, CurrentNewest
<1>4. EpermListed /\ Flagged
  BY DEF Init, EpermListed, Flagged, EPERM
<1>5. OldUnarmed /\ ArmedServed
  BY DEF Init, OldUnarmed, ArmedServed, Unarmed
<1> QED
  BY <1>1, <1>2, <1>3, <1>4, <1>5 DEF FdInv

LEMMA NextInv ==
    ASSUME FdAssumption, ~ RetryUnset, FdInv, [Next]_vars
    PROVE  FdInv'
<1> USE DEF kernVars, watchVars
<1>1. /\ TypeOK /\ fed \in [Watchers -> SUBSET (RW \cup {"ERROR"})] /\ postfork \in BOOLEAN
      /\ left \in 0..Len(fdchanges) /\ phase \in {"app", "reify", "poll"}
      /\ fdchanges \in Seq(FDs) /\ kern \in SUBSET Entries
  BY DEF FdInv, TypeOK, Entries
<1>2. Len(fdchanges) \in 0..Len(fdchanges)
  BY <1>1, LenProperties
<1>3. \A ev \in Masks \ {{}} : ev \in Masks
  OBVIOUS
<1>4. CASE \E fd \in FDs, f \in Files : Open(fd, f)
  BY <1>4, OpenStep
<1>5. CASE \E fd \in FDs, child \in BOOLEAN : Close(fd, child)
  BY <1>5, CloseStep
<1>6. CASE \E f \in Files : ChildCloses(f)
  BY <1>6, ChildClosesStep
<1>7. CASE \E w \in Watchers : Start(w)
  BY <1>7, StartStep
<1>8. CASE \E w \in Watchers : Stop(w)
  <2>1. PICK w \in Watchers : Stop(w)
    BY <1>8
  <2>2. fed' \in [Watchers -> SUBSET (RW \cup {"ERROR"})]
    BY <1>1, <2>1 DEF Stop
  <2>3. CASE w \in active
    <3>1. /\ active' = active \ {w} /\ FdChange(FdOf[w], {"REIFY"})
          /\ UNCHANGED <<fdtab, used, held, kern, wevents, iofdset, stale, events, emask, egen,
                         left, eperms, postfork, phase>>
      BY <2>1, <2>3 DEF Stop
    <3> QED
      BY <2>2, <2>3, <3>1, StopStep
  <2>4. CASE w \notin active
    <3>1. UNCHANGED <<fdtab, used, held, kern, active, wevents, iofdset, stale, events, reify,
                      emask, egen, fdchanges, eperms, left, postfork, phase>>
      BY <2>1, <2>4 DEF Stop
    <3> QED
      BY <1>1, <2>2, <3>1, QuietStep
  <2> QED
    BY <2>3, <2>4
<1>9. CASE \E w \in Watchers : Invoke(w)
  <2>1. PICK w \in Watchers : Invoke(w)
    BY <1>9
  <2>2. fed' \in [Watchers -> SUBSET (RW \cup {"ERROR"})]
    BY <1>1, <2>1 DEF Invoke
  <2> QED
    BY <1>1, <2>1, <2>2, QuietStep DEF Invoke
<1>10. CASE \E w \in Watchers, ev \in Masks \ {{}} : Set(w, ev)
  BY <1>3, <1>10, SetStep
<1>11. CASE \E w \in Watchers, ev \in Masks \ {{}} : Modify(w, ev)
  BY <1>3, <1>11, ModifyStep
<1>12. CASE LoopFork
  BY <1>1, <1>12, QuietStep DEF LoopFork
<1>13. CASE BeginPass
  BY <1>1, <1>2, <1>13, QuietStep DEF BeginPass
<1>14. CASE EpollFork
  BY <1>14, EpollForkStep
<1>15. CASE ReifyOne
  BY <1>15, ReifyOneStep
<1>16. CASE ReifyDone
  BY <1>1, <1>16, QuietStep DEF ReifyDone
<1>17. CASE \E e \in kern, got \in Masks : PollEvent(e, got)
  BY <1>17, PollEventStep
<1>18. CASE EndPoll
  BY <1>18, EndPollStep
<1>19. CASE SkipPoll
  BY <1>1, <1>19, QuietStep DEF SkipPoll
<1>20. CASE UNCHANGED vars
  BY <1>1, <1>20, QuietStep DEF vars
<1> QED
  BY <1>4, <1>5, <1>6, <1>7, <1>8, <1>9, <1>10, <1>11, <1>12, <1>13, <1>14, <1>15, <1>16, <1>17,
     <1>18, <1>19, <1>20 DEF Next

\* The invariant holds for any number of descriptors, files and watchers, and any generations
\* and list of changes, whatever the kernel refuses -- if the application calls ev_io_set
\* before it starts a watcher again that got EV_ERROR.
THEOREM FdInductive ==
    ASSUME FdAssumption, ~ RetryUnset
    PROVE  Spec => []FdInv
  BY InitInv, NextInv, PTL DEF Spec

\* fd_change and fd_reify: whatever differs between what the watchers of a descriptor want and
\* what the loop last told the backend, the descriptor is in fdchanges, and fd_reify never
\* looks past the end of the list.
THEOREM ChangesAreListed ==
    ASSUME FdAssumption, ~ RetryUnset
    PROVE  Spec => []Listed
<1>1. FdInv => Listed
  BY DEF FdInv, Listed
<1> QED
  BY <1>1, FdInductive, PTL

\* epoll_poll: an event the kernel reports for a file that is no longer open under the number
\* reaches no watcher: its generation is old, or nothing is heard of the number until
\* fd_reify has made a new registration.
THEOREM StaleNeverHeard ==
    ASSUME FdAssumption, ~ RetryUnset
    PROVE  Spec => []StaleIgnored
<1>1. FdInv => StaleIgnored
  <2>1. SUFFICES ASSUME FdInv, NEW e \in kern, e.file # fdtab[e.fd], e.gen = egen[e.fd]
                 PROVE  events[e.fd] = {} \/ reify[e.fd] # {}
    BY DEF StaleIgnored
  <2>2. Unarmed(e.fd) /\ e.fd \in FDs
    BY <2>1 DEF FdInv, OldUnarmed, TypeOK
  <2>3. CASE NextIsSet(e.fd)
    BY <2>1, <2>2, <2>3 DEF FdInv, Flagged, NextIsSet
  <2> QED
    BY <2>2, <2>3 DEF Unarmed
<1> QED
  BY <1>1, FdInductive, PTL

\* epoll_modify: when the backend polls, what is watched is registered with the wanted mask and
\* the current generation, or is listed as refused.
THEOREM WatchedAreRegistered ==
    ASSUME FdAssumption, ~ RetryUnset
    PROVE  Spec => []WatchedIsRegistered
<1>1. FdInv => WatchedIsRegistered
  <2>1. SUFFICES ASSUME FdInv, ~ postfork, NEW fd \in FDs, Wanted(fd) # {}, fd \notin Changes
                 PROVE  IF fdtab[fd] \in EpermFiles THEN eperms[fd] > 0 /\ emask[fd] = EPERM
                        ELSE Entry(fd, Wanted(fd), egen[fd]) \in kern
    BY DEF WatchedIsRegistered
  <2>2. Wanted(fd) = events[fd] /\ reify[fd] = {}
    BY <2>1 DEF FdInv, ChangesListed
  <2>3. ~ Unarmed(fd)
    <3>1. On(fd) # {}
      BY <2>1 DEF Wanted
    <3> QED
      BY <2>1, <2>2, <3>1 DEF Unarmed, NextIsSet
  <2>4. Served(fd)
    BY <2>1, <2>3 DEF FdInv, ArmedServed
  <2> QED
    BY <2>2, <2>4 DEF Served
<1> QED
  BY <1>1, FdInductive, PTL

=============================================================================
