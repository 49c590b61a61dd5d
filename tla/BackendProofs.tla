---------------------------- MODULE BackendProofs ----------------------------
(***************************************************************************)
(* Proofs about the backends: io_uring and linuxaio, which arm an fd with  *)
(* one-shot requests, and poll, select, kqueue and event ports.            *)
(***************************************************************************)
EXTENDS IoUring, LinuxAio, ReadyBackends, SequenceTheorems, FiniteSetTheorems, TLAPS

(***************************************************************************)
(* Sequences: S has an element of D; it has no two.                        *)
(***************************************************************************)
HasIn(S, D) == \E i \in 1 .. Len(S) : S[i] \in D
OnceIn(S, D) == \A i, j \in 1 .. Len(S) : S[i] \in D /\ S[j] \in D => i = j

LEMMA InAppend ==
    ASSUME NEW E, NEW S \in Seq(E), NEW x \in E
    PROVE  /\ Append(S, x) \in Seq(E)
           /\ \A D : HasIn(Append(S, x), D) <=> HasIn(S, D) \/ x \in D
           /\ \A D : OnceIn(S, D) /\ ~(HasIn(S, D) /\ x \in D) => OnceIn(Append(S, x), D)
<1> DEFINE F == Append(S, x)  n == Len(S)
<1>1. /\ F \in Seq(E) /\ n \in Nat /\ Len(F) = n + 1
      /\ \A i \in 1 .. n : F[i] = S[i]
      /\ F[n + 1] = x
  OBVIOUS
<1>2. \A i : i \in 1 .. Len(F) <=> i \in 1 .. n \/ i = n + 1
  BY <1>1
<1> HIDE DEF F, n
<1>3. ASSUME NEW D PROVE HasIn(F, D) <=> HasIn(S, D) \/ x \in D
  BY <1>1, <1>2 DEF HasIn, n
<1>4. ASSUME NEW D, OnceIn(S, D), ~(HasIn(S, D) /\ x \in D) PROVE OnceIn(F, D)
  BY <1>1, <1>2, <1>4 DEF HasIn, OnceIn, n
<1> QED
  BY <1>1, <1>3, <1>4 DEF F

LEMMA InConcat ==
    ASSUME NEW E, NEW S \in Seq(E), NEW R \in Seq(E)
    PROVE  /\ S \o R \in Seq(E)
           /\ \A D : HasIn(S \o R, D) <=> HasIn(S, D) \/ HasIn(R, D)
           /\ \A D : OnceIn(S, D) /\ ~HasIn(R, D) => OnceIn(S \o R, D)
<1> DEFINE F == S \o R  n == Len(S)  m == Len(R)
<1>1. /\ F \in Seq(E) /\ n \in Nat /\ m \in Nat /\ Len(F) = n + m
      /\ \A i \in 1 .. n : F[i] = S[i]
      /\ \A i \in 1 .. m : F[n + i] = R[i]
  OBVIOUS
<1>2. \A i \in 1 .. Len(F) : i \in 1 .. n \/ \E k \in 1 .. m : i = n + k
  <2> TAKE i \in 1 .. Len(F)
  <2>1. CASE i <= n
    BY <1>1, <2>1
  <2>2. CASE i > n
    <3>1. i - n \in 1 .. m /\ i = n + (i - n)
      BY <1>1, <2>2
    <3> QED
      BY <3>1
  <2> QED
    BY <1>1, <2>1, <2>2
<1>3. (\A i \in 1 .. n : i \in 1 .. Len(F)) /\ (\A k \in 1 .. m : n + k \in 1 .. Len(F))
  BY <1>1
<1>4. ASSUME NEW D PROVE HasIn(F, D) <=> HasIn(S, D) \/ HasIn(R, D)
  <2> HIDE DEF F
  <2>1. ASSUME HasIn(F, D) PROVE HasIn(S, D) \/ HasIn(R, D)
    BY <1>1, <1>2, <2>1 DEF HasIn
  <2>2. ASSUME HasIn(S, D) PROVE HasIn(F, D)
    BY <1>1, <1>3, <2>2 DEF HasIn
  <2>3. ASSUME HasIn(R, D) PROVE HasIn(F, D)
    BY <1>1, <1>3, <2>3 DEF HasIn
  <2> QED
    BY <2>1, <2>2, <2>3
<1>5. ASSUME NEW D, OnceIn(S, D), ~HasIn(R, D) PROVE OnceIn(F, D)
  <2> HIDE DEF F
  <2>1. \A i \in 1 .. Len(F) : F[i] \in D => i \in 1 .. n /\ S[i] \in D
    BY <1>1, <1>2, <1>5 DEF HasIn
  <2> QED
    BY <1>5, <2>1 DEF OnceIn
<1> QED
  BY <1>1, <1>4, <1>5

LEMMA InTail ==
    ASSUME NEW E, NEW S \in Seq(E), S # <<>>
    PROVE  /\ Tail(S) \in Seq(E) /\ Head(S) \in E /\ Len(Tail(S)) = Len(S) - 1 /\ Len(S) \in Nat
           /\ \A D : HasIn(S, D) <=> HasIn(Tail(S), D) \/ Head(S) \in D
           /\ \A D : OnceIn(S, D) => OnceIn(Tail(S), D) /\ (Head(S) \in D => ~HasIn(Tail(S), D))
<1> DEFINE T == Tail(S)  n == Len(S) - 1
<1>1. /\ T \in Seq(E) /\ n \in Nat /\ Len(T) = n /\ Len(S) = n + 1 /\ Head(S) = S[1] /\ S[1] \in E
      /\ \A i \in 1 .. n : T[i] = S[i + 1]
  OBVIOUS
<1>2. \A i : i \in 1 .. Len(S) => i = 1 \/ (i - 1 \in 1 .. n /\ i = (i - 1) + 1)
  BY <1>1
<1>3. 1 \in 1 .. Len(S) /\ \A i \in 1 .. n : i + 1 \in 1 .. Len(S) /\ i + 1 # 1
  BY <1>1
<1> HIDE DEF T, n
<1>4. ASSUME NEW D PROVE HasIn(S, D) <=> HasIn(T, D) \/ S[1] \in D
  <2>1. ASSUME HasIn(S, D) PROVE HasIn(T, D) \/ S[1] \in D
    <3>1. PICK i \in 1 .. Len(S) : S[i] \in D
      BY <2>1 DEF HasIn
    <3>2. CASE i # 1
      <4>1. i - 1 \in 1 .. n /\ T[i - 1] = S[i]
        BY <1>1, <1>2, <3>2
      <4> QED
        BY <1>1, <3>1, <4>1 DEF HasIn
    <3> QED
      BY <3>1, <3>2
  <2>2. ASSUME HasIn(T, D) \/ S[1] \in D PROVE HasIn(S, D)
    BY <1>1, <1>3, <2>2 DEF HasIn
  <2> QED
    BY <2>1, <2>2
<1>5. ASSUME NEW D, OnceIn(S, D) PROVE OnceIn(T, D) /\ (S[1] \in D => ~HasIn(T, D))
  <2>1. ASSUME NEW i \in 1 .. n, NEW j \in 1 .. n, T[i] \in D, T[j] \in D PROVE i = j
    <3>1. S[i + 1] \in D /\ S[j + 1] \in D /\ i + 1 \in 1 .. Len(S) /\ j + 1 \in 1 .. Len(S)
      BY <1>1, <1>3, <2>1
    <3>2. i + 1 = j + 1
      BY <1>5, <3>1 DEF OnceIn
    <3> QED
      BY <3>2
  <2>2. ASSUME S[1] \in D, NEW i \in 1 .. n, T[i] \in D PROVE FALSE
    <3>1. S[i + 1] \in D /\ i + 1 \in 1 .. Len(S) /\ i + 1 # 1
      BY <1>1, <1>3, <2>2
    <3> QED
      BY <1>3, <1>5, <2>2, <3>1 DEF OnceIn
  <2> QED
    BY <1>1, <2>1, <2>2 DEF OnceIn, HasIn
<1> QED
  BY <1>1, <1>4, <1>5 DEF T, n

LEMMA SplitConcat ==
    ASSUME NEW E, NEW s \in Seq(E), NEW t \in Seq(E), NEW n \in Nat, n <= Len(t)
    PROVE  (s \o SubSeq(t, 1, n)) \o SubSeq(t, n + 1, Len(t)) = s \o t
<1> DEFINE a == SubSeq(t, 1, n)  b == SubSeq(t, n + 1, Len(t))
<1>1. Len(t) \in Nat /\ 1 \in 1 .. Len(t) + 1 /\ n \in 1 - 1 .. Len(t) /\ Len(t) \in n .. Len(t)
  OBVIOUS
<1>2. a \in Seq(E) /\ b \in Seq(E)
  BY <1>1
<1>3. a \o b = SubSeq(t, 1, Len(t))
  <2>1. \A k \in 1 - 1 .. Len(t) : \A m \in k .. Len(t) :
           SubSeq(t, 1, k) \o SubSeq(t, k + 1, m) = SubSeq(t, 1, m)
    BY <1>1, ConcatAdjacentSubSeq, Zenon
  <2> QED
    BY <1>1, <2>1, Zenon
<1>4. SubSeq(t, 1, Len(t)) = t
  BY SubSeqFull, Zenon
<1> HIDE DEF a, b
<1>5. (s \o a) \o b = s \o (a \o b)
  BY <1>2, ConcatAssociative
<1> QED
  BY <1>3, <1>4, <1>5 DEF a, b

LEMMA HeadTailConcat ==
    ASSUME NEW E, NEW s \in Seq(E), s # <<>>, NEW t \in Seq(E)
    PROVE  /\ s \o t \in Seq(E) /\ s \o t # <<>>
           /\ Head(s \o t) = Head(s) /\ Tail(s) \o t = Tail(s \o t)
<1> DEFINE F == s \o t  u == Tail(s)
<1>1. /\ F \in Seq(E) /\ Len(F) = Len(s) + Len(t) /\ Len(s) \in Nat /\ Len(s) > 0 /\ Len(t) \in Nat
      /\ \A i \in 1 .. Len(s) : F[i] = s[i]
      /\ \A i \in 1 .. Len(t) : F[Len(s) + i] = t[i]
  OBVIOUS
<1>2. F # <<>> /\ Head(F) = Head(s)
  BY <1>1
<1>3. /\ u \in Seq(E) /\ Len(u) = Len(s) - 1 /\ \A i \in 1 .. Len(u) : u[i] = s[i + 1]
      /\ Tail(F) \in Seq(E) /\ Len(Tail(F)) = Len(F) - 1
      /\ \A i \in 1 .. Len(F) - 1 : Tail(F)[i] = F[i + 1]
  BY <1>1, <1>2
<1> HIDE DEF F, u
<1>4. /\ u \o t \in Seq(E) /\ Len(u \o t) = Len(u) + Len(t)
      /\ \A i \in 1 .. Len(u) + Len(t) : (u \o t)[i] = IF i <= Len(u) THEN u[i] ELSE t[i - Len(u)]
  BY <1>3, ConcatProperties
<1>5. \A i \in 1 .. Len(u) + Len(t) : (u \o t)[i] = Tail(F)[i]
  <2> TAKE i \in 1 .. Len(u) + Len(t)
  <2>1. CASE i <= Len(u)
    BY <1>1, <1>3, <1>4, <2>1
  <2>2. CASE i > Len(u)
    <3>1. i - Len(u) \in 1 .. Len(t) /\ Len(s) + (i - Len(u)) = i + 1 /\ i \in 1 .. Len(F) - 1
      BY <1>1, <1>3, <2>2
    <3>2. F[i + 1] = t[i - Len(u)]
      BY <1>1, <3>1
    <3> QED
      BY <1>1, <1>3, <1>4, <2>2, <3>1, <3>2
  <2> QED
    BY <1>1, <1>3, <2>1, <2>2
<1>6. u \o t = Tail(F)
  BY <1>1, <1>3, <1>4, <1>5, SeqEqual
<1> QED
  BY <1>1, <1>2, <1>6 DEF F, u

\* SetToSeq of a finite set lists each of its elements once.
LEMMA ListOf ==
    ASSUME NEW S, IsFiniteSet(S)
    PROVE  /\ SetToSeq(S) \in Seq(S)
           /\ \A x \in S : \E i \in 1 .. Len(SetToSeq(S)) : SetToSeq(S)[i] = x
           /\ \A i, j \in 1 .. Len(SetToSeq(S)) : SetToSeq(S)[i] = SetToSeq(S)[j] => i = j
<1>1. Cardinality(S) \in Nat /\ ExistsBijection(1 .. Cardinality(S), S)
  BY FS_CardinalityType
<1>2. PICK n \in Nat : n = Cardinality(S)
  BY <1>1
<1>3. \E f \in [1 .. n -> S] : IsInjective(f)
  BY <1>1, <1>2 DEF ExistsBijection, Bijection, Injection
<1>4. SetToSeq(S) \in [1 .. n -> S] /\ IsInjective(SetToSeq(S))
  BY <1>2, <1>3 DEF SetToSeq
<1>5. PICK q : q = SetToSeq(S)
  OBVIOUS
<1>6. q \in [1 .. n -> S] /\ IsInjective(q)
  BY <1>4, <1>5
<1>7. q \in Seq(S) /\ Len(q) = n
  BY <1>6
<1>8. q \in Injection(1 .. n, S)
  BY <1>6 DEF Injection
<1>9. Cardinality(1 .. n) = n
  BY <1>2, FS_Interval
<1>10. q \in Surjection(1 .. n, S)
  BY <1>2, <1>8, <1>9, FS_Injection
<1>11. \A x \in S : \E i \in 1 .. n : q[i] = x
  BY <1>10 DEF Surjection
<1>12. \A i, j \in 1 .. n : q[i] = q[j] => i = j
  BY <1>6 DEF IsInjective
<1> QED
  BY <1>5, <1>7, <1>11, <1>12

(***************************************************************************)
(* io_uring.  The token of a descriptor, under its present generation, is  *)
(* the POLL_ADD queued, the poll in the kernel or its completion.          *)
(***************************************************************************)
SqEntry == [op : {"add", "remove"}, fd : Fds, gen : Nat, ev : SUBSET Ev]
PollEntry == [fd : Fds, gen : Nat, ev : SUBSET Ev, file : Nat]
CqEntry == [fd : Fds, gen : Nat, res : {"ready", "cancelled", "badf", "removed"}, file : Nat]

\* The completions in the order they are taken: an overflow or a flush does not reorder them.
Done == cq \o backlog

Adds(fd, g) == {e \in SqEntry : e.op = "add" /\ e.fd = fd /\ e.gen = g}
Polls(fd, g) == {p \in PollEntry : p.fd = fd /\ p.gen = g}
Dones(fd, g) == {c \in CqEntry : c.res # "removed" /\ c.fd = fd /\ c.gen = g}
AddsFor(fd, g, ev) == {e \in Adds(fd, g) : e.ev = ev}
DonesOff(fd, g, f) == {c \in Dones(fd, g) : c.file # f}
HasPoll(P, fd, g) == \E p \in P : p \in Polls(fd, g)

\* Requests S, polls P and completions Q hold at most one token of fd under generation g; none;
\* one for ev, or a completion; none that is not of file f.
Unique(S, P, Q, fd, g) ==
    /\ OnceIn(S, Adds(fd, g)) /\ OnceIn(Q, Dones(fd, g))
    /\ \A p, r \in P : p \in Polls(fd, g) /\ r \in Polls(fd, g) => p = r
    /\ ~(HasIn(S, Adds(fd, g)) /\ HasPoll(P, fd, g))
    /\ ~(HasIn(S, Adds(fd, g)) /\ HasIn(Q, Dones(fd, g)))
    /\ ~(HasPoll(P, fd, g) /\ HasIn(Q, Dones(fd, g)))
Nothing(S, P, Q, fd, g) == ~HasIn(S, Adds(fd, g)) /\ ~HasPoll(P, fd, g) /\ ~HasIn(Q, Dones(fd, g))
Armed(S, P, Q, fd, g, ev) ==
    \/ HasIn(S, AddsFor(fd, g, ev))
    \/ \E p \in P : p \in Polls(fd, g) /\ p.ev = ev
    \/ HasIn(Q, Dones(fd, g))
OfFile(P, Q, fd, g, f) ==
    /\ \A p \in P : p \in Polls(fd, g) => p.file = f
    /\ ~HasIn(Q, DonesOff(fd, g, f))

\* What a step of the kernel keeps of them.
Moved(S, P, Q, S2, P2, Q2, fd, g, f) ==
    /\ Unique(S, P, Q, fd, g) => Unique(S2, P2, Q2, fd, g)
    /\ Nothing(S, P, Q, fd, g) => Nothing(S2, P2, Q2, fd, g)
    /\ \A ev : Armed(S, P, Q, fd, g, ev) => Armed(S2, P2, Q2, fd, g, ev)
    /\ OfFile(P, Q, fd, g, f) => OfFile(P2, Q2, fd, g, f)

\* A POLL_ADD becomes a poll.
LEMMA AddToPoll ==
    ASSUME NEW S \in Seq(SqEntry), S # <<>>, NEW P \in SUBSET PollEntry, NEW Q \in Seq(CqEntry),
           NEW x \in PollEntry, Head(S).op = "add",
           x.fd = Head(S).fd, x.gen = Head(S).gen, x.ev = Head(S).ev,
           NEW fd, NEW g, NEW f, x.fd = fd => x.file = f
    PROVE  Moved(S, P, Q, Tail(S), P \cup {x}, Q, fd, g, f)
<1> DEFINE e == Head(S)  T == Tail(S)  R == P \cup {x}
<1>1. /\ e \in SqEntry
      /\ \A D : HasIn(S, D) <=> HasIn(T, D) \/ e \in D
      /\ \A D : OnceIn(S, D) => OnceIn(T, D) /\ (e \in D => ~HasIn(T, D))
  BY InTail
<1>2. x \in Polls(fd, g) <=> e \in Adds(fd, g)
  BY <1>1 DEF Polls, Adds
<1>3. \A ev : e \in AddsFor(fd, g, ev) => x \in Polls(fd, g) /\ x.ev = ev
  BY <1>1, <1>2 DEF AddsFor
<1>4. x \in Polls(fd, g) => x.file = f
  BY DEF Polls
<1>5. \A p : p \in R <=> p \in P \/ p = x
  OBVIOUS
<1> HIDE DEF e, T, R
<1>6. Unique(S, P, Q, fd, g) => Unique(T, R, Q, fd, g)
  BY <1>1, <1>2, <1>5 DEF Unique, HasPoll
<1>7. Nothing(S, P, Q, fd, g) => Nothing(T, R, Q, fd, g)
  BY <1>1, <1>2, <1>5 DEF Nothing, HasPoll
<1>8. \A ev : Armed(S, P, Q, fd, g, ev) => Armed(T, R, Q, fd, g, ev)
  BY <1>1, <1>3, <1>5 DEF Armed
<1>9. OfFile(P, Q, fd, g, f) => OfFile(R, Q, fd, g, f)
  BY <1>4, <1>5 DEF OfFile
<1> QED
  BY <1>6, <1>7, <1>8, <1>9 DEF Moved, T, R

\* A POLL_ADD of a bad descriptor completes at once.
LEMMA AddToDone ==
    ASSUME NEW S \in Seq(SqEntry), S # <<>>, NEW P \in SUBSET PollEntry, NEW Q \in Seq(CqEntry),
           NEW c \in CqEntry, Head(S).op = "add", c.res # "removed",
           c.fd = Head(S).fd, c.gen = Head(S).gen,
           NEW fd, NEW g, NEW f, c.fd = fd => c.file = f
    PROVE  Moved(S, P, Q, Tail(S), P, Append(Q, c), fd, g, f)
<1> DEFINE e == Head(S)  T == Tail(S)  R == Append(Q, c)
<1>1. /\ e \in SqEntry
      /\ \A D : HasIn(S, D) <=> HasIn(T, D) \/ e \in D
      /\ \A D : OnceIn(S, D) => OnceIn(T, D) /\ (e \in D => ~HasIn(T, D))
  BY InTail
<1>2. /\ \A D : HasIn(R, D) <=> HasIn(Q, D) \/ c \in D
      /\ \A D : OnceIn(Q, D) /\ ~(HasIn(Q, D) /\ c \in D) => OnceIn(R, D)
  BY InAppend
<1>3. c \in Dones(fd, g) <=> e \in Adds(fd, g)
  BY <1>1 DEF Dones, Adds
<1>4. \A ev : e \in AddsFor(fd, g, ev) => c \in Dones(fd, g)
  BY <1>1, <1>3 DEF AddsFor
<1>5. c \notin DonesOff(fd, g, f)
  BY DEF Dones, DonesOff
<1> HIDE DEF e, T, R
<1>6. Unique(S, P, Q, fd, g) => Unique(T, P, R, fd, g)
  BY <1>1, <1>2, <1>3 DEF Unique
<1>7. Nothing(S, P, Q, fd, g) => Nothing(T, P, R, fd, g)
  BY <1>1, <1>2, <1>3 DEF Nothing
<1>8. \A ev : Armed(S, P, Q, fd, g, ev) => Armed(T, P, R, fd, g, ev)
  BY <1>1, <1>2, <1>4 DEF Armed
<1>9. OfFile(P, Q, fd, g, f) => OfFile(P, R, fd, g, f)
  BY <1>2, <1>5 DEF OfFile
<1> QED
  BY <1>6, <1>7, <1>8, <1>9 DEF Moved, T, R

\* A POLL_REMOVE of an older generation takes nothing of the present one.
LEMMA RemoveStale ==
    ASSUME NEW S \in Seq(SqEntry), S # <<>>, NEW P \in SUBSET PollEntry, NEW Q \in Seq(CqEntry),
           NEW O \in SUBSET P, NEW C \in Seq(CqEntry), Head(S).op = "remove",
           NEW fd, NEW g, NEW f, ~HasPoll(O, fd, g), ~HasIn(C, Dones(fd, g))
    PROVE  Moved(S, P, Q, Tail(S), P \ O, Q \o C, fd, g, f)
<1> DEFINE e == Head(S)  T == Tail(S)  R == Q \o C  U == P \ O
<1>1. /\ e \in SqEntry
      /\ \A D : HasIn(S, D) <=> HasIn(T, D) \/ e \in D
      /\ \A D : OnceIn(S, D) => OnceIn(T, D) /\ (e \in D => ~HasIn(T, D))
  BY InTail
<1>2. /\ \A D : HasIn(R, D) <=> HasIn(Q, D) \/ HasIn(C, D)
      /\ \A D : OnceIn(Q, D) /\ ~HasIn(C, D) => OnceIn(R, D)
  BY InConcat
<1>3. e \notin Adds(fd, g) /\ \A ev : e \notin AddsFor(fd, g, ev)
  BY DEF Adds, AddsFor
<1>4. ~HasIn(C, DonesOff(fd, g, f))
  BY DEF HasIn, DonesOff
<1>5. \A p : p \in Polls(fd, g) => (p \in U <=> p \in P)
  BY DEF HasPoll
<1> HIDE DEF e, T, R, U
<1>6. Unique(S, P, Q, fd, g) => Unique(T, U, R, fd, g)
  BY <1>1, <1>2, <1>3, <1>5 DEF Unique, HasPoll
<1>7. Nothing(S, P, Q, fd, g) => Nothing(T, U, R, fd, g)
  BY <1>1, <1>2, <1>3, <1>5 DEF Nothing, HasPoll
<1>8. \A ev : Armed(S, P, Q, fd, g, ev) => Armed(T, U, R, fd, g, ev)
  BY <1>1, <1>2, <1>3, <1>5 DEF Armed
<1>9. OfFile(P, Q, fd, g, f) => OfFile(U, R, fd, g, f)
  BY <1>2, <1>4, <1>5 DEF OfFile
<1> QED
  BY <1>6, <1>7, <1>8, <1>9 DEF Moved, T, R, U

\* A poll completes.
LEMMA PollToDone ==
    ASSUME NEW S, NEW P \in SUBSET PollEntry, NEW Q \in Seq(CqEntry),
           NEW p \in P, NEW c \in CqEntry, c.res # "removed", c.fd = p.fd, c.gen = p.gen, c.file = p.file,
           NEW fd, NEW g, NEW f
    PROVE  Moved(S, P, Q, S, P \ {p}, Append(Q, c), fd, g, f)
<1> DEFINE R == Append(Q, c)  U == P \ {p}
<1>1. /\ \A D : HasIn(R, D) <=> HasIn(Q, D) \/ c \in D
      /\ \A D : OnceIn(Q, D) /\ ~(HasIn(Q, D) /\ c \in D) => OnceIn(R, D)
  BY InAppend
<1>2. c \in Dones(fd, g) <=> p \in Polls(fd, g)
  BY DEF Dones, Polls
<1>3. c \in DonesOff(fd, g, f) => p \in Polls(fd, g) /\ p.file # f
  BY <1>2 DEF DonesOff
<1>4. \A r : r \in U <=> r \in P /\ r # p
  OBVIOUS
<1> HIDE DEF R, U
<1>5. Unique(S, P, Q, fd, g) => Unique(S, U, R, fd, g)
  BY <1>1, <1>2, <1>4 DEF Unique, HasPoll
<1>6. Nothing(S, P, Q, fd, g) => Nothing(S, U, R, fd, g)
  BY <1>1, <1>2, <1>4 DEF Nothing, HasPoll
<1>7. \A ev : Armed(S, P, Q, fd, g, ev) => Armed(S, U, R, fd, g, ev)
  BY <1>1, <1>2, <1>4 DEF Armed
<1>8. OfFile(P, Q, fd, g, f) => OfFile(U, R, fd, g, f)
  BY <1>1, <1>3, <1>4 DEF OfFile
<1> QED
  BY <1>5, <1>6, <1>7, <1>8 DEF Moved, R, U

RingPhases == {"run", "reify", "submit", "wait", "drain", "flush", "redrain"}

RingTyped ==
    /\ sq \in Seq(SqEntry) /\ Len(sq) <= SqEntries
    /\ polls \in SUBSET PollEntry /\ IsFiniteSet(polls)
    /\ cq \in Seq(CqEntry) /\ Len(cq) <= CqEntries /\ backlog \in Seq(CqEntry)

\* No entry is of a generation still to come, and a POLL_REMOVE is of a past one.
SqAhead(G) == {e \in SqEntry : e.gen > G[e.fd] \/ (e.op = "remove" /\ e.gen = G[e.fd])}
CqAhead(G) == {c \in CqEntry : c.gen > G[c.fd]}
Aged(G) ==
    /\ ~HasIn(sq, SqAhead(G)) /\ ~HasIn(Done, CqAhead(G))
    /\ \A p \in polls : p.gen <= G[p.fd]

\* A descriptor has one token at most, and none when the backend was asked for nothing or is
\* between its two requests.  While it is watched, and was not stopped since the last reify,
\* what was asked for is armed, and on the file it is now.
FdInv(fd) ==
    /\ Unique(sq, polls, Done, fd, egen[fd])
    /\ events[fd] = {} \/ fd \in adding => Nothing(sq, polls, Done, fd, egen[fd])
    /\ fd \in adding => events[fd] # {}
    /\ fd \notin changed => events[fd] = want[fd]
    /\ want[fd] # {} /\ events[fd] # {} /\ fd \notin iofdset /\ fd \notin adding
          => Armed(sq, polls, Done, fd, egen[fd], events[fd])
    /\ want[fd] # {} /\ fd \notin iofdset => OfFile(polls, Done, fd, egen[fd], file[fd])

\* The inductive invariant.
RingInv ==
    /\ TableTypeOK /\ phase \in RingPhases /\ RingTyped /\ Aged(egen) /\ ~misfed
    /\ adding = {} \/ (phase = "reify" /\ \E fd \in Fds : adding = {fd})
    /\ \A fd \in Fds : FdInv(fd)

\* Completions are taken in the order they are posted.
LEMMA PostedDone ==
    ASSUME RingTyped, NEW C \in Seq(CqEntry), Posted(C)
    PROVE  /\ cq' \in Seq(CqEntry) /\ Len(cq') <= CqEntries /\ backlog' \in Seq(CqEntry)
           /\ Done \in Seq(CqEntry) /\ Done' = Done \o C
<1>1. cq \in Seq(CqEntry) /\ backlog \in Seq(CqEntry) /\ Len(cq) <= CqEntries
  BY DEF RingTyped
<1>2. CASE /\ backlog = <<>> /\ Len(cq) + Len(C) <= CqEntries
           /\ cq' = cq \o C /\ backlog' = backlog
  <2>1. cq \o C \in Seq(CqEntry) /\ Len(cq \o C) = Len(cq) + Len(C)
    BY <1>1
  <2>2. cq \o <<>> = cq /\ (cq \o C) \o <<>> = cq \o C
    BY <1>1, <2>1, ConcatEmptySeq
  <2> QED
    BY <1>1, <1>2, <2>1, <2>2 DEF Done
<1>3. CASE backlog' = backlog \o C /\ cq' = cq
  <2>1. (cq \o backlog) \o C = cq \o (backlog \o C)
    BY <1>1, ConcatAssociative
  <2> QED
    BY <1>1, <1>3, <2>1 DEF Done
<1> QED
  BY <1>2, <1>3 DEF Posted

LEMMA CqeTyped ==
    ASSUME NEW p \in PollEntry, NEW res \in {"ready", "cancelled", "badf", "removed"}
    PROVE  /\ Cqe(p, res) \in CqEntry /\ Cqe(p, res).fd = p.fd /\ Cqe(p, res).gen = p.gen
           /\ Cqe(p, res).res = res /\ Cqe(p, res).file = p.file
  BY DEF Cqe, CqEntry, PollEntry

\* What a step of the kernel leaves: types, ages and every descriptor's token.
KernelKept ==
    /\ RingTyped' /\ Aged(egen)'
    /\ \A fd \in Fds : Moved(sq, polls, Done, sq', polls', Done', fd, egen[fd], file[fd])

LEMMA ConsumeKept ==
    ASSUME TableTypeOK, RingTyped, Aged(egen), sq # <<>>, Consume, egen' = egen
    PROVE  KernelKept
<1> DEFINE e == Head(sq)
           own == {p \in polls : p.fd = e.fd /\ p.gen = e.gen}
           this == [fd |-> e.fd, gen |-> e.gen, ev |-> e.ev, file |-> file[e.fd]]
           gone == {Cqe(p, "cancelled") : p \in own}
<1>1. /\ sq \in Seq(SqEntry) /\ polls \in SUBSET PollEntry /\ IsFiniteSet(polls)
      /\ cq \in Seq(CqEntry) /\ backlog \in Seq(CqEntry) /\ Done \in Seq(CqEntry)
      /\ Len(sq) <= SqEntries /\ SqEntries \in Nat /\ Len(cq) <= CqEntries
  BY RingAssumption DEF RingTyped, Done
<1>2. /\ Tail(sq) \in Seq(SqEntry) /\ e \in SqEntry /\ Len(Tail(sq)) = Len(sq) - 1 /\ Len(sq) \in Nat
      /\ \A D : HasIn(sq, D) <=> HasIn(Tail(sq), D) \/ e \in D
  BY <1>1, InTail
<1>3. /\ sq' = Tail(sq) /\ sq' \in Seq(SqEntry) /\ Len(sq') <= SqEntries
      /\ ~HasIn(sq', SqAhead(egen)) /\ e \notin SqAhead(egen)
  BY <1>1, <1>2 DEF Consume, Aged
<1>4. e.fd \in Fds /\ e.gen \in Nat /\ e.ev \in SUBSET Ev /\ e.op \in {"add", "remove"} /\ egen[e.fd] \in Nat
      /\ file[e.fd] \in Nat /\ e.gen <= egen[e.fd] /\ (e.op = "remove" => e.gen < egen[e.fd])
  <2>1. e.fd \in Fds /\ e.gen \in Nat /\ e.ev \in SUBSET Ev /\ e.op \in {"add", "remove"}
    BY <1>2 DEF SqEntry
  <2>2. egen[e.fd] \in Nat /\ file[e.fd] \in Nat
    BY <2>1 DEF TableTypeOK
  <2> QED
    BY <1>2, <1>3, <2>1, <2>2 DEF SqAhead
<1>5. this \in PollEntry /\ this.fd = e.fd /\ this.gen = e.gen /\ this.ev = e.ev /\ this.file = file[e.fd]
  BY <1>4 DEF PollEntry
<1> HIDE DEF this
<1>6. CASE e.op = "remove"
  <2> DEFINE C == SetToSeq(gone) \o <<Cqe(this, "removed")>>
  <2>1. polls' = polls \ own /\ Posted(C)
    BY <1>6 DEF Consume, this
  <2>2. own \in SUBSET polls /\ IsFiniteSet(own) /\ IsFiniteSet(polls')
    <3>1. own \in SUBSET polls /\ polls' \in SUBSET polls
      BY <2>1
    <3> QED
      BY <1>1, <3>1, FS_Subset
  <2>3. \A c \in gone : c \in CqEntry /\ c.gen = e.gen /\ c.fd = e.fd
    BY <1>1, CqeTyped
  <2>4. IsFiniteSet(gone)
    <3> DEFINE h == [p \in own |-> Cqe(p, "cancelled")]
    <3>1. h \in Surjection(own, gone)
      BY DEF Surjection
    <3> QED
      BY <2>2, <3>1, FS_Surjection
  <2>5. SetToSeq(gone) \in Seq(gone)
    BY <2>4, ListOf
  <2> DEFINE G == SetToSeq(gone)  last == Cqe(this, "removed")
  <2>6. last \in CqEntry /\ last.res = "removed" /\ last.gen = e.gen /\ last.fd = e.fd
    BY <1>5, CqeTyped
  <2> HIDE DEF gone, G, last, own, e
  <2>7. G \in Seq(CqEntry) /\ \A i \in 1 .. Len(G) : G[i] \in gone
    BY <2>3, <2>5 DEF G
  <2>8. C = Append(G, last) /\ C \in Seq(CqEntry)
    BY <2>6, <2>7 DEF G, last
  <2>9. \A D : HasIn(C, D) <=> HasIn(G, D) \/ last \in D
    BY <2>6, <2>7, <2>8, InAppend
  <2> HIDE DEF C
  <2>10. ~HasIn(C, CqAhead(egen))
    <3>1. ~HasIn(G, CqAhead(egen))
      BY <1>4, <2>3, <2>7 DEF HasIn, CqAhead
    <3>2. last \notin CqAhead(egen)
      BY <1>4, <2>6 DEF CqAhead
    <3> QED
      BY <2>9, <3>1, <3>2
  <2>11. ASSUME NEW fd \in Fds PROVE ~HasPoll(own, fd, egen[fd]) /\ ~HasIn(C, Dones(fd, egen[fd]))
    <3>1. ~HasPoll(own, fd, egen[fd])
      BY <1>4, <1>6 DEF HasPoll, Polls, own
    <3>2. ~HasIn(G, Dones(fd, egen[fd]))
      BY <1>4, <1>6, <2>3, <2>7 DEF HasIn, Dones
    <3>3. last \notin Dones(fd, egen[fd])
      BY <2>6 DEF Dones
    <3> QED
      BY <2>9, <3>1, <3>2, <3>3
  <2>12. /\ cq' \in Seq(CqEntry) /\ Len(cq') <= CqEntries /\ backlog' \in Seq(CqEntry)
         /\ Done' = Done \o C
    BY <2>1, <2>8, PostedDone
  <2>13. RingTyped'
    BY <1>1, <1>3, <2>1, <2>2, <2>12 DEF RingTyped
  <2>14. ~HasIn(Done', CqAhead(egen))
    <3>1. HasIn(Done \o C, CqAhead(egen)) <=> HasIn(Done, CqAhead(egen)) \/ HasIn(C, CqAhead(egen))
      BY <1>1, <2>8, InConcat
    <3> QED
      BY <2>10, <2>12, <3>1 DEF Aged
  <2>15. Aged(egen)'
    BY <1>3, <2>1, <2>14 DEF Aged, SqAhead, CqAhead
  <2>16. \A fd \in Fds : Moved(sq, polls, Done, sq', polls', Done', fd, egen[fd], file[fd])
    <3> TAKE fd \in Fds
    <3>1. Head(sq).op = "remove"
      BY <1>6 DEF e
    <3>2. Moved(sq, polls, Done, Tail(sq), polls \ own, Done \o C, fd, egen[fd], file[fd])
      BY <1>1, <2>2, <2>8, <2>11, <3>1, RemoveStale
    <3> QED
      BY <1>3, <2>1, <2>12, <3>2
  <2> QED
    BY <2>13, <2>15, <2>16 DEF KernelKept
<1>7. CASE e.op = "add" /\ IsOpen(e.fd)
  <2>1. polls' = polls \cup {this} /\ cq' = cq /\ backlog' = backlog /\ Done' = Done
    BY <1>7 DEF Consume, this, Done
  <2>2. IsFiniteSet(polls') /\ polls' \in SUBSET PollEntry
    BY <1>1, <1>5, <2>1, FS_AddElement
  <2>3. RingTyped'
    BY <1>1, <1>3, <2>1, <2>2 DEF RingTyped
  <2>4. Aged(egen)'
    BY <1>3, <1>4, <1>5, <2>1 DEF Aged, SqAhead, CqAhead
  <2>5. \A fd \in Fds : Moved(sq, polls, Done, sq', polls', Done', fd, egen[fd], file[fd])
    <3> TAKE fd \in Fds
    <3>1. this.fd = fd => this.file = file[fd]
      BY <1>5
    <3>2. Moved(sq, polls, Done, Tail(sq), polls \cup {this}, Done, fd, egen[fd], file[fd])
      BY <1>1, <1>5, <1>7, <3>1, AddToPoll
    <3> QED
      BY <1>3, <2>1, <3>2
  <2> QED
    BY <2>3, <2>4, <2>5 DEF KernelKept
<1>8. CASE e.op = "add" /\ ~IsOpen(e.fd)
  <2> DEFINE c == Cqe(this, "badf")
  <2>1. polls' = polls /\ Posted(<<c>>)
    BY <1>8 DEF Consume, this
  <2>2. c \in CqEntry /\ c.res = "badf" /\ c.gen = e.gen /\ c.fd = e.fd /\ c.file = file[e.fd]
    BY <1>5, CqeTyped
  <2> HIDE DEF c
  <2>3. /\ cq' \in Seq(CqEntry) /\ Len(cq') <= CqEntries /\ backlog' \in Seq(CqEntry)
        /\ Done' = Append(Done, c)
    <3>1. <<c>> \in Seq(CqEntry) /\ Done \o <<c>> = Append(Done, c)
      BY <1>1, <2>2
    <3> QED
      BY <2>1, <3>1, PostedDone
  <2>4. RingTyped'
    BY <1>1, <1>3, <2>1, <2>3 DEF RingTyped
  <2>5. ~HasIn(Done', CqAhead(egen))
    <3>1. c \notin CqAhead(egen)
      BY <1>4, <2>2 DEF CqAhead
    <3>2. HasIn(Append(Done, c), CqAhead(egen)) <=> HasIn(Done, CqAhead(egen)) \/ c \in CqAhead(egen)
      BY <1>1, <2>2, InAppend
    <3> QED
      BY <2>3, <3>1, <3>2 DEF Aged
  <2>6. Aged(egen)'
    BY <1>3, <2>1, <2>5 DEF Aged, SqAhead, CqAhead
  <2>7. \A fd \in Fds : Moved(sq, polls, Done, sq', polls', Done', fd, egen[fd], file[fd])
    <3> TAKE fd \in Fds
    <3>1. c.fd = fd => c.file = file[fd]
      BY <2>2
    <3>2. Moved(sq, polls, Done, Tail(sq), polls, Append(Done, c), fd, egen[fd], file[fd])
      BY <1>1, <1>8, <2>2, <3>1, AddToDone
    <3> QED
      BY <1>3, <2>1, <2>3, <3>2
  <2> QED
    BY <2>4, <2>6, <2>7 DEF KernelKept
<1> QED
  BY <1>4, <1>6, <1>7, <1>8

LEMMA CompletesKept ==
    ASSUME TableTypeOK, RingTyped, Aged(egen), NEW p \in polls, NEW res \in {"ready", "cancelled"},
           Completes(p, res)
    PROVE  KernelKept
<1> DEFINE c == Cqe(p, res)
<1>1. /\ sq \in Seq(SqEntry) /\ polls \in SUBSET PollEntry /\ IsFiniteSet(polls) /\ Done \in Seq(CqEntry)
      /\ Len(sq) <= SqEntries /\ p \in PollEntry
  BY DEF RingTyped, Done
<1>2. polls' = polls \ {p} /\ Posted(<<c>>) /\ sq' = sq /\ egen' = egen
  BY DEF Completes, table
<1>3. c \in CqEntry /\ c.res # "removed" /\ c.gen = p.gen /\ c.fd = p.fd /\ c.file = p.file
  BY <1>1, CqeTyped
<1> HIDE DEF c
<1>4. /\ cq' \in Seq(CqEntry) /\ Len(cq') <= CqEntries /\ backlog' \in Seq(CqEntry)
      /\ Done' = Append(Done, c)
  <2>1. <<c>> \in Seq(CqEntry) /\ Done \o <<c>> = Append(Done, c)
    BY <1>1, <1>3
  <2> QED
    BY <1>2, <2>1, PostedDone
<1>5. IsFiniteSet(polls') /\ polls' \in SUBSET PollEntry
  BY <1>1, <1>2, FS_RemoveElement
<1>6. RingTyped'
  BY <1>1, <1>2, <1>4, <1>5 DEF RingTyped
<1>7. ~HasIn(Done', CqAhead(egen))
  <2>1. c \notin CqAhead(egen)
    BY <1>1, <1>3 DEF CqAhead, Aged, TableTypeOK, PollEntry
  <2>2. HasIn(Append(Done, c), CqAhead(egen)) <=> HasIn(Done, CqAhead(egen)) \/ c \in CqAhead(egen)
    BY <1>1, <1>3, InAppend
  <2> QED
    BY <1>4, <2>1, <2>2 DEF Aged
<1>8. Aged(egen)'
  BY <1>2, <1>7 DEF Aged, SqAhead, CqAhead
<1>9. \A fd \in Fds : Moved(sq, polls, Done, sq', polls', Done', fd, egen[fd], file[fd])
  <2> TAKE fd \in Fds
  <2>1. Moved(sq, polls, Done, sq, polls \ {p}, Append(Done, c), fd, egen[fd], file[fd])
    BY <1>1, <1>3, PollToDone
  <2> QED
    BY <1>2, <1>4, <2>1
<1> QED
  BY <1>6, <1>8, <1>9 DEF KernelKept

\* A step of the kernel that leaves the table alone, but for the phase.
LEMMA KernelStep ==
    ASSUME RingInv, KernelKept, phase' \in RingPhases, adding # {} => phase' = phase,
           UNCHANGED <<want, events, changed, iofdset, egen, file, misfed, ops, adding>>
    PROVE  RingInv'
<1>1. TableTypeOK' /\ RingTyped' /\ Aged(egen)' /\ ~misfed'
  BY DEF RingInv, TableTypeOK, KernelKept
<1>2. (adding = {} \/ (phase = "reify" /\ \E fd \in Fds : adding = {fd}))'
  BY DEF RingInv
<1>3. ASSUME NEW fd \in Fds PROVE FdInv(fd)'
  <2>1. FdInv(fd) /\ Moved(sq, polls, Done, sq', polls', Done', fd, egen[fd], file[fd])
    BY DEF RingInv, KernelKept
  <2> QED
    BY <2>1 DEF FdInv, Moved
<1> QED
  BY <1>1, <1>2, <1>3 DEF RingInv

\* A step that leaves the rings and the generations alone.
LEMMA TableStep ==
    ASSUME RingInv, UNCHANGED <<sq, polls, egen, adding>>, Done' = Done, cq' \in Seq(CqEntry),
           Len(cq') <= CqEntries, backlog' \in Seq(CqEntry),
           TableTypeOK', phase' \in RingPhases, adding # {} => phase' = phase, ~misfed',
           \A fd \in Fds :
              /\ events'[fd] = {} => events[fd] = {}
              /\ fd \notin changed' => events'[fd] = want'[fd]
              /\ want'[fd] # {} /\ fd \notin iofdset' =>
                    want[fd] # {} /\ fd \notin iofdset /\ file'[fd] = file[fd] /\ events'[fd] = events[fd]
    PROVE  RingInv'
<1>1. RingTyped' /\ Aged(egen)'
  BY DEF RingInv, RingTyped, Aged, SqAhead, CqAhead
<1>2. (adding = {} \/ (phase = "reify" /\ \E fd \in Fds : adding = {fd}))'
  BY DEF RingInv
<1>3. ASSUME NEW fd \in Fds PROVE FdInv(fd)'
  <2>1. FdInv(fd)
    BY DEF RingInv
  <2> QED
    BY <2>1 DEF FdInv
<1> QED
  BY <1>1, <1>2, <1>3 DEF RingInv

LEMMA RingIoSetStep ==
    ASSUME RingInv, NEW fd \in Fds, NEW S \in SUBSET Ev, IoSet(fd, S), UNCHANGED ring
    PROVE  RingInv'
<1>1. /\ want' = [want EXCEPT ![fd] = S] /\ changed' = changed \cup {fd}
      /\ iofdset' = IF want[fd] = {} THEN iofdset \cup {fd} ELSE iofdset
      /\ UNCHANGED <<events, egen, file, phase, misfed>> /\ ops < MaxOps /\ ops' = ops + 1
  BY DEF IoSet, CanAct
<1>2. UNCHANGED <<sq, polls, egen, adding, cq, backlog>> /\ Done' = Done /\ cq' \in Seq(CqEntry)
      /\ Len(cq') <= CqEntries /\ backlog' \in Seq(CqEntry)
  BY <1>1 DEF ring, Done, RingInv, RingTyped
<1>3. TableTypeOK /\ TableTypeOK' /\ phase' \in RingPhases /\ phase' = phase /\ ~misfed'
  BY <1>1, TableAssumption DEF RingInv, TableTypeOK
<1>4. ASSUME NEW d \in Fds
      PROVE  /\ events'[d] = {} => events[d] = {}
             /\ d \notin changed' => events'[d] = want'[d]
             /\ want'[d] # {} /\ d \notin iofdset' =>
                   want[d] # {} /\ d \notin iofdset /\ file'[d] = file[d] /\ events'[d] = events[d]
  <2>1. FdInv(d)
    BY DEF RingInv
  <2>2. CASE d = fd
    BY <1>1, <2>2
  <2>3. CASE d # fd
    <3>1. want'[d] = want[d]
      BY <1>1, <1>3, <2>3 DEF TableTypeOK
    <3> QED
      BY <1>1, <2>1, <3>1 DEF FdInv
  <2> QED
    BY <2>2, <2>3
<1> QED
  BY <1>2, <1>3, <1>4, TableStep

LEMMA RingReopenStep ==
    ASSUME RingInv, NEW fd \in Fds, Reopen(fd), UNCHANGED ring
    PROVE  RingInv'
<1>1. /\ file' = [file EXCEPT ![fd] = @ + 1] /\ want[fd] = {}
      /\ UNCHANGED <<want, events, changed, iofdset, egen, phase, misfed>>
      /\ ops < MaxOps /\ ops' = ops + 1
  BY DEF Reopen, CanAct
<1>2. UNCHANGED <<sq, polls, egen, adding, cq, backlog>> /\ Done' = Done /\ cq' \in Seq(CqEntry)
      /\ Len(cq') <= CqEntries /\ backlog' \in Seq(CqEntry)
  BY <1>1 DEF ring, Done, RingInv, RingTyped
<1>3. TableTypeOK /\ TableTypeOK' /\ phase' \in RingPhases /\ phase' = phase /\ ~misfed'
  BY <1>1, TableAssumption DEF RingInv, TableTypeOK
<1>4. ASSUME NEW d \in Fds
      PROVE  /\ events'[d] = {} => events[d] = {}
             /\ d \notin changed' => events'[d] = want'[d]
             /\ want'[d] # {} /\ d \notin iofdset' =>
                   want[d] # {} /\ d \notin iofdset /\ file'[d] = file[d] /\ events'[d] = events[d]
  <2>1. FdInv(d)
    BY DEF RingInv
  <2>2. d # fd => file'[d] = file[d]
    BY <1>1, <1>3 DEF TableTypeOK
  <2> QED
    BY <1>1, <2>1, <2>2 DEF FdInv
<1> QED
  BY <1>2, <1>3, <1>4, TableStep

\* The steps that move the phase only, and the enter that moves the backlog.
LEMMA RingPhaseStep ==
    ASSUME RingInv, StartReify \/ EndReify \/ WaitEnds \/ DrainEnds
    PROVE  RingInv'
<1>1. /\ UNCHANGED <<want, events, changed, iofdset, egen, file, misfed, ops, ring>>
      /\ phase' \in RingPhases /\ (adding # {} => phase' = phase)
  BY DEF StartReify, EndReify, WaitEnds, DrainEnds, RingPhases, RingInv
<1>2. UNCHANGED <<sq, polls, egen, adding, cq, backlog>> /\ Done' = Done /\ cq' \in Seq(CqEntry)
      /\ Len(cq') <= CqEntries /\ backlog' \in Seq(CqEntry)
  BY <1>1 DEF ring, Done, RingInv, RingTyped
<1>3. TableTypeOK' /\ ~misfed'
  BY <1>1 DEF RingInv, TableTypeOK
<1>4. \A d \in Fds : d \notin changed => events[d] = want[d]
  BY DEF RingInv, FdInv
<1> QED
  BY <1>1, <1>2, <1>3, <1>4, TableStep

LEMMA GetEventsStep ==
    ASSUME RingInv, GetEvents
    PROVE  RingInv'
<1> DEFINE room == CqEntries - Len(cq)
           n == IF Len(backlog) < room THEN Len(backlog) ELSE room
           b1 == SubSeq(backlog, 1, n)
           b2 == SubSeq(backlog, n + 1, Len(backlog))
<1>1. /\ UNCHANGED <<want, events, changed, iofdset, egen, file, misfed, ops, sq, polls, adding>>
      /\ phase = "flush" /\ phase' = "redrain" /\ cq' = cq \o b1 /\ backlog' = b2
  BY DEF GetEvents
<1>2. /\ cq \in Seq(CqEntry) /\ Len(cq) \in Nat /\ Len(cq) <= CqEntries /\ CqEntries \in Nat
      /\ backlog \in Seq(CqEntry) /\ Len(backlog) \in Nat
  BY RingAssumption DEF RingInv, RingTyped
<1>3. n \in Nat /\ n <= Len(backlog) /\ n <= room /\ room \in Nat
  BY <1>2
<1> HIDE DEF n
<1>4. b1 \in Seq(CqEntry) /\ Len(b1) = n /\ b2 \in Seq(CqEntry)
  BY <1>2, <1>3
<1>5. (cq \o b1) \o b2 = cq \o backlog
  BY <1>2, <1>3, SplitConcat
<1> HIDE DEF b1, b2
<1>6. Done' = Done
  BY <1>1, <1>5 DEF Done
<1>7. cq' \in Seq(CqEntry) /\ Len(cq') <= CqEntries /\ backlog' \in Seq(CqEntry)
  BY <1>1, <1>2, <1>3, <1>4
<1>8. TableTypeOK' /\ ~misfed' /\ phase' \in RingPhases /\ adding = {}
  BY <1>1 DEF RingInv, TableTypeOK, RingPhases
<1>9. \A d \in Fds : d \notin changed => events[d] = want[d]
  BY DEF RingInv, FdInv
<1> QED
  BY <1>1, <1>6, <1>7, <1>8, <1>9, TableStep

\* The actions that are a step of the kernel, or wait for one.
LEMMA RingKernelStep ==
    ASSUME RingInv, \/ FlushSq \/ Submit
                    \/ \E p \in polls, res \in {"ready", "cancelled"} : Completes(p, res)
    PROVE  RingInv'
<1>1. /\ TableTypeOK /\ RingTyped /\ Aged(egen) /\ phase \in RingPhases
      /\ sq \in Seq(SqEntry) /\ Len(sq) \in Nat
  BY DEF RingInv, RingTyped
<1>2. CASE FlushSq
  <2>1. /\ Consume /\ phase' = phase /\ Len(sq) = SqEntries
        /\ UNCHANGED <<want, events, changed, iofdset, egen, file, misfed, ops, adding>>
    BY <1>2 DEF FlushSq, table
  <2>2. sq # <<>>
    BY <2>1, RingAssumption
  <2>3. KernelKept
    BY <1>1, <2>1, <2>2, ConsumeKept
  <2> QED
    BY <1>1, <2>1, <2>3, KernelStep
<1>3. CASE Submit /\ sq # <<>>
  <2>1. /\ Consume /\ phase' = phase
        /\ UNCHANGED <<want, events, changed, iofdset, egen, file, misfed, ops, adding>>
    BY <1>3 DEF Submit
  <2>2. KernelKept
    BY <1>1, <1>3, <2>1, ConsumeKept
  <2> QED
    BY <1>1, <2>1, <2>2, KernelStep
<1>4. CASE Submit /\ sq = <<>>
  <2>1. /\ phase = "submit" /\ phase' \in {"wait", "drain"}
        /\ UNCHANGED <<sq, polls, cq, backlog, want, events, changed, iofdset, egen, file, misfed, ops, adding>>
    BY <1>4 DEF Submit
  <2>2. Done' = Done /\ cq' \in Seq(CqEntry) /\ Len(cq') <= CqEntries /\ backlog' \in Seq(CqEntry)
    BY <1>1, <2>1 DEF Done, RingTyped
  <2>3. TableTypeOK' /\ ~misfed' /\ phase' \in RingPhases /\ adding = {}
    BY <2>1 DEF RingInv, TableTypeOK, RingPhases
  <2>4. \A d \in Fds : d \notin changed => events[d] = want[d]
    BY DEF RingInv, FdInv
  <2> QED
    BY <2>1, <2>2, <2>3, <2>4, TableStep
<1>5. ASSUME NEW p \in polls, NEW res \in {"ready", "cancelled"}, Completes(p, res) PROVE RingInv'
  <2>1. KernelKept
    BY <1>1, <1>5, CompletesKept
  <2>2. phase' = phase /\ UNCHANGED <<want, events, changed, iofdset, egen, file, misfed, ops, adding>>
    BY <1>5 DEF Completes, table
  <2> QED
    BY <1>1, <2>1, <2>2, KernelStep
<1> QED
  BY <1>2, <1>3, <1>4, <1>5

\* A new generation has no token yet.
LEMMA FreshGeneration ==
    ASSUME TableTypeOK, RingTyped, Aged(egen), NEW fd \in Fds, NEW g \in Nat, g > egen[fd]
    PROVE  Nothing(sq, polls, Done, fd, g)
<1>1. egen[fd] \in Nat
  BY DEF TableTypeOK
<1>2. Adds(fd, g) \subseteq SqAhead(egen) /\ Dones(fd, g) \subseteq CqAhead(egen)
  BY <1>1 DEF Adds, SqAhead, Dones, CqAhead
<1>3. ~HasPoll(polls, fd, g)
  BY <1>1 DEF HasPoll, Polls, Aged
<1> QED
  BY <1>2, <1>3 DEF Nothing, Aged, HasIn

\* Without a token all is in order but what must be armed.
LEMMA NothingSuffices ==
    ASSUME NEW S, NEW P, NEW Q, NEW fd, NEW g, NEW f, Nothing(S, P, Q, fd, g)
    PROVE  Unique(S, P, Q, fd, g) /\ OfFile(P, Q, fd, g, f)
  BY DEF Nothing, Unique, OfFile, OnceIn, HasIn, HasPoll, DonesOff

LEMMA ModifyRemoveStep ==
    ASSUME RingInv, NEW fd \in Fds, ModifyRemove(fd)
    PROVE  RingInv'
<1>1. /\ TableTypeOK /\ RingTyped /\ Aged(egen) /\ phase = "reify" /\ adding = {} /\ ~misfed
      /\ \A d \in Fds : FdInv(d)
  BY DEF RingInv, ModifyRemove
<1>2. /\ UNCHANGED <<want, file, phase, misfed, ops, polls, cq, backlog>> /\ Done' = Done
      /\ events' = [events EXCEPT ![fd] = want[fd]] /\ changed' = changed \ {fd} /\ iofdset' = iofdset \ {fd}
      /\ adding' = IF NeedsModify(fd) /\ want[fd] # {} THEN {fd} ELSE {}
  BY DEF ModifyRemove, Reified, Done
<1>3. /\ events'[fd] = want[fd] /\ \A d \in Fds : d # fd => events'[d] = events[d]
      /\ events' \in [Fds -> SUBSET Ev]
  BY <1>1, <1>2 DEF TableTypeOK
<1>4. (adding = {} \/ (phase = "reify" /\ \E d \in Fds : adding = {d}))'
  BY <1>1, <1>2
<1>5. CASE NeedsModify(fd) /\ events[fd] # {}
  <2> DEFINE x == [op |-> "remove", fd |-> fd, gen |-> egen[fd], ev |-> {}]
  <2>1. sq' = Append(sq, x) /\ Len(sq) < SqEntries /\ egen' = [egen EXCEPT ![fd] = @ + 1]
    BY <1>5 DEF ModifyRemove, Sqe
  <2>2. /\ egen[fd] \in Nat /\ egen' \in [Fds -> Nat] /\ egen'[fd] = egen[fd] + 1
        /\ \A d \in Fds : d # fd => egen'[d] = egen[d]
    BY <1>1, <2>1 DEF TableTypeOK
  <2>3. x \in SqEntry /\ x.op = "remove" /\ x.fd = fd /\ x.gen = egen[fd]
    BY <2>2 DEF SqEntry
  <2> HIDE DEF x
  <2>4. /\ sq' \in Seq(SqEntry)
        /\ \A D : HasIn(sq', D) <=> HasIn(sq, D) \/ x \in D
        /\ \A D : OnceIn(sq, D) /\ ~(HasIn(sq, D) /\ x \in D) => OnceIn(sq', D)
    BY <1>1, <2>1, <2>3, InAppend DEF RingTyped
  <2>5. Len(sq') <= SqEntries
    BY <1>1, <2>1, <2>3, RingAssumption DEF RingTyped
  <2>6. TableTypeOK' /\ RingTyped'
    BY <1>1, <1>2, <1>3, <2>2, <2>4, <2>5 DEF TableTypeOK, RingTyped
  <2>7. Aged(egen)'
    <3>1. \A d \in Fds : egen[d] \in Nat /\ egen'[d] \in Nat /\ egen[d] <= egen'[d]
      BY <1>1, <2>2 DEF TableTypeOK
    <3>2. SqAhead(egen') \subseteq SqAhead(egen)
      BY <3>1 DEF SqAhead, SqEntry
    <3>3. CqAhead(egen') \subseteq CqAhead(egen)
      BY <3>1 DEF CqAhead, CqEntry
    <3>4. x \notin SqAhead(egen')
      BY <2>2, <2>3 DEF SqAhead
    <3>5. ~HasIn(sq', SqAhead(egen')) /\ ~HasIn(Done', CqAhead(egen'))
      BY <1>1, <1>2, <2>4, <3>2, <3>3, <3>4 DEF Aged, HasIn
    <3>6. \A p \in polls' : p.gen <= egen'[p.fd]
      BY <1>1, <1>2, <3>1 DEF Aged, RingTyped, PollEntry
    <3> QED
      BY <3>5, <3>6 DEF Aged
  <2>8. \A d : \A g : \A ev : x \notin Adds(d, g) /\ x \notin AddsFor(d, g, ev)
    BY <2>3 DEF Adds, AddsFor
  <2>9. ASSUME NEW d \in Fds PROVE FdInv(d)'
    <3>1. CASE d = fd
      <4>1. Nothing(sq, polls, Done, fd, egen'[fd])
        BY <1>1, <2>2, FreshGeneration
      <4>2. Nothing(sq', polls', Done', fd, egen'[fd])
        BY <1>2, <2>4, <2>8, <4>1 DEF Nothing
      <4>3. Unique(sq', polls', Done', fd, egen'[fd]) /\ OfFile(polls', Done', fd, egen'[fd], file'[fd])
        BY <4>2, NothingSuffices
      <4> QED
        BY <1>2, <1>3, <1>5, <3>1, <4>2, <4>3 DEF FdInv
    <3>2. CASE d # fd
      <4>1. FdInv(d) /\ egen'[d] = egen[d] /\ events'[d] = events[d] /\ d \notin adding /\ d \notin adding'
        BY <1>1, <1>2, <1>3, <2>2, <3>2
      <4>2. (Unique(sq, polls, Done, d, egen[d]) => Unique(sq', polls', Done', d, egen'[d]))
        BY <1>2, <2>4, <2>8, <4>1 DEF Unique
      <4>3. (Nothing(sq, polls, Done, d, egen[d]) => Nothing(sq', polls', Done', d, egen'[d]))
        BY <1>2, <2>4, <2>8, <4>1 DEF Nothing
      <4>4. \A ev : Armed(sq, polls, Done, d, egen[d], ev) => Armed(sq', polls', Done', d, egen'[d], ev)
        BY <1>2, <2>4, <2>8, <4>1 DEF Armed
      <4>5. OfFile(polls, Done, d, egen[d], file[d]) => OfFile(polls', Done', d, egen'[d], file'[d])
        BY <1>2, <4>1
      <4> QED
        BY <1>2, <3>2, <4>1, <4>2, <4>3, <4>4, <4>5 DEF FdInv
    <3> QED
      BY <3>1, <3>2
  <2> QED
    BY <1>1, <1>2, <1>4, <2>6, <2>7, <2>9 DEF RingInv, RingPhases
<1>6. CASE ~(NeedsModify(fd) /\ events[fd] # {})
  <2>1. sq' = sq /\ egen' = egen
    BY <1>6 DEF ModifyRemove
  <2>2. TableTypeOK' /\ RingTyped' /\ Aged(egen)'
    BY <1>1, <1>2, <1>3, <2>1 DEF TableTypeOK, RingTyped, Aged, SqAhead, CqAhead
  <2>3. ASSUME NEW d \in Fds PROVE FdInv(d)'
    <3>1. CASE d # fd
      <4>1. FdInv(d) /\ events'[d] = events[d] /\ d \notin adding /\ d \notin adding'
        BY <1>1, <1>2, <1>3, <3>1
      <4> QED
        BY <1>2, <2>1, <3>1, <4>1 DEF FdInv
    <3>2. CASE d = fd /\ NeedsModify(fd)
      <4>1. Nothing(sq, polls, Done, fd, egen[fd])
        BY <1>1, <1>6, <3>2 DEF FdInv
      <4>2. Unique(sq, polls, Done, fd, egen[fd]) /\ OfFile(polls, Done, fd, egen[fd], file[fd])
        BY <4>1, NothingSuffices
      <4> QED
        BY <1>2, <1>3, <2>1, <3>2, <4>1, <4>2 DEF FdInv
    <3>3. CASE d = fd /\ ~NeedsModify(fd)
      <4>1. FdInv(fd) /\ events[fd] = want[fd] /\ fd \notin iofdset /\ adding' = {}
        BY <1>1, <1>2, <3>3 DEF NeedsModify
      <4> QED
        BY <1>1, <1>2, <1>3, <2>1, <3>3, <4>1 DEF FdInv
    <3> QED
      BY <3>1, <3>2, <3>3
  <2> QED
    BY <1>1, <1>2, <1>4, <2>2, <2>3 DEF RingInv, RingPhases
<1> QED
  BY <1>5, <1>6

LEMMA ModifyAddStep ==
    ASSUME RingInv, NEW fd \in Fds, ModifyAdd(fd)
    PROVE  RingInv'
<1> DEFINE x == [op |-> "add", fd |-> fd, gen |-> egen[fd], ev |-> events[fd]]
<1>1. /\ TableTypeOK /\ RingTyped /\ Aged(egen) /\ phase \in RingPhases /\ ~misfed /\ adding = {fd}
      /\ \A d \in Fds : FdInv(d)
  BY DEF RingInv, ModifyAdd
<1>2. /\ UNCHANGED <<want, events, changed, iofdset, egen, file, phase, misfed, ops, polls, cq, backlog>>
      /\ Done' = Done /\ sq' = Append(sq, x) /\ Len(sq) < SqEntries /\ adding' = {}
  BY DEF ModifyAdd, Sqe, table, Done
<1>3. egen[fd] \in Nat /\ events[fd] \in SUBSET Ev
  BY <1>1 DEF TableTypeOK
<1>4. x \in SqEntry /\ x.op = "add" /\ x.fd = fd /\ x.gen = egen[fd] /\ x.ev = events[fd]
  BY <1>3 DEF SqEntry
<1> HIDE DEF x
<1>5. /\ sq' \in Seq(SqEntry)
      /\ \A D : HasIn(sq', D) <=> HasIn(sq, D) \/ x \in D
      /\ \A D : OnceIn(sq, D) /\ ~(HasIn(sq, D) /\ x \in D) => OnceIn(sq', D)
  BY <1>1, <1>2, <1>4, InAppend DEF RingTyped
<1>6. Len(sq') <= SqEntries
  BY <1>1, <1>2, <1>4, RingAssumption DEF RingTyped
<1>7. TableTypeOK' /\ RingTyped'
  BY <1>1, <1>2, <1>5, <1>6 DEF TableTypeOK, RingTyped
<1>8. x \notin SqAhead(egen)
  BY <1>3, <1>4 DEF SqAhead
<1>9. Aged(egen)'
  BY <1>1, <1>2, <1>5, <1>8 DEF Aged, SqAhead, CqAhead
<1>10. ASSUME NEW d \in Fds PROVE FdInv(d)'
  <2>1. CASE d = fd
    <3>1. x \in Adds(fd, egen[fd]) /\ x \in AddsFor(fd, egen[fd], events[fd])
      BY <1>4 DEF Adds, AddsFor
    <3>2. Nothing(sq, polls, Done, fd, egen[fd]) /\ events[fd] # {}
      BY <1>1 DEF FdInv
    <3>3. OfFile(polls, Done, fd, egen[fd], file[fd]) /\ Unique(sq, polls, Done, fd, egen[fd])
      BY <3>2, NothingSuffices
    <3>4. Unique(sq', polls, Done, fd, egen[fd])
      BY <1>5, <3>2, <3>3 DEF Unique, Nothing
    <3>5. Armed(sq', polls, Done, fd, egen[fd], events[fd])
      BY <1>5, <3>1 DEF Armed
    <3>6. fd \notin changed => events[fd] = want[fd]
      BY <1>1 DEF FdInv
    <3> QED
      BY <1>2, <2>1, <3>2, <3>3, <3>4, <3>5, <3>6 DEF FdInv
  <2>2. CASE d # fd
    <3>1. \A g : \A ev : x \notin Adds(d, g) /\ x \notin AddsFor(d, g, ev)
      BY <1>4, <2>2 DEF Adds, AddsFor
    <3>2. FdInv(d) /\ d \notin adding /\ d \notin adding'
      BY <1>1, <1>2, <2>2
    <3>3. Unique(sq, polls, Done, d, egen[d]) => Unique(sq', polls, Done, d, egen[d])
      BY <1>5, <3>1 DEF Unique
    <3>4. Nothing(sq, polls, Done, d, egen[d]) => Nothing(sq', polls, Done, d, egen[d])
      BY <1>5, <3>1 DEF Nothing
    <3>5. \A ev : Armed(sq, polls, Done, d, egen[d], ev) => Armed(sq', polls, Done, d, egen[d], ev)
      BY <1>5, <3>1 DEF Armed
    <3> QED
      BY <1>2, <3>2, <3>3, <3>4, <3>5 DEF FdInv
  <2> QED
    BY <2>1, <2>2
<1> QED
  BY <1>1, <1>2, <1>7, <1>9, <1>10 DEF RingInv

\* A completion leaves the ring: the token of its descriptor is used up, every other stays.
LEMMA DrainTokens ==
    ASSUME NEW S, NEW P, NEW Q \in Seq(CqEntry), Q # <<>>, NEW fd, NEW g, NEW f
    PROVE  /\ Head(Q) \notin Dones(fd, g) => Moved(S, P, Q, S, P, Tail(Q), fd, g, f)
           /\ Head(Q) \in Dones(fd, g) /\ Unique(S, P, Q, fd, g) => Nothing(S, P, Tail(Q), fd, g)
           /\ Head(Q) \in Dones(fd, g) /\ OfFile(P, Q, fd, g, f) => Head(Q).file = f
<1> DEFINE c == Head(Q)  T == Tail(Q)
<1>1. /\ \A D : HasIn(Q, D) <=> HasIn(T, D) \/ c \in D
      /\ \A D : OnceIn(Q, D) => OnceIn(T, D) /\ (c \in D => ~HasIn(T, D))
  BY InTail
<1> HIDE DEF c, T
<1>2. ASSUME c \notin Dones(fd, g) PROVE Moved(S, P, Q, S, P, T, fd, g, f)
  <2>1. c \notin DonesOff(fd, g, f)
    BY <1>2 DEF DonesOff
  <2>2. Unique(S, P, Q, fd, g) => Unique(S, P, T, fd, g)
    BY <1>1, <1>2 DEF Unique
  <2>3. Nothing(S, P, Q, fd, g) => Nothing(S, P, T, fd, g)
    BY <1>1, <1>2 DEF Nothing
  <2>4. \A ev : Armed(S, P, Q, fd, g, ev) => Armed(S, P, T, fd, g, ev)
    BY <1>1, <1>2 DEF Armed
  <2>5. OfFile(P, Q, fd, g, f) => OfFile(P, T, fd, g, f)
    BY <1>1, <2>1 DEF OfFile
  <2> QED
    BY <2>2, <2>3, <2>4, <2>5 DEF Moved
<1>3. ASSUME c \in Dones(fd, g), Unique(S, P, Q, fd, g) PROVE Nothing(S, P, T, fd, g)
  BY <1>1, <1>3 DEF Unique, Nothing
<1>4. ASSUME c \in Dones(fd, g), OfFile(P, Q, fd, g, f) PROVE c.file = f
  BY <1>1, <1>4 DEF OfFile, DonesOff
<1> QED
  BY <1>2, <1>3, <1>4 DEF c, T

LEMMA DrainStep ==
    ASSUME RingInv, Drain
    PROVE  RingInv'
<1> DEFINE c == Head(cq)
<1>1. /\ TableTypeOK /\ RingTyped /\ Aged(egen) /\ phase \in RingPhases /\ misfed = FALSE /\ adding = {}
      /\ \A d \in Fds : FdInv(d)
  BY DEF RingInv, Drain, TableTypeOK
<1>2. /\ UNCHANGED <<iofdset, egen, file, phase, ops, sq, polls, backlog, adding>>
      /\ cq # <<>> /\ Take(c) /\ cq' = Tail(cq)
  BY DEF Drain
<1>3. /\ cq \in Seq(CqEntry) /\ backlog \in Seq(CqEntry) /\ Len(cq) <= CqEntries /\ c \in CqEntry
      /\ Tail(cq) \in Seq(CqEntry) /\ Len(Tail(cq)) <= CqEntries
  BY <1>1, <1>2, InTail, RingAssumption DEF RingTyped
<1>4. Done \in Seq(CqEntry) /\ Done # <<>> /\ Head(Done) = c /\ Done' = Tail(Done)
  BY <1>2, <1>3, HeadTailConcat DEF Done
<1>5. RingTyped'
  BY <1>1, <1>2, <1>3 DEF RingTyped
<1>6. Aged(egen)'
  <2>1. HasIn(Done, CqAhead(egen)) <=> HasIn(Tail(Done), CqAhead(egen)) \/ c \in CqAhead(egen)
    BY <1>4, InTail
  <2> QED
    BY <1>1, <1>2, <1>4, <2>1 DEF Aged, SqAhead, CqAhead
<1>7. c.fd \in Fds /\ c.res \in {"ready", "cancelled", "badf", "removed"}
  BY <1>3 DEF CqEntry
<1> HIDE DEF c
<1> DEFINE k == c.fd
           stale == c.res = "removed" \/ c.gen # egen[k]
<1>8. ASSUME NEW d \in Fds, d # k \/ stale
      PROVE  Moved(sq, polls, Done, sq', polls', Done', d, egen[d], file[d])
  <2>1. c \notin Dones(d, egen[d])
    BY <1>8 DEF Dones
  <2>2. Moved(sq, polls, Done, sq, polls, Tail(Done), d, egen[d], file[d])
    BY <1>4, <2>1, DrainTokens
  <2> QED
    BY <1>2, <1>4, <2>2
<1>9. ASSUME ~stale
      PROVE  /\ Nothing(sq', polls', Done', k, egen'[k])
             /\ Unique(sq', polls', Done', k, egen'[k])
             /\ OfFile(polls', Done', k, egen'[k], file'[k])
             /\ want[k] # {} /\ k \notin iofdset => c.file = file[k]
  <2>1. c \in Dones(k, egen[k])
    BY <1>3, <1>9 DEF Dones
  <2>2. FdInv(k)
    BY <1>1, <1>7
  <2>3. /\ Unique(sq, polls, Done, k, egen[k]) => Nothing(sq, polls, Tail(Done), k, egen[k])
        /\ OfFile(polls, Done, k, egen[k], file[k]) => c.file = file[k]
    <3> HIDE DEF k
    <3>1. /\ Head(Done) \in Dones(k, egen[k]) /\ Unique(sq, polls, Done, k, egen[k])
                => Nothing(sq, polls, Tail(Done), k, egen[k])
          /\ Head(Done) \in Dones(k, egen[k]) /\ OfFile(polls, Done, k, egen[k], file[k])
                => Head(Done).file = file[k]
      BY <1>4, DrainTokens, Zenon
    <3> QED
      BY <1>4, <2>1, <3>1
  <2>4. /\ Nothing(sq, polls, Tail(Done), k, egen[k])
        /\ want[k] # {} /\ k \notin iofdset => c.file = file[k]
    BY <2>2, <2>3 DEF FdInv
  <2>5. Unique(sq, polls, Tail(Done), k, egen[k]) /\ OfFile(polls, Tail(Done), k, egen[k], file[k])
    BY <2>4, NothingSuffices
  <2> QED
    BY <1>2, <1>4, <2>4, <2>5
<1>10. CASE stale
  <2>1. UNCHANGED <<want, events, changed, misfed>>
    BY <1>2, <1>10 DEF Take
  <2>2. TableTypeOK' /\ ~misfed'
    BY <1>1, <1>2, <2>1 DEF TableTypeOK
  <2>3. ASSUME NEW d \in Fds PROVE FdInv(d)'
    <3>1. FdInv(d) /\ Moved(sq, polls, Done, sq', polls', Done', d, egen[d], file[d])
      BY <1>1, <1>8, <1>10
    <3> QED
      BY <1>2, <2>1, <3>1 DEF FdInv, Moved
  <2> QED
    BY <1>1, <1>2, <1>5, <1>6, <2>2, <2>3 DEF RingInv
<1>11. CASE ~stale
  <2>1. /\ misfed' = FALSE /\ TableTypeOK'
        /\ \A d \in Fds : d # k => want'[d] = want[d] /\ events'[d] = events[d]
        /\ \A d \in Fds : d # k /\ d \notin changed' => d \notin changed
        /\ want'[k] = {} \/ events'[k] = {}
        /\ k \notin changed' => events'[k] = want'[k]
    <3>1. CASE c.res = "badf"
      <4>1. FdKill({k}) /\ events' = events /\ misfed' = misfed
        BY <1>2, <1>11, <3>1 DEF Take
      <4>2. /\ want' = [d \in Fds |-> IF d \in {k} THEN {} ELSE want[d]]
            /\ changed' = changed \cup {d \in {k} : want[d] # {}}
        BY <4>1 DEF FdKill
      <4>3. want'[k] = {} /\ want' \in [Fds -> SUBSET Ev] /\ \A d \in Fds : d # k => want'[d] = want[d]
        BY <1>1, <1>7, <4>2 DEF TableTypeOK
      <4>4. changed \subseteq changed' /\ changed' \subseteq Fds /\ (k \notin changed' => want[k] = {})
        BY <1>1, <1>7, <4>2 DEF TableTypeOK
      <4>5. k \notin changed => events[k] = want[k]
        BY <1>1, <1>7 DEF FdInv
      <4>6. TableTypeOK'
        BY <1>1, <1>2, <4>1, <4>3, <4>4 DEF TableTypeOK
      <4> QED
        BY <1>1, <4>1, <4>3, <4>4, <4>5, <4>6
    <3>2. CASE c.res # "badf"
      <4>1. /\ Rearm({k}) /\ want' = want
            /\ misfed' = misfed \/ misfed' = (misfed \/ (Heard(k, Ev) /\ c.file # file[k]))
        BY <1>2, <1>7, <1>11, <3>2 DEF Take, FdEvent
      <4>2. ~(Heard(k, Ev) /\ c.file # file[k])
        <5>1. k \notin changed => k \notin iofdset
          BY <1>1 DEF TableTypeOK
        <5> QED
          BY <1>9, <1>11, <5>1 DEF Heard
      <4>3. misfed' = FALSE
        BY <1>1, <4>1, <4>2
      <4>4. /\ events' = [d \in Fds |-> IF d \in {k} THEN {} ELSE events[d]]
            /\ changed' = changed \cup {k}
        BY <4>1 DEF Rearm
      <4>5. events'[k] = {} /\ events' \in [Fds -> SUBSET Ev] /\ \A d \in Fds : d # k => events'[d] = events[d]
        BY <1>1, <1>7, <4>4 DEF TableTypeOK
      <4>6. TableTypeOK'
        BY <1>1, <1>2, <1>7, <4>1, <4>3, <4>4, <4>5 DEF TableTypeOK
      <4> QED
        BY <4>1, <4>3, <4>4, <4>5, <4>6
    <3> QED
      BY <3>1, <3>2
  <2>2. ASSUME NEW d \in Fds PROVE FdInv(d)'
    <3>1. CASE d = k
      BY <1>1, <1>2, <1>9, <1>11, <2>1, <3>1 DEF FdInv
    <3>2. CASE d # k
      <4>1. FdInv(d) /\ Moved(sq, polls, Done, sq', polls', Done', d, egen[d], file[d])
        BY <1>1, <1>8, <3>2
      <4>2. want'[d] = want[d] /\ events'[d] = events[d] /\ (d \notin changed' => d \notin changed)
        BY <2>1, <3>2
      <4> QED
        BY <1>2, <4>1, <4>2 DEF FdInv, Moved
    <3> QED
      BY <3>1, <3>2
  <2> QED
    BY <1>1, <1>2, <1>5, <1>6, <2>1, <2>2 DEF RingInv
<1> QED
  BY <1>10, <1>11

\* Empty rings hold nothing.
LEMMA EmptyRings ==
    /\ \A D : ~HasIn(<<>>, D)
    /\ \A fd : \A g : Nothing(<<>>, {}, <<>>, fd, g)
    /\ <<>> \o <<>> = <<>>
<1>1. \A D : ~HasIn(<<>>, D)
  BY DEF HasIn
<1> QED
  BY <1>1 DEF Nothing, HasPoll

LEMMA RingForkStep ==
    ASSUME RingInv, RingFork
    PROVE  RingInv'
<1> DEFINE armed == {fd \in Fds : events[fd] # {}}
<1>1. TableTypeOK /\ phase \in RingPhases /\ ~misfed /\ \A d \in Fds : FdInv(d)
  BY DEF RingInv
<1>2. /\ UNCHANGED <<want, egen, file, phase, misfed>> /\ ops < MaxOps /\ ops' = ops + 1
      /\ sq' = <<>> /\ polls' = {} /\ cq' = <<>> /\ backlog' = <<>> /\ adding' = {}
      /\ events' = [fd \in Fds |-> IF fd \in armed THEN {} ELSE events[fd]]
      /\ changed' = changed \cup armed /\ iofdset' = iofdset \cup armed
  BY DEF RingFork, CanAct, RearmAll, Rearm
<1>3. Done' = <<>> /\ \A fd \in Fds : Nothing(sq', polls', Done', fd, egen'[fd])
  BY <1>2, EmptyRings DEF Done
<1>7. RingTyped' /\ Aged(egen)'
  BY <1>2, <1>3, FS_EmptySet, RingAssumption, EmptyRings DEF RingTyped, Aged
<1>4. events' \in [Fds -> SUBSET Ev] /\ \A fd \in Fds : events'[fd] = {}
  BY <1>1, <1>2 DEF TableTypeOK
<1>5. TableTypeOK'
  BY <1>1, <1>2, <1>4, TableAssumption DEF TableTypeOK
<1>6. ASSUME NEW d \in Fds PROVE FdInv(d)'
  <2>1. Nothing(sq', polls', Done', d, egen'[d]) /\ events'[d] = {} /\ d \notin adding'
    BY <1>2, <1>3, <1>4
  <2>2. Unique(sq', polls', Done', d, egen'[d]) /\ OfFile(polls', Done', d, egen'[d], file'[d])
    BY <2>1, NothingSuffices
  <2>3. d \notin changed' => want'[d] = {}
    BY <1>1, <1>2 DEF FdInv
  <2> QED
    BY <2>1, <2>2, <2>3 DEF FdInv
<1> QED
  BY <1>1, <1>2, <1>5, <1>6, <1>7 DEF RingInv

LEMMA RingStart ==
    ASSUME RingInit
    PROVE  RingInv
<1>1. sq = <<>> /\ polls = {} /\ cq = <<>> /\ backlog = <<>> /\ adding = {}
  BY DEF RingInit, RingEmpty
<1>2. Done = <<>>
  BY <1>1, EmptyRings DEF Done
<1>3. \A fd \in Fds : Nothing(sq, polls, Done, fd, egen[fd])
  <2> TAKE fd \in Fds
  <2>1. ~HasIn(sq, Adds(fd, egen[fd])) /\ ~HasPoll(polls, fd, egen[fd]) /\ ~HasIn(Done, Dones(fd, egen[fd]))
    BY <1>1, <1>2, EmptyRings DEF HasPoll
  <2> QED
    BY <2>1 DEF Nothing
<1>4. RingTyped /\ Aged(egen)
  BY <1>1, <1>2, FS_EmptySet, RingAssumption, EmptyRings DEF RingTyped, Aged
<1>5. TableTypeOK /\ phase \in RingPhases /\ ~misfed
  <2>1. TableInit
    BY DEF RingInit
  <2>2. phase \in RingPhases /\ ~misfed /\ misfed \in BOOLEAN /\ changed \subseteq Fds /\ iofdset \subseteq changed
    BY <2>1 DEF TableInit, RingPhases
  <2>3. want \in [Fds -> SUBSET Ev] /\ events \in [Fds -> SUBSET Ev]
    BY <2>1 DEF TableInit
  <2>4. egen \in [Fds -> Nat] /\ file \in [Fds -> Nat] /\ ops \in 0 .. MaxOps
    BY <2>1, TableAssumption DEF TableInit
  <2> QED
    BY <2>2, <2>3, <2>4 DEF TableTypeOK
<1>6. ASSUME NEW d \in Fds PROVE FdInv(d)
  <2>1. Nothing(sq, polls, Done, d, egen[d]) /\ events[d] = {} /\ want[d] = {} /\ d \notin adding
    BY <1>1, <1>3 DEF RingInit, TableInit
  <2>2. Unique(sq, polls, Done, d, egen[d]) /\ OfFile(polls, Done, d, egen[d], file[d])
    BY <2>1, NothingSuffices
  <2> QED
    BY <2>1, <2>2 DEF FdInv
<1> QED
  BY <1>1, <1>4, <1>5, <1>6 DEF RingInv

LEMMA RingNextStep ==
    ASSUME RingInv, [RingNext]_uvars
    PROVE  RingInv'
<1>1. ASSUME NEW fd \in Fds, NEW S \in {{}, {"r"}, {"r", "w"}}, IoSet(fd, S), UNCHANGED ring PROVE RingInv'
  <2>1. S \in SUBSET Ev
    BY DEF Ev
  <2> QED
    BY <1>1, <2>1, RingIoSetStep
<1>2. ASSUME NEW fd \in Fds, Reopen(fd), UNCHANGED ring PROVE RingInv'
  BY <1>2, RingReopenStep
<1>3. ASSUME NEW fd \in Fds, ModifyRemove(fd) PROVE RingInv'
  BY <1>3, ModifyRemoveStep
<1>4. ASSUME NEW fd \in Fds, ModifyAdd(fd) PROVE RingInv'
  BY <1>4, ModifyAddStep
<1>5. CASE \/ FlushSq \/ Submit
           \/ \E p \in polls, res \in {"ready", "cancelled"} : Completes(p, res)
  BY <1>5, RingKernelStep
<1>6. CASE StartReify \/ EndReify \/ WaitEnds \/ DrainEnds
  BY <1>6, RingPhaseStep
<1>7. CASE Drain
  BY <1>7, DrainStep
<1>8. CASE GetEvents
  BY <1>8, GetEventsStep
<1>9. CASE RingFork
  BY <1>9, RingForkStep
<1>10. CASE UNCHANGED uvars
  <2>1. UNCHANGED <<want, events, changed, iofdset, egen, file, phase, misfed, ops, sq, polls, cq, backlog, adding>>
    BY <1>10 DEF uvars, table, ring
  <2>2. Done' = Done /\ cq' \in Seq(CqEntry) /\ Len(cq') <= CqEntries /\ backlog' \in Seq(CqEntry)
    BY <2>1 DEF Done, RingInv, RingTyped
  <2>3. TableTypeOK' /\ ~misfed' /\ phase' \in RingPhases
    BY <2>1 DEF RingInv, TableTypeOK
  <2>4. \A d \in Fds : d \notin changed => events[d] = want[d]
    BY DEF RingInv, FdInv
  <2> QED
    BY <2>1, <2>2, <2>3, <2>4, TableStep
<1> QED
  BY <1>1, <1>2, <1>3, <1>4, <1>5, <1>6, <1>7, <1>8, <1>9, <1>10, Zenon DEF RingNext

LEMMA RingInvSound ==
    ASSUME RingInv
    PROVE  RingSound
<1>1. TableTypeOK /\ RingTyped /\ ~misfed
  BY DEF RingInv
<1>2. ASSUME NEW fd \in Fds, want[fd] # {}, fd \notin changed, fd \notin adding
      PROVE  /\ events[fd] = want[fd]
             /\ \/ \E i \in 1 .. Len(sq) : sq[i].op = "add" /\ sq[i].fd = fd
                                            /\ sq[i].gen = egen[fd] /\ sq[i].ev = want[fd]
                \/ \E p \in polls : p.fd = fd /\ p.gen = egen[fd] /\ p.ev = want[fd] /\ p.file = file[fd]
                \/ \E c \in Range(cq \o backlog) : c.fd = fd /\ c.gen = egen[fd] /\ c.res # "removed"
  <2>1. FdInv(fd) /\ fd \notin iofdset
    BY <1>1, <1>2 DEF RingInv, TableTypeOK
  <2>2. /\ events[fd] = want[fd] /\ Armed(sq, polls, Done, fd, egen[fd], want[fd])
        /\ OfFile(polls, Done, fd, egen[fd], file[fd])
    BY <1>2, <2>1 DEF FdInv
  <2>3. CASE HasIn(sq, AddsFor(fd, egen[fd], want[fd]))
    BY <2>2, <2>3 DEF HasIn, AddsFor, Adds
  <2>4. CASE \E p \in polls : p \in Polls(fd, egen[fd]) /\ p.ev = want[fd]
    BY <2>2, <2>4 DEF OfFile, Polls
  <2>5. CASE HasIn(Done, Dones(fd, egen[fd]))
    <3>1. DOMAIN Done = 1 .. Len(Done)
      BY <1>1 DEF RingTyped, Done
    <3> QED
      BY <2>2, <2>5, <3>1 DEF HasIn, Dones, Range, Done
  <2> QED
    BY <2>2, <2>3, <2>4, <2>5 DEF Armed
<1> QED
  BY <1>1, <1>2 DEF RingSound, WatchedIsArmed, RingStaleIgnored

\* Through every mix of late, cancelled, deferred and overflowed completions, a watched
\* descriptor has its poll outstanding or a completion on the way, and no completion of a
\* poll that was given up reaches the watcher of the file that now has the number.
THEOREM RingIsSound == RingSpec => []RingSound
<1>1. RingInit => RingInv
  BY RingStart
<1>2. RingInv /\ [RingNext]_uvars => RingInv'
  BY RingNextStep
<1>3. RingInv => RingSound
  BY RingInvSound
<1> QED
  BY <1>1, <1>2, <1>3, PTL DEF RingSpec

\* No request is written over one the kernel has not taken, no completion over one the loop
\* has not read: neither ring ever holds more than its size.
THEOREM RingsBounded == RingSpec => []RingTypeOK
<1>1. RingInit => RingInv
  BY RingStart
<1>2. RingInv /\ [RingNext]_uvars => RingInv'
  BY RingNextStep
<1>3. RingInv => RingTypeOK
  <2> SUFFICES ASSUME RingInv PROVE RingTypeOK
    OBVIOUS
  <2>1. Cardinality(adding) <= 1 /\ adding \subseteq Fds
    <3>1. adding = {} \/ \E fd \in Fds : adding = {fd}
      BY DEF RingInv
    <3> QED
      BY <3>1, FS_EmptySet, FS_Singleton
  <2>2. \A p \in polls : p.fd \in Fds /\ p.gen <= egen[p.fd]
    BY DEF RingInv, RingTyped, PollEntry, Aged
  <2> QED
    BY <2>1, <2>2 DEF RingInv, RingTyped, RingTypeOK, RingPhases
<1> QED
  BY <1>1, <1>2, <1>3, PTL DEF RingSpec

(***************************************************************************)
(* linuxaio.  The token of a descriptor is the iocb queued, the request in *)
(* the kernel or its event in the ring; or the inner epoll has it.         *)
(***************************************************************************)
AioPhases == {"run", "reify", "submit", "wait", "drain", "epoll"}
AioEntry == [fd : Fds, gen : Nat, file : Nat]
AioEvs(fd, g) == {e \in AioEntry : e.fd = fd /\ e.gen = g}
AioEvsOff(fd, g, f) == {e \in AioEvs(fd, g) : e.file # f}
AioAhead(G) == {e \in AioEntry : e.gen > G[e.fd]}
Queued(fd) == HasIn(submits, {fd})

\* Requests R and events Q hold at most one token of fd under generation g; none; one for ev,
\* or an event; none that is not of file f.
AioUnique(R, Q, fd, g) ==
    /\ \A p, r \in R : p \in Polls(fd, g) /\ r \in Polls(fd, g) => p = r
    /\ OnceIn(Q, AioEvs(fd, g))
    /\ ~(HasPoll(R, fd, g) /\ HasIn(Q, AioEvs(fd, g)))
AioNothing(R, Q, fd, g) == ~HasPoll(R, fd, g) /\ ~HasIn(Q, AioEvs(fd, g))
AioAsked(R, Q, fd, g, ev) ==
    \/ \E p \in R : p \in Polls(fd, g) /\ p.ev = ev
    \/ HasIn(Q, AioEvs(fd, g))
AioOfFile(R, Q, fd, g, f) ==
    /\ \A p \in R : p \in Polls(fd, g) => p.file = f
    /\ ~HasIn(Q, AioEvsOff(fd, g, f))

AioTyped ==
    /\ aio_buf \in [Fds -> SUBSET Ev] /\ viaepoll \in SUBSET Fds /\ submits \in Seq(Fds)
    /\ agen \in [Fds -> Nat] /\ reqs \in SUBSET PollEntry /\ IsFiniteSet(reqs)
    /\ aring \in Seq(AioEntry) /\ eregs \in SUBSET PollEntry

AioAged(G) ==
    /\ ~HasIn(aring, AioAhead(G))
    /\ \A r \in reqs : r.gen <= G[r.fd]
    /\ \A r \in eregs : r.gen <= G[r.fd]

\* What the backend has of a descriptor.  A queued iocb is of the present generation and for
\* what is wanted, and is its only token; a descriptor whose iocb is not in use, or that epoll
\* has, has none, so that linuxaio_modify need not change the generation; one that is watched,
\* and was not stopped since the last reify, is with one of the four, on the file it is now.
AioFd(fd) ==
    /\ OnceIn(submits, {fd}) /\ AioUnique(reqs, aring, fd, egen[fd])
    /\ Queued(fd) => /\ agen[fd] = egen[fd] /\ aio_buf[fd] = want[fd] /\ events[fd] = want[fd]
                     /\ want[fd] # {} /\ fd \notin viaepoll /\ fd \notin changed
                     /\ AioNothing(reqs, aring, fd, egen[fd])
    /\ aio_buf[fd] = {} \/ fd \in viaepoll => AioNothing(reqs, aring, fd, egen[fd])
    /\ fd \in viaepoll => aio_buf[fd] # {} \/ events[fd] = {}
    /\ fd \notin changed => events[fd] = want[fd]
    /\ want[fd] # {} /\ events[fd] # {} /\ fd \notin iofdset =>
          \/ Queued(fd) \/ AioAsked(reqs, aring, fd, egen[fd], events[fd])
          \/ fd \in viaepoll /\ Request(fd, egen[fd], events[fd]) \in eregs
    /\ want[fd] # {} /\ fd \notin iofdset => AioOfFile(reqs, aring, fd, egen[fd], file[fd])

\* The inductive invariant.  The inner epoll forgets a closed file, so what it has is of the
\* file that is open now.
AioInv ==
    /\ TableTypeOK /\ phase \in AioPhases /\ AioTyped /\ AioAged(egen) /\ ~misfed
    /\ phase \notin {"reify", "submit"} => submits = <<>>
    /\ \A r \in eregs : r.file = file[r.fd]
    /\ \A fd \in Fds : AioFd(fd)

LEMMA RequestTyped ==
    ASSUME TableTypeOK, NEW fd \in Fds, NEW g \in Nat, NEW ev \in SUBSET Ev
    PROVE  /\ Request(fd, g, ev) \in PollEntry /\ Request(fd, g, ev).fd = fd /\ Request(fd, g, ev).gen = g
           /\ Request(fd, g, ev).ev = ev /\ Request(fd, g, ev).file = file[fd]
  BY DEF Request, PollEntry, TableTypeOK

LEMMA AioEventTyped ==
    ASSUME NEW r \in PollEntry
    PROVE  Event(r) \in AioEntry /\ Event(r).fd = r.fd /\ Event(r).gen = r.gen /\ Event(r).file = r.file
  BY DEF Event, AioEntry, PollEntry

\* A step that leaves the requests and the generations alone.
LEMMA AioTableStep ==
    ASSUME AioInv, UNCHANGED <<aio_buf, viaepoll, submits, agen, reqs, aring, eregs, egen, events>>,
           TableTypeOK', phase' \in AioPhases, ~misfed',
           phase' \notin {"reify", "submit"} => submits = <<>>,
           \A r \in eregs : r.file = file'[r.fd],
           \A fd \in Fds :
              /\ Queued(fd) => want'[fd] = want[fd] /\ fd \notin changed'
              /\ fd \notin changed' => events[fd] = want'[fd]
              /\ want'[fd] # {} /\ fd \notin iofdset' =>
                    want[fd] # {} /\ fd \notin iofdset /\ file'[fd] = file[fd]
    PROVE  AioInv'
<1>1. AioTyped' /\ AioAged(egen)'
  BY DEF AioInv, AioTyped, AioAged, AioAhead
<1>2. ASSUME NEW fd \in Fds PROVE AioFd(fd)'
  <2>1. AioFd(fd) /\ (Queued(fd)' <=> Queued(fd))
    BY DEF AioInv, Queued
  <2> QED
    BY <2>1 DEF AioFd, Request
<1> QED
  BY <1>1, <1>2 DEF AioInv

LEMMA AioIoSetStep ==
    ASSUME AioInv, NEW fd \in Fds, NEW S \in SUBSET Ev, IoSet(fd, S), UNCHANGED aio
    PROVE  AioInv'
<1>1. /\ want' = [want EXCEPT ![fd] = S] /\ changed' = changed \cup {fd}
      /\ iofdset' = IF want[fd] = {} THEN iofdset \cup {fd} ELSE iofdset
      /\ UNCHANGED <<events, egen, file, phase, misfed>> /\ ops < MaxOps /\ ops' = ops + 1
      /\ phase \in {"run", "wait"}
  BY DEF IoSet, CanAct
<1>2. UNCHANGED <<aio_buf, viaepoll, submits, agen, reqs, aring, eregs>>
  BY DEF aio
<1>3. TableTypeOK /\ TableTypeOK' /\ phase' \in AioPhases /\ ~misfed' /\ submits = <<>>
  BY <1>1, TableAssumption DEF AioInv, TableTypeOK
<1>4. ASSUME NEW d \in Fds
      PROVE  /\ ~Queued(d)
             /\ d \notin changed' => events[d] = want'[d]
             /\ want'[d] # {} /\ d \notin iofdset' => want[d] # {} /\ d \notin iofdset /\ file'[d] = file[d]
  <2>1. AioFd(d)
    BY DEF AioInv
  <2>2. ~Queued(d)
    BY <1>3, EmptyRings DEF Queued
  <2>3. CASE d = fd
    BY <1>1, <2>2, <2>3
  <2>4. CASE d # fd
    <3>1. want'[d] = want[d]
      BY <1>1, <1>3, <2>4 DEF TableTypeOK
    <3> QED
      BY <1>1, <2>1, <2>2, <3>1 DEF AioFd
  <2> QED
    BY <2>3, <2>4
<1>5. \A r \in eregs : r.file = file'[r.fd]
  BY <1>1 DEF AioInv
<1> QED
  BY <1>1, <1>2, <1>3, <1>4, <1>5, AioTableStep

\* The steps that move the phase only, and an event of the inner epoll.
LEMMA AioPhaseStep ==
    ASSUME AioInv, \/ AioStartReify \/ AioEndReify \/ AioPoll \/ AioWaitEnds \/ AioDrainEnds
                   \/ UNCHANGED avars \/ \E r \in eregs : EpollCb(r)
    PROVE  AioInv'
<1>1. /\ UNCHANGED <<want, events, changed, iofdset, egen, file, ops,
                     aio_buf, viaepoll, submits, agen, reqs, aring, eregs>>
      /\ phase' \in AioPhases /\ (phase' \notin {"reify", "submit"} => submits = <<>>)
  BY DEF AioStartReify, AioEndReify, AioPoll, AioWaitEnds, AioDrainEnds, EpollCb, avars, table, aio,
         AioPhases, AioInv
<1>2. misfed' = FALSE
  <2>1. CASE misfed' = misfed
    BY <2>1 DEF AioInv, TableTypeOK
  <2>2. ASSUME NEW r \in eregs, EpollCb(r) PROVE misfed' = FALSE
    <3>1. r.file = file[r.fd] /\ misfed = FALSE
      BY DEF AioInv, TableTypeOK
    <3> QED
      BY <2>2, <3>1 DEF EpollCb, FdEvent
  <2> QED
    BY <2>1, <2>2 DEF AioStartReify, AioEndReify, AioPoll, AioWaitEnds, AioDrainEnds, avars, table
<1>3. TableTypeOK'
  BY <1>1, <1>2 DEF AioInv, TableTypeOK
<1>4. \A d \in Fds : /\ d \notin changed => events[d] = want[d]
                     /\ Queued(d) => d \notin changed
  BY DEF AioInv, AioFd
<1>5. \A r \in eregs : r.file = file'[r.fd]
  BY <1>1 DEF AioInv
<1> QED
  BY <1>1, <1>2, <1>3, <1>4, <1>5, AioTableStep

\* A close ends the registration with epoll; nothing watches the descriptor.
LEMMA AioReopenStep ==
    ASSUME AioInv, NEW fd \in Fds, AioReopen(fd)
    PROVE  AioInv'
<1>1. /\ file' = [file EXCEPT ![fd] = @ + 1] /\ want[fd] = {} /\ phase \in {"run", "wait"}
      /\ UNCHANGED <<want, events, changed, iofdset, egen, phase, misfed>>
      /\ ops < MaxOps /\ ops' = ops + 1 /\ eregs' = {r \in eregs : r.fd # fd}
      /\ UNCHANGED <<aio_buf, viaepoll, submits, agen, reqs, aring>>
  BY DEF AioReopen, Reopen, CanAct
<1>2. TableTypeOK /\ TableTypeOK' /\ phase' \in AioPhases /\ ~misfed' /\ submits = <<>>
  BY <1>1, TableAssumption DEF AioInv, TableTypeOK
<1>3. AioTyped'
  BY <1>1 DEF AioInv, AioTyped
<1>4. AioAged(egen)'
  BY <1>1 DEF AioInv, AioAged, AioAhead
<1>5. \A d \in Fds : d # fd => file'[d] = file[d]
  BY <1>1, <1>2 DEF TableTypeOK
<1>6. \A r \in eregs' : r.file = file'[r.fd]
  <2>1. \A r \in eregs : r.file = file[r.fd] /\ r.fd \in Fds
    BY DEF AioInv, AioTyped, PollEntry
  <2> QED
    BY <1>1, <1>5, <2>1
<1>7. ASSUME NEW d \in Fds PROVE AioFd(d)'
  <2>1. AioFd(d) /\ (Queued(d)' <=> Queued(d))
    BY <1>1 DEF AioInv, Queued
  <2>2. CASE d = fd
    BY <1>1, <2>1, <2>2 DEF AioFd
  <2>3. CASE d # fd
    <3>1. file'[d] = file[d]
      BY <1>5, <2>3
    <3>2. Request(d, egen[d], events[d])' = Request(d, egen[d], events[d])
      BY <1>1, <3>1 DEF Request
    <3>3. Request(d, egen[d], events[d]).fd = d
      BY DEF Request
    <3>4. Request(d, egen[d], events[d]) \in eregs => Request(d, egen[d], events[d])' \in eregs'
      BY <1>1, <2>3, <3>2, <3>3
    <3> QED
      BY <1>1, <2>1, <3>1, <3>4 DEF AioFd
  <2> QED
    BY <2>2, <2>3
<1> QED
  BY <1>1, <1>2, <1>3, <1>4, <1>6, <1>7 DEF AioInv

\* A request completes.
LEMMA AioCompletesStep ==
    ASSUME AioInv, NEW r \in reqs, AioCompletes(r)
    PROVE  AioInv'
<1> DEFINE e == Event(r)
<1>1. /\ TableTypeOK /\ AioTyped /\ AioAged(egen) /\ r \in PollEntry
      /\ \A d \in Fds : AioFd(d)
  BY DEF AioInv, AioTyped
<1>2. /\ reqs' = reqs \ {r} /\ aring' = Append(aring, e)
      /\ UNCHANGED <<want, events, changed, iofdset, egen, file, phase, misfed, ops,
                     aio_buf, viaepoll, submits, agen, eregs>>
  BY DEF AioCompletes, table
<1>3. e \in AioEntry /\ e.fd = r.fd /\ e.gen = r.gen /\ e.file = r.file
  BY <1>1, AioEventTyped
<1> HIDE DEF e
<1>4. /\ aring' \in Seq(AioEntry)
      /\ \A D : HasIn(aring', D) <=> HasIn(aring, D) \/ e \in D
      /\ \A D : OnceIn(aring, D) /\ ~(HasIn(aring, D) /\ e \in D) => OnceIn(aring', D)
  BY <1>1, <1>2, <1>3, InAppend DEF AioTyped
<1>5. AioTyped'
  BY <1>1, <1>2, <1>4, FS_RemoveElement DEF AioTyped
<1>6. e \notin AioAhead(egen)
  BY <1>1, <1>3 DEF AioAhead, AioAged, TableTypeOK, PollEntry
<1>7. AioAged(egen)'
  BY <1>1, <1>2, <1>4, <1>6 DEF AioAged, AioAhead
<1>8. TableTypeOK'
  BY <1>1, <1>2 DEF TableTypeOK
<1>9. ASSUME NEW d \in Fds PROVE AioFd(d)'
  <2> DEFINE g == egen[d]
  <2>1. e \in AioEvs(d, g) <=> r \in Polls(d, g)
    BY <1>1, <1>3 DEF AioEvs, Polls
  <2>2. \A f : e \in AioEvsOff(d, g, f) => r \in Polls(d, g) /\ r.file # f
    BY <1>3, <2>1 DEF AioEvsOff
  <2>3. \A p : p \in reqs' <=> p \in reqs /\ p # r
    BY <1>2
  <2> HIDE DEF g
  <2>4. AioUnique(reqs, aring, d, g) => AioUnique(reqs', aring', d, g)
    BY <1>4, <2>1, <2>3 DEF AioUnique, HasPoll
  <2>5. AioNothing(reqs, aring, d, g) => AioNothing(reqs', aring', d, g)
    BY <1>4, <2>1, <2>3 DEF AioNothing, HasPoll
  <2>6. \A ev : AioAsked(reqs, aring, d, g, ev) => AioAsked(reqs', aring', d, g, ev)
    BY <1>4, <2>1, <2>3 DEF AioAsked
  <2>7. \A f : AioOfFile(reqs, aring, d, g, f) => AioOfFile(reqs', aring', d, g, f)
    BY <1>4, <2>2, <2>3 DEF AioOfFile
  <2>8. AioFd(d) /\ (Queued(d)' <=> Queued(d)) /\ g = egen[d]
    BY <1>1, <1>2 DEF Queued, g
  <2> QED
    BY <1>2, <2>4, <2>5, <2>6, <2>7, <2>8 DEF AioFd, Request
<1> QED
  BY <1>2, <1>5, <1>7, <1>8, <1>9 DEF AioInv

LEMMA AioNothingSuffices ==
    ASSUME NEW R, NEW Q, NEW fd, NEW g, AioNothing(R, Q, fd, g)
    PROVE  AioUnique(R, Q, fd, g) /\ \A f : AioOfFile(R, Q, fd, g, f)
  BY DEF AioNothing, AioUnique, AioOfFile, AioEvsOff, HasPoll, HasIn, OnceIn

\* A step that does nothing to descriptor d.
AioSame(d) ==
    /\ want'[d] = want[d] /\ events'[d] = events[d] /\ egen'[d] = egen[d] /\ file'[d] = file[d]
    /\ aio_buf'[d] = aio_buf[d] /\ agen'[d] = agen[d]
    /\ (d \in changed' <=> d \in changed) /\ (d \in iofdset' <=> d \in iofdset)
    /\ (d \in viaepoll' <=> d \in viaepoll)
    /\ (Queued(d)' <=> Queued(d)) /\ OnceIn(submits', {d})
    /\ \A p \in PollEntry : p.fd = d => (p \in reqs' <=> p \in reqs) /\ (p \in eregs' <=> p \in eregs)
    /\ \A D : (\A e \in D : e.fd = d) => /\ HasIn(aring', D) <=> HasIn(aring, D)
                                         /\ OnceIn(aring, D) => OnceIn(aring', D)

LEMMA AioOtherFd ==
    ASSUME TableTypeOK, AioTyped, AioTyped', NEW d \in Fds, AioFd(d), AioSame(d)
    PROVE  AioFd(d)'
<1> DEFINE g == egen[d]  f == file[d]
<1>1. \A p : p \in Polls(d, g) => (p \in reqs' <=> p \in reqs)
  BY DEF AioSame, Polls
<1>2. /\ HasIn(aring', AioEvs(d, g)) <=> HasIn(aring, AioEvs(d, g))
      /\ OnceIn(aring, AioEvs(d, g)) => OnceIn(aring', AioEvs(d, g))
      /\ HasIn(aring', AioEvsOff(d, g, f)) <=> HasIn(aring, AioEvsOff(d, g, f))
  <2>1. (\A e \in AioEvs(d, g) : e.fd = d) /\ (\A e \in AioEvsOff(d, g, f) : e.fd = d)
    BY DEF AioEvs, AioEvsOff
  <2> HIDE DEF g, f
  <2> QED
    BY <2>1, Zenon DEF AioSame
<1>3. /\ Request(d, g, events[d])' = Request(d, g, events[d])
      /\ Request(d, g, events[d]) \in eregs => Request(d, g, events[d]) \in eregs'
  <2>1. Request(d, g, events[d]) \in PollEntry /\ Request(d, g, events[d]).fd = d
    BY RequestTyped DEF TableTypeOK
  <2>2. Request(d, g, events[d])' = Request(d, g, events[d])
    BY DEF AioSame, Request
  <2> QED
    BY <2>1, <2>2 DEF AioSame
<1>4. g' = g /\ f' = f
  BY DEF AioSame
<1> DEFINE q == Request(d, g, events[d])
<1>5. q' = q /\ (q \in eregs => q \in eregs')
  BY <1>3
<1>6. /\ AioUnique(reqs, aring, d, g) => AioUnique(reqs', aring', d, g)
      /\ AioNothing(reqs, aring, d, g) => AioNothing(reqs', aring', d, g)
      /\ AioAsked(reqs, aring, d, g, events[d]) => AioAsked(reqs', aring', d, g, events[d])
      /\ AioOfFile(reqs, aring, d, g, f) => AioOfFile(reqs', aring', d, g, f)
  <2> HIDE DEF g, f
  <2> QED
    BY <1>1, <1>2 DEF AioUnique, AioNothing, AioAsked, AioOfFile, HasPoll
<1>7. /\ want'[d] = want[d] /\ events'[d] = events[d] /\ egen'[d] = egen[d] /\ file'[d] = file[d]
      /\ aio_buf'[d] = aio_buf[d] /\ agen'[d] = agen[d]
      /\ (d \in changed' <=> d \in changed) /\ (d \in iofdset' <=> d \in iofdset)
      /\ (d \in viaepoll' <=> d \in viaepoll)
      /\ (Queued(d)' <=> Queued(d)) /\ OnceIn(submits', {d})
  BY DEF AioSame
<1>8. /\ AioUnique(reqs', aring', d, egen'[d])
      /\ AioNothing(reqs, aring, d, egen[d]) => AioNothing(reqs', aring', d, egen'[d])
      /\ AioAsked(reqs, aring, d, egen[d], events[d]) => AioAsked(reqs', aring', d, egen'[d], events'[d])
      /\ AioOfFile(reqs, aring, d, egen[d], file[d]) => AioOfFile(reqs', aring', d, egen'[d], file'[d])
      /\ Request(d, egen[d], events[d]) \in eregs => Request(d, egen[d], events[d])' \in eregs'
  <2>1. AioUnique(reqs, aring, d, egen[d])
    BY DEF AioFd
  <2> QED
    BY <1>5, <1>6, <1>7, <2>1
<1> QED
  BY <1>7, <1>8 DEF AioFd

\* io_cancel: what it takes from the kernel is of the present generation or older.
LEMMA IoCancelKept ==
    ASSUME TableTypeOK, AioTyped, AioAged(egen), NEW fd \in Fds, IoCancel(fd)
    PROVE  /\ reqs' \in SUBSET reqs /\ IsFiniteSet(reqs') /\ aring' \in Seq(AioEntry)
           /\ ~HasIn(aring', AioAhead(egen))
           /\ \A p \in reqs : p.fd # fd => p \in reqs'
           /\ \A D : (\A e \in D : e.fd # fd) => /\ HasIn(aring', D) <=> HasIn(aring, D)
                                                 /\ OnceIn(aring, D) => OnceIn(aring', D)
<1> DEFINE own == {r \in reqs : r.fd = fd /\ r.gen = agen[fd]}
           gone == {Event(r) : r \in own}
           G == SetToSeq(gone)
<1>1. reqs \in SUBSET PollEntry /\ IsFiniteSet(reqs) /\ aring \in Seq(AioEntry) /\ ~HasIn(aring, AioAhead(egen))
  BY DEF AioTyped, AioAged
<1>2. CASE UNCHANGED <<reqs, aring>>
  BY <1>1, <1>2
<1>3. CASE reqs' = reqs \ own /\ aring' = aring \o G
  <2>1. own \in SUBSET reqs /\ reqs' \in SUBSET reqs /\ \A p \in reqs : p.fd # fd => p \in reqs'
    BY <1>3
  <2>2. IsFiniteSet(own) /\ IsFiniteSet(reqs')
    BY <1>1, <2>1, FS_Subset
  <2>3. \A e \in gone : e \in AioEntry /\ e.fd = fd /\ e.gen <= egen[fd]
    <3> TAKE e \in gone
    <3>1. PICK r \in own : e = Event(r)
      OBVIOUS
    <3>2. r \in PollEntry /\ r \in reqs /\ r.fd = fd
      BY <1>1, <3>1
    <3>3. r.gen <= egen[fd]
      BY <3>2 DEF AioAged
    <3> QED
      BY <3>1, <3>2, <3>3, AioEventTyped
  <2>4. IsFiniteSet(gone)
    <3> DEFINE h == [r \in own |-> Event(r)]
    <3>1. h \in Surjection(own, gone)
      BY DEF Surjection
    <3> QED
      BY <2>2, <3>1, FS_Surjection
  <2>5. G \in Seq(gone)
    BY <2>4, ListOf
  <2> HIDE DEF gone, G, own
  <2>6. G \in Seq(AioEntry) /\ \A i \in 1 .. Len(G) : G[i] \in gone
    BY <2>3, <2>5
  <2>7. /\ aring' \in Seq(AioEntry)
        /\ \A D : HasIn(aring', D) <=> HasIn(aring, D) \/ HasIn(G, D)
        /\ \A D : OnceIn(aring, D) /\ ~HasIn(G, D) => OnceIn(aring', D)
    BY <1>1, <1>3, <2>6, InConcat
  <2>8. ~HasIn(G, AioAhead(egen))
    <3>1. \A e \in gone : e \notin AioAhead(egen)
      <4> TAKE e \in gone
      <4>1. e.gen \in Nat /\ egen[fd] \in Nat /\ e.gen <= egen[fd] /\ e.fd = fd
        BY <2>3 DEF AioEntry, TableTypeOK
      <4> QED
        BY <4>1 DEF AioAhead
    <3> QED
      BY <2>6, <3>1 DEF HasIn
  <2>9. ASSUME NEW D, \A e \in D : e.fd # fd PROVE ~HasIn(G, D)
    BY <2>3, <2>6, <2>9 DEF HasIn
  <2> QED
    BY <1>1, <2>1, <2>2, <2>7, <2>8, <2>9
<1> QED
  BY <1>2, <1>3 DEF IoCancel

\* A generation one higher than the present one has no token.
LEMMA AioFresh ==
    ASSUME TableTypeOK, AioTyped, NEW fd \in Fds, NEW R \in SUBSET reqs, \A r \in R : r.gen <= egen[r.fd],
           NEW Q \in Seq(AioEntry), ~HasIn(Q, AioAhead(egen))
    PROVE  AioNothing(R, Q, fd, egen[fd] + 1)
<1>1. egen[fd] \in Nat
  BY DEF TableTypeOK
<1>2. ~HasPoll(R, fd, egen[fd] + 1)
  BY <1>1 DEF HasPoll, Polls
<1>3. ~HasIn(Q, AioEvs(fd, egen[fd] + 1))
  <2>1. \A e \in AioEvs(fd, egen[fd] + 1) : e \in AioAhead(egen)
    BY <1>1 DEF AioEvs, AioAhead
  <2> QED
    BY <2>1 DEF HasIn
<1> QED
  BY <1>2, <1>3 DEF AioNothing

\* What a step that moves generations on keeps of their bounds.
LEMMA AioGrows ==
    ASSUME TableTypeOK, AioTyped', NEW G \in [Fds -> Nat], \A d \in Fds : egen[d] <= G[d],
           ~HasIn(aring', AioAhead(egen)),
           \A r \in reqs' : r.gen <= egen[r.fd], \A r \in eregs' : r.gen <= egen[r.fd] \/ r.gen <= G[r.fd],
           egen' = G
    PROVE  AioAged(egen)'
<1>1. \A r \in PollEntry : r.fd \in Fds /\ r.gen \in Nat /\ egen[r.fd] \in Nat /\ G[r.fd] \in Nat /\ egen[r.fd] <= G[r.fd]
  BY DEF PollEntry, TableTypeOK
<1>2. \A r \in reqs' \cup eregs' : r \in PollEntry
  BY DEF AioTyped
<1>3. \A r \in reqs' \cup eregs' : r.gen <= G[r.fd]
  BY <1>1, <1>2
<1>4. \A e \in AioAhead(G) : e \in AioAhead(egen)
  <2> TAKE e \in AioAhead(G)
  <2>1. e \in AioEntry /\ e.gen > G[e.fd] /\ e.fd \in Fds /\ e.gen \in Nat
    BY DEF AioAhead, AioEntry
  <2>2. egen[e.fd] \in Nat /\ G[e.fd] \in Nat /\ egen[e.fd] <= G[e.fd]
    BY <2>1 DEF TableTypeOK
  <2> QED
    BY <2>1, <2>2 DEF AioAhead
<1>5. ~HasIn(aring', AioAhead(G))
  BY <1>4 DEF HasIn
<1>6. AioAhead(egen)' = AioAhead(egen')
  BY DEF AioAhead, AioEntry
<1> QED
  BY <1>3, <1>5, <1>6 DEF AioAged

\* linuxaio_modify takes what the descriptor had away before it asks again.
LEMMA AioModifyClears ==
    ASSUME AioInv, NEW fd \in Fds, AioModify(fd), NeedsModify(fd)
    PROVE  /\ reqs' \in SUBSET reqs /\ IsFiniteSet(reqs') /\ aring' \in Seq(AioEntry)
           /\ ~HasIn(aring', AioAhead(egen)) /\ eregs' \in SUBSET eregs
           /\ egen' \in [Fds -> Nat] /\ \A d \in Fds : egen[d] <= egen'[d] /\ (d # fd => egen'[d] = egen[d])
           /\ viaepoll' = viaepoll \ {fd} /\ AioNothing(reqs', aring', fd, egen'[fd])
           /\ \A p \in reqs : p.fd # fd => p \in reqs'
           /\ \A p \in eregs : p.fd # fd => p \in eregs'
           /\ \A D : (\A e \in D : e.fd # fd) => /\ HasIn(aring', D) <=> HasIn(aring, D)
                                                 /\ OnceIn(aring, D) => OnceIn(aring', D)
<1>1. TableTypeOK /\ AioTyped /\ AioAged(egen) /\ AioFd(fd) /\ egen \in [Fds -> Nat]
  BY DEF AioInv, TableTypeOK
<1>2. ~HasIn(aring, AioAhead(egen)) /\ IsFiniteSet(reqs) /\ aring \in Seq(AioEntry)
  BY <1>1 DEF AioAged, AioTyped
<1>3. CASE fd \in viaepoll
  <2>1. /\ eregs' = {r \in eregs : r.fd # fd} /\ viaepoll' = viaepoll \ {fd}
        /\ egen' = egen /\ reqs' = reqs /\ aring' = aring
    BY <1>3 DEF AioModify
  <2>2. AioNothing(reqs, aring, fd, egen[fd])
    BY <1>1, <1>3 DEF AioFd
  <2> QED
    BY <1>1, <1>2, <2>1, <2>2
<1>4. CASE fd \notin viaepoll /\ aio_buf[fd] # {}
  <2>1. IoCancel(fd) /\ egen' = [egen EXCEPT ![fd] = @ + 1] /\ eregs' = eregs /\ viaepoll' = viaepoll
    BY <1>4 DEF AioModify
  <2>2. /\ egen' \in [Fds -> Nat] /\ egen'[fd] = egen[fd] + 1
        /\ \A d \in Fds : egen[d] <= egen'[d] /\ (d # fd => egen'[d] = egen[d])
    BY <1>1, <2>1
  <2>3. reqs' \in SUBSET reqs /\ aring' \in Seq(AioEntry) /\ ~HasIn(aring', AioAhead(egen))
    BY <1>1, <2>1, IoCancelKept
  <2>4. \A r \in reqs' : r.gen <= egen[r.fd]
    BY <1>1, <2>3 DEF AioAged
  <2>5. AioNothing(reqs', aring', fd, egen[fd] + 1)
    BY <1>1, <2>3, <2>4, AioFresh
  <2>6. viaepoll' = viaepoll \ {fd}
    BY <1>4, <2>1
  <2> QED
    BY <1>1, <2>1, <2>2, <2>5, <2>6, IoCancelKept
<1>5. CASE fd \notin viaepoll /\ aio_buf[fd] = {}
  <2>1. UNCHANGED <<egen, reqs, aring, eregs, viaepoll>> /\ viaepoll' = viaepoll \ {fd}
    BY <1>5 DEF AioModify
  <2>2. AioNothing(reqs, aring, fd, egen[fd])
    BY <1>1, <1>5 DEF AioFd
  <2> QED
    BY <1>1, <1>2, <2>1, <2>2
<1> QED
  BY <1>3, <1>4, <1>5

LEMMA AioModifyStep ==
    ASSUME AioInv, NEW fd \in Fds, AioModify(fd)
    PROVE  AioInv'
<1>1. /\ TableTypeOK /\ AioTyped /\ AioAged(egen) /\ misfed = FALSE
      /\ \A d \in Fds : AioFd(d)
  BY DEF AioInv, TableTypeOK
<1>2. /\ phase = "reify" /\ UNCHANGED <<want, file, phase, misfed, ops>> /\ fd \in changed
      /\ events' = [events EXCEPT ![fd] = want[fd]]
      /\ changed' = changed \ {fd} /\ iofdset' = iofdset \ {fd}
  BY DEF AioModify, Reified
<1>3. /\ events' \in [Fds -> SUBSET Ev] /\ events'[fd] = want[fd]
      /\ \A d \in Fds : d # fd => events'[d] = events[d]
  BY <1>1, <1>2 DEF TableTypeOK
<1>4. ASSUME egen' \in [Fds -> Nat] PROVE TableTypeOK'
  BY <1>1, <1>2, <1>3, <1>4 DEF TableTypeOK
<1>5. ~Queued(fd)
  BY <1>1, <1>2 DEF AioFd
<1>6. CASE ~NeedsModify(fd)
  <2>1. UNCHANGED <<egen, aio_buf, viaepoll, submits, agen, reqs, aring, eregs>>
    BY <1>6 DEF AioModify, aio
  <2>2. events' = events /\ iofdset' = iofdset /\ events[fd] = want[fd]
    BY <1>1, <1>2, <1>6 DEF NeedsModify, TableTypeOK
  <2>3. TableTypeOK' /\ phase' \in AioPhases /\ ~misfed'
    BY <1>1, <1>2, <1>4, <2>1 DEF TableTypeOK, AioPhases
  <2>4. \A d \in Fds : /\ d \notin changed' => events[d] = want'[d]
                       /\ Queued(d) => want'[d] = want[d] /\ d \notin changed'
                       /\ want'[d] # {} /\ d \notin iofdset' => want[d] # {} /\ d \notin iofdset /\ file'[d] = file[d]
    BY <1>1, <1>2, <2>2 DEF AioFd
  <2>5. \A r \in eregs : r.file = file'[r.fd]
    BY <1>2 DEF AioInv
  <2> QED
    BY <1>2, <2>1, <2>2, <2>3, <2>4, <2>5, AioTableStep
<1>7. CASE NeedsModify(fd)
  <2>1. /\ reqs' \in SUBSET reqs /\ IsFiniteSet(reqs') /\ aring' \in Seq(AioEntry)
        /\ ~HasIn(aring', AioAhead(egen)) /\ eregs' \in SUBSET eregs
        /\ egen' \in [Fds -> Nat] /\ \A d \in Fds : egen[d] <= egen'[d] /\ (d # fd => egen'[d] = egen[d])
        /\ viaepoll' = viaepoll \ {fd} /\ AioNothing(reqs', aring', fd, egen'[fd])
        /\ \A p \in reqs : p.fd # fd => p \in reqs'
        /\ \A p \in eregs : p.fd # fd => p \in eregs'
        /\ \A D : (\A e \in D : e.fd # fd) => /\ HasIn(aring', D) <=> HasIn(aring, D)
                                              /\ OnceIn(aring, D) => OnceIn(aring', D)
    BY <1>7, AioModifyClears
  <2>2. /\ aio_buf' = [aio_buf EXCEPT ![fd] = want[fd]]
        /\ IF want[fd] = {} THEN UNCHANGED <<agen, submits>>
           ELSE agen' = [agen EXCEPT ![fd] = egen'[fd]] /\ submits' = Append(submits, fd)
    BY <1>7 DEF AioModify
  <2>3. /\ aio_buf' \in [Fds -> SUBSET Ev] /\ aio_buf'[fd] = want[fd]
        /\ \A d \in Fds : d # fd => aio_buf'[d] = aio_buf[d]
    BY <1>1, <2>2 DEF AioTyped, TableTypeOK
  <2>4. /\ agen' \in [Fds -> Nat] /\ submits' \in Seq(Fds)
        /\ \A d \in Fds : d # fd => agen'[d] = agen[d] /\ (HasIn(submits', {d}) <=> HasIn(submits, {d}))
        /\ \A d \in Fds : OnceIn(submits', {d})
        /\ HasIn(submits', {fd}) => agen'[fd] = egen'[fd] /\ want[fd] # {}
        /\ want[fd] # {} => HasIn(submits', {fd})
    <3>1. submits \in Seq(Fds) /\ agen \in [Fds -> Nat] /\ ~HasIn(submits, {fd}) /\ egen'[fd] \in Nat
          /\ \A d \in Fds : OnceIn(submits, {d})
      BY <1>1, <1>5, <2>1 DEF AioTyped, Queued, AioFd
    <3>2. CASE want[fd] = {}
      BY <2>2, <3>1, <3>2
    <3>3. CASE want[fd] # {}
      <4>1. agen' = [agen EXCEPT ![fd] = egen'[fd]] /\ submits' = Append(submits, fd)
        BY <2>2, <3>3
      <4>2. /\ submits' \in Seq(Fds)
            /\ \A D : HasIn(submits', D) <=> HasIn(submits, D) \/ fd \in D
            /\ \A D : OnceIn(submits, D) /\ ~(HasIn(submits, D) /\ fd \in D) => OnceIn(submits', D)
        BY <3>1, <4>1, InAppend
      <4>3. agen' \in [Fds -> Nat] /\ agen'[fd] = egen'[fd] /\ \A d \in Fds : d # fd => agen'[d] = agen[d]
        BY <3>1, <4>1
      <4>4. \A d \in Fds : OnceIn(submits', {d})
        <5> TAKE d \in Fds
        <5>1. OnceIn(submits, {d}) /\ ~(HasIn(submits, {d}) /\ fd \in {d})
          BY <3>1
        <5> QED
          BY <4>2, <5>1
      <4> QED
        BY <3>3, <4>2, <4>3, <4>4
    <3> QED
      BY <3>2, <3>3
  <2>5. AioTyped'
    BY <1>1, <2>1, <2>3, <2>4 DEF AioTyped
  <2>6. AioAged(egen)'
    <3>1. (\A r \in reqs' : r.gen <= egen[r.fd]) /\ (\A r \in eregs' : r.gen <= egen[r.fd])
      BY <1>1, <2>1 DEF AioAged
    <3> QED
      BY <1>1, <2>1, <2>5, <3>1, AioGrows
  <2>7. ASSUME NEW d \in Fds PROVE AioFd(d)'
    <3>1. CASE d # fd
      <4>1. want'[d] = want[d] /\ events'[d] = events[d] /\ egen'[d] = egen[d] /\ file'[d] = file[d]
            /\ aio_buf'[d] = aio_buf[d] /\ agen'[d] = agen[d]
        BY <1>2, <1>3, <2>1, <2>3, <2>4, <3>1
      <4>2. /\ (d \in changed' <=> d \in changed) /\ (d \in iofdset' <=> d \in iofdset)
            /\ (d \in viaepoll' <=> d \in viaepoll)
            /\ (Queued(d)' <=> Queued(d)) /\ OnceIn(submits', {d})
        BY <1>2, <2>1, <2>4, <3>1 DEF Queued
      <4>3. \A p \in PollEntry : p.fd = d => (p \in reqs' <=> p \in reqs) /\ (p \in eregs' <=> p \in eregs)
        BY <2>1, <3>1
      <4>4. \A D : (\A e \in D : e.fd = d) => /\ HasIn(aring', D) <=> HasIn(aring, D)
                                              /\ OnceIn(aring, D) => OnceIn(aring', D)
        BY <2>1, <3>1
      <4>5. AioSame(d)
        BY <4>1, <4>2, <4>3, <4>4 DEF AioSame
      <4> QED
        BY <1>1, <2>5, <4>5, AioOtherFd
    <3>2. CASE d = fd
      <4>1. /\ AioNothing(reqs', aring', fd, egen'[fd]) /\ AioUnique(reqs', aring', fd, egen'[fd])
            /\ AioOfFile(reqs', aring', fd, egen'[fd], file'[fd])
        BY <2>1, AioNothingSuffices
      <4>2. fd \notin viaepoll' /\ fd \notin changed' /\ want' = want
        BY <1>2, <2>1
      <4>3. AioFd(fd)'
        BY <1>3, <2>3, <2>4, <4>1, <4>2 DEF AioFd, Queued
      <4> QED
        BY <3>2, <4>3
    <3> QED
      BY <3>1, <3>2
  <2>8. TableTypeOK'
    BY <1>4, <2>1
  <2>9. \A r \in eregs' : r.file = file'[r.fd]
    BY <1>2, <2>1 DEF AioInv
  <2> QED
    BY <1>1, <1>2, <2>5, <2>6, <2>7, <2>8, <2>9 DEF AioInv, AioPhases
<1> QED
  BY <1>6, <1>7

\* The first iocb of the batch leaves it, whatever becomes of it.
LEMMA FirstTaken ==
    ASSUME AioInv, NEW fd \in Fds, Submitting(fd), submits' = Tail(submits)
    PROVE  /\ submits' \in Seq(Fds) /\ phase = "submit" /\ Queued(fd) /\ ~Queued(fd)'
           /\ \A d \in Fds : OnceIn(submits', {d}) /\ (d # fd => (Queued(d)' <=> Queued(d)))
<1>1. /\ submits \in Seq(Fds) /\ submits # <<>> /\ fd = Head(submits) /\ phase = "submit"
      /\ \A d \in Fds : OnceIn(submits, {d})
  BY DEF AioInv, AioTyped, AioFd, Submitting
<1>2. /\ Tail(submits) \in Seq(Fds)
      /\ \A D : HasIn(submits, D) <=> HasIn(Tail(submits), D) \/ fd \in D
      /\ \A D : OnceIn(submits, D) => OnceIn(Tail(submits), D) /\ (fd \in D => ~HasIn(Tail(submits), D))
  BY <1>1, InTail
<1>3. ASSUME NEW d \in Fds
      PROVE  /\ HasIn(submits, {d}) <=> HasIn(Tail(submits), {d}) \/ fd = d
             /\ OnceIn(Tail(submits), {d}) /\ (fd = d => ~HasIn(Tail(submits), {d}))
  BY <1>1, <1>2
<1> QED
  BY <1>1, <1>2, <1>3 DEF Queued

LEMMA AcceptedStep ==
    ASSUME AioInv, NEW fd \in Fds, Accepted(fd)
    PROVE  AioInv'
<1> DEFINE q == Request(fd, agen[fd], aio_buf[fd])  g == egen[fd]
<1>1. /\ TableTypeOK /\ AioTyped /\ AioAged(egen) /\ Submitting(fd)
      /\ \A d \in Fds : AioFd(d)
  BY DEF AioInv, Accepted
<1>2. /\ reqs' = reqs \cup {q} /\ submits' = Tail(submits)
      /\ UNCHANGED <<want, events, changed, iofdset, egen, file, phase, misfed, ops,
                     aio_buf, viaepoll, agen, aring, eregs>>
  BY DEF Accepted, table
<1>3. /\ submits' \in Seq(Fds) /\ phase = "submit" /\ Queued(fd) /\ ~Queued(fd)'
      /\ \A d \in Fds : OnceIn(submits', {d}) /\ (d # fd => (Queued(d)' <=> Queued(d)))
  BY <1>1, <1>2, FirstTaken
<1>4. /\ agen[fd] = egen[fd] /\ aio_buf[fd] = want[fd] /\ events[fd] = want[fd] /\ want[fd] # {}
      /\ fd \notin viaepoll /\ fd \notin changed /\ AioNothing(reqs, aring, fd, egen[fd])
  BY <1>1, <1>3 DEF AioFd
<1>5. q \in PollEntry /\ q.fd = fd /\ q.gen = egen[fd] /\ q.ev = events[fd] /\ q.file = file[fd] /\ egen[fd] \in Nat
  <2>1. agen[fd] \in Nat /\ aio_buf[fd] \in SUBSET Ev
    BY <1>1 DEF AioTyped
  <2> QED
    BY <1>1, <1>4, <2>1, RequestTyped
<1> HIDE DEF q
<1>6. AioTyped'
  BY <1>1, <1>2, <1>3, <1>5, FS_AddElement DEF AioTyped
<1>7. AioAged(egen)'
  BY <1>1, <1>2, <1>5 DEF AioAged, AioAhead
<1>8. TableTypeOK'
  BY <1>1, <1>2 DEF TableTypeOK
<1>9. ASSUME NEW d \in Fds PROVE AioFd(d)'
  <2>1. CASE d # fd
    <3>1. AioSame(d)
      BY <1>2, <1>3, <1>5, <2>1 DEF AioSame
    <3> QED
      BY <1>1, <1>6, <3>1, AioOtherFd
  <2>2. CASE d = fd
    <3>1. q \in Polls(fd, g) /\ \A p : p \in reqs' <=> p \in reqs \/ p = q
      BY <1>2, <1>5 DEF Polls
    <3>2. AioNothing(reqs, aring, fd, g) /\ q.ev = events[fd] /\ q.file = file[fd]
      BY <1>4, <1>5
    <3> HIDE DEF g
    <3>3. AioUnique(reqs', aring', fd, g)
      BY <1>2, <3>1, <3>2, AioNothingSuffices DEF AioUnique, AioNothing, HasPoll
    <3>4. AioAsked(reqs', aring', fd, g, events[fd])
      BY <3>1, <3>2 DEF AioAsked
    <3>5. AioOfFile(reqs', aring', fd, g, file[fd])
      <4>1. ~HasIn(aring, AioEvsOff(fd, g, file[fd]))
        BY <3>2, AioNothingSuffices DEF AioOfFile
      <4> QED
        BY <1>2, <3>1, <3>2, <4>1 DEF AioOfFile, AioNothing, HasPoll
    <3>6. OnceIn(submits', {fd}) /\ g = egen'[fd]
      BY <1>2, <1>3 DEF g
    <3>7. AioFd(fd)'
      BY <1>2, <1>3, <1>4, <3>3, <3>4, <3>5, <3>6 DEF AioFd
    <3> QED
      BY <2>2, <3>7
  <2> QED
    BY <2>1, <2>2
<1> QED
  BY <1>2, <1>3, <1>6, <1>7, <1>8, <1>9 DEF AioInv

LEMMA HandedToEpollStep ==
    ASSUME AioInv, NEW fd \in Fds, HandedToEpoll(fd)
    PROVE  AioInv'
<1> DEFINE q == Request(fd, egen'[fd], events[fd])
<1>1. /\ TableTypeOK /\ AioTyped /\ AioAged(egen) /\ Submitting(fd)
      /\ \A d \in Fds : AioFd(d)
  BY DEF AioInv, HandedToEpoll
<1>2. /\ egen' = [egen EXCEPT ![fd] = @ + 1] /\ eregs' = eregs \cup {q} /\ viaepoll' = viaepoll \cup {fd}
      /\ submits' = Tail(submits) /\ ops < MaxOps /\ ops' = ops + 1
      /\ UNCHANGED <<want, events, changed, iofdset, file, phase, misfed, aio_buf, agen, reqs, aring>>
  BY DEF HandedToEpoll
<1>3. /\ submits' \in Seq(Fds) /\ phase = "submit" /\ Queued(fd) /\ ~Queued(fd)'
      /\ \A d \in Fds : OnceIn(submits', {d}) /\ (d # fd => (Queued(d)' <=> Queued(d)))
  BY <1>1, <1>2, FirstTaken
<1>4. aio_buf[fd] = want[fd] /\ events[fd] = want[fd] /\ want[fd] # {} /\ fd \notin changed
  BY <1>1, <1>3 DEF AioFd
<1>5. /\ egen' \in [Fds -> Nat] /\ egen'[fd] = egen[fd] + 1 /\ egen[fd] \in Nat
      /\ \A d \in Fds : egen[d] <= egen'[d] /\ (d # fd => egen'[d] = egen[d])
  BY <1>1, <1>2 DEF TableTypeOK
<1>6. TableTypeOK'
  BY <1>1, <1>2, <1>5, TableAssumption DEF TableTypeOK
<1>7. q \in PollEntry /\ q.fd = fd /\ q.gen = egen'[fd] /\ q.file = file[fd]
  BY <1>1, <1>5, RequestTyped DEF TableTypeOK
<1>8. Request(fd, egen[fd], events[fd])' = q
  BY <1>2 DEF Request
<1> HIDE DEF q
<1>9. AioTyped'
  BY <1>1, <1>2, <1>3, <1>7 DEF AioTyped
<1>10. AioAged(egen)'
  <2>1. \A r \in eregs' : r.gen <= egen[r.fd] \/ r.gen <= egen'[r.fd]
    BY <1>1, <1>2, <1>5, <1>7 DEF AioAged
  <2>2. (\A r \in reqs' : r.gen <= egen[r.fd]) /\ ~HasIn(aring', AioAhead(egen))
    BY <1>1, <1>2 DEF AioAged
  <2> QED
    BY <1>1, <1>5, <1>9, <2>1, <2>2, AioGrows
<1>11. AioNothing(reqs', aring', fd, egen'[fd])
  <2>1. AioNothing(reqs, aring, fd, egen[fd] + 1)
    BY <1>1, AioFresh DEF AioAged, AioTyped
  <2> QED
    BY <1>2, <1>5, <2>1
<1>12. ASSUME NEW d \in Fds PROVE AioFd(d)'
  <2>1. CASE d # fd
    <3>1. AioSame(d)
      BY <1>2, <1>3, <1>5, <1>7, <2>1 DEF AioSame
    <3> QED
      BY <1>1, <1>9, <3>1, AioOtherFd
  <2>2. CASE d = fd
    <3>1. AioUnique(reqs', aring', fd, egen'[fd]) /\ AioOfFile(reqs', aring', fd, egen'[fd], file'[fd])
      BY <1>11, AioNothingSuffices
    <3>2. fd \in viaepoll' /\ q \in eregs' /\ OnceIn(submits', {fd})
      BY <1>2, <1>3
    <3>3. AioFd(fd)'
      BY <1>2, <1>3, <1>4, <1>8, <1>11, <3>1, <3>2 DEF AioFd
    <3> QED
      BY <2>2, <3>3
  <2> QED
    BY <2>1, <2>2
<1>13. \A r \in eregs' : r.file = file'[r.fd]
  BY <1>2, <1>7 DEF AioInv
<1> QED
  BY <1>2, <1>3, <1>6, <1>9, <1>10, <1>12, <1>13 DEF AioInv

LEMMA RefusedStep ==
    ASSUME AioInv, NEW fd \in Fds, Refused(fd)
    PROVE  AioInv'
<1>1. /\ TableTypeOK /\ AioTyped /\ AioAged(egen) /\ Submitting(fd)
      /\ \A d \in Fds : AioFd(d)
  BY DEF AioInv, Refused
<1>2. /\ submits' = Tail(submits)
      /\ want' = [d \in Fds |-> IF d \in {fd} THEN {} ELSE want[d]]
      /\ changed' = changed \cup {d \in {fd} : want[d] # {}}
      /\ UNCHANGED <<events, iofdset, egen, file, phase, misfed, ops,
                     aio_buf, viaepoll, agen, reqs, aring, eregs>>
  BY DEF Refused, FdKill
<1>3. /\ submits' \in Seq(Fds) /\ phase = "submit" /\ Queued(fd) /\ ~Queued(fd)'
      /\ \A d \in Fds : OnceIn(submits', {d}) /\ (d # fd => (Queued(d)' <=> Queued(d)))
  BY <1>1, <1>2, FirstTaken
<1>4. aio_buf[fd] # {} /\ want[fd] # {} /\ fd \notin viaepoll
  BY <1>1, <1>3 DEF AioFd
<1>5. want' \in [Fds -> SUBSET Ev] /\ want'[fd] = {} /\ \A d \in Fds : d # fd => want'[d] = want[d]
  BY <1>1, <1>2 DEF TableTypeOK
<1>6. changed' = changed \cup {fd}
  BY <1>2, <1>4
<1>7. TableTypeOK'
  BY <1>1, <1>2, <1>5, <1>6 DEF TableTypeOK
<1>8. AioTyped'
  BY <1>1, <1>2, <1>3 DEF AioTyped
<1>9. AioAged(egen)'
  BY <1>1, <1>2 DEF AioAged, AioAhead
<1>10. ASSUME NEW d \in Fds PROVE AioFd(d)'
  <2>1. CASE d # fd
    <3>1. AioSame(d)
      BY <1>2, <1>3, <1>5, <1>6, <2>1 DEF AioSame
    <3> QED
      BY <1>1, <1>8, <3>1, AioOtherFd
  <2>2. CASE d = fd
    <3>1. AioFd(fd) /\ OnceIn(submits', {fd}) /\ fd \in changed'
      BY <1>1, <1>3, <1>6
    <3>2. AioFd(fd)'
      BY <1>2, <1>3, <1>4, <1>5, <3>1 DEF AioFd
    <3> QED
      BY <2>2, <3>2
  <2> QED
    BY <2>1, <2>2
<1>11. \A r \in eregs' : r.file = file'[r.fd]
  BY <1>2 DEF AioInv
<1> QED
  BY <1>2, <1>3, <1>7, <1>8, <1>9, <1>10, <1>11 DEF AioInv

LEMMA AioEmpty ==
    /\ \A fd : \A g : AioNothing({}, <<>>, fd, g)
    /\ \A D : ~HasIn(<<>>, D)
    /\ \A D : OnceIn(<<>>, D)
  BY DEF AioNothing, HasPoll, HasIn, OnceIn

\* The context is replaced: whatever had an iocb in use, queued, in the kernel, completed or
\* handed to epoll, is asked for again.
LEMMA ContextFullStep ==
    ASSUME AioInv, ContextFull
    PROVE  AioInv'
<1> DEFINE inuse == {fd \in Fds : aio_buf[fd] # {}}
<1>1. /\ TableTypeOK /\ AioTyped /\ AioAged(egen) /\ \A d \in Fds : AioFd(d)
  BY DEF AioInv
<1>2. /\ ops < MaxOps /\ ops' = ops + 1 /\ reqs' = {} /\ aring' = <<>> /\ submits' = <<>>
      /\ events' = [fd \in Fds |-> IF fd \in inuse THEN {} ELSE events[fd]]
      /\ changed' = changed \cup inuse /\ aio_buf' = [fd \in Fds |-> {}]
      /\ phase' \in AioPhases /\ viaepoll' \in SUBSET viaepoll
      /\ UNCHANGED <<want, iofdset, egen, file, misfed, agen, eregs>>
  BY DEF ContextFull, Rearm, AioPhases
<1>3. /\ events' \in [Fds -> SUBSET Ev]
      /\ \A fd \in Fds : events'[fd] = IF fd \in inuse THEN {} ELSE events[fd]
  BY <1>1, <1>2 DEF TableTypeOK
<1>4. TableTypeOK'
  BY <1>1, <1>2, <1>3, TableAssumption DEF TableTypeOK
<1>5. AioTyped'
  BY <1>1, <1>2, FS_EmptySet DEF AioTyped
<1>6. AioAged(egen)'
  BY <1>1, <1>2, AioEmpty DEF AioAged
<1>7. ASSUME NEW d \in Fds PROVE AioFd(d)'
  <2>1. AioFd(d) /\ aio_buf'[d] = {}
    BY <1>1, <1>2
  <2>2. AioNothing(reqs', aring', d, egen'[d]) /\ ~Queued(d)' /\ OnceIn(submits', {d})
    BY <1>2, AioEmpty DEF Queued
  <2>3. AioUnique(reqs', aring', d, egen'[d]) /\ AioOfFile(reqs', aring', d, egen'[d], file'[d])
    BY <2>2, AioNothingSuffices
  <2>4. d \in viaepoll' => events'[d] = {}
    BY <1>2, <1>3, <2>1 DEF AioFd
  <2>5. want'[d] # {} /\ d \notin iofdset' => events'[d] = {}
    <3> SUFFICES ASSUME want[d] # {}, d \notin iofdset, d \notin inuse, events[d] # {} PROVE FALSE
      BY <1>2, <1>3
    <3>1. ~Queued(d) /\ AioNothing(reqs, aring, d, egen[d]) /\ d \notin viaepoll
      BY <2>1 DEF AioFd
    <3>2. ~AioAsked(reqs, aring, d, egen[d], events[d])
      BY <3>1 DEF AioNothing, AioAsked, HasPoll
    <3> QED
      BY <2>1, <3>1, <3>2 DEF AioFd
  <2>6. d \notin changed' => events'[d] = want'[d]
    BY <1>2, <1>3, <2>1 DEF AioFd
  <2> QED
    BY <2>1, <2>2, <2>3, <2>4, <2>5, <2>6 DEF AioFd
<1>8. \A r \in eregs' : r.file = file'[r.fd]
  BY <1>2 DEF AioInv
<1> QED
  BY <1>2, <1>4, <1>5, <1>6, <1>7, <1>8 DEF AioInv

LEMMA AioForkStep ==
    ASSUME AioInv, AioFork
    PROVE  AioInv'
<1> DEFINE armed == {fd \in Fds : events[fd] # {}}
<1>1. TableTypeOK /\ AioTyped /\ phase \in AioPhases /\ ~misfed /\ \A d \in Fds : AioFd(d)
  BY DEF AioInv
<1>2. /\ UNCHANGED <<want, egen, file, phase, misfed, agen>> /\ ops < MaxOps /\ ops' = ops + 1
      /\ aio_buf' = [fd \in Fds |-> {}] /\ viaepoll' = {} /\ submits' = <<>>
      /\ reqs' = {} /\ aring' = <<>> /\ eregs' = {}
      /\ events' = [fd \in Fds |-> IF fd \in armed THEN {} ELSE events[fd]]
      /\ changed' = changed \cup armed /\ iofdset' = iofdset \cup armed
  BY DEF AioFork, CanAct, RearmAll, Rearm
<1>3. events' \in [Fds -> SUBSET Ev] /\ \A fd \in Fds : events'[fd] = {}
  BY <1>1, <1>2 DEF TableTypeOK
<1>4. TableTypeOK'
  BY <1>1, <1>2, <1>3, TableAssumption DEF TableTypeOK
<1>5. AioTyped'
  BY <1>1, <1>2, FS_EmptySet DEF AioTyped
<1>6. AioAged(egen)'
  BY <1>2, AioEmpty DEF AioAged
<1>7. ASSUME NEW d \in Fds PROVE AioFd(d)'
  <2>1. AioNothing(reqs', aring', d, egen'[d]) /\ ~Queued(d)' /\ OnceIn(submits', {d})
    BY <1>2, AioEmpty DEF Queued
  <2>2. AioUnique(reqs', aring', d, egen'[d]) /\ AioOfFile(reqs', aring', d, egen'[d], file'[d])
    BY <2>1, AioNothingSuffices
  <2>3. events'[d] = {} /\ d \notin viaepoll' /\ (d \notin changed' => want'[d] = {})
    BY <1>1, <1>2, <1>3 DEF AioFd
  <2> QED
    BY <2>1, <2>2, <2>3 DEF AioFd
<1> QED
  BY <1>1, <1>2, <1>4, <1>5, <1>6, <1>7 DEF AioInv

LEMMA AioStart ==
    ASSUME AioInit
    PROVE  AioInv
<1>1. /\ aio_buf = [fd \in Fds |-> {}] /\ viaepoll = {} /\ submits = <<>>
      /\ agen = [fd \in Fds |-> 0] /\ reqs = {} /\ aring = <<>> /\ eregs = {} /\ TableInit
  BY DEF AioInit
<1>2. TableTypeOK /\ phase \in AioPhases /\ ~misfed
  <2>1. phase \in AioPhases /\ ~misfed /\ misfed \in BOOLEAN /\ changed \subseteq Fds /\ iofdset \subseteq changed
    BY <1>1 DEF TableInit, AioPhases
  <2>2. want \in [Fds -> SUBSET Ev] /\ events \in [Fds -> SUBSET Ev]
    BY <1>1 DEF TableInit
  <2>3. egen \in [Fds -> Nat] /\ file \in [Fds -> Nat] /\ ops \in 0 .. MaxOps
    BY <1>1, TableAssumption DEF TableInit
  <2> QED
    BY <2>1, <2>2, <2>3 DEF TableTypeOK
<1>3. AioTyped /\ AioAged(egen)
  BY <1>1, FS_EmptySet, AioEmpty DEF AioTyped, AioAged
<1>4. ASSUME NEW d \in Fds PROVE AioFd(d)
  <2>1. AioNothing(reqs, aring, d, egen[d]) /\ ~Queued(d) /\ OnceIn(submits, {d})
    BY <1>1, AioEmpty DEF Queued
  <2>2. AioUnique(reqs, aring, d, egen[d]) /\ AioOfFile(reqs, aring, d, egen[d], file[d])
    BY <2>1, AioNothingSuffices
  <2>3. events[d] = {} /\ want[d] = {} /\ d \notin viaepoll
    BY <1>1 DEF TableInit
  <2> QED
    BY <2>1, <2>2, <2>3 DEF AioFd
<1> QED
  BY <1>1, <1>2, <1>3, <1>4 DEF AioInv

\* An event of the present generation is passed on and used up; one of an older is dropped.
LEMMA AioDrainStep ==
    ASSUME AioInv, AioDrain
    PROVE  AioInv'
<1> DEFINE e == Head(aring)
<1>1. /\ TableTypeOK /\ AioTyped /\ AioAged(egen) /\ misfed = FALSE /\ submits = <<>>
      /\ phase = "drain" /\ \A d \in Fds : AioFd(d)
  BY DEF AioInv, AioDrain, TableTypeOK
<1>2. /\ aring # <<>> /\ aring' = Tail(aring)
      /\ UNCHANGED <<want, iofdset, egen, file, phase, ops, viaepoll, submits, agen, reqs, eregs>>
      /\ IF e.gen = egen[e.fd]
         THEN FdEvent(e.fd, Ev, e.file) /\ Rearm({e.fd}) /\ aio_buf' = [aio_buf EXCEPT ![e.fd] = {}]
         ELSE UNCHANGED <<misfed, events, changed, aio_buf>>
  BY DEF AioDrain
<1>3. /\ e \in AioEntry /\ aring' \in Seq(AioEntry)
      /\ \A D : HasIn(aring, D) <=> HasIn(aring', D) \/ e \in D
      /\ \A D : OnceIn(aring, D) => OnceIn(aring', D) /\ (e \in D => ~HasIn(aring', D))
  BY <1>1, <1>2, InTail DEF AioTyped
<1> HIDE DEF e
<1>4. PICK k \in Fds : k = e.fd
  BY <1>3 DEF AioEntry
<1>5. ASSUME aio_buf' \in [Fds -> SUBSET Ev] PROVE AioTyped'
  BY <1>1, <1>2, <1>3, <1>5 DEF AioTyped
<1>6. AioAged(egen)'
  BY <1>1, <1>2, <1>3 DEF AioAged, AioAhead
<1>7. ~Queued(k) /\ ~Queued(k)' /\ \A d \in Fds : (Queued(d)' <=> Queued(d)) /\ OnceIn(submits', {d})
  BY <1>1, <1>2, AioEmpty DEF Queued
<1>8. \A r \in eregs' : r.file = file'[r.fd]
  BY <1>2 DEF AioInv
\* What has no token at the head keeps all of them.
<1>9. ASSUME NEW d \in Fds, e \notin AioEvs(d, egen[d]),
             want'[d] = want[d], events'[d] = events[d], aio_buf'[d] = aio_buf[d],
             d \in changed' <=> d \in changed
      PROVE  AioFd(d)'
  <2> DEFINE g == egen[d]
  <2>1. \A f : e \notin AioEvsOff(d, g, f)
    BY <1>9 DEF AioEvsOff
  <2>2. e \notin AioEvs(d, g)
    BY <1>9
  <2> HIDE DEF g
  <2>3. /\ AioUnique(reqs, aring, d, g) => AioUnique(reqs', aring', d, g)
        /\ AioNothing(reqs, aring, d, g) => AioNothing(reqs', aring', d, g)
        /\ \A ev : AioAsked(reqs, aring, d, g, ev) => AioAsked(reqs', aring', d, g, ev)
        /\ \A f : AioOfFile(reqs, aring, d, g, f) => AioOfFile(reqs', aring', d, g, f)
    BY <1>2, <1>3, <2>1, <2>2 DEF AioUnique, AioNothing, AioAsked, AioOfFile
  <2>4. AioFd(d) /\ g = egen[d] /\ g = egen'[d] /\ Request(d, egen[d], events[d])' = Request(d, egen[d], events[d])
    BY <1>1, <1>2, <1>9 DEF g, Request
  <2> QED
    BY <1>2, <1>7, <1>9, <2>3, <2>4 DEF AioFd
<1>10. CASE e.gen # egen[k]
  <2>1. UNCHANGED <<misfed, events, changed, aio_buf>>
    BY <1>2, <1>4, <1>10
  <2>2. TableTypeOK' /\ AioTyped'
    BY <1>1, <1>2, <1>5, <2>1 DEF TableTypeOK, AioTyped
  <2>3. ASSUME NEW d \in Fds PROVE AioFd(d)'
    <3>1. e \notin AioEvs(d, egen[d])
      BY <1>4, <1>10 DEF AioEvs
    <3> QED
      BY <1>2, <1>9, <2>1, <3>1
  <2> QED
    BY <1>1, <1>2, <1>6, <1>8, <2>1, <2>2, <2>3 DEF AioInv, AioPhases
<1>11. CASE e.gen = egen[k]
  <2>1. /\ misfed' = (misfed \/ (Heard(k, Ev) /\ e.file # file[k]))
        /\ events' = [fd \in Fds |-> IF fd \in {k} THEN {} ELSE events[fd]]
        /\ changed' = changed \cup {k} /\ aio_buf' = [aio_buf EXCEPT ![k] = {}]
    BY <1>2, <1>4, <1>11 DEF FdEvent, Rearm
  <2>2. /\ events' \in [Fds -> SUBSET Ev] /\ events'[k] = {} /\ aio_buf' \in [Fds -> SUBSET Ev] /\ aio_buf'[k] = {}
        /\ \A d \in Fds : d # k => events'[d] = events[d] /\ aio_buf'[d] = aio_buf[d]
    BY <1>1, <1>4, <2>1 DEF TableTypeOK, AioTyped
  <2>3. e \in AioEvs(k, egen[k]) /\ HasIn(aring, AioEvs(k, egen[k]))
    <3>1. e \in AioEvs(k, egen[k])
      BY <1>3, <1>4, <1>11 DEF AioEvs
    <3> QED
      BY <1>3, <3>1
  <2>4. AioFd(k)
    BY <1>1, <1>4
  <2>5. want[k] # {} /\ k \notin iofdset => e.file = file[k]
    <3> SUFFICES ASSUME want[k] # {}, k \notin iofdset, e.file # file[k] PROVE FALSE
      OBVIOUS
    <3>1. e \in AioEvsOff(k, egen[k], file[k])
      BY <2>3 DEF AioEvsOff
    <3>2. HasIn(aring, AioEvsOff(k, egen[k], file[k]))
      BY <1>3, <3>1
    <3> QED
      BY <2>4, <3>2 DEF AioFd, AioOfFile
  <2>6. misfed' = FALSE
    <3>1. Heard(k, Ev) => want[k] # {} /\ k \notin changed
      BY DEF Heard
    <3>2. k \notin changed => k \notin iofdset
      BY <1>1 DEF TableTypeOK
    <3>3. ~(Heard(k, Ev) /\ e.file # file[k])
      BY <2>5, <3>1, <3>2
    <3> QED
      BY <1>1, <2>1, <3>3
  <2>7. AioNothing(reqs', aring', k, egen'[k])
    <3>1. ~HasPoll(reqs, k, egen[k]) /\ ~HasIn(aring', AioEvs(k, egen[k]))
      BY <1>3, <2>3, <2>4 DEF AioFd, AioUnique
    <3> QED
      BY <1>2, <3>1 DEF AioNothing
  <2>8. AioFd(k)'
    <3>1. AioUnique(reqs', aring', k, egen'[k]) /\ AioOfFile(reqs', aring', k, egen'[k], file'[k])
      BY <2>7, AioNothingSuffices
    <3>2. OnceIn(submits', {k}) /\ k \in changed'
      BY <1>4, <1>7, <2>1
    <3> QED
      BY <1>7, <2>2, <2>7, <3>1, <3>2 DEF AioFd
  <2>9. ASSUME NEW d \in Fds PROVE AioFd(d)'
    <3>1. CASE d # k
      <4>1. e \notin AioEvs(d, egen[d]) /\ (d \in changed' <=> d \in changed)
        BY <1>4, <2>1, <3>1 DEF AioEvs
      <4> QED
        BY <1>2, <1>9, <2>2, <3>1, <4>1
    <3> QED
      BY <2>8, <3>1
  <2>10. TableTypeOK' /\ AioTyped'
    BY <1>1, <1>2, <1>4, <1>5, <2>1, <2>2, <2>6 DEF TableTypeOK
  <2> QED
    BY <1>1, <1>2, <1>6, <1>8, <2>6, <2>9, <2>10 DEF AioInv, AioPhases
<1> QED
  BY <1>10, <1>11

LEMMA AioNextStep ==
    ASSUME AioInv, [AioNext]_avars
    PROVE  AioInv'
<1>1. ASSUME NEW fd \in Fds, NEW S \in {{}, {"r"}, {"r", "w"}}, IoSet(fd, S), UNCHANGED aio PROVE AioInv'
  <2>1. S \in SUBSET Ev
    BY DEF Ev
  <2> QED
    BY <1>1, <2>1, AioIoSetStep
<1>2. ASSUME NEW fd \in Fds, AioReopen(fd) PROVE AioInv'
  BY <1>2, AioReopenStep
<1>3. ASSUME NEW fd \in Fds, AioModify(fd) PROVE AioInv'
  BY <1>3, AioModifyStep
<1>4. ASSUME NEW fd \in Fds, Accepted(fd) \/ HandedToEpoll(fd) \/ Refused(fd) PROVE AioInv'
  BY <1>4, AcceptedStep, HandedToEpollStep, RefusedStep
<1>5. ASSUME NEW r \in reqs, AioCompletes(r) PROVE AioInv'
  BY <1>5, AioCompletesStep
<1>6. CASE \/ AioStartReify \/ AioEndReify \/ AioPoll \/ AioWaitEnds \/ AioDrainEnds
           \/ UNCHANGED avars \/ \E r \in eregs : EpollCb(r)
  BY <1>6, AioPhaseStep
<1>7. CASE AioDrain
  BY <1>7, AioDrainStep
<1>8. CASE ContextFull
  BY <1>8, ContextFullStep
<1>9. CASE AioFork
  BY <1>9, AioForkStep
<1> QED
  BY <1>1, <1>2, <1>3, <1>4, <1>5, <1>6, <1>7, <1>8, <1>9, Zenon DEF AioNext

LEMMA AioInvSound ==
    ASSUME AioInv
    PROVE  AioSound
<1>1. TableTypeOK /\ AioTyped /\ ~misfed
  BY DEF AioInv
<1>2. ASSUME NEW fd \in Fds, want[fd] # {}, fd \notin changed
      PROVE  /\ events[fd] = want[fd]
             /\ \/ fd \in Range(submits) /\ agen[fd] = egen[fd] /\ aio_buf[fd] = want[fd]
                \/ Request(fd, egen[fd], want[fd]) \in reqs
                \/ Event(Request(fd, egen[fd], want[fd])) \in Range(aring)
                \/ fd \in viaepoll /\ Request(fd, egen[fd], want[fd]) \in eregs
  <2>1. AioFd(fd) /\ fd \notin iofdset
    BY <1>1, <1>2 DEF AioInv, TableTypeOK
  <2>2. /\ events[fd] = want[fd] /\ AioOfFile(reqs, aring, fd, egen[fd], file[fd])
        /\ \/ Queued(fd) \/ AioAsked(reqs, aring, fd, egen[fd], events[fd])
           \/ fd \in viaepoll /\ Request(fd, egen[fd], events[fd]) \in eregs
    BY <1>2, <2>1 DEF AioFd
  <2>3. DOMAIN submits = 1 .. Len(submits) /\ DOMAIN aring = 1 .. Len(aring)
    BY <1>1 DEF AioTyped
  <2>4. CASE Queued(fd)
    <3>1. fd \in Range(submits)
      BY <2>3, <2>4 DEF Queued, HasIn, Range
    <3> QED
      BY <2>1, <2>2, <2>4, <3>1 DEF AioFd
  <2>5. ASSUME NEW p \in reqs, p \in Polls(fd, egen[fd]), p.ev = events[fd]
        PROVE  Request(fd, egen[fd], want[fd]) \in reqs
    <3>1. p \in PollEntry /\ p.fd = fd /\ p.gen = egen[fd] /\ p.ev = want[fd] /\ p.file = file[fd]
      BY <2>2, <2>5 DEF Polls, AioOfFile
    <3>2. p = [fd |-> p.fd, gen |-> p.gen, ev |-> p.ev, file |-> p.file]
      BY <3>1 DEF PollEntry
    <3> QED
      BY <3>1, <3>2 DEF Request
  <2>6. CASE HasIn(aring, AioEvs(fd, egen[fd]))
    <3>1. PICK i \in 1 .. Len(aring) : aring[i] \in AioEvs(fd, egen[fd])
      BY <2>6 DEF HasIn
    <3>2. aring[i] \in AioEntry /\ aring[i].fd = fd /\ aring[i].gen = egen[fd] /\ aring[i].file = file[fd]
      BY <2>2, <3>1 DEF AioEvs, AioOfFile, AioEvsOff, HasIn
    <3>3. aring[i] = [fd |-> fd, gen |-> egen[fd], file |-> file[fd]]
      <4> DEFINE e == aring[i]
      <4>1. e \in AioEntry => e = [fd |-> e.fd, gen |-> e.gen, file |-> e.file]
        BY DEF AioEntry
      <4> HIDE DEF e
      <4> QED
        BY <3>2, <4>1 DEF e
    <3>4. Event(Request(fd, egen[fd], want[fd])) = [fd |-> fd, gen |-> egen[fd], file |-> file[fd]]
      BY DEF Event, Request
    <3> QED
      BY <2>2, <2>3, <3>1, <3>3, <3>4 DEF Range
  <2> QED
    BY <2>2, <2>4, <2>5, <2>6 DEF AioAsked
<1> QED
  BY <1>1, <1>2 DEF AioSound, AioServed, AioStaleIgnored

\* Through a batch that fails at any element, a full context, requests that complete while they
\* are cancelled and descriptors handed to epoll and back, a watched descriptor is with one of
\* the four, and no event of a request that was given up reaches the watcher of another file.
THEOREM AioIsSound == AioSpec => []AioSound
<1>1. AioInit => AioInv
  BY AioStart
<1>2. AioInv /\ [AioNext]_avars => AioInv'
  BY AioNextStep
<1>3. AioInv => AioSound
  BY AioInvSound
<1> QED
  BY <1>1, <1>2, <1>3, PTL DEF AioSpec

(***************************************************************************)
(* poll, select, kqueue and event ports.  What the backend has follows     *)
(* anfds[].events, which follow the watchers except for a changed fd; the  *)
(* exception are filters and associations the kernel dropped, with a       *)
(* closed file or after it reported them: then EV__IOFDSET is set before   *)
(* anything is watched again.                                              *)
(***************************************************************************)
PollFd == [fd : Fds, ev : SUBSET Ev]
Change == [fd : Fds, ev : Ev, add : BOOLEAN]
InPoll(ix) == {fd \in Fds : ix[fd] # 0}

\* poll's array q and index ix agree with each other and with the events.
PollAgrees(q, ix, ev) ==
    /\ q \in Seq(PollFd) /\ ix \in [Fds -> Nat]
    /\ \A i \in 1 .. Len(q) : ix[q[i].fd] = i
    /\ \A fd \in Fds : ix[fd] <= Len(q) /\ (ix[fd] # 0 => q[ix[fd]] = [fd |-> fd, ev |-> ev[fd]])
    /\ Len(q) = Cardinality(InPoll(ix))

ReadyTypes ==
    /\ want \in [Fds -> SUBSET Ev] /\ events \in [Fds -> SUBSET Ev]
    /\ changed \subseteq Fds /\ iofdset \subseteq changed
    /\ file \in [Fds -> Nat] /\ kind \in Kinds /\ misfed = FALSE
    /\ vec \in [Ev -> SUBSET Fds] /\ kchanges \in Seq(Change)
Synced == \A fd \in Fds : fd \notin changed => events[fd] = want[fd]
ByPoll ==
    /\ PollAgrees(pollfds, pollidxs, events)
    /\ IF kind = "poll" THEN \A fd \in Fds : pollidxs[fd] = 0 <=> events[fd] = {} ELSE pollfds = <<>>
BySelect == kind = "select" => \A fd \in Fds, e \in Ev : fd \in vec[e] <=> e \in events[fd]

\* Nothing that the kernel drops is missed.
ReadyKept(fd) == fd \notin iofdset /\ want[fd] # {} /\ IsOpen(fd)
ByPort ==
    kind = "port" => \A fd \in Fds :
        /\ events[fd] = {} => \A k \in kernel : k.fd # fd
        /\ ReadyKept(fd) /\ events[fd] # {} => {k \in kernel : k.fd = fd} = {Interest(fd, events[fd])}
ByKqueue == kind = "kqueue" => \A fd \in Fds : ReadyKept(fd) => \A e \in events[fd] : WillWatch(fd, e)

\* The kernel's filters are of the files there are; what a waiting poll or select was given is
\* of a file there is, or of a changed fd.
OfFiles ==
    /\ \A k \in kernel : k.fd \in Fds /\ k.file = file[k.fd]
    /\ \A k \in asked : /\ k.fd \in Fds /\ (k.file # file[k.fd] => k.fd \in changed)
                        /\ want[k.fd] # {} \/ k.fd \in changed
    /\ phase # "wait" => asked = {}

\* The inductive invariant.
ReadyInv == ReadyTypes /\ Synced /\ ByPoll /\ BySelect /\ ByPort /\ ByKqueue /\ OfFiles

-----------------------------------------------------------------------------
LEMMA EntryFd == \A p \in PollFd : p.fd \in Fds
  BY DEF PollFd

LEMMA InPollFinite == ASSUME NEW ix PROVE IsFiniteSet(InPoll(ix))
  BY TableAssumption, FS_Subset DEF InPoll

\* poll_modify, with something to watch: at the end of the array, or in its place.
LEMMA PollSet ==
    ASSUME NEW q, NEW ix, NEW ev \in [Fds -> SUBSET Ev], PollAgrees(q, ix, ev),
           NEW fd \in Fds, NEW nev \in SUBSET Ev
    PROVE  LET idx == IF ix[fd] = 0 THEN Len(q) + 1 ELSE ix[fd]
               grown == IF ix[fd] = 0 THEN Append(q, [fd |-> fd, ev |-> {}]) ELSE q
           IN  /\ PollAgrees([grown EXCEPT ![idx].ev = nev], [ix EXCEPT ![fd] = idx], [ev EXCEPT ![fd] = nev])
               /\ idx # 0
<1> DEFINE idx == IF ix[fd] = 0 THEN Len(q) + 1 ELSE ix[fd]
           grown == IF ix[fd] = 0 THEN Append(q, [fd |-> fd, ev |-> {}]) ELSE q
           t == [grown EXCEPT ![idx].ev = nev]  jx == [ix EXCEPT ![fd] = idx]  nv == [ev EXCEPT ![fd] = nev]
<1>1. /\ q \in Seq(PollFd) /\ ix \in [Fds -> Nat] /\ Len(q) \in Nat
      /\ \A i \in 1 .. Len(q) : ix[q[i].fd] = i
      /\ \A x \in Fds : ix[x] <= Len(q) /\ (ix[x] # 0 => q[ix[x]] = [fd |-> x, ev |-> ev[x]])
      /\ Len(q) = Cardinality(InPoll(ix))
  BY DEF PollAgrees
<1>2. [fd |-> fd, ev |-> {}] \in PollFd /\ [fd |-> fd, ev |-> nev] \in PollFd
  BY DEF PollFd
<1>3. /\ grown \in Seq(PollFd) /\ idx \in 1 .. Len(grown) /\ grown[idx].fd = fd
      /\ Len(grown) = IF ix[fd] = 0 THEN Len(q) + 1 ELSE Len(q)
      /\ \A i \in 1 .. Len(grown) : i # idx => i \in 1 .. Len(q) /\ grown[i] = q[i]
      /\ \A i \in 1 .. Len(q) : i \in 1 .. Len(grown)
  <2>1. CASE ix[fd] = 0
    <3> DEFINE new == [fd |-> fd, ev |-> {}]
    <3>1. new.fd = fd /\ new \in PollFd
      BY <1>2
    <3> HIDE DEF new
    <3>2. /\ Append(q, new) \in Seq(PollFd) /\ Len(Append(q, new)) = Len(q) + 1
          /\ \A i \in 1 .. Len(q) : Append(q, new)[i] = q[i]
          /\ Append(q, new)[Len(q) + 1] = new
      BY <1>1, <3>1, AppendProperties
    <3>3. grown = Append(q, new) /\ idx = Len(q) + 1
      BY <2>1 DEF new
    <3> HIDE DEF grown, idx
    <3> QED
      BY <1>1, <2>1, <3>1, <3>2, <3>3
  <2>2. CASE ix[fd] # 0
    <3>1. ix[fd] \in 1 .. Len(q) /\ q[ix[fd]] = [fd |-> fd, ev |-> ev[fd]]
      BY <1>1, <2>2
    <3> QED
      BY <1>1, <2>2, <3>1
  <2> QED
    BY <2>1, <2>2
<1> HIDE DEF idx, grown
<1>4. /\ t \in Seq(PollFd) /\ Len(t) = Len(grown) /\ t[idx] = [fd |-> fd, ev |-> nev]
      /\ \A i \in 1 .. Len(grown) : i # idx => t[i] = q[i]
  <2>1. [grown[idx] EXCEPT !.ev = nev] = [fd |-> fd, ev |-> nev]
    <3>1. grown[idx] \in PollFd /\ grown[idx].fd = fd
      BY <1>3
    <3> QED
      BY <3>1 DEF PollFd
  <2>2. t = [grown EXCEPT ![idx] = [fd |-> fd, ev |-> nev]]
    BY <2>1
  <2> HIDE DEF t
  <2> QED
    BY <1>2, <1>3, <2>2
<1>5. /\ jx \in [Fds -> Nat] /\ jx[fd] = idx /\ \A x \in Fds : x # fd => jx[x] = ix[x]
      /\ nv[fd] = nev /\ \A x \in Fds : x # fd => nv[x] = ev[x]
  BY <1>1, <1>3
<1> HIDE DEF t, jx, nv
<1>6. \A i \in 1 .. Len(q) : i # idx => q[i].fd \in Fds /\ q[i].fd # fd
  <2>1. \A i \in 1 .. Len(q) : q[i].fd \in Fds
    BY <1>1, EntryFd
  <2>2. \A i \in 1 .. Len(q) : q[i].fd = fd => i = idx
    BY <1>1 DEF idx
  <2> QED
    BY <2>1, <2>2
<1>7. \A i \in 1 .. Len(t) : jx[t[i].fd] = i
  <2> TAKE i \in 1 .. Len(t)
  <2>1. CASE i = idx
    BY <1>4, <1>5, <2>1
  <2>2. CASE i # idx
    <3>1. i \in 1 .. Len(q) /\ t[i] = q[i] /\ q[i].fd \in Fds /\ q[i].fd # fd
      BY <1>3, <1>4, <1>6, <2>2
    <3> QED
      BY <1>1, <1>5, <3>1
  <2> QED
    BY <2>1, <2>2
<1>8. \A x \in Fds : jx[x] <= Len(t) /\ (jx[x] # 0 => t[jx[x]] = [fd |-> x, ev |-> nv[x]])
  <2> TAKE x \in Fds
  <2>1. CASE x = fd
    BY <1>3, <1>4, <1>5, <2>1
  <2>2. CASE x # fd
    <3>1. jx[x] = ix[x] /\ nv[x] = ev[x] /\ ix[x] <= Len(q) /\ ix[x] \in Nat /\ Len(q) <= Len(t)
      <4>1. jx[x] = ix[x] /\ nv[x] = ev[x]
        BY <1>5, <2>2
      <4>2. ix[x] <= Len(q) /\ ix[x] \in Nat
        BY <1>1
      <4>3. Len(q) <= Len(t)
        BY <1>1, <1>3, <1>4
      <4> QED
        BY <4>1, <4>2, <4>3
    <3>2. CASE ix[x] # 0
      <4>1. ix[x] \in 1 .. Len(q) /\ q[ix[x]] = [fd |-> x, ev |-> ev[x]]
        BY <1>1, <3>1, <3>2
      <4>2. ix[x] # idx
        <5>1. CASE ix[fd] = 0
          BY <1>1, <4>1, <5>1 DEF idx
        <5>2. CASE ix[fd] # 0
          <6>1. q[ix[fd]] = [fd |-> fd, ev |-> ev[fd]]
            BY <1>1, <5>2, Zenon
          <6>2. q[ix[fd]].fd = fd /\ q[ix[x]].fd = x
            BY <4>1, <6>1
          <6> QED
            BY <2>2, <5>2, <6>2 DEF idx
        <5> QED
          BY <5>1, <5>2
      <4> QED
        BY <1>1, <1>3, <1>4, <3>1, <4>1, <4>2
    <3> QED
      BY <1>1, <1>4, <3>1, <3>2
  <2> QED
    BY <2>1, <2>2
<1>9. Len(t) = Cardinality(InPoll(jx))
  <2>1. InPoll(jx) = InPoll(ix) \cup {fd} /\ (fd \in InPoll(ix) <=> ix[fd] # 0)
    BY <1>3, <1>5 DEF InPoll
  <2>2. Cardinality(InPoll(ix) \cup {fd}) =
           IF fd \in InPoll(ix) THEN Cardinality(InPoll(ix)) ELSE Cardinality(InPoll(ix)) + 1
    BY InPollFinite, FS_AddElement, Zenon
  <2> QED
    BY <1>1, <1>3, <1>4, <2>1, <2>2
<1>10. PollAgrees(t, jx, nv)
  BY <1>4, <1>5, <1>7, <1>8, <1>9 DEF PollAgrees
<1>11. idx # 0
  BY <1>3
<1> QED
  BY <1>10, <1>11, Zenon DEF t, jx, nv, idx, grown

\* poll_modify, with nothing to watch: the last entry takes the place.
LEMMA PollCut ==
    ASSUME NEW q, NEW ix, NEW ev \in [Fds -> SUBSET Ev], PollAgrees(q, ix, ev),
           NEW fd \in Fds, ix[fd] # 0
    PROVE  LET last == q[Len(q)]
           IN  PollAgrees(Front([q EXCEPT ![ix[fd]] = last]),
                          [[ix EXCEPT ![last.fd] = ix[fd]] EXCEPT ![fd] = 0], [ev EXCEPT ![fd] = {}])
<1> DEFINE n == Len(q)  last == q[n]  m == ix[fd]  moved == [q EXCEPT ![m] = last]  t == Front(moved)
           jx == [[ix EXCEPT ![last.fd] = m] EXCEPT ![fd] = 0]  nv == [ev EXCEPT ![fd] = {}]
<1>1. /\ q \in Seq(PollFd) /\ ix \in [Fds -> Nat] /\ n \in Nat
      /\ \A i \in 1 .. n : ix[q[i].fd] = i
      /\ \A x \in Fds : ix[x] <= n /\ (ix[x] # 0 => q[ix[x]] = [fd |-> x, ev |-> ev[x]])
      /\ n = Cardinality(InPoll(ix))
  BY DEF PollAgrees
<1>2. m \in 1 .. n /\ q[m].fd = fd /\ n \in 1 .. n
  <2>1. q[m] = [fd |-> fd, ev |-> ev[fd]]
    BY <1>1
  <2> QED
    BY <1>1, <2>1
<1>3. last \in PollFd /\ last.fd \in Fds /\ ix[last.fd] = n
  <2>1. q[n] \in PollFd /\ ix[q[n].fd] = n
    BY <1>1, <1>2
  <2> QED
    BY <2>1, EntryFd
<1> HIDE DEF last, m, n
<1>4. /\ moved \in Seq(PollFd) /\ Len(moved) = n
      /\ \A i \in 1 .. n : moved[i] = IF i = m THEN last ELSE q[i]
  BY <1>1, <1>2, <1>3 DEF n
<1> HIDE DEF moved
<1>5. t \in Seq(PollFd) /\ Len(t) = n - 1 /\ \A i \in 1 .. n - 1 : t[i] = IF i = m THEN last ELSE q[i]
  <2>1. PICK k \in Int : k = n - 1 /\ 0 <= k
    BY <1>2
  <2>2. \A i \in 1 .. k : moved[i] \in PollFd
    BY <1>4, <2>1
  <2>3. /\ SubSeq(moved, 1, k) \in Seq(PollFd)
        /\ Len(SubSeq(moved, 1, k)) = IF 1 <= k THEN k - 1 + 1 ELSE 0
        /\ \A i \in 1 .. k - 1 + 1 : SubSeq(moved, 1, k)[i] = moved[1 + i - 1]
    BY <2>2, SubSeqProperties
  <2>4. t = SubSeq(moved, 1, k)
    BY <1>4, <2>1 DEF Front
  <2>5. k - 1 + 1 = k /\ \A i \in 1 .. k : 1 + i - 1 = i
    BY <2>1
  <2> HIDE DEF t
  <2>6. Len(t) = k /\ \A i \in 1 .. k : t[i] = moved[i]
    BY <2>1, <2>3, <2>4, <2>5
  <2>7. \A i \in 1 .. k : i \in 1 .. n
    BY <1>2, <2>1
  <2> QED
    BY <1>4, <2>1, <2>3, <2>4, <2>6, <2>7
<1>6. /\ jx \in [Fds -> Nat] /\ jx[fd] = 0 /\ (last.fd # fd => jx[last.fd] = m)
      /\ \A x \in Fds : x # fd /\ x # last.fd => jx[x] = ix[x]
      /\ nv[fd] = {} /\ \A x \in Fds : x # fd => nv[x] = ev[x]
  BY <1>1, <1>2, <1>3
<1> HIDE DEF t, jx, nv
<1>7. \A i \in 1 .. n : q[i].fd \in Fds /\ (q[i].fd = fd => i = m) /\ (q[i].fd = last.fd => i = n)
  <2>1. \A i \in 1 .. n : q[i].fd \in Fds
    BY <1>1, EntryFd DEF n
  <2> QED
    BY <1>1, <1>3, <2>1 DEF m
<1>8. \A i \in 1 .. Len(t) : jx[t[i].fd] = i
  <2> TAKE i \in 1 .. Len(t)
  <2>1. i \in 1 .. n - 1 /\ i \in 1 .. n /\ i # n
    BY <1>2, <1>5
  <2>2. CASE i = m
    <3>1. t[i] = last /\ last.fd # fd
      BY <1>2, <1>3, <1>5, <2>1, <2>2 DEF m
    <3> QED
      BY <1>6, <2>2, <3>1
  <2>3. CASE i # m
    <3>1. t[i] = q[i] /\ q[i].fd \in Fds /\ q[i].fd # fd /\ q[i].fd # last.fd
      BY <1>5, <1>7, <2>1, <2>3
    <3> QED
      BY <1>1, <1>6, <2>1, <3>1
  <2> QED
    BY <2>2, <2>3
<1>9. \A x \in Fds : jx[x] <= Len(t) /\ (jx[x] # 0 => t[jx[x]] = [fd |-> x, ev |-> nv[x]])
  <2> TAKE x \in Fds
  <2>1. CASE x = fd
    BY <1>2, <1>5, <1>6, <2>1
  <2>2. CASE x # fd /\ x = last.fd
    <3>1. jx[x] = m /\ nv[x] = ev[x] /\ ix[x] = n
      BY <1>3, <1>6, <2>2
    <3>2. last = [fd |-> x, ev |-> ev[x]]
      BY <1>1, <1>2, <3>1 DEF last
    <3>3. m # n
      BY <1>2, <2>2 DEF last
    <3>4. m \in 1 .. n - 1
      BY <1>2, <3>3
    <3> QED
      BY <1>5, <3>1, <3>2, <3>4
  <2>3. CASE x # fd /\ x # last.fd
    <3>1. jx[x] = ix[x] /\ nv[x] = ev[x] /\ ix[x] \in Nat /\ ix[x] <= n
      BY <1>1, <1>6, <2>3
    <3>2. CASE ix[x] # 0
      <4>1. ix[x] \in 1 .. n /\ q[ix[x]] = [fd |-> x, ev |-> ev[x]]
        BY <1>1, <3>1, <3>2
      <4>2. q[ix[x]].fd = x
        BY <4>1
      <4>3. ix[x] # n /\ ix[x] # m
        BY <1>2, <2>3, <4>2 DEF last
      <4>4. ix[x] \in 1 .. n - 1
        BY <4>1, <4>3, <1>2
      <4> QED
        BY <1>5, <3>1, <4>1, <4>3, <4>4
    <3>3. CASE ix[x] = 0
      BY <1>2, <1>5, <3>1, <3>3
    <3> QED
      BY <3>2, <3>3
  <2> QED
    BY <2>1, <2>2, <2>3
<1>10. Len(t) = Cardinality(InPoll(jx))
  <2>1. InPoll(jx) = InPoll(ix) \ {fd} /\ fd \in InPoll(ix)
    <3>1. \A x \in Fds : x # fd => (jx[x] # 0 <=> ix[x] # 0)
      BY <1>2, <1>3, <1>6
    <3>2. ix[fd] # 0
      OBVIOUS
    <3> QED
      BY <1>6, <3>1, <3>2 DEF InPoll
  <2>2. Cardinality(InPoll(ix) \ {fd}) =
           IF fd \in InPoll(ix) THEN Cardinality(InPoll(ix)) - 1 ELSE Cardinality(InPoll(ix))
    BY InPollFinite, FS_RemoveElement, Zenon
  <2> QED
    BY <1>1, <1>5, <2>1, <2>2
<1>11. PollAgrees(t, jx, nv)
  BY <1>5, <1>6, <1>8, <1>9, <1>10 DEF PollAgrees
<1> QED
  BY <1>11 DEF t, jx, nv, moved, last, m, n

-----------------------------------------------------------------------------
(* Lists of changes.                                                       *)
LEMMA UntouchedConcat ==
    ASSUME NEW p \in Seq(Change), NEW q \in Seq(Change), NEW fd, NEW e,
           Untouched(p, fd, e), Untouched(q, fd, e)
    PROVE  Untouched(p \o q, fd, e)
<1>1. /\ Len(p \o q) = Len(p) + Len(q)
      /\ \A i \in 1 .. Len(p) + Len(q) : (p \o q)[i] = IF i <= Len(p) THEN p[i] ELSE q[i - Len(p)]
  BY ConcatProperties
<1> DEFINE r == p \o q
<1> HIDE DEF r
<1>2. ASSUME NEW i \in 1 .. Len(r) PROVE r[i].fd # fd \/ r[i].ev # e
  <2>1. CASE i <= Len(p)
    <3>1. i \in 1 .. Len(p) /\ r[i] = p[i]
      BY <1>1, <2>1 DEF r
    <3> QED
      BY <3>1 DEF Untouched
  <2>2. CASE ~(i <= Len(p))
    <3>1. i - Len(p) \in 1 .. Len(q) /\ r[i] = q[i - Len(p)]
      BY <1>1, <2>2 DEF r
    <3> QED
      BY <3>1 DEF Untouched
  <2> QED
    BY <2>1, <2>2
<1> QED
  BY <1>2 DEF Untouched, r

\* The later list decides.
LEMMA SettledLater ==
    ASSUME NEW p \in Seq(Change), NEW q \in Seq(Change), NEW fd, NEW e, NEW add, Settled(q, fd, e, add)
    PROVE  Settled(p \o q, fd, e, add)
<1>1. /\ Len(p \o q) = Len(p) + Len(q)
      /\ \A i \in 1 .. Len(p) + Len(q) : (p \o q)[i] = IF i <= Len(p) THEN p[i] ELSE q[i - Len(p)]
  BY ConcatProperties
<1> DEFINE r == p \o q
<1> HIDE DEF r
<1>2. PICK i \in 1 .. Len(q) : /\ q[i] = [fd |-> fd, ev |-> e, add |-> add]
                               /\ \A j \in i + 1 .. Len(q) : q[j].fd # fd \/ q[j].ev # e
  BY DEF Settled
<1>3. PICK k : k = Len(p) + i
  OBVIOUS
<1>4. k \in 1 .. Len(r) /\ r[k] = q[i]
  <2>1. k \in 1 .. Len(p) + Len(q) /\ ~(k <= Len(p)) /\ k - Len(p) = i
    BY <1>3
  <2> QED
    BY <1>1, <2>1 DEF r
<1>5. ASSUME NEW j \in k + 1 .. Len(r) PROVE r[j].fd # fd \/ r[j].ev # e
  <2>1. j \in 1 .. Len(p) + Len(q) /\ ~(j <= Len(p)) /\ j - Len(p) \in i + 1 .. Len(q)
    BY <1>1, <1>3 DEF r
  <2>2. r[j] = q[j - Len(p)]
    BY <1>1, <2>1 DEF r
  <2> QED
    BY <1>2, <2>1, <2>2
<1>6. r[k] = [fd |-> fd, ev |-> e, add |-> add]
  BY <1>2, <1>4
<1>7. Settled(r, fd, e, add)
  BY <1>4, <1>5, <1>6, Zenon DEF Settled
<1> QED
  BY <1>7 DEF r

\* What the later list leaves alone stays decided.
LEMMA SettledBefore ==
    ASSUME NEW p \in Seq(Change), NEW q \in Seq(Change), NEW fd, NEW e, NEW add,
           Settled(p, fd, e, add), Untouched(q, fd, e)
    PROVE  Settled(p \o q, fd, e, add)
<1>1. /\ Len(p \o q) = Len(p) + Len(q)
      /\ \A i \in 1 .. Len(p) + Len(q) : (p \o q)[i] = IF i <= Len(p) THEN p[i] ELSE q[i - Len(p)]
  BY ConcatProperties
<1> DEFINE r == p \o q
<1> HIDE DEF r
<1>2. PICK i \in 1 .. Len(p) : /\ p[i] = [fd |-> fd, ev |-> e, add |-> add]
                               /\ \A j \in i + 1 .. Len(p) : p[j].fd # fd \/ p[j].ev # e
  BY DEF Settled
<1>4. i \in 1 .. Len(r) /\ r[i] = p[i]
  BY <1>1 DEF r
<1>5. ASSUME NEW j \in i + 1 .. Len(r) PROVE r[j].fd # fd \/ r[j].ev # e
  <2>0. j \in 1 .. Len(p) + Len(q)
    BY <1>1 DEF r
  <2>1. CASE j <= Len(p)
    <3>1. j \in i + 1 .. Len(p) /\ r[j] = p[j]
      BY <1>1, <2>0, <2>1 DEF r
    <3> QED
      BY <1>2, <3>1
  <2>2. CASE ~(j <= Len(p))
    <3>1. j - Len(p) \in 1 .. Len(q) /\ r[j] = q[j - Len(p)]
      BY <1>1, <2>0, <2>2 DEF r
    <3> QED
      BY <3>1 DEF Untouched
  <2> QED
    BY <2>1, <2>2
<1>6. r[i] = [fd |-> fd, ev |-> e, add |-> add]
  BY <1>2, <1>4
<1>7. Settled(r, fd, e, add)
  BY <1>4, <1>5, <1>6, Zenon DEF Settled
<1> QED
  BY <1>7 DEF r

\* In a list of additions, each made once, whatever is touched is added.
LEMMA AddsSettle ==
    ASSUME NEW C, C \subseteq Change, \A c \in C : c.add = TRUE, IsFiniteSet(C),
           NEW fd, NEW e
    PROVE  /\ SetToSeq(C) \in Seq(Change)
           /\ Untouched(SetToSeq(C), fd, e) \/ Settled(SetToSeq(C), fd, e, TRUE)
           /\ [fd |-> fd, ev |-> e, add |-> TRUE] \in C => Settled(SetToSeq(C), fd, e, TRUE)
           /\ (\A c \in C : c.fd # fd) => Untouched(SetToSeq(C), fd, e)
<1>1. PICK q : q = SetToSeq(C)
  OBVIOUS
<1>2. /\ q \in Seq(C) /\ \A x \in C : \E i \in 1 .. Len(q) : q[i] = x
      /\ \A i, j \in 1 .. Len(q) : q[i] = q[j] => i = j
  BY <1>1, ListOf
<1>3. q \in Seq(Change) /\ Len(q) \in Nat /\ \A i \in 1 .. Len(q) : q[i] \in C
  BY <1>2
<1>4. \A c \in C : c.fd = fd /\ c.ev = e => c = [fd |-> fd, ev |-> e, add |-> TRUE]
  BY DEF Change
<1>5. ASSUME NEW i \in 1 .. Len(q), q[i].fd = fd, q[i].ev = e PROVE Settled(q, fd, e, TRUE)
  <2>1. q[i] = [fd |-> fd, ev |-> e, add |-> TRUE]
    BY <1>3, <1>4, <1>5
  <2>2. ASSUME NEW j \in i + 1 .. Len(q) PROVE q[j].fd # fd \/ q[j].ev # e
    <3>1. j \in 1 .. Len(q) /\ j # i
      BY <1>3
    <3>2. q[j] # q[i]
      BY <1>2, <3>1
    <3> QED
      BY <1>3, <1>4, <2>1, <3>1, <3>2
  <2> QED
    BY <2>1, <2>2, Zenon DEF Settled
<1>6. Untouched(q, fd, e) \/ Settled(q, fd, e, TRUE)
  BY <1>5 DEF Untouched
<1>7. ASSUME [fd |-> fd, ev |-> e, add |-> TRUE] \in C PROVE Settled(q, fd, e, TRUE)
  <2>1. PICK i \in 1 .. Len(q) : q[i] = [fd |-> fd, ev |-> e, add |-> TRUE]
    BY <1>2, <1>7
  <2>2. q[i].fd = fd /\ q[i].ev = e
    BY <2>1
  <2> QED
    BY <1>5, <2>2
<1>8. ASSUME \A c \in C : c.fd # fd PROVE Untouched(q, fd, e)
  BY <1>3, <1>8 DEF Untouched
<1> QED
  BY <1>1, <1>3, <1>6, <1>7, <1>8

\* The changes of one fd.
Changes(fd, S, add) == {[fd |-> fd, ev |-> e, add |-> add] : e \in S}

LEMMA ChangesOf ==
    ASSUME NEW fd \in Fds, NEW S \in SUBSET Ev, NEW add \in BOOLEAN
    PROVE  Changes(fd, S, add) \subseteq Change /\ IsFiniteSet(Changes(fd, S, add))
<1>1. Changes(fd, S, add) \subseteq Change
  BY DEF Changes, Change
<1> DEFINE T == {[fd |-> fd, ev |-> "r", add |-> add], [fd |-> fd, ev |-> "w", add |-> add]}
<1>2. Changes(fd, S, add) \subseteq T
  BY DEF Changes, Ev
<1>3. IsFiniteSet({[fd |-> fd, ev |-> "r", add |-> add]})
  BY FS_Singleton
<1>4. IsFiniteSet({[fd |-> fd, ev |-> "r", add |-> add]} \cup {[fd |-> fd, ev |-> "w", add |-> add]})
  BY <1>3, FS_AddElement
<1>5. T = {[fd |-> fd, ev |-> "r", add |-> add]} \cup {[fd |-> fd, ev |-> "w", add |-> add]}
  OBVIOUS
<1>6. IsFiniteSet(T)
  BY <1>4, <1>5, Zenon
<1> HIDE DEF T
<1> QED
  BY <1>1, <1>2, <1>6, FS_Subset

\* kqueue_modify: what is asked for is added, no other fd touched.
LEMMA Modified ==
    ASSUME NEW fd \in Fds, NEW oev \in SUBSET Ev, NEW nev \in SUBSET Ev
    PROVE  /\ KqueueModify(fd, oev, nev) \in Seq(Change)
           /\ \A e \in nev : Settled(KqueueModify(fd, oev, nev), fd, e, TRUE)
           /\ \A x, e : x # fd => Untouched(KqueueModify(fd, oev, nev), x, e)
<1> DEFINE D == Changes(fd, oev, FALSE)  A == Changes(fd, nev, TRUE)
           p == IF oev # nev THEN SetToSeq(D) ELSE <<>>  q == SetToSeq(A)
<1>1. KqueueModify(fd, oev, nev) = p \o q
  BY Zenon DEF KqueueModify, Changes
<1>2. D \subseteq Change /\ IsFiniteSet(D) /\ A \subseteq Change /\ IsFiniteSet(A)
  BY ChangesOf
<1>3. (\A c \in D : c.fd = fd) /\ (\A c \in A : c.fd = fd /\ c.add = TRUE)
      /\ \A e \in nev : [fd |-> fd, ev |-> e, add |-> TRUE] \in A
  <2>1. \A c \in D : c.fd = fd
    BY DEF Changes
  <2>2. \A c \in A : c.fd = fd /\ c.add = TRUE
    BY DEF Changes
  <2>3. \A e \in nev : [fd |-> fd, ev |-> e, add |-> TRUE] \in A
    BY Zenon DEF Changes
  <2> QED
    BY <2>1, <2>2, <2>3, Zenon
<1> HIDE DEF D, A
<1>4. SetToSeq(D) \in Seq(D)
  BY <1>2, ListOf
<1>5. SetToSeq(D) \in Seq(Change) /\ \A x, e : x # fd => Untouched(SetToSeq(D), x, e)
  <2>1. PICK s : s = SetToSeq(D)
    OBVIOUS
  <2>2. s \in Seq(D)
    BY <1>4, <2>1
  <2>3. s \in Seq(Change) /\ \A i \in 1 .. Len(s) : s[i] \in D
    BY <1>2, <2>2
  <2> QED
    BY <1>3, <2>1, <2>3 DEF Untouched
<1>6. p \in Seq(Change) /\ \A x, e : x # fd => Untouched(p, x, e)
  <2>1. <<>> \in Seq(Change) /\ \A x, e : Untouched(<<>>, x, e)
    BY DEF Untouched
  <2> QED
    BY <1>5, <2>1, Zenon
<1>7. q \in Seq(Change) /\ \A e \in nev : Settled(q, fd, e, TRUE)
  <2>1. \A c \in A : c.add = TRUE
    BY <1>3
  <2>2. q \in Seq(Change) /\ \A e : [fd |-> fd, ev |-> e, add |-> TRUE] \in A => Settled(q, fd, e, TRUE)
    BY <1>2, <2>1, AddsSettle, Zenon
  <2> QED
    BY <1>3, <2>2, Zenon
<1>8. ASSUME NEW x, NEW e, x # fd PROVE Untouched(q, x, e)
  <2>1. \A c \in A : c.fd # x
    BY <1>3, <1>8
  <2> QED
    BY <1>2, <1>3, <2>1, AddsSettle, Zenon
<1> HIDE DEF p, q
<1>9. p \o q \in Seq(Change)
  BY <1>6, <1>7
<1>10. \A e \in nev : Settled(p \o q, fd, e, TRUE)
  BY <1>6, <1>7, SettledLater, Zenon
<1>11. \A x, e : x # fd => Untouched(p \o q, x, e)
  BY <1>6, <1>7, <1>8, UntouchedConcat, Zenon
<1> QED
  BY <1>1, <1>9, <1>10, <1>11, Zenon

\* The additions kqueue_poll makes after an error.
LEMMA AgainFinite ==
    ASSUME NEW S \in SUBSET Fds
    PROVE  IsFiniteSet([fd : S, ev : Ev, add : {TRUE}])
<1> DEFINE P == Fds \X Ev  T == [fd : Fds, ev : Ev, add : {TRUE}]
           f == [x \in P |-> [fd |-> x[1], ev |-> x[2], add |-> TRUE]]
<1>1. IsFiniteSet(Ev)
  <2>1. IsFiniteSet({"r"}) /\ Ev = {"r"} \cup {"w"}
    BY FS_Singleton DEF Ev
  <2> QED
    BY <2>1, FS_AddElement
<1>2. IsFiniteSet(P)
  BY <1>1, TableAssumption, FS_Product, Zenon
<1>3. f \in Surjection(P, T)
  <2>1. f \in [P -> T]
    OBVIOUS
  <2>2. ASSUME NEW t \in T PROVE \E x \in P : f[x] = t
    <3>1. <<t.fd, t.ev>> \in P /\ t = [fd |-> t.fd, ev |-> t.ev, add |-> TRUE]
      OBVIOUS
    <3>2. f[<<t.fd, t.ev>>] = [fd |-> t.fd, ev |-> t.ev, add |-> TRUE]
      BY <3>1
    <3> QED
      BY <3>1, <3>2, Zenon
  <2> QED
    BY <2>1, <2>2 DEF Surjection
<1>4. IsFiniteSet(T)
  <2> HIDE DEF P, T, f
  <2> QED
    BY <1>2, <1>3, FS_Surjection
<1>5. [fd : S, ev : Ev, add : {TRUE}] \subseteq T
  OBVIOUS
<1> HIDE DEF T
<1> QED
  BY <1>4, <1>5, FS_Subset

-----------------------------------------------------------------------------
(* The steps.                                                              *)
LEMMA ReadyStarts == ReadyInit => ReadyInv
<1> SUFFICES ASSUME ReadyInit PROVE ReadyInv
  OBVIOUS
<1> USE DEF ReadyInit, TableInit
<1>1. ReadyTypes
  BY DEF ReadyTypes, Change
<1>2. Synced /\ BySelect /\ ByPort /\ ByKqueue /\ OfFiles
  BY DEF Synced, BySelect, ByPort, ByKqueue, OfFiles, ReadyKept
<1>3. PollAgrees(pollfds, pollidxs, events)
  <2>1. InPoll(pollidxs) = {}
    BY DEF InPoll
  <2>2. Cardinality(InPoll(pollidxs)) = 0
    BY <2>1, FS_EmptySet
  <2> QED
    BY <2>2 DEF PollAgrees
<1>4. ByPoll
  BY <1>3 DEF ByPoll
<1> QED
  BY <1>1, <1>2, <1>4 DEF ReadyInv

\* An empty array agrees with any events.
LEMMA PollNone ==
    ASSUME NEW q, NEW ix, NEW ev, NEW nv, PollAgrees(q, ix, ev), q = <<>>
    PROVE  PollAgrees(q, ix, nv)
<1>1. /\ q \in Seq(PollFd) /\ ix \in [Fds -> Nat] /\ Len(q) = 0
      /\ \A i \in 1 .. Len(q) : ix[q[i].fd] = i
      /\ Len(q) = Cardinality(InPoll(ix))
      /\ \A fd \in Fds : ix[fd] <= Len(q)
  BY DEF PollAgrees
<1>2. \A fd \in Fds : ix[fd] = 0
  BY <1>1
<1> QED
  BY <1>1, <1>2, Zenon DEF PollAgrees

\* Steps that leave the backend alone.
LEMMA BackendQuiet ==
    ASSUME ReadyInv, UNCHANGED <<kind, pollfds, pollidxs, vec, kernel, kchanges, events, file>>,
           \A fd \in Fds : ReadyKept(fd)' => ReadyKept(fd)
    PROVE  ByPoll' /\ BySelect' /\ ByPort' /\ ByKqueue'
<1>1. ByPoll'
  BY DEF ReadyInv, ByPoll
<1>2. BySelect'
  BY DEF ReadyInv, BySelect
<1>3. \A fd \in Fds : IsOpen(fd)' = IsOpen(fd)
  BY DEF IsOpen
<1>4. \A fd, ev : Interest(fd, ev)' = Interest(fd, ev)
  BY DEF Interest
<1>5. ByPort'
  <2>1. SUFFICES ASSUME kind = "port", NEW fd \in Fds
        PROVE  /\ events[fd] = {} => \A k \in kernel : k.fd # fd
               /\ ReadyKept(fd)' /\ events[fd] # {} => {k \in kernel : k.fd = fd} = {Interest(fd, events[fd])}
    BY <1>4, Zenon DEF ByPort
  <2> QED
    BY <2>1, Zenon DEF ReadyInv, ByPort
<1>6. ByKqueue'
  <2>1. \A fd, e : WillWatch(fd, e)' = WillWatch(fd, e)
    BY <1>4, Zenon DEF WillWatch
  <2> QED
    BY <2>1, Zenon DEF ReadyInv, ByKqueue
<1> QED
  BY <1>1, <1>2, <1>5, <1>6

LEMMA KeepIoSet ==
    ASSUME ReadyInv, NEW fd \in Fds, NEW S \in SUBSET Ev, IoSet(fd, S), UNCHANGED ready
    PROVE  ReadyInv'
<1> USE DEF IoSet, CanAct, ready
<1>1. ReadyTypes'
  BY DEF ReadyInv, ReadyTypes
<1>2. Synced'
  BY DEF ReadyInv, ReadyTypes, Synced
<1>3. \A x \in Fds : ReadyKept(x)' => ReadyKept(x)
  BY DEF ReadyInv, ReadyTypes, ReadyKept, IsOpen
<1>4. ByPoll' /\ BySelect' /\ ByPort' /\ ByKqueue'
  BY <1>3, BackendQuiet
<1>5. OfFiles'
  BY DEF ReadyInv, ReadyTypes, OfFiles
<1> QED
  BY <1>1, <1>2, <1>4, <1>5 DEF ReadyInv

LEMMA KeepReopen ==
    ASSUME ReadyInv, NEW fd \in Fds, ReadyReopen(fd)
    PROVE  ReadyInv'
<1> USE DEF ReadyReopen, Reopen, CanAct
<1>1. ReadyTypes' /\ Synced' /\ ByPoll' /\ BySelect'
  BY DEF ReadyInv, ReadyTypes, Synced, ByPoll, BySelect
<1>2. \A x \in Fds : x # fd => file'[x] = file[x]
  BY DEF ReadyInv, ReadyTypes
<1>3. \A x \in Fds : ReadyKept(x)' => ReadyKept(x) /\ x # fd
  BY <1>2 DEF ReadyKept, IsOpen
<1>5. ByPort'
  <2>1. SUFFICES ASSUME kind = "port", NEW x \in Fds
        PROVE  /\ events[x] = {} => \A k \in kernel' : k.fd # x
               /\ ReadyKept(x)' /\ events[x] # {} => {k \in kernel' : k.fd = x} = {Interest(x, events[x])'}
    BY Zenon DEF ByPort
  <2>2. x # fd => {k \in kernel' : k.fd = x} = {k \in kernel : k.fd = x}
    OBVIOUS
  <2>3. events[x] = {} => \A k \in kernel : k.fd # x
    BY <2>1 DEF ReadyInv, ByPort
  <2>4. ASSUME ReadyKept(x)', events[x] # {} PROVE {k \in kernel' : k.fd = x} = {Interest(x, events[x])'}
    <3>1. ReadyKept(x) /\ x # fd
      BY <1>3, <2>4
    <3>2. {k \in kernel : k.fd = x} = {Interest(x, events[x])}
      BY <2>1, <2>4, <3>1, Zenon DEF ReadyInv, ByPort
    <3>3. Interest(x, events[x])' = Interest(x, events[x])
      BY <1>2, <3>1 DEF Interest
    <3> QED
      BY <2>2, <3>1, <3>2, <3>3, Zenon
  <2> QED
    BY <2>3, <2>4
<1>6. ByKqueue'
  <2>1. SUFFICES ASSUME kind = "kqueue", NEW x \in Fds, ReadyKept(x)', NEW e \in events[x] PROVE WillWatch(x, e)'
    BY Zenon DEF ByKqueue
  <2>2. ReadyKept(x) /\ x # fd
    BY <1>3, <2>1
  <2>3. WillWatch(x, e)
    BY <2>1, <2>2 DEF ReadyInv, ByKqueue
  <2>4. Interest(x, {e}) \in kernel => Interest(x, {e})' \in kernel'
    <3>1. Interest(x, {e}).fd = x /\ Interest(x, {e})' = Interest(x, {e})
      BY <1>2, <2>2 DEF Interest
    <3> QED
      BY <2>2, <3>1
  <2> QED
    BY <2>3, <2>4 DEF WillWatch
<1>7. OfFiles'
  <2>1. \A k \in kernel' : k.fd \in Fds /\ k.file = file'[k.fd]
    BY <1>2 DEF ReadyInv, OfFiles
  <2>2. ASSUME NEW k \in asked
        PROVE  /\ k.fd \in Fds /\ (k.file # file'[k.fd] => k.fd \in changed)
               /\ want[k.fd] # {} \/ k.fd \in changed
    BY <1>2 DEF ReadyInv, OfFiles
  <2> QED
    BY <2>1, <2>2 DEF ReadyInv, OfFiles
<1> QED
  BY <1>1, <1>5, <1>6, <1>7 DEF ReadyInv

LEMMA KeepStartReify == ASSUME ReadyInv, ReadyStartReify PROVE ReadyInv'
<1> USE DEF ReadyStartReify, ready
<1>1. ReadyTypes' /\ Synced'
  BY DEF ReadyInv, ReadyTypes, Synced
<1>2. \A x \in Fds : ReadyKept(x)' => ReadyKept(x)
  BY DEF ReadyKept, IsOpen
<1>3. ByPoll' /\ BySelect' /\ ByPort' /\ ByKqueue'
  BY <1>2, BackendQuiet
<1>4. OfFiles'
  BY DEF ReadyInv, OfFiles
<1> QED
  BY <1>1, <1>3, <1>4 DEF ReadyInv

LEMMA KeepPortKill ==
    ASSUME ReadyInv, NEW fd \in Fds, PortKill(fd)
    PROVE  ReadyInv'
<1> USE DEF PortKill, ready
<1>1. ReadyTypes' /\ Synced'
  BY DEF ReadyInv, ReadyTypes, Synced
<1>2. BySelect' /\ ByKqueue'
  BY DEF BySelect, ByKqueue
<1>3. ByPoll'
  <2>1. PollAgrees(pollfds, pollidxs, events) /\ pollfds = <<>>
    BY DEF ReadyInv, ByPoll
  <2>2. PollAgrees(pollfds, pollidxs, events')
    BY <2>1, PollNone
  <2> QED
    BY <2>1, <2>2 DEF ByPoll
<1>4. \A x \in Fds : ReadyKept(x)' => ReadyKept(x) /\ x # fd
  BY DEF ReadyInv, ReadyTypes, ReadyKept, IsOpen
<1>5. events'[fd] # {} /\ \A x \in Fds : x # fd => events'[x] = events[x]
  BY DEF ReadyInv, ReadyTypes
<1>6. ByPort'
  <2>1. SUFFICES ASSUME NEW x \in Fds
        PROVE  /\ events'[x] = {} => \A k \in kernel : k.fd # x
               /\ ReadyKept(x)' /\ events'[x] # {} => {k \in kernel : k.fd = x} = {Interest(x, events'[x])}
    <3>1. \A x : Interest(x, events[x])' = Interest(x, events'[x])
      BY DEF Interest
    <3> QED
      BY <2>1, <3>1, Zenon DEF ByPort
  <2> QED
    BY <1>4, <1>5, Zenon DEF ReadyInv, ByPort
<1>7. OfFiles'
  BY DEF ReadyInv, ReadyTypes, OfFiles
<1> QED
  BY <1>1, <1>2, <1>3, <1>6, <1>7 DEF ReadyInv

\* fd_kill: the watchers are gone and the fd is changed, unless it had none.
LEMMA Killed ==
    ASSUME ReadyInv, NEW S \in SUBSET Fds, FdKill(S), UNCHANGED <<events, iofdset, file>>
    PROVE  /\ want' \in [Fds -> SUBSET Ev] /\ changed' \subseteq Fds /\ iofdset' \subseteq changed'
           /\ Synced' /\ \A x \in Fds : ReadyKept(x)' => ReadyKept(x)
<1>1. want' \in [Fds -> SUBSET Ev] /\ changed \subseteq changed'
  BY DEF ReadyInv, ReadyTypes, FdKill
<1>2. changed' \subseteq Fds
  BY DEF ReadyInv, ReadyTypes, FdKill
<1>3. Synced'
  BY DEF ReadyInv, ReadyTypes, Synced, FdKill
<1>4. \A x \in Fds : ReadyKept(x)' => ReadyKept(x)
  BY DEF ReadyInv, ReadyTypes, ReadyKept, IsOpen, FdKill
<1> QED
  BY <1>1, <1>2, <1>3, <1>4 DEF ReadyInv, ReadyTypes

LEMMA KeepNoMemory == ASSUME ReadyInv, NoMemory PROVE ReadyInv'
<1> DEFINE armed == {fd \in Fds : events[fd] # {}}
<1>1. PICK g \in armed : FdKill({g})
  BY DEF NoMemory
<1>2. /\ UNCHANGED <<events, iofdset, file, misfed, kind, pollfds, pollidxs, vec, kchanges, kernel>>
      /\ asked' = {} /\ {g} \in SUBSET Fds
  BY <1>1 DEF NoMemory
<1>3. /\ want' \in [Fds -> SUBSET Ev] /\ changed' \subseteq Fds /\ iofdset' \subseteq changed'
      /\ Synced' /\ \A x \in Fds : ReadyKept(x)' => ReadyKept(x)
  BY <1>1, <1>2, Killed
<1>4. ReadyTypes'
  BY <1>2, <1>3 DEF ReadyInv, ReadyTypes
<1>5. ByPoll' /\ BySelect' /\ ByPort' /\ ByKqueue'
  BY <1>2, <1>3, BackendQuiet
<1>6. OfFiles'
  BY <1>2 DEF ReadyInv, OfFiles
<1> QED
  BY <1>3, <1>4, <1>5, <1>6 DEF ReadyInv

LEMMA KeepReturns ==
    ASSUME ReadyInv, NEW R \in SUBSET (kernel \cup asked), PollReturns(R)
    PROVE  ReadyInv'
<1> DEFINE dead == {k.fd : k \in {k \in asked : k.file % 2 = 0}}
<1>1. UNCHANGED <<events, file, kind, pollfds, pollidxs, vec, kchanges>> /\ asked' = {}
  BY DEF PollReturns
<1>2. \A k \in R : k.fd \in Fds /\ (k.file # file[k.fd] => k.fd \in changed)
  BY DEF ReadyInv, OfFiles
<1>3. misfed' = FALSE
  <2>1. misfed' = (misfed \/ \E k \in R : Heard(k.fd, k.ev) /\ k.file # file[k.fd])
    BY DEF PollReturns
  <2>2. ~ \E k \in R : Heard(k.fd, k.ev) /\ k.file # file[k.fd]
    BY <1>2 DEF Heard
  <2>3. misfed = FALSE
    BY DEF ReadyInv, ReadyTypes
  <2> QED
    BY <2>1, <2>2, <2>3
<1>4. kernel' \subseteq kernel
  BY DEF PollReturns
<1>5. OfFiles'
  BY <1>1, <1>4 DEF ReadyInv, OfFiles
<1>6. CASE kind # "port"
  <2>1. PICK S : S = IF kind = "select" /\ dead # {} THEN FdEbadf ELSE dead
    OBVIOUS
  <2>2. FdKill(S) /\ UNCHANGED <<kernel, iofdset>>
    BY <1>6, <2>1 DEF PollReturns
  <2>3. S \in SUBSET Fds
    <3>1. dead \subseteq Fds
      BY DEF ReadyInv, OfFiles
    <3>2. FdEbadf \subseteq Fds
      BY DEF FdEbadf
    <3> QED
      BY <2>1, <3>1, <3>2
  <2>4. /\ want' \in [Fds -> SUBSET Ev] /\ changed' \subseteq Fds /\ iofdset' \subseteq changed'
        /\ Synced' /\ \A x \in Fds : ReadyKept(x)' => ReadyKept(x)
    BY <1>1, <2>2, <2>3, Killed
  <2>5. ReadyTypes'
    BY <1>1, <1>3, <2>4 DEF ReadyInv, ReadyTypes
  <2>6. ByPoll' /\ BySelect' /\ ByPort' /\ ByKqueue'
    BY <1>1, <2>2, <2>4, BackendQuiet
  <2> QED
    BY <1>5, <2>4, <2>5, <2>6 DEF ReadyInv
<1>7. CASE kind = "port"
  <2> DEFINE gone == {k.fd : k \in R}
  <2>1. /\ kernel' = kernel \ R /\ changed' = changed \cup gone
        /\ iofdset' = iofdset \cup gone /\ UNCHANGED want
    BY <1>7 DEF PollReturns
  <2>2. gone \subseteq Fds
    BY <1>2
  <2>3. ReadyTypes'
    BY <1>1, <1>3, <2>1, <2>2 DEF ReadyInv, ReadyTypes
  <2>4. Synced' /\ ByPoll' /\ BySelect' /\ ByKqueue'
    BY <1>1, <1>7, <2>1 DEF ReadyInv, Synced, ByPoll, BySelect, ByKqueue
  <2>5. ByPort'
    <3>1. SUFFICES ASSUME NEW x \in Fds
          PROVE  /\ events[x] = {} => \A k \in kernel' : k.fd # x
                 /\ ReadyKept(x)' /\ events[x] # {} => {k \in kernel' : k.fd = x} = {Interest(x, events[x])}
      <4>1. \A x : Interest(x, events[x])' = Interest(x, events[x])
        BY <1>1 DEF Interest
      <4> QED
        BY <1>1, <3>1, <4>1, Zenon DEF ByPort
    <3>2. events[x] = {} => \A k \in kernel' : k.fd # x
      BY <1>4, <1>7 DEF ReadyInv, ByPort
    <3>3. ASSUME ReadyKept(x)', events[x] # {} PROVE {k \in kernel' : k.fd = x} = {Interest(x, events[x])}
      <4>1. ReadyKept(x) /\ x \notin gone
        BY <1>1, <2>1, <3>3 DEF ReadyKept, IsOpen
      <4>2. {k \in kernel : k.fd = x} = {Interest(x, events[x])}
        BY <1>7, <3>3, <4>1, Zenon DEF ReadyInv, ByPort
      <4>3. {k \in kernel' : k.fd = x} = {k \in kernel : k.fd = x}
        BY <2>1, <4>1
      <4> QED
        BY <4>2, <4>3
    <3> QED
      BY <3>2, <3>3
  <2> QED
    BY <1>5, <2>3, <2>4, <2>5 DEF ReadyInv
<1> QED
  BY <1>6, <1>7

LEMMA KeepFork == ASSUME ReadyInv, ReadyFork PROVE ReadyInv'
<1> USE DEF ReadyFork, CanAct, RearmAll, Rearm
<1>1. ReadyTypes'
  BY DEF ReadyInv, ReadyTypes
<1>2. \A fd \in Fds : events'[fd] = {}
  OBVIOUS
<1>3. Synced'
  BY DEF ReadyInv, ReadyTypes, Synced
<1>4. ByPoll'
  <2>1. PollAgrees(pollfds, pollidxs, events) /\ pollfds = <<>>
    BY DEF ReadyInv, ByPoll
  <2>2. PollAgrees(pollfds, pollidxs, events')
    BY <2>1, PollNone
  <2> QED
    BY <2>1, <2>2 DEF ByPoll
<1>5. BySelect' /\ ByPort' /\ ByKqueue'
  <2>1. BySelect'
    BY DEF BySelect
  <2>2. ByPort' /\ ByKqueue'
    BY <1>2, Zenon DEF ByPort, ByKqueue
  <2> QED
    BY <2>1, <2>2
<1>6. OfFiles'
  BY DEF ReadyInv, OfFiles
<1> QED
  BY <1>1, <1>3, <1>4, <1>5, <1>6 DEF ReadyInv

\* kevent has taken the changes: what it will have, it has, or is told again.
LEMMA AppliedWatches ==
    ASSUME NEW fd \in Fds, NEW e \in Ev, IsOpen(fd), WillWatch(fd, e)
    PROVE  Interest(fd, {e}) \in Applied
<1>1. CASE Settled(kchanges, fd, e, TRUE)
  <2>1. <<fd, e>> \in {y \in Fds \X Ev : Settled(kchanges, y[1], y[2], TRUE) /\ IsOpen(y[1])}
    BY <1>1
  <2>2. <<fd, e>>[1] = fd /\ <<fd, e>>[2] = e
    OBVIOUS
  <2>3. Interest(<<fd, e>>[1], {<<fd, e>>[2]}) = Interest(fd, {e})
    BY <2>2
  <2> QED
    BY <2>1, <2>3, Zenon DEF Applied
<1>2. CASE Untouched(kchanges, fd, e) /\ Interest(fd, {e}) \in kernel
  <2>1. Interest(fd, {e}).fd = fd /\ Interest(fd, {e}).ev = {e}
    BY DEF Interest
  <2>2. \A x \in {e} : Untouched(kchanges, fd, x)
    BY <1>2
  <2> QED
    BY <1>2, <2>1, <2>2, Zenon DEF Applied
<1> QED
  BY <1>1, <1>2 DEF WillWatch

LEMMA AppliedOfFiles ==
    ASSUME ReadyInv, NEW k \in Applied
    PROVE  k.fd \in Fds /\ k.file = file[k.fd]
<1>1. CASE k \in kernel
  BY <1>1 DEF ReadyInv, OfFiles
<1>2. CASE k \in {Interest(x[1], {x[2]}) :
                    x \in {y \in Fds \X Ev : Settled(kchanges, y[1], y[2], TRUE) /\ IsOpen(y[1])}}
  <2>1. PICK x \in Fds \X Ev : k = Interest(x[1], {x[2]})
    BY <1>2
  <2>2. x[1] \in Fds
    OBVIOUS
  <2> QED
    BY <2>1, <2>2 DEF Interest
<1> QED
  BY <1>1, <1>2 DEF Applied

LEMMA KeepInterrupted == ASSUME ReadyInv, KqueueInterrupted PROVE ReadyInv'
<1> USE DEF KqueueInterrupted
<1>1. ReadyTypes' /\ Synced' /\ ByPoll' /\ BySelect'
  BY DEF ReadyInv, ReadyTypes, Synced, ByPoll, BySelect
<1>2. ByPort'
  BY DEF ByPort
<1>3. ByKqueue'
  <2>1. SUFFICES ASSUME NEW x \in Fds, ReadyKept(x)', NEW e \in events[x] PROVE WillWatch(x, e)'
    BY Zenon DEF ByKqueue
  <2>2. ReadyKept(x) /\ IsOpen(x)
    BY <2>1 DEF ReadyKept, IsOpen
  <2>3. WillWatch(x, e) /\ e \in Ev
    BY <2>2 DEF ReadyInv, ReadyTypes, ByKqueue
  <2>4. Interest(x, {e}) \in Applied
    BY <2>2, <2>3, AppliedWatches
  <2>5. Interest(x, {e})' \in kernel'
    BY <2>4 DEF Interest
  <2> QED
    BY <2>3, <2>5 DEF WillWatch
<1>4. OfFiles'
  <2>1. \A k \in kernel' : k.fd \in Fds /\ k.file = file'[k.fd]
    BY AppliedOfFiles
  <2> QED
    BY <2>1 DEF ReadyInv, OfFiles
<1> QED
  BY <1>1, <1>2, <1>3, <1>4 DEF ReadyInv

LEMMA KeepCallPoll == ASSUME ReadyInv, CallPoll PROVE ReadyInv'
<1>1. /\ UNCHANGED <<events, iofdset, file, misfed, kind, pollfds, pollidxs, vec>>
      /\ phase = "reify" /\ changed = {}
  BY DEF CallPoll
<1>2. misfed' = FALSE /\ iofdset' = {}
  BY <1>1 DEF ReadyInv, ReadyTypes
<1>3. \A fd \in Fds : events[fd] = want[fd]
  BY <1>1 DEF ReadyInv, Synced
<1>4. CASE kind # "kqueue"
  <2>1. UNCHANGED <<kernel, kchanges, want, changed>> /\ phase' = "wait"
    BY <1>4 DEF CallPoll
  <2>2. ReadyTypes' /\ Synced'
    BY <1>1, <2>1 DEF ReadyInv, ReadyTypes, Synced
  <2>3. \A x \in Fds : ReadyKept(x)' => ReadyKept(x)
    BY <1>1, <2>1 DEF ReadyKept, IsOpen
  <2>4. ByPoll' /\ BySelect' /\ ByPort' /\ ByKqueue'
    BY <1>1, <2>1, <2>3, BackendQuiet
  <2>5. ASSUME NEW k \in asked' PROVE k.fd \in Fds /\ k.file = file[k.fd] /\ want[k.fd] # {}
    <3>1. CASE kind = "poll"
      <4>1. PICK i \in 1 .. Len(pollfds) : k = Interest(pollfds[i].fd, pollfds[i].ev)
        BY <2>5, <3>1 DEF CallPoll
      <4>2. PollAgrees(pollfds, pollidxs, events)
        BY DEF ReadyInv, ByPoll
      <4>3. pollfds[i] \in PollFd /\ pollidxs[pollfds[i].fd] = i /\ i # 0
        BY <4>2 DEF PollAgrees
      <4>4. pollfds[i].fd \in Fds
        BY <4>3, EntryFd
      <4>5. want[pollfds[i].fd] # {}
        BY <1>3, <3>1, <4>3, <4>4 DEF ReadyInv, ByPoll
      <4> QED
        BY <4>1, <4>4, <4>5 DEF Interest
    <3>2. CASE kind = "select"
      <4>1. PICK fd \in vec["r"] \cup vec["w"] : k = Interest(fd, {e \in Ev : fd \in vec[e]})
        BY <2>5, <3>2 DEF CallPoll
      <4>2. "r" \in Ev /\ "w" \in Ev
        BY DEF Ev
      <4>3. fd \in Fds
        BY <4>2 DEF ReadyInv, ReadyTypes
      <4>4. \E e \in Ev : fd \in vec[e]
        BY <4>2
      <4>5. want[fd] # {}
        BY <1>3, <3>2, <4>3, <4>4 DEF ReadyInv, BySelect
      <4> QED
        BY <4>1, <4>3, <4>5 DEF Interest
    <3>3. CASE kind \notin {"poll", "select"}
      BY <2>5, <3>3 DEF CallPoll
    <3> QED
      BY <3>1, <3>2, <3>3
  <2>6. OfFiles'
    BY <1>1, <2>1, <2>5 DEF ReadyInv, OfFiles
  <2> QED
    BY <2>2, <2>4, <2>6 DEF ReadyInv
<1>5. CASE kind = "kqueue"
  <2> DEFINE bad == {kchanges[i].fd : i \in BadChanges}
             again == {kchanges[i].fd : i \in Missing}
             C == {c \in [fd : again, ev : Ev, add : {TRUE}] : c.ev \in events[c.fd]}
  <2>1. kernel' = Applied /\ FdKill({fd \in bad : events[fd] # {}}) /\ kchanges' = SetToSeq(C) /\ asked' = {}
    BY <1>5, Zenon DEF CallPoll, KqueueErrors
  <2>2. \A i \in 1 .. Len(kchanges) : kchanges[i].fd \in Fds
    <3>1. \A i \in 1 .. Len(kchanges) : kchanges[i] \in Change
      BY DEF ReadyInv, ReadyTypes
    <3>2. \A c \in Change : c.fd \in Fds
      BY DEF Change
    <3> QED
      BY <3>1, <3>2
  <2>3. bad \subseteq Fds /\ again \subseteq Fds
    BY <2>2 DEF BadChanges, Missing
  <2>4. {fd \in bad : events[fd] # {}} \in SUBSET Fds
    BY <2>3
  <2>5. C \subseteq [fd : again, ev : Ev, add : {TRUE}]
    OBVIOUS
  <2>6. IsFiniteSet(C)
    <3>1. again \in SUBSET Fds
      BY <2>3
    <3> HIDE DEF again, C
    <3> QED
      BY <2>5, <3>1, AgainFinite, FS_Subset
  <2>7. C \subseteq Change /\ \A c \in C : c.add = TRUE
    BY <2>3 DEF Change
  <2> HIDE DEF bad, again, C
  <2>8. kchanges' \in Seq(Change) /\ \A fd, e : Untouched(kchanges', fd, e) \/ Settled(kchanges', fd, e, TRUE)
    BY <2>1, <2>6, <2>7, AddsSettle, Zenon
  <2>9. /\ want' \in [Fds -> SUBSET Ev] /\ changed' \subseteq Fds /\ iofdset' \subseteq changed'
        /\ Synced' /\ \A x \in Fds : ReadyKept(x)' => ReadyKept(x)
    BY <1>1, <2>1, <2>4, Killed
  <2>10. ReadyTypes'
    BY <1>1, <1>2, <2>8, <2>9 DEF ReadyInv, ReadyTypes
  <2>11. ByPoll' /\ BySelect' /\ ByPort'
    BY <1>1, <1>5 DEF ReadyInv, ByPoll, BySelect, ByPort
  <2>12. ByKqueue'
    <3>1. SUFFICES ASSUME NEW x \in Fds, ReadyKept(x)', NEW e \in events[x] PROVE WillWatch(x, e)'
      BY <1>1, Zenon DEF ByKqueue
    <3>2. ReadyKept(x) /\ IsOpen(x)
      BY <2>9, <3>1 DEF ReadyKept
    <3>3. WillWatch(x, e) /\ e \in Ev
      BY <1>5, <3>2 DEF ReadyInv, ReadyTypes, ByKqueue
    <3>4. Interest(x, {e}) \in Applied
      BY <3>2, <3>3, AppliedWatches
    <3>5. Interest(x, {e})' \in kernel'
      BY <1>1, <2>1, <3>4 DEF Interest
    <3> QED
      BY <2>8, <3>5, Zenon DEF WillWatch
  <2>13. OfFiles'
    <3>1. \A k \in kernel' : k.fd \in Fds /\ k.file = file'[k.fd]
      BY <1>1, <2>1, AppliedOfFiles
    <3> QED
      BY <2>1, <3>1 DEF ReadyInv, OfFiles
  <2> QED
    BY <2>9, <2>10, <2>11, <2>12, <2>13 DEF ReadyInv
<1> QED
  BY <1>4, <1>5

\* poll_modify keeps the array and its index.
LEMMA PollModified ==
    ASSUME ReadyInv, kind = "poll", NEW fd \in Fds, NEW nev \in SUBSET Ev,
           PollModify(fd, events[fd], nev)
    PROVE  /\ PollAgrees(pollfds', pollidxs', [events EXCEPT ![fd] = nev])
           /\ \A x \in Fds : pollidxs'[x] = 0 <=> [events EXCEPT ![fd] = nev][x] = {}
<1> DEFINE idx == IF pollidxs[fd] = 0 THEN Len(pollfds) + 1 ELSE pollidxs[fd]
           grown == IF pollidxs[fd] = 0 THEN Append(pollfds, [fd |-> fd, ev |-> {}]) ELSE pollfds
           nv == [events EXCEPT ![fd] = nev]
<1>1. /\ PollAgrees(pollfds, pollidxs, events) /\ events \in [Fds -> SUBSET Ev]
      /\ \A x \in Fds : pollidxs[x] = 0 <=> events[x] = {}
  BY DEF ReadyInv, ReadyTypes, ByPoll
<1>2. nv[fd] = nev /\ \A x \in Fds : x # fd => nv[x] = events[x]
  BY <1>1
<1>3. pollidxs \in [Fds -> Nat]
  BY <1>1 DEF PollAgrees
<1>4. CASE events[fd] = nev
  <2>1. pollfds' = pollfds /\ pollidxs' = pollidxs
    BY <1>4, Zenon DEF PollModify
  <2>2. nv = events
    BY <1>1, <1>4
  <2> QED
    BY <1>1, <2>1, <2>2
<1>5. CASE events[fd] # nev /\ nev # {}
  <2>1. pollfds' = [grown EXCEPT ![idx].ev = nev] /\ pollidxs' = [pollidxs EXCEPT ![fd] = idx]
    BY <1>5, Zenon DEF PollModify
  <2>2. /\ PollAgrees([grown EXCEPT ![idx].ev = nev], [pollidxs EXCEPT ![fd] = idx], nv)
        /\ idx # 0
    BY <1>1, PollSet, Zenon
  <2>3. pollidxs'[fd] # 0 /\ \A x \in Fds : x # fd => pollidxs'[x] = pollidxs[x]
    BY <1>3, <2>1, <2>2
  <2> HIDE DEF grown, idx, nv
  <2>4. \A x \in Fds : pollidxs'[x] = 0 <=> nv[x] = {}
    BY <1>1, <1>2, <1>5, <2>3
  <2>5. PollAgrees(pollfds', pollidxs', nv)
    BY <2>1, <2>2, Zenon
  <2> QED
    BY <2>4, <2>5, Zenon DEF nv
<1>6. CASE events[fd] # nev /\ nev = {}
  <2>1. pollidxs[fd] # 0
    BY <1>1, <1>6
  <2>2. PICK last : last = pollfds[Len(pollfds)]
    OBVIOUS
  <2>3. grown = pollfds /\ idx = pollidxs[fd]
    BY <2>1
  <2>4. /\ pollfds' = Front([grown EXCEPT ![idx] = grown[Len(grown)]])
        /\ pollidxs' = [[pollidxs EXCEPT ![grown[Len(grown)].fd] = idx] EXCEPT ![fd] = 0]
    BY <1>6, Zenon DEF PollModify
  <2>5. /\ pollfds' = Front([pollfds EXCEPT ![pollidxs[fd]] = last])
        /\ pollidxs' = [[pollidxs EXCEPT ![last.fd] = pollidxs[fd]] EXCEPT ![fd] = 0]
    <3> HIDE DEF grown, idx
    <3> QED
      BY <2>2, <2>3, <2>4, Zenon
  <2>6. PollAgrees(Front([pollfds EXCEPT ![pollidxs[fd]] = last]),
                   [[pollidxs EXCEPT ![last.fd] = pollidxs[fd]] EXCEPT ![fd] = 0], [events EXCEPT ![fd] = {}])
    BY <1>1, <2>1, <2>2, PollCut, Zenon
  <2>7. PollAgrees(pollfds', pollidxs', nv)
    BY <1>6, <2>5, <2>6, Zenon
  <2>8. last.fd \in Fds => pollidxs[last.fd] # 0 \/ last.fd = fd
    <3>1. Len(pollfds) \in 1 .. Len(pollfds)
      <4>1. pollidxs[fd] <= Len(pollfds) /\ Len(pollfds) \in Nat /\ pollidxs[fd] \in Nat
        <5>1. pollfds \in Seq(PollFd) /\ \A x \in Fds : pollidxs[x] <= Len(pollfds)
          BY <1>1, Zenon DEF PollAgrees
        <5> QED
          BY <1>3, <5>1
      <4> QED
        BY <2>1, <4>1
    <3>2. pollidxs[last.fd] = Len(pollfds)
      BY <1>1, <2>2, <3>1 DEF PollAgrees
    <3> QED
      BY <3>1, <3>2
  <2>9. pollidxs'[fd] = 0 /\ \A x \in Fds : x # fd => (pollidxs'[x] = 0 <=> pollidxs[x] = 0)
    BY <1>3, <2>1, <2>5, <2>8
  <2> HIDE DEF nv
  <2>10. \A x \in Fds : pollidxs'[x] = 0 <=> nv[x] = {}
    BY <1>1, <1>2, <1>6, <2>9
  <2> QED
    BY <2>7, <2>10, Zenon DEF nv
<1> QED
  BY <1>4, <1>5, <1>6

LEMMA KeepModify ==
    ASSUME ReadyInv, NEW fd \in Fds, ReadyModify(fd)
    PROVE  ReadyInv'
<1> DEFINE nev == want[fd]  call == NeedsModify(fd)
<1>1. /\ phase = "reify" /\ fd \in changed
      /\ events' = [events EXCEPT ![fd] = nev]
      /\ changed' = changed \ {fd} /\ iofdset' = iofdset \ {fd}
      /\ UNCHANGED <<want, file, phase, misfed, kind, asked>>
  BY DEF ReadyModify, Reified
<1>2. want \in [Fds -> SUBSET Ev] /\ events \in [Fds -> SUBSET Ev] /\ nev \in SUBSET Ev
  BY DEF ReadyInv, ReadyTypes
<1>3. events'[fd] = nev /\ \A x \in Fds : x # fd => events'[x] = events[x]
  BY <1>1, <1>2
<1>4. \A x \in Fds : x # fd => (ReadyKept(x)' <=> ReadyKept(x))
  BY <1>1 DEF ReadyKept, IsOpen
<1>5. ~call => events' = events /\ iofdset' = iofdset
  BY <1>1, <1>2 DEF NeedsModify
<1>6. asked = {} /\ asked' = {}
  BY <1>1 DEF ReadyInv, OfFiles
<1>7. Synced'
  BY <1>1, <1>2, <1>3 DEF ReadyInv, Synced
<1>8. events' \in [Fds -> SUBSET Ev] /\ changed' \subseteq Fds /\ iofdset' \subseteq changed'
  BY <1>1, <1>2 DEF ReadyInv, ReadyTypes
<1>9. CASE ~call
  <2>1. UNCHANGED <<pollfds, pollidxs, vec, kchanges, kernel>>
    BY <1>9 DEF ReadyModify
  <2>2. \A x \in Fds : ReadyKept(x)' => ReadyKept(x)
    BY <1>1, <1>5, <1>9 DEF ReadyKept, IsOpen
  <2>3. ByPoll' /\ BySelect' /\ ByPort' /\ ByKqueue'
    BY <1>1, <1>5, <1>9, <2>1, <2>2, BackendQuiet
  <2>4. ReadyTypes' /\ OfFiles'
    BY <1>1, <1>6, <1>8, <2>1 DEF ReadyInv, ReadyTypes, OfFiles
  <2> QED
    BY <1>7, <2>3, <2>4 DEF ReadyInv
<1>10. kind # "poll" => ByPoll'
  <2>1. SUFFICES ASSUME kind # "poll" PROVE ByPoll'
    OBVIOUS
  <2>2. UNCHANGED <<pollfds, pollidxs>>
    BY <2>1 DEF ReadyModify
  <2>3. PollAgrees(pollfds, pollidxs, events) /\ pollfds = <<>>
    BY <2>1 DEF ReadyInv, ByPoll
  <2>4. PollAgrees(pollfds, pollidxs, events')
    BY <2>3, PollNone
  <2> QED
    BY <1>1, <2>1, <2>2, <2>3, <2>4 DEF ByPoll
<1>11. CASE call /\ kind = "poll"
  <2>1. UNCHANGED <<vec, kchanges, kernel>> /\ PollModify(fd, events[fd], nev)
    BY <1>11, Zenon DEF ReadyModify
  <2>2. /\ PollAgrees(pollfds', pollidxs', events')
        /\ \A x \in Fds : pollidxs'[x] = 0 <=> events'[x] = {}
    BY <1>1, <1>2, <1>11, <2>1, PollModified, Zenon
  <2>3. ByPoll'
    BY <1>1, <1>11, <2>2 DEF ByPoll
  <2>4. BySelect' /\ ByPort' /\ ByKqueue'
    BY <1>1, <1>11 DEF BySelect, ByPort, ByKqueue
  <2>5. ReadyTypes' /\ OfFiles'
    BY <1>1, <1>6, <1>8, <2>1 DEF ReadyInv, ReadyTypes, OfFiles
  <2> QED
    BY <1>7, <2>3, <2>4, <2>5 DEF ReadyInv
<1>12. CASE call /\ kind = "select"
  <2>1. UNCHANGED <<kchanges, kernel>> /\ SelectModify(fd, events[fd], nev)
    BY <1>12, Zenon DEF ReadyModify
  <2>2. vec \in [Ev -> SUBSET Fds] /\ \A x \in Fds, e \in Ev : x \in vec[e] <=> e \in events[x]
    BY <1>12 DEF ReadyInv, ReadyTypes, BySelect
  <2>3. vec' \in [Ev -> SUBSET Fds]
    BY <2>1, <2>2 DEF SelectModify
  <2>4. ASSUME NEW x \in Fds, NEW e \in Ev PROVE x \in vec'[e] <=> e \in events'[x]
    BY <1>3, <2>1, <2>2 DEF SelectModify
  <2>5. BySelect'
    BY <2>4 DEF BySelect
  <2>6. ByPort' /\ ByKqueue'
    BY <1>1, <1>12 DEF ByPort, ByKqueue
  <2>7. ReadyTypes' /\ OfFiles'
    BY <1>1, <1>6, <1>8, <2>1, <2>3 DEF ReadyInv, ReadyTypes, OfFiles
  <2> QED
    BY <1>7, <1>10, <1>12, <2>5, <2>6, <2>7 DEF ReadyInv
<1>13. CASE call /\ kind = "kqueue"
  <2>1. UNCHANGED <<vec, kernel>>
    BY <1>13 DEF ReadyModify
  <2>2. PICK s : s = KqueueModify(fd, events[fd], nev)
    OBVIOUS
  <2>3. kchanges' = kchanges \o s
    BY <1>13, <2>2, Zenon DEF ReadyModify
  <2>4. s \in Seq(Change) /\ (\A e \in nev : Settled(s, fd, e, TRUE)) /\ \A x, e : x # fd => Untouched(s, x, e)
    <3>1. events[fd] \in SUBSET Ev
      BY <1>2
    <3> QED
      BY <1>2, <2>2, <3>1, Modified, Zenon
  <2>5. kchanges \in Seq(Change) /\ kchanges' \in Seq(Change)
    BY <2>3, <2>4 DEF ReadyInv, ReadyTypes
  <2>6. ByKqueue'
    <3>1. SUFFICES ASSUME NEW x \in Fds, ReadyKept(x)', NEW e \in events'[x] PROVE WillWatch(x, e)'
      BY Zenon DEF ByKqueue
    <3>2. CASE x = fd
      <4>1. Settled(s, x, e, TRUE)
        BY <1>3, <2>4, <3>1, <3>2
      <4>2. Settled(kchanges', x, e, TRUE)
        BY <2>3, <2>4, <2>5, <4>1, SettledLater
      <4> QED
        BY <4>2, Zenon DEF WillWatch
    <3>3. CASE x # fd
      <4>1. WillWatch(x, e) /\ Untouched(s, x, e)
        BY <1>3, <1>4, <1>13, <2>4, <3>1, <3>3, Zenon DEF ReadyInv, ByKqueue
      <4>2. CASE Settled(kchanges, x, e, TRUE)
        <5>1. Settled(kchanges', x, e, TRUE)
          BY <2>3, <2>4, <2>5, <4>1, <4>2, SettledBefore
        <5> QED
          BY <5>1, Zenon DEF WillWatch
      <4>3. CASE Untouched(kchanges, x, e) /\ Interest(x, {e}) \in kernel
        <5>1. Untouched(kchanges', x, e)
          BY <2>3, <2>4, <2>5, <4>1, <4>3, UntouchedConcat
        <5>2. Interest(x, {e})' \in kernel'
          BY <1>1, <2>1, <4>3 DEF Interest
        <5> QED
          BY <5>1, <5>2, Zenon DEF WillWatch
      <4> QED
        BY <4>1, <4>2, <4>3 DEF WillWatch
    <3> QED
      BY <3>2, <3>3
  <2>7. BySelect' /\ ByPort'
    BY <1>1, <1>13 DEF BySelect, ByPort
  <2>8. ReadyTypes' /\ OfFiles'
    BY <1>1, <1>6, <1>8, <2>1, <2>5 DEF ReadyInv, ReadyTypes, OfFiles
  <2> QED
    BY <1>7, <1>10, <1>13, <2>6, <2>7, <2>8 DEF ReadyInv
<1>14. CASE call /\ kind = "port"
  <2>1. UNCHANGED <<vec, kchanges>> /\ kernel' = PortModify(fd, events[fd], nev)
    BY <1>14, Zenon DEF ReadyModify
  <2>2. /\ \A k \in kernel : k.fd \in Fds /\ k.file = file[k.fd]
        /\ \A x \in Fds : events[x] = {} => \A k \in kernel : k.fd # x
    BY <1>14 DEF ReadyInv, OfFiles, ByPort
  <2>3. \A x : x # fd => {k \in kernel' : k.fd = x} = {k \in kernel : k.fd = x}
    BY <2>1 DEF PortModify, Interest
  <2>4. nev = {} => \A k \in kernel' : k.fd # fd
    BY <2>1, <2>2 DEF PortModify
  <2>5. nev # {} => {k \in kernel' : k.fd = fd} = {Interest(fd, nev)}
    BY <2>1 DEF PortModify, Interest
  <2>6. ByPort'
    <3>1. SUFFICES ASSUME NEW x \in Fds
          PROVE  /\ events'[x] = {} => \A k \in kernel' : k.fd # x
                 /\ ReadyKept(x)' /\ events'[x] # {} => {k \in kernel' : k.fd = x} = {Interest(x, events'[x])}
      <4>1. \A x : Interest(x, events[x])' = Interest(x, events'[x])
        BY <1>1 DEF Interest
      <4> QED
        BY <3>1, <4>1, Zenon DEF ByPort
    <3>2. CASE x = fd
      BY <1>3, <2>4, <2>5, <3>2
    <3>3. CASE x # fd
      <4>1. events'[x] = events[x] /\ {k \in kernel' : k.fd = x} = {k \in kernel : k.fd = x}
        BY <1>3, <2>3, <3>3
      <4>2. ReadyKept(x)' /\ events[x] # {} => {k \in kernel : k.fd = x} = {Interest(x, events[x])}
        BY <1>4, <1>14, <3>3, Zenon DEF ReadyInv, ByPort
      <4>3. events[x] = {} => \A k \in kernel' : k.fd # x
        BY <2>2, <4>1
      <4> QED
        BY <4>1, <4>2, <4>3
    <3> QED
      BY <3>2, <3>3
  <2>7. BySelect' /\ ByKqueue'
    BY <1>1, <1>14 DEF BySelect, ByKqueue
  <2>8. ReadyTypes'
    BY <1>1, <1>8, <2>1 DEF ReadyInv, ReadyTypes
  <2>9. OfFiles'
    <3>1. \A k \in kernel' : k.fd \in Fds /\ k.file = file[k.fd]
      BY <2>1, <2>2 DEF PortModify, Interest
    <3> QED
      BY <1>1, <1>6, <3>1 DEF ReadyInv, OfFiles
  <2> QED
    BY <1>7, <1>10, <1>14, <2>6, <2>7, <2>8, <2>9 DEF ReadyInv
<1> QED
  BY <1>9, <1>11, <1>12, <1>13, <1>14 DEF ReadyInv, ReadyTypes, Kinds

LEMMA ReadyInductive == ReadyInv /\ [ReadyNext]_rvars => ReadyInv'
<1> SUFFICES ASSUME ReadyInv, [ReadyNext]_rvars PROVE ReadyInv'
  OBVIOUS
<1>1. ASSUME NEW fd \in Fds, NEW S \in {{}, {"r"}, {"r", "w"}}, IoSet(fd, S), UNCHANGED ready
      PROVE  ReadyInv'
  <2>1. S \in SUBSET Ev
    BY DEF Ev
  <2> QED
    BY <1>1, <2>1, KeepIoSet
<1>2. ASSUME NEW fd \in Fds, ReadyReopen(fd) \/ ReadyModify(fd) \/ PortKill(fd) PROVE ReadyInv'
  BY <1>2, KeepReopen, KeepModify, KeepPortKill
<1>3. ASSUME NEW R \in SUBSET (kernel \cup asked), PollReturns(R) PROVE ReadyInv'
  BY <1>3, KeepReturns
<1>4. CASE ReadyStartReify \/ CallPoll \/ KqueueInterrupted \/ NoMemory \/ ReadyFork
  BY <1>4, KeepStartReify, KeepCallPoll, KeepInterrupted, KeepNoMemory, KeepFork
<1>5. CASE UNCHANGED rvars
  <2>1. ReadyTypes' /\ Synced'
    BY <1>5 DEF rvars, table, ready, ReadyInv, ReadyTypes, Synced
  <2>2. \A x \in Fds : ReadyKept(x)' => ReadyKept(x)
    BY <1>5 DEF rvars, table, ready, ReadyKept, IsOpen
  <2>3. ByPoll' /\ BySelect' /\ ByPort' /\ ByKqueue'
    BY <1>5, <2>2, BackendQuiet DEF rvars, table, ready
  <2>4. OfFiles'
    BY <1>5 DEF rvars, table, ready, ReadyInv, OfFiles
  <2> QED
    BY <2>1, <2>3, <2>4 DEF ReadyInv
<1> QED
  BY <1>1, <1>2, <1>3, <1>4, <1>5 DEF ReadyNext

LEMMA ReadyImplies == ReadyInv => ReadySound
<1> SUFFICES ASSUME ReadyInv PROVE ReadySound
  OBVIOUS
<1>1. PollAgrees(pollfds, pollidxs, events)
  BY DEF ReadyInv, ByPoll
<1>2. PollIndexSound
  BY <1>1 DEF PollAgrees, PollIndexSound, InPoll
<1>3. ReadyServed
  <2> SUFFICES ASSUME NEW fd \in Fds, fd \notin changed, IsOpen(fd)
      PROVE  CASE kind = "poll" -> IF want[fd] = {} THEN pollidxs[fd] = 0
                              ELSE pollidxs[fd] # 0 /\ pollfds[pollidxs[fd]] = [fd |-> fd, ev |-> want[fd]]
               [] kind = "select" -> \A e \in Ev : e \in want[fd] <=> fd \in vec[e]
               [] kind = "kqueue" -> \A e \in want[fd] : WillWatch(fd, e)
               [] kind = "port" -> {k \in kernel : k.fd = fd} =
                                   IF want[fd] = {} THEN {} ELSE {Interest(fd, want[fd])}
    BY Zenon DEF ReadyServed
  <2>1. events[fd] = want[fd] /\ (want[fd] # {} => ReadyKept(fd)) /\ want[fd] \in SUBSET Ev /\ kind \in Kinds
    BY DEF ReadyInv, ReadyTypes, Synced, ReadyKept
  <2>2. CASE kind = "poll"
    <3>1. (pollidxs[fd] = 0 <=> want[fd] = {})
          /\ (pollidxs[fd] # 0 => pollfds[pollidxs[fd]] = [fd |-> fd, ev |-> want[fd]])
      BY <1>1, <2>1, <2>2 DEF ReadyInv, ByPoll, PollAgrees
    <3> QED
      BY <2>2, <3>1
  <2>3. CASE kind = "select"
    BY <2>1, <2>3 DEF ReadyInv, BySelect
  <2>4. CASE kind = "kqueue"
    <3>1. \A e \in want[fd] : WillWatch(fd, e)
      BY <2>1, <2>4 DEF ReadyInv, ByKqueue
    <3> QED
      BY <2>4, <3>1
  <2>5. CASE kind = "port"
    <3>1. want[fd] = {} => {k \in kernel : k.fd = fd} = {}
      BY <2>1, <2>5 DEF ReadyInv, ByPort
    <3>2. want[fd] # {} => {k \in kernel : k.fd = fd} = {Interest(fd, want[fd])}
      BY <2>1, <2>5, Zenon DEF ReadyInv, ByPort
    <3> QED
      BY <2>5, <3>1, <3>2
  <2> QED
    BY <2>1, <2>2, <2>3, <2>4, <2>5 DEF Kinds
<1>4. ReadyStaleIgnored
  BY DEF ReadyInv, ReadyTypes, ReadyStaleIgnored
<1> QED
  BY <1>2, <1>3, <1>4 DEF ReadySound

\* Whichever of poll, select, kqueue and event ports the loop uses, for any number of fds:
\* poll's array and its index agree; every open fd that is not about to be reified is watched
\* for exactly (kqueue: at least) what its watchers ask for, on the file it now is; and no
\* event of another file reaches a watcher.
THEOREM ReadyIsSound == ReadySpec => []ReadySound
<1>1. ReadyInit => ReadyInv
  BY ReadyStarts
<1>2. ReadyInv /\ [ReadyNext]_rvars => ReadyInv'
  BY ReadyInductive
<1>3. ReadyInv => ReadySound
  BY ReadyImplies
<1> QED
  BY <1>1, <1>2, <1>3, PTL DEF ReadySpec
=============================================================================
