------------------------------ MODULE MCFdEpoll ------------------------------
(***************************************************************************)
(* FdEpoll for TLC.  A behaviour of FocusSpec uses one of two groups of    *)
(* descriptors: OneOnly has one descriptor with two watchers and a file to *)
(* reopen it with; TwoOnly has two descriptors that share fdchanges, and a *)
(* file epoll refuses.                                                     *)
(***************************************************************************)
EXTENDS FdEpoll, TLC

CONSTANTS w1, w2, w3, w4, f1, f2, f3, f4

MCFdOf   == [w \in Watchers |-> CASE w = w3 -> 0 [] w = w4 -> 1 [] OTHER -> NFD - 1]
MCMaxGen == [fd \in FDs |-> IF fd = NFD - 1 THEN 2 ELSE 1]
DeepGen  == [fd \in FDs |-> 3]

ASSUME FdHolds == FdAssumption

\* The watchers outside the group were never set.
Only(group, files) ==
    /\ used \subseteq files
    /\ \A w \in Watchers \ group : wevents[w] = {}

OneOnly == Only({w1, w2}, {f1, f2}) /\ \A fd \in FDs \ {NFD - 1} : fdtab[fd] = NoFile
TwoOnly == Only({w3, w4}, {f3, f4}) /\ fdtab[NFD - 1] = NoFile /\ wevents[w4] \subseteq {"R"}

FocusNext == Next /\ (OneOnly' \/ TwoOnly')
FocusSpec == Init /\ [][FocusNext]_vars

\* The open files of the first group are interchangeable.
Symmetry == Permutations({f1, f2})
=============================================================================
