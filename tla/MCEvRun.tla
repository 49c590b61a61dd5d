------------------------------- MODULE MCEvRun -------------------------------
(***************************************************************************)
(* EvRun for TLC.  A behaviour uses one of three groups of the watchers:   *)
(* LevelsOnly has two priorities, events fed by the application and nested *)
(* calls; PhasesOnly has a watcher of each of three other types and the    *)
(* application's references; IdlesOnly has three watchers of one array.    *)
(***************************************************************************)
EXTENDS EvRun, TLC

CONSTANTS e1, c1, p1, f1, k1, i1, i2, i3

MCKind == e1 :> "event" @@ c1 :> "check"
          @@ p1 :> "prepare" @@ f1 :> "fork" @@ k1 :> "cleanup"
          @@ i1 :> "idle" @@ i2 :> "idle" @@ i3 :> "idle"

ASSUME RunHolds == RunAssumption

\* The watchers outside the group are as Init may leave them.
Only(group) ==
    \A w \in Watchers \ group : pri[w] = 0 /\ active[w] = 0 /\ pending[w] = 0

\* One priority, nothing fed by the application, no nested call.
Flat ==
    /\ Len(frames) <= 1
    /\ \A w \in Watchers : pri[w] = 0
    /\ \A p \in Pris : \A i \in 1..Len(pendings[p]) : "CUSTOM" \notin pendings[p][i].events

LevelsOnly == Only({e1, c1}) /\ pri[c1] = 0 /\ refs = 0 /\ feeding.ev \in {"CUSTOM", "CHECK"}
PhasesOnly == Only({p1, f1, k1, i1}) /\ Flat
IdlesOnly  == Only({i1, i2, i3}) /\ Flat /\ refs = 0

OneGroup == LevelsOnly \/ PhasesOnly \/ IdlesOnly

MCInit == Init /\ OneGroup
MCNext == Next /\ OneGroup'
MCSpec == MCInit /\ [][MCNext]_vars
=============================================================================
