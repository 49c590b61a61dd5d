------------------------------- MODULE RBTree --------------------------------
(***************************************************************************)
(* The red-black tree of wepoll (src/wepoll.c: tree_add, tree_del,         *)
(* tree_find), which holds a port's sockets and the process's epoll        *)
(* handles: a tree with parent links, changed in place.  A node is its     *)
(* key, 0 is NULL.                                                         *)
(***************************************************************************)
EXTENDS Naturals, FiniteSets

CONSTANT TreeKeys       \* positive numbers

VARIABLES
    tr,                 \* root, ch[side][node], par[node], red[node]
    members             \* history: the keys added and not deleted

treevars == <<tr, members>>

Sides == {"left", "right"}
Across(side) == IF side = "left" THEN "right" ELSE "left"

TreeTypeOK ==
    /\ members \subseteq TreeKeys /\ tr.root \in TreeKeys \cup {0}
    /\ tr.ch \in [Sides -> [TreeKeys -> TreeKeys \cup {0}]]
    /\ tr.par \in [TreeKeys -> TreeKeys \cup {0}] /\ tr.red \in [TreeKeys -> BOOLEAN]

TreeInit ==
    /\ members = {}
    /\ tr = [root |-> 0, ch |-> [s \in Sides |-> [k \in TreeKeys |-> 0]],
             par |-> [k \in TreeKeys |-> 0], red |-> [k \in TreeKeys |-> FALSE]]

-----------------------------------------------------------------------------
\* What holds the link to a node: its parent's side, or the root.
Relink(t, p, n, m) ==
    IF p = 0 THEN [t EXCEPT !.root = m]
    ELSE [t EXCEPT !.ch[IF t.ch["left"][p] = n THEN "left" ELSE "right"][p] = m]
SetPar(t, n, p) == IF n = 0 THEN t ELSE [t EXCEPT !.par[n] = p]
Red(t, n) == n # 0 /\ t.red[n]
Paint(t, n, r) == [t EXCEPT !.red[n] = r]

\* Mutant: the subtree that changes sides keeps its old parent link.
RotateKeepsInner(t, cis, p) ==
    LET q == t.ch[Across(cis)][p]
        linked == SetPar(SetPar(Relink(t, t.par[p], p, q), q, t.par[p]), p, q)
    IN  [linked EXCEPT !.ch[Across(cis)][p] = t.ch[cis][q], !.ch[cis][q] = p]

\* TREE__ROTATE: the child across from cis takes p's place.
Rotate(t, cis, p) ==
    LET q == t.ch[Across(cis)][p]
        inner == t.ch[cis][q]
        linked == SetPar(SetPar(Relink(t, t.par[p], p, q), q, t.par[p]), p, q)
    IN  SetPar([linked EXCEPT !.ch[Across(cis)][p] = inner, !.ch[cis][q] = p], inner, p)

\* TREE__REBALANCE_AFTER_INSERT, until the parent is black.
RECURSIVE AfterInsert(_, _)
AfterInsert(t, node) ==
    LET parent == t.par[node]  grand == t.par[parent]
        cis == IF parent = t.ch["left"][grand] THEN "left" ELSE "right"
        uncle == t.ch[Across(cis)][grand]
        turned == IF node = t.ch[Across(cis)][parent] THEN Rotate(t, cis, parent) ELSE t
        top == IF node = t.ch[Across(cis)][parent] THEN node ELSE parent
    IN  IF parent = 0 \/ ~Red(t, parent) THEN Paint(t, t.root, FALSE)
        ELSE IF Red(t, uncle)
             THEN AfterInsert(Paint(Paint(Paint(t, parent, FALSE), uncle, FALSE), grand, TRUE), grand)
             ELSE LET u == Rotate(Paint(Paint(turned, top, FALSE), grand, TRUE), Across(cis), grand)
                  IN  Paint(u, u.root, FALSE)

\* Where tree_add stops descending: the last node, or the key itself.
RECURSIVE Descend(_, _, _)
Descend(t, n, key) ==
    LET next == t.ch[IF key < n THEN "left" ELSE "right"][n]
    IN  IF n = key \/ next = 0 THEN n ELSE Descend(t, next, key)

Inserted(t, key) ==
    LET parent == IF t.root = 0 THEN 0 ELSE Descend(t, t.root, key)
        leaf == [t EXCEPT !.ch["left"][key] = 0, !.ch["right"][key] = 0, !.par[key] = parent,
                          !.red[key] = TRUE]
    IN  IF parent = 0 THEN [leaf EXCEPT !.root = key]
        ELSE [leaf EXCEPT !.ch[IF key < parent THEN "left" ELSE "right"][parent] = key]

\* tree_find
TreeFind(t, key) == t.root # 0 /\ Descend(t, t.root, key) = key

\* tree_add fails on a key that is there.
TreeAdd(key) ==
    /\ ~TreeFind(tr, key)
    /\ tr' = AfterInsert(Inserted(tr, key), key)
    /\ members' = members \cup {key}

\* TREE__REBALANCE_AFTER_REMOVE, from a node (or NULL) whose side is one black node short.
RECURSIVE AfterRemove(_, _, _)
AfterRemove(t, node, parent) ==
    LET cis == IF node = t.ch["left"][parent] THEN "left" ELSE "right"
        trans == Across(cis)
        first == t.ch[trans][parent]
        t1 == IF Red(t, first) THEN Rotate(Paint(Paint(t, first, FALSE), parent, TRUE), cis, parent) ELSE t
        sibling == t1.ch[trans][parent]
        near == t1.ch[cis][sibling]
        t2 == IF Red(t1, t1.ch[trans][sibling]) THEN t1
              ELSE Rotate(Paint(Paint(t1, near, FALSE), sibling, TRUE), trans, sibling)
        outer == t2.ch[trans][parent]
        t3 == Rotate(Paint(Paint(Paint(t2, outer, t2.red[parent]), parent, FALSE),
                           t2.ch[trans][outer], FALSE), cis, parent)
        t4 == Paint(t1, sibling, TRUE)
    IN  IF node = t.root THEN IF node = 0 THEN t ELSE Paint(t, node, FALSE)
        ELSE IF Red(t1, near) \/ Red(t1, t1.ch[trans][sibling]) THEN Paint(t3, t3.root, FALSE)
        ELSE IF t4.red[parent] THEN Paint(t4, parent, FALSE)
        ELSE AfterRemove(t4, parent, t4.par[parent])

\* The successor of a node with two children.
RECURSIVE Leftmost(_, _)
Leftmost(t, n) == IF t.ch["left"][n] = 0 THEN n ELSE Leftmost(t, t.ch["left"][n])

\* tree_del takes a node out; its successor, which leaves its own place to its right child,
\* takes its place and colour if it has two children.
Unlinked(t, n) ==
    LET left == t.ch["left"][n]  right == t.ch["right"][n]  parent == t.par[n]
        next == IF left = 0 THEN right ELSE IF right = 0 THEN left ELSE Leftmost(t, right)
        t1 == Relink(t, parent, n, next)
        hole == t1.ch["right"][next]
        t2 == SetPar([Paint(t1, next, t1.red[n]) EXCEPT !.ch["left"][next] = left], left, next)
        above == t2.par[next]
    IN  IF left = 0 \/ right = 0
        THEN [tree |-> SetPar(t1, next, parent), red |-> t.red[n], node |-> next, parent |-> parent]
        ELSE IF next = right
        THEN [tree |-> SetPar(SetPar(t2, next, parent), hole, next), red |-> t.red[next],
              node |-> hole, parent |-> next]
        ELSE [tree |-> SetPar(SetPar([SetPar(t2, next, parent) EXCEPT !.ch["left"][above] = hole,
                                          !.ch["right"][next] = right], right, next), hole, above),
              red |-> t.red[next], node |-> hole, parent |-> above]

\* The fields of a node outside the tree do not matter: tree_add sets them.
TreeDel(key) ==
    /\ key \in members
    /\ LET u == Unlinked(tr, key)
       IN  tr' = [(IF u.red THEN u.tree
                   ELSE IF Red(u.tree, u.node) THEN Paint(u.tree, u.node, FALSE)
                   ELSE AfterRemove(u.tree, u.node, u.parent))
                  EXCEPT !.par[key] = 0, !.red[key] = FALSE, !.ch["left"][key] = 0,
                         !.ch["right"][key] = 0]
    /\ members' = members \ {key}

TreeNext == \E k \in TreeKeys : TreeAdd(k) \/ TreeDel(k)

-----------------------------------------------------------------------------
\* The keys below a node, and the black nodes on its leftmost path.
RECURSIVE Below(_, _)
Below(t, n) == IF n = 0 THEN {} ELSE {n} \cup Below(t, t.ch["left"][n]) \cup Below(t, t.ch["right"][n])
RECURSIVE Blacks(_, _)
Blacks(t, n) == IF n = 0 THEN 1 ELSE Blacks(t, t.ch["left"][n]) + (IF t.red[n] THEN 0 ELSE 1)
SoundAt(t, n) ==
    /\ \A s \in Sides : t.ch[s][n] # 0 => t.par[t.ch[s][n]] = n /\ ~(t.red[n] /\ t.red[t.ch[s][n]])
    /\ \A k \in Below(t, t.ch["left"][n]) : k < n
    /\ \A k \in Below(t, t.ch["right"][n]) : k > n
    /\ Blacks(t, t.ch["left"][n]) = Blacks(t, t.ch["right"][n])

\* After every tree_add and tree_del the tree holds exactly the keys it was given, in search
\* order, with parent links that agree, and balanced: no red node has a red child and every
\* path has as many black nodes.
TreeSound ==
    /\ Below(tr, tr.root) = members
    /\ tr.root # 0 => tr.par[tr.root] = 0 /\ ~tr.red[tr.root]
    /\ \A n \in members : SoundAt(tr, n)
=============================================================================
