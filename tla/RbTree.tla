-------------------------------- MODULE RbTree --------------------------------
(***************************************************************************)
(* The red-black tree of rbtree.c and rbtree.h as operators on a tree t:   *)
(* the root, and the fields left, right, parent, color and key of every    *)
(* node and of the sentinel.  A pointer is a node, the sentinel or NULL,   *)
(* and NULL has no fields: following it is an error TLC reports.           *)
(*                                                                         *)
(* The code writes out both mirror images of a rotation and of the two     *)
(* fix-up loops; here a side says which one is meant.                      *)
(***************************************************************************)
EXTENDS TimerKey

CONSTANTS Node, sentinel, NULL

Side == {"left", "right"}
Other(side) == IF side = "left" THEN "right" ELSE "left"

Pointer == Node \cup {sentinel, NULL}

\* rbtree_init of a tree whose nodes are zeroed memory
EmptyTree ==
    LET Zeroed == [n \in Node \cup {sentinel} |-> NULL] IN
    [root |-> sentinel, child |-> [s \in Side |-> Zeroed], parent |-> Zeroed,
     color |-> [n \in Node \cup {sentinel} |-> "black"],
     key |-> [n \in Node \cup {sentinel} |-> 0]]

Set(t, n, side, m) == [t EXCEPT !.child[side][n] = m]
Paint(t, n, c) == [t EXCEPT !.color[n] = c]
IsRed(t, n) == t.color[n] = "red"
SideOf(t, n) == IF n = t.child["left"][t.parent[n]] THEN "left" ELSE "right"

\* The node's place under its parent, or at the root, is taken by m
Replace(t, n, m) ==
    IF n = t.root THEN [t EXCEPT !.root = m] ELSE Set(t, t.parent[n], SideOf(t, n), m)

\* rbtree_left_rotate and rbtree_right_rotate
rotate(t, node, side) ==
    LET temp  == t.child[Other(side)][node]
        inner == t.child[side][temp]
        t1    == Set(t, node, Other(side), inner)
        t2    == IF inner # sentinel THEN [t1 EXCEPT !.parent[inner] = node] ELSE t1
        t3    == Replace([t2 EXCEPT !.parent[temp] = t.parent[node]], node, temp)
    IN  [Set(t3, temp, side, node) EXCEPT !.parent[node] = temp]

RECURSIVE rbtree_min(_, _)
rbtree_min(t, node) ==
    IF t.child["left"][node] = sentinel THEN node ELSE rbtree_min(t, t.child["left"][node])

-----------------------------------------------------------------------------
\* Mutant of KeyLess: keys are compared as plain numbers
KeyLessUnsigned(t, node, temp) == t.key[node] < t.key[temp]

\* node->key < temp->key, across the wrap
KeyLess(t, node, temp) == Signed(t.key[node], t.key[temp]) < 0

\* rbtree_insert_timer_value: equal keys go right
RECURSIVE rbtree_insert_timer_value(_, _, _)
rbtree_insert_timer_value(t, temp, node) ==
    LET side == IF KeyLess(t, node, temp) THEN "left" ELSE "right"
        p    == t.child[side][temp]
    IN  IF p # sentinel THEN rbtree_insert_timer_value(t, p, node)
        ELSE [t EXCEPT !.child = [@ EXCEPT ![side][temp] = node,
                                           !["left"][node] = sentinel,
                                           !["right"][node] = sentinel],
                       !.parent[node] = temp, !.color[node] = "red"]

\* Mutant of insert_fixup: a red uncle is not looked at
RECURSIVE FixupOneRotation(_, _)
FixupOneRotation(t, node) ==
    IF node = t.root \/ ~IsRed(t, t.parent[node]) THEN t
    ELSE LET p    == t.parent[node]
             g    == t.parent[p]
         IN  rotate(Paint(Paint(t, p, "black"), g, "red"), g, Other(SideOf(t, p)))

\* The loop of rbtree_insert: a red uncle is recoloured, else one or two rotations
RECURSIVE insert_fixup(_, _)
insert_fixup(t, node) ==
    IF node = t.root \/ ~IsRed(t, t.parent[node]) THEN t
    ELSE LET p     == t.parent[node]
             g     == t.parent[p]
             side  == SideOf(t, p)
             uncle == t.child[Other(side)][g]
         IN  IF IsRed(t, uncle)
               THEN insert_fixup(Paint(Paint(Paint(t, p, "black"), uncle, "black"), g, "red"), g)
               ELSE LET bent == node = t.child[Other(side)][p]
                        n    == IF bent THEN p ELSE node
                        t1   == IF bent THEN rotate(t, n, side) ELSE t
                        p1   == t1.parent[n]
                        g1   == t1.parent[p1]
                    IN  insert_fixup(
                          rotate(Paint(Paint(t1, p1, "black"), g1, "red"), g1, Other(side)), n)

rbtree_insert(t, node) ==
    IF t.root = sentinel
      THEN [t EXCEPT !.parent[node] = NULL, !.color[node] = "black", !.root = node,
                     !.child = [@ EXCEPT !["left"][node] = sentinel, !["right"][node] = sentinel]]
      ELSE LET t1 == insert_fixup(rbtree_insert_timer_value(t, t.root, node), node)
           IN  Paint(t1, t1.root, "black")

-----------------------------------------------------------------------------
\* The loop of rbtree_delete: temp is short of one black node.  temp may be the sentinel, whose
\* parent was set for this.
RECURSIVE delete_fixup(_, _)
delete_fixup(t, temp) ==
    IF temp = t.root \/ IsRed(t, temp) THEN Paint(t, temp, "black")
    ELSE LET side == SideOf(t, temp)
             far  == Other(side)
             p    == t.parent[temp]
             w0   == t.child[far][p]
             t1   == IF IsRed(t, w0)
                       THEN rotate(Paint(Paint(t, w0, "black"), p, "red"), p, side) ELSE t
             w    == t1.child[far][t1.parent[temp]]
         IN  IF ~IsRed(t1, t1.child["left"][w]) /\ ~IsRed(t1, t1.child["right"][w])
               THEN delete_fixup(Paint(t1, w, "red"), t1.parent[temp])
               ELSE LET t2 == IF IsRed(t1, t1.child[far][w]) THEN t1
                              ELSE rotate(Paint(Paint(t1, t1.child[side][w], "black"), w, "red"), w, far)
                        w2 == t2.child[far][t2.parent[temp]]
                        t3 == Paint(Paint(Paint(t2, w2, t2.color[t2.parent[temp]]),
                                          t2.parent[temp], "black"),
                                    t2.child[far][w2], "black")
                        t4 == rotate(t3, t3.parent[temp], side)
                    IN  delete_fixup(t4, t4.root)

\* "DEBUG stuff": the deleted node keeps only its colour
Forget(t, node) ==
    [t EXCEPT !.child = [s \in Side |-> [t.child[s] EXCEPT ![node] = NULL]],
              !.parent[node] = NULL, !.key[node] = 0]

\* Mutant of Substitute: the left subtree of the deleted node is not taken over
SubstituteRightOnly(t, node, subst) ==
    LET r  == t.child["right"][node]
        t1 == [t EXCEPT !.child = [@ EXCEPT !["right"][subst] = r],
                        !.parent[subst] = t.parent[node], !.color[subst] = t.color[node]]
        t2 == Replace(t1, node, subst)
    IN  IF r # sentinel THEN [t2 EXCEPT !.parent[r] = subst] ELSE t2

\* subst takes the place, the children and the colour of node
Substitute(t, node, subst) ==
    LET l  == t.child["left"][node]
        r  == t.child["right"][node]
        t1 == [t EXCEPT !.child = [@ EXCEPT !["left"][subst] = l, !["right"][subst] = r],
                        !.parent[subst] = t.parent[node], !.color[subst] = t.color[node]]
        t2 == Replace(t1, node, subst)
        t3 == IF l # sentinel THEN [t2 EXCEPT !.parent[l] = subst] ELSE t2
    IN  IF r # sentinel THEN [t3 EXCEPT !.parent[r] = subst] ELSE t3

rbtree_delete(t, node) ==
    LET One    == \E s \in Side : t.child[s][node] = sentinel
        subst  == IF One THEN node ELSE rbtree_min(t, t.child["right"][node])
        temp   == IF t.child["left"][subst] = sentinel THEN t.child["right"][subst]
                                                       ELSE t.child["left"][subst]
        up     == t.parent[subst]
        t1     == Set(t, up, SideOf(t, subst), temp)
        t2     == [t1 EXCEPT !.parent[temp] = IF subst # node /\ up = node THEN subst ELSE up]
        t3     == Forget(IF subst = node THEN t2 ELSE Substitute(t2, node, subst), node)
    IN  IF subst = t.root THEN Forget(Paint([t EXCEPT !.root = temp], temp, "black"), node)
        ELSE IF IsRed(t, subst) THEN t3 ELSE delete_fixup(t3, temp)
===============================================================================
