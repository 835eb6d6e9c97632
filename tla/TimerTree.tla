------------------------------- MODULE TimerTree -------------------------------
(***************************************************************************)
(* Any sequence of rbtree_insert and rbtree_delete on one tree, with keys  *)
(* that lie on both sides of the wrap of the clock.  What the tree has to  *)
(* be is stated without following the code: by the inorder sequence, the   *)
(* black heights and the links.                                            *)
(***************************************************************************)
EXTENDS RbTree, Sequences, FiniteSets

CONSTANTS
    KeyOf,      \* [Node -> key]: node->key when it is inserted
    Base        \* the key that comes first: the keys lie less than Modulus / 2 after it

ASSUME KeyAssumption ==
    \A n \in Node : KeyOf[n] \in 0..(Modulus - 1) /\ (KeyOf[n] - Base) % Modulus < Modulus \div 2

VARIABLES
    tree,
    inserted    \* history: the nodes inserted and not deleted

vars == <<tree, inserted>>

Init == tree = EmptyTree /\ inserted = {}

Insert(n) ==
    /\ n \notin inserted
    /\ tree' = rbtree_insert([tree EXCEPT !.key[n] = KeyOf[n]], n)
    /\ inserted' = inserted \cup {n}

Delete(n) ==
    /\ n \in inserted
    /\ tree' = rbtree_delete(tree, n)
    /\ inserted' = inserted \ {n}

Next == \E n \in Node : Insert(n) \/ Delete(n)

Spec == Init /\ [][Next]_vars

-----------------------------------------------------------------------------
\* Every field holds a node, the sentinel or NULL, and a key below the modulus
TypeOK ==
    LET Memory == Node \cup {sentinel} IN
    /\ inserted \subseteq Node
    /\ tree \in [root: Node \cup {sentinel}, child: [Side -> [Memory -> Pointer]],
                 parent: [Memory -> Pointer], color: [Memory -> {"red", "black"}],
                 key: [Memory -> 0..(Modulus - 1)]]

\* The nodes under n from left to right; the depth bounds a walk over damaged links
RECURSIVE Inorder(_, _)
Inorder(n, depth) ==
    IF n = sentinel \/ depth = 0 THEN <<>>
    ELSE Inorder(tree.child["left"][n], depth - 1) \o <<n>>
           \o Inorder(tree.child["right"][n], depth - 1)

Nodes == Inorder(tree.root, Cardinality(Node) + 1)

\* Both directions of every link agree.  The root's own parent is not cleared by rbtree_delete and
\* may be any value; the fix-up loops never follow it.
LinksAgree ==
    \A n \in inserted, s \in Side :
        LET m == tree.child[s][n] IN m # sentinel => m \in inserted /\ tree.parent[m] = n

\* The tree holds exactly the nodes that were inserted and not deleted, each once and linked both
\* ways: no rotation and no substitution of rbtree_delete loses or doubles a node.
HoldsInserted ==
    /\ TypeOK /\ LinksAgree
    /\ Len(Nodes) = Cardinality(inserted)
    /\ {Nodes[i] : i \in DOMAIN Nodes} = inserted

\* Read from left to right the keys are in the order in which the timers are due, also when the
\* clock wrapped between them (rbtree_insert_timer_value).
SortedByDueTime ==
    \A i, j \in DOMAIN Nodes :
        i < j => (tree.key[Nodes[i]] - Base) % Modulus <= (tree.key[Nodes[j]] - Base) % Modulus

\* Black nodes on the way from n down to the sentinel, or -1 when two ways differ
RECURSIVE BlackHeight(_)
BlackHeight(n) ==
    IF n = sentinel THEN 0
    ELSE LET l == BlackHeight(tree.child["left"][n])
             r == BlackHeight(tree.child["right"][n])
         IN  IF l # r \/ l = -1 THEN -1 ELSE l + (IF IsRed(tree, n) THEN 0 ELSE 1)

\* The tree stays balanced: the root and the sentinel are black, no red node has a red child, and
\* every path has the same number of black nodes after both fix-up loops.
RedBlack ==
    /\ ~IsRed(tree, sentinel) /\ ~IsRed(tree, tree.root)
    /\ \A n \in inserted, s \in Side : IsRed(tree, n) => ~IsRed(tree, tree.child[s][n])
    /\ BlackHeight(tree.root) # -1
===============================================================================
