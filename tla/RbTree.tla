------------------------------- MODULE RbTree -------------------------------
(***************************************************************************)
(* The red-black trees with a cached first node (lib/rbtree.c) that hold   *)
(* the timers of the scheduler, the sockets, the processes and the BFD     *)
(* sessions: rb_add_cached(), rb_erase_cached(), rb_move_cached() of       *)
(* rbtree_ka.h, rb_find() and the iterators.                               *)
(*                                                                         *)
(* A tree is a heap of nodes with their links, 0 is NULL.  kid.l is        *)
(* rb_left and kid.r is rb_right; the code is written out for both sides,  *)
(* here a side is a parameter.                                             *)
(***************************************************************************)
EXTENDS Integers, Sequences, FiniteSets

CONSTANT TreeSets   \* sets of records [nodes, keys]: the keys each of the nodes may have

VARIABLE s          \* [set, n, root, leftmost, queue]

Other(d) == IF d = "l" THEN "r" ELSE "l"
Unlinked == [p |-> 0, black |-> FALSE, key |-> 0, kid |-> [l |-> 0, r |-> 0]]

Red(t, x) == x # 0 /\ ~t.n[x].black
\* rb_set_parent_color(), where the node may be NULL.
Colored(t, x, p, black) == IF x = 0 THEN t ELSE [t EXCEPT !.n[x].p = p, !.n[x].black = black]

__rb_change_child(t, old, new, parent) ==
    IF parent = 0 THEN [t EXCEPT !.root = new]
    ELSE [t EXCEPT !.n[parent].kid[IF t.n[parent].kid.l = old THEN "l" ELSE "r"] = new]

__rb_rotate_set_parents(t, old, new, black) ==
    LET parent == t.n[old].p
    IN __rb_change_child(
          Colored(Colored(t, new, parent, t.n[old].black), old, new, black), old, new, parent)

-----------------------------------------------------------------------------
(* Insertion.                                                              *)

\* Mutant: an inner node is not rotated outwards first.
Outward_never(t, node, parent, d) == [t |-> t, top |-> parent]
\* Case 2: an inner node is rotated outwards.
Outward(t, node, parent, d) ==
    IF t.n[parent].kid[Other(d)] # node THEN [t |-> t, top |-> parent]
    ELSE LET tmp == t.n[node].kid[d]
             u == [t EXCEPT !.n[parent].kid[Other(d)] = tmp, !.n[node].kid[d] = parent]
         IN [t |-> Colored(Colored(u, tmp, parent, TRUE), parent, node, FALSE), top |-> node]

RECURSIVE __rb_insert(_, _)
__rb_insert(t, node) ==
    LET parent == t.n[node].p
        gparent == t.n[parent].p
        d == IF parent # t.n[gparent].kid.r THEN "l" ELSE "r"
        uncle == t.n[gparent].kid[Other(d)]
        o == Outward(t, node, parent, d)
        tmp == o.t.n[o.top].kid[Other(d)]
        u == [o.t EXCEPT !.n[gparent].kid[d] = tmp, !.n[o.top].kid[Other(d)] = gparent]
    IN CASE parent = 0 -> Colored(t, node, 0, TRUE)
         [] parent # 0 /\ t.n[parent].black -> t
         [] Red(t, parent) /\ Red(t, uncle) ->
              __rb_insert(Colored(Colored(Colored(t, uncle, gparent, TRUE), parent, gparent, TRUE),
                                  gparent, t.n[gparent].p, FALSE), gparent)
         [] OTHER -> __rb_rotate_set_parents(Colored(u, tmp, gparent, TRUE), gparent, o.top, FALSE)

\* The place for a key: behind the nodes of the same key.
RECURSIVE Descend(_, _, _, _, _)
Descend(t, key, x, parent, leftmost) ==
    LET d == IF key < t.n[x].key THEN "l" ELSE "r"
        next == t.n[x].kid[d]
        left == leftmost /\ d = "l"
    IN IF next = 0 THEN [parent |-> x, d |-> d, leftmost |-> left]
       ELSE Descend(t, key, next, x, left)

rb_add_cached(t, node, key) ==
    LET new == [Unlinked EXCEPT !.key = key]
        place == Descend(t, key, t.root, 0, TRUE)
        linked == [t EXCEPT !.n[node] = [new EXCEPT !.p = place.parent], !.n[place.parent].kid[place.d] = node,
                            !.leftmost = IF place.leftmost THEN node ELSE @]
    IN IF t.root = 0 THEN __rb_insert([t EXCEPT !.n[node] = new, !.root = node, !.leftmost = node], node)
       ELSE __rb_insert(linked, node)

-----------------------------------------------------------------------------
(* Iteration.                                                              *)

RECURSIVE Deepest(_, _, _)
Deepest(t, x, d) == IF t.n[x].kid[d] = 0 THEN x ELSE Deepest(t, t.n[x].kid[d], d)
RECURSIVE Above(_, _, _)
Above(t, x, d) ==
    LET parent == t.n[x].p
    IN IF parent # 0 /\ t.n[parent].kid[d] = x THEN Above(t, parent, d) ELSE parent
\* rb_next() for "r", rb_prev() for "l".
Step(t, x, d) == IF t.n[x].kid[d] # 0 THEN Deepest(t, t.n[x].kid[d], Other(d)) ELSE Above(t, x, d)
rb_next(t, x) == Step(t, x, "r")
rb_prev(t, x) == Step(t, x, "l")
rb_end(t, d) == IF t.root = 0 THEN 0 ELSE Deepest(t, t.root, d)

\* rb_for_each_entry_cached().
RECURSIVE Walk(_, _, _)
Walk(t, x, d) == IF x = 0 THEN <<>> ELSE <<x>> \o Walk(t, Step(t, x, d), d)

RECURSIVE rb_find(_, _, _)
rb_find(t, key, x) ==
    IF x = 0 \/ t.n[x].key = key THEN x ELSE rb_find(t, key, t.n[x].kid[IF key < t.n[x].key THEN "l" ELSE "r"])

-----------------------------------------------------------------------------
(* Removal.                                                                *)

\* ____rb_erase_color(): the side of node below parent has one black node less.
\* Case 1: a red sibling is rotated above the parent.
RedSibling(t, parent, d) ==
    LET sibling == t.n[parent].kid[Other(d)]
        tmp == t.n[sibling].kid[d]
        u == [t EXCEPT !.n[parent].kid[Other(d)] = tmp, !.n[sibling].kid[d] = parent]
    IN IF ~Red(t, sibling) THEN t
       ELSE __rb_rotate_set_parents(Colored(u, tmp, parent, TRUE), parent, sibling, FALSE)
\* Case 3: the red inner child of the sibling is rotated above it.
RedNephew(t, parent, sibling, d) ==
    LET inner == t.n[sibling].kid[d]
        tmp == t.n[inner].kid[Other(d)]
    IN IF Red(t, t.n[sibling].kid[Other(d)]) THEN t
       ELSE Colored([t EXCEPT !.n[sibling].kid[d] = tmp, !.n[inner].kid[Other(d)] = sibling,
                              !.n[parent].kid[Other(d)] = inner], tmp, sibling, TRUE)
\* Case 4: the sibling is rotated above the parent.
Balance(t, parent, d) ==
    LET sibling == t.n[parent].kid[Other(d)]
        outer == t.n[sibling].kid[Other(d)]
        inner == t.n[sibling].kid[d]
        u == [t EXCEPT !.n[parent].kid[Other(d)] = inner, !.n[sibling].kid[d] = parent]
        v == Colored(u, outer, sibling, TRUE)
    IN __rb_rotate_set_parents(IF inner = 0 THEN v ELSE [v EXCEPT !.n[inner].p = parent], parent, sibling, TRUE)

RECURSIVE ____rb_erase_color(_, _, _)
____rb_erase_color(t, parent, node) ==
    LET d == IF node # t.n[parent].kid.r THEN "l" ELSE "r"
        u == RedSibling(t, parent, d)
        sibling == u.n[parent].kid[Other(d)]
        flipped == Colored(u, sibling, parent, FALSE)
        up == t.n[parent].p
    IN IF Red(u, u.n[sibling].kid.l) \/ Red(u, u.n[sibling].kid.r)
       THEN Balance(RedNephew(u, parent, sibling, d), parent, d)
       ELSE IF Red(u, parent) THEN [flipped EXCEPT !.n[parent].black = TRUE]
       ELSE IF up = 0 THEN flipped
       ELSE ____rb_erase_color(flipped, up, parent)

\* __rb_erase_augmented(): the tree without the node, and where to rebalance it.
\* At most one child: it takes the node's place and colour.
EraseOuter(t, node) ==
    LET x == t.n[node]
        child == IF x.kid.l # 0 THEN x.kid.l ELSE x.kid.r
    IN [t |-> Colored(__rb_change_child(t, node, child, x.p), child, x.p, x.black),
        rebalance |-> IF child = 0 /\ x.black THEN x.p ELSE 0]
\* Two children: the successor does.
EraseInner(t, node) ==
    LET x == t.n[node]
        right == x.kid.r
        successor == Deepest(t, right, "l")
        near == successor = right
        parent == IF near THEN successor ELSE t.n[successor].p
        child2 == t.n[successor].kid.r
        u == IF near THEN t
             ELSE [t EXCEPT !.n[parent].kid.l = child2, !.n[successor].kid.r = right, !.n[right].p = successor]
        v == __rb_change_child([u EXCEPT !.n[successor].kid.l = x.kid.l, !.n[x.kid.l].p = successor],
                               node, successor, x.p)
    IN [t |-> Colored(Colored(v, child2, parent, TRUE), successor, x.p, x.black),
        rebalance |-> IF child2 = 0 /\ t.n[successor].black THEN parent ELSE 0]
__rb_erase_augmented(t, node) ==
    IF t.n[node].kid.l # 0 /\ t.n[node].kid.r # 0 THEN EraseInner(t, node) ELSE EraseOuter(t, node)

rb_erase_cached(t, node) ==
    LET e == __rb_erase_augmented([t EXCEPT !.leftmost = IF @ = node THEN rb_next(t, node) ELSE @], node)
        b == IF e.rebalance = 0 THEN e.t ELSE ____rb_erase_color(e.t, e.rebalance, 0)
    IN [b EXCEPT !.n[node] = Unlinked]

\* A node whose key has changed stays if it still fits between its neighbours.
Fits(t, node, key) ==
    LET prev == rb_prev(t, node)
        next == rb_next(t, node)
    IN (prev = 0 \/ key >= t.n[prev].key) /\ (next = 0 \/ t.n[next].key >= key)
rb_move_cached(t, node, key) ==
    IF Fits(t, node, key) THEN [t EXCEPT !.n[node].key = key] ELSE rb_add_cached(rb_erase_cached(t, node), node, key)

-----------------------------------------------------------------------------
(* What the users of a tree take it for: a sequence of nodes sorted by     *)
(* key, first come first served among the same key.                        *)

Queued(queue, node, key, keyOf) ==
    LET k == Cardinality({i \in DOMAIN queue : keyOf[queue[i]].key <= key})
    IN SubSeq(queue, 1, k) \o <<node>> \o SubSeq(queue, k + 1, Len(queue))
Dropped(queue, node) == SelectSeq(queue, LAMBDA x : x # node)

Linked(x) == \E i \in DOMAIN s.queue : s.queue[i] = x

Init == \E set \in TreeSets :
    s = [set |-> set, n |-> [x \in 0 .. set.nodes |-> Unlinked], root |-> 0, leftmost |-> 0, queue |-> <<>>]

Add(x, key) ==
    /\ ~Linked(x) /\ key \in s.set.keys[x]
    /\ s' = [rb_add_cached(s, x, key) EXCEPT !.queue = Queued(s.queue, x, key, s.n)]
Erase(x) ==
    /\ Linked(x)
    /\ s' = [rb_erase_cached(s, x) EXCEPT !.queue = Dropped(s.queue, x)]
Move(x, key) ==
    /\ Linked(x) /\ key \in s.set.keys[x] \ {s.n[x].key}
    /\ s' = [rb_move_cached(s, x, key) EXCEPT
               !.queue = IF Fits(s, x, key) THEN @ ELSE Queued(Dropped(@, x), x, key, s.n)]

Next == \E x \in 1 .. s.set.nodes :
    \/ Erase(x)
    \/ \E key \in s.set.keys[x] : Add(x, key) \/ Move(x, key)
Spec == Init /\ [][Next]_s

-----------------------------------------------------------------------------
(* Properties.                                                             *)

RECURSIVE BlackHeight(_, _)
\* The number of black nodes to any leaf below x, or -1 if they differ or a red node has
\* a red child.
BlackHeight(t, x) ==
    IF x = 0 THEN 0
    ELSE LET l == BlackHeight(t, t.n[x].kid.l)
             r == BlackHeight(t, t.n[x].kid.r)
         IN IF l # r \/ l = -1 \/ (Red(t, x) /\ (Red(t, t.n[x].kid.l) \/ Red(t, t.n[x].kid.r))) THEN -1
            ELSE l + (IF t.n[x].black THEN 1 ELSE 0)

\* After any sequence of insertions, removals and moves the links of the tree are those of
\* a balanced red-black tree (lib/rbtree.c), walking it in both directions from its cached
\* first and its last node gives the nodes sorted by key and by age, and every key is found.
TreeSound ==
    /\ BlackHeight(s, s.root) # -1 /\ ~Red(s, s.root)
    /\ \A i \in DOMAIN s.queue, d \in {"l", "r"} :
         LET x == s.queue[i] IN s.n[x].kid[d] # 0 => s.n[s.n[x].kid[d]].p = x
    /\ Walk(s, s.leftmost, "r") = s.queue
    /\ Walk(s, rb_end(s, "r"), "l") = [i \in DOMAIN s.queue |-> s.queue[Len(s.queue) + 1 - i]]
    /\ \A i \in DOMAIN s.queue : s.n[rb_find(s, s.n[s.queue[i]].key, s.root)].key = s.n[s.queue[i]].key
    /\ s.n[0] = Unlinked

=============================================================================
