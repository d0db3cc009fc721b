--------------------------------- MODULE Avl ---------------------------------
(***************************************************************************)
(* The balanced tree under the inode cache and the directory indexes       *)
(* (pfs_core/pfs_avl.cc), pointer by pointer: a node holds its two         *)
(* children and, in one word, its parent, which child it is and its        *)
(* balance.  A node is named by its key; Tmp is the copy on the stack that *)
(* pfs_avl_remove links in for a moment.  The reference is the set of keys.*)
(***************************************************************************)
EXTENDS Integers, Sequences, FiniteSets

CONSTANT Keys     \* a finite set of positive integers

VARIABLES avl,    \* [root, numnodes, n: node -> its fields]
          members \* the keys added and not removed

avars == <<avl, members>>

NIL == 0
Tmp == -1
Blank == [ch |-> [d \in 0..1 |-> NIL], par |-> NIL, side |-> 0, bal |-> 0]
child2balance == [d \in 0..1 |-> IF d = 0 THEN -1 ELSE 1]
balance2child == [b \in -1..1 |-> IF b = 1 THEN 1 ELSE 0]

\* field updates; nothing happens to NIL
setchildptr(h, p, d, x) == IF p = NIL THEN [h EXCEPT !.root = x] ELSE [h EXCEPT !.n[p].ch[d] = x]
setup(h, x, p, d) == IF x = NIL THEN h ELSE [h EXCEPT !.n[x].par = p, !.n[x].side = d]
setbalance(h, x, b) == [h EXCEPT !.n[x].bal = b]

RECURSIVE outermost(_, _, _)
outermost(h, x, d) == IF h.n[x].ch[d] = NIL THEN x ELSE outermost(h, h.n[x].ch[d], d)
pfs_avl_outermost(h, d) == IF h.root = NIL THEN NIL ELSE outermost(h, h.root, d)

\* the neighbour of x towards `left': down into the subtree, or up past every ancestor
\* whose `left' child the path comes from
RECURSIVE climb(_, _, _)
climb(h, x, right) ==
    LET p == h.n[x].par IN
    IF p = NIL THEN NIL ELSE IF h.n[x].side = right THEN p ELSE climb(h, p, right)
pfs_avl_walk(h, x, left) ==
    IF h.n[x].ch[left] # NIL THEN outermost(h, h.n[x].ch[left], 1 - left)
    ELSE climb(h, x, 1 - left)

pfs_avl_first(h) == pfs_avl_outermost(h, 0)
pfs_avl_last(h) == pfs_avl_outermost(h, 1)
pfs_avl_next(h, x) == pfs_avl_walk(h, x, 1)
pfs_avl_prev(h, x) == pfs_avl_walk(h, x, 0)

\* the node found, and where it would go: parent and side
RECURSIVE search(_, _, _, _)
search(h, k, x, where) ==
    IF x = NIL THEN [node |-> NIL, where |-> where]
    ELSE IF x = k THEN [node |-> x, where |-> where]
    ELSE LET d == IF k < x THEN 0 ELSE 1 IN search(h, k, h.n[x].ch[d], <<x, d>>)
pfs_avl_find(h, k) == search(h, k, h.root, <<NIL, 0>>)

(***************************************************************************)
(* pfs_avl_rotation: node is too heavy on the side of `balance'. Returns   *)
(* the tree and whether its height fell.                                   *)
(***************************************************************************)
SingleRotation(h, node, left, rheavy) ==
    LET right == 1 - left
        child == h.n[node].ch[left]
        cright == h.n[child].ch[right]
        b == h.n[child].bal + rheavy
        h1 == setup([h EXCEPT !.n[node].ch[left] = cright], cright, node, left)
        h2 == setup([h1 EXCEPT !.n[child].ch[right] = node, !.n[node].bal = -b], node, child, right)
        h3 == setup(setbalance(h2, child, b), child, h.n[node].par, h.n[node].side)
    IN  [h |-> setchildptr(h3, h.n[node].par, h.n[node].side, child), fell |-> b = 0]

DoubleRotation(h, node, left, lheavy) ==
    LET right == 1 - left
        rheavy == -lheavy
        child == h.n[node].ch[left]
        g == h.n[child].ch[right]
        gl == h.n[g].ch[left]
        gr == h.n[g].ch[right]
        b == h.n[g].bal
        h1 == setup([h EXCEPT !.n[node].ch[left] = gr], gr, node, left)
        h2 == setup([h1 EXCEPT !.n[child].ch[right] = gl], gl, child, right)
        h3 == setup(setbalance([h2 EXCEPT !.n[g].ch[left] = child], child,
                               IF b = rheavy THEN lheavy ELSE 0), child, g, left)
        h4 == setup(setbalance([h3 EXCEPT !.n[g].ch[right] = node], node,
                               IF b = lheavy THEN rheavy ELSE 0), node, g, right)
        h5 == setup(setbalance(h4, g, 0), g, h.n[node].par, h.n[node].side)
    IN  [h |-> setchildptr(h5, h.n[node].par, h.n[node].side, g), fell |-> TRUE]

pfs_avl_rotation_Single(h, node, balance) ==
    SingleRotation(h, node, IF balance < 0 THEN 0 ELSE 1, IF balance < 0 THEN 1 ELSE -1)
pfs_avl_rotation(h, node, balance) ==
    LET left == IF balance < 0 THEN 0 ELSE 1
        lheavy == balance \div 2
    IN  IF h.n[h.n[node].ch[left]].bal # -lheavy
        THEN SingleRotation(h, node, left, -lheavy)
        ELSE DoubleRotation(h, node, left, lheavy)

(* Insertion, and the walk to the root that restores the balances. *)
RECURSIVE Grown(_, _, _)
Grown(h, node, child) ==
    IF node = NIL THEN h
    ELSE LET ob == h.n[node].bal
             nb == ob + child2balance[child]
         IN  IF nb = 0 THEN setbalance(h, node, 0)
             ELSE IF ob # 0 THEN pfs_avl_rotation(h, node, nb).h
             ELSE Grown(setbalance(h, node, nb), h.n[node].par, h.n[node].side)

pfs_avl_insert(h, k, where) ==
    LET h1 == [setup(h, k, where[1], where[2]) EXCEPT !.numnodes = @ + 1]
    IN  Grown(setchildptr(h1, where[1], where[2], k), where[1], where[2])

(* Removal.  An inner node gives its place to its neighbour on the heavier *)
(* side, and the copy of the neighbour is removed instead.                 *)
pfs_detach_noninterior_Leaf(h, x) == setchildptr(h, h.n[x].par, h.n[x].side, NIL)
pfs_detach_noninterior(h, x) ==
    LET f == h.n[x]
        c == IF f.bal = 0 THEN NIL ELSE f.ch[balance2child[f.bal]]
    IN  setchildptr(setup(h, c, f.par, f.side), f.par, f.side, c)

RECURSIVE Shrunk(_, _, _)
Shrunk(h, node, child) ==
    IF node = NIL THEN h
    ELSE LET ob == h.n[node].bal
             nb == ob - child2balance[child]
             up == h.n[node].par
             side == h.n[node].side
         IN  IF ob = 0 THEN setbalance(h, node, nb)
             ELSE IF nb = 0 THEN Shrunk(setbalance(h, node, 0), up, side)
             ELSE LET r == pfs_avl_rotation(h, node, nb)
                  IN  IF r.fell THEN Shrunk(r.h, up, side) ELSE r.h

Interior(h, x) == h.n[x].ch[0] # NIL /\ h.n[x].ch[1] # NIL

\* subst takes node's fields, tmp takes subst's
Substituted_Apart(h, node) ==
    LET s == pfs_avl_walk(h, node, balance2child[h.n[node].bal])
        tmp == h.n[s]
        h1 == [h EXCEPT !.n[Tmp] = tmp, !.n[s] = h.n[node]]
        h2 == setchildptr(h1, h.n[node].par, h1.n[s].side, s)
        h3 == [h2 EXCEPT !.n[h2.n[s].ch[0]].par = s]
        h4 == [h3 EXCEPT !.n[h3.n[s].ch[1]].par = s]
    IN  [h4 EXCEPT !.n[h4.n[Tmp].par].ch[tmp.side] = Tmp]
Substituted(h, node) ==
    LET s == pfs_avl_walk(h, node, balance2child[h.n[node].bal])
        tmp == h.n[s]
        h1 == [h EXCEPT !.n[Tmp] = tmp, !.n[s] = h.n[node]]
        h2 == IF tmp.par = node THEN [h1 EXCEPT !.n[s].ch[tmp.side] = Tmp] ELSE h1
        h3 == setchildptr(h2, h.n[node].par, h2.n[s].side, s)
        h4 == [h3 EXCEPT !.n[h3.n[s].ch[0]].par = s]
        h5 == [h4 EXCEPT !.n[h4.n[s].ch[1]].par = s]
        h6 == [h5 EXCEPT !.n[h5.n[Tmp].par].ch[tmp.side] = Tmp]
        c == tmp.ch[balance2child[tmp.bal]]
    IN  IF c = NIL THEN h6 ELSE [h6 EXCEPT !.n[c].par = Tmp]

pfs_avl_remove(h, k) ==
    LET h1 == [h EXCEPT !.numnodes = @ - 1]
        h2 == IF Interior(h1, k) THEN Substituted(h1, k) ELSE h1
        x == IF Interior(h1, k) THEN Tmp ELSE k
        f == h2.n[x]
        h3 == Shrunk(pfs_detach_noninterior(h2, x), f.par, f.side)
    IN  [h3 EXCEPT !.n[k] = Blank, !.n[Tmp] = Blank]

-----------------------------------------------------------------------------
pfs_avl_create == [root |-> NIL, numnodes |-> 0, n |-> [x \in Keys \union {Tmp} |-> Blank]]

AInit == avl = pfs_avl_create /\ members = {}

pfs_avl_add(k) ==
    /\ pfs_avl_find(avl, k).node = NIL
    /\ avl' = pfs_avl_insert(avl, k, pfs_avl_find(avl, k).where)
    /\ members' = members \union {k}

Remove(k) ==
    /\ pfs_avl_find(avl, k).node = k
    /\ avl' = pfs_avl_remove(avl, k)
    /\ members' = members \ {k}

ANext == \E k \in Keys : pfs_avl_add(k) \/ Remove(k)
ASpec == AInit /\ [][ANext]_avars

-----------------------------------------------------------------------------
(* Properties. *)
RECURSIVE height(_, _)
height(h, x) ==
    IF x = NIL THEN 0
    ELSE LET l == height(h, h.n[x].ch[0])
             r == height(h, h.n[x].ch[1])
         IN  1 + (IF l < r THEN r ELSE l)
RECURSIVE inorder(_, _, _)
inorder(h, x, d) == IF x = NIL THEN <<>> ELSE <<x>> \o inorder(h, pfs_avl_walk(h, x, d), d)

\* The stored balance of every node is the difference of its children's heights, and
\* never more than one: after any insertions and removals, single and double
\* rotations included, a search takes logarithmically many steps.
Balanced ==
    \A x \in members :
        /\ avl.n[x].bal = height(avl, avl.n[x].ch[1]) - height(avl, avl.n[x].ch[0])
        /\ avl.n[x].bal \in -1..1

\* The links agree in both directions, so no pointer to the stack copy or to a removed
\* node stays behind.
LinksAgree ==
    /\ \A x \in members : \A d \in 0..1 :
          LET c == avl.n[x].ch[d] IN c # NIL => c \in members /\ avl.n[c].par = x /\ avl.n[c].side = d
    /\ avl.root # NIL => avl.n[avl.root].par = NIL
    /\ avl.numnodes = Cardinality(members)

\* The tree is the set: every member is found and no other key, and walking forwards
\* from the first and backwards from the last visits the members in order.
IsTheSet ==
    LET up == inorder(avl, pfs_avl_first(avl), 1)
        down == inorder(avl, pfs_avl_last(avl), 0)
    IN  /\ \A k \in Keys : pfs_avl_find(avl, k).node = IF k \in members THEN k ELSE NIL
        /\ Len(up) = Cardinality(members) /\ Len(down) = Len(up)
        /\ \A i \in 1..Len(up) : up[i] \in members /\ down[Len(up) + 1 - i] = up[i]
        /\ \A i \in 1..(Len(up) - 1) : up[i] < up[i + 1]
=============================================================================
