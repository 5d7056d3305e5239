------------------------------- MODULE RbTree -------------------------------
(***************************************************************************)
(* The red-black tree of the kernel (lib/rbtree.c), as the cache uses it:  *)
(* rb_link_node with rb_insert_color, rb_erase, rb_replace_node, rb_first. *)
(* The library is outside the repository; this is its algorithm on trees   *)
(* as values.  Empty is the empty tree; any other tree has the node n      *)
(* linked at its root, the root's colour c and the subtrees l and r.  What *)
(* the library does once for the left and once for the right is written    *)
(* once, for a side s.                                                     *)
(***************************************************************************)
EXTENDS Integers, Sequences

CONSTANTS
    Node,       \* what can be linked in a tree
    MaxHeight   \* bound on the height of a tree

ASSUME HeightAssumption == MaxHeight \in Nat

Empty == <<>>
Colours == {"red", "black"}
Side == {"l", "r"}
Other(s) == IF s = "l" THEN "r" ELSE "l"

Tree(c, l, n, r) == [c |-> c, l |-> l, n |-> n, r |-> r]

\* The trees of height h at most.
Below[h \in 0..MaxHeight] ==
    IF h = 0 THEN {Empty}
    ELSE LET S == Below[h - 1] IN {Empty} \cup [c : Colours, l : S, n : Node, r : S]
Trees == Below[MaxHeight]

\* The subtree on a side, and the tree with a on side s and b on the other.
Sub(t, s) == IF s = "l" THEN t.l ELSE t.r
Make(c, n, s, a, b) == IF s = "l" THEN Tree(c, a, n, b) ELSE Tree(c, b, n, a)
With(t, s, a) == Make(t.c, t.n, s, a, Sub(t, Other(s)))

Red(t) == t # Empty /\ t.c = "red"
Paint(c, t) == IF t = Empty THEN t ELSE Tree(c, t.l, t.n, t.r)

\* The nodes, and the nodes in order, as rb_first and rb_next visit them.
Nodes[t \in Trees] == IF t = Empty THEN {} ELSE Nodes[t.l] \cup {t.n} \cup Nodes[t.r]
InOrder[t \in Trees] == IF t = Empty THEN <<>> ELSE InOrder[t.l] \o <<t.n>> \o InOrder[t.r]

\* Empty for NULL.
rb_first[t \in Trees] ==
    IF t = Empty THEN Empty ELSE IF t.l = Empty THEN t.n ELSE rb_first[t.l]

\* The tree with new in the place of old.
Replace(old, new) ==
    LET replace[t \in Trees] ==
            IF t = Empty THEN t
            ELSE Tree(t.c, replace[t.l], IF t.n = old THEN new ELSE t.n, replace[t.r])
    IN  replace
rb_replace_node(t, old, new) == Replace(old, new)[t]

-----------------------------------------------------------------------------
\* Rotates the root of the subtree on side s up; the old root gets colour c
\* and the new one colour d.
Rotate(t, s, c, d) ==
    LET u == Sub(t, s)
    IN  Make(d, u.n, s, Sub(u, s), Make(c, t.n, s, Sub(u, Other(s)), Sub(t, Other(s))))

\* One round of rb_insert_color after an insertion on side s, at the
\* grandparent of a red node with a red parent: recolour under a red uncle,
\* else rotate, twice if the node is an inner grandchild.
InsertFix(t, s) ==
    LET u == Sub(t, s)
        o == Other(s)
    IN  IF Red(t) \/ ~Red(u) \/ ~(Red(u.l) \/ Red(u.r)) THEN t
        ELSE IF Red(Sub(t, o))
             THEN Make("red", t.n, s, Paint("black", u), Paint("black", Sub(t, o)))
        ELSE Rotate(IF Red(Sub(u, o)) THEN With(t, s, Rotate(u, o, "red", "red")) ELSE t,
                    s, "red", "black")

\* Links n where the search dir ends and rebalances on the way up.  dir[m] is
\* the comparator's result for n and a node m.
Turn(d) == IF d < 0 THEN "l" ELSE "r"
Link(n, dir) ==
    LET link[t \in Trees] ==
            IF t = Empty THEN Tree("red", Empty, n, Empty)
            ELSE LET s == Turn(dir[t.n]) IN InsertFix(With(t, s, link[Sub(t, s)]), s)
    IN  link
rb_insert(t, n, dir) == Paint("black", Link(n, dir)[t])

-----------------------------------------------------------------------------
\* A subtree after an erasure: short if it lost a black level.
Cut(t, short) == [t |-> t, short |-> short]

\* The end of __rb_erase_color at a parent whose side s is short and whose
\* other subtree is black: rotate if the far nephew is red, else recolour.
FixFar(t, s) ==
    LET o == Other(s)
        w == Sub(t, o)
    IN  IF Red(Sub(w, o))
        THEN Cut(With(Rotate(t, o, "black", t.c), o, Paint("black", Sub(w, o))), FALSE)
        ELSE Cut(Make("black", t.n, o, Paint("red", w), Sub(t, s)), ~Red(t))

\* A red near nephew is made the far one first.
FixNear(t, s) ==
    LET o == Other(s)
        w == Sub(t, o)
    IN  IF ~Red(Sub(w, o)) /\ Red(Sub(w, s))
        THEN FixFar(With(t, o, Rotate(w, s, "red", "black")), s)
        ELSE FixFar(t, s)

\* One round of __rb_erase_color: a red sibling is rotated up first.
EraseFix(t, s) ==
    IF Red(Sub(t, Other(s)))
    THEN LET u == Rotate(t, Other(s), "red", "black")
             v == FixNear(Sub(u, s), s)
         IN  Cut(With(u, s, v.t), v.short)
    ELSE FixNear(t, s)

\* t with its subtree on side s after an erasure.
After(t, s, cut) ==
    LET u == With(t, s, cut.t) IN IF cut.short THEN EraseFix(u, s) ELSE Cut(u, FALSE)

\* The root has at most one child: the child takes its place.
Unlink(t) == LET u == IF t.l = Empty THEN t.r ELSE t.l
             IN  Cut(Paint("black", u), t.c = "black" /\ ~Red(u))

\* Erases node n, wherever it is linked; a node with two children gives its
\* place to its successor.
Erase[t \in Trees] ==
    [n \in Node |->
        IF t = Empty THEN Cut(t, FALSE)
        ELSE IF t.n = n
        THEN IF t.l = Empty \/ t.r = Empty THEN Unlink(t)
             ELSE LET next == rb_first[t.r]
                  IN  After(Tree(t.c, t.l, next, t.r), "r", Erase[t.r][next])
        ELSE LET s == IF n \in Nodes[t.l] THEN "l" ELSE "r"
             IN  After(t, s, Erase[Sub(t, s)][n])]
rb_erase(t, n) == Paint("black", Erase[t][n].t)

-----------------------------------------------------------------------------
\* The black nodes on each path to an empty subtree.
BlackHeights[t \in Trees] ==
    IF t = Empty THEN {0}
    ELSE {h + (IF Red(t) THEN 0 ELSE 1) : h \in BlackHeights[t.l] \cup BlackHeights[t.r]}

RedsApart[t \in Trees] ==
    t # Empty => /\ Red(t) => ~Red(t.l) /\ ~Red(t.r)
                 /\ RedsApart[t.l] /\ RedsApart[t.r]

IsRedBlack(t) == ~Red(t) /\ RedsApart[t] /\ \A g, h \in BlackHeights[t] : g = h
=============================================================================
