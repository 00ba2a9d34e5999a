------------------------------ MODULE TreeLoops ------------------------------
(***************************************************************************)
(* A loop over a tree (dfs and reverse_dfs, src/cpptools/container/tree/   *)
(* traversal.hpp) whose body changes trees, the one it runs over included. *)
(* The loop holds a pair of iterators and they are moved from whatever     *)
(* node the body left them at.                                             *)
(***************************************************************************)
EXTENDS TreeTraversal

VARIABLE loop  \* the loop in progress, a record; Idle when there is none

(* A loop is a record: tree, order and forward say what was asked for, pos *)
(* is the node of the iterator, end that of the iterator it is compared    *)
(* with.  A reverse loop is one of std::reverse_iterator, whose base is    *)
(* the place after the element it stands for: end is the first node the    *)
(* tree had when the loop began.  due are the nodes of the tree that the   *)
(* loop has yet to come to, seen the ones it came to; a node that leaves   *)
(* the tree or is moved in it is no longer in either.                      *)
Idle == Null

LoopInit == Init /\ loop = Idle

Ended(l) == l.pos = l.end

(* operator*: what the loop's iterator stands for.                         *)
Element(l) == IF l.forward THEN l.pos ELSE Decrement(l.tree, l.pos, l.order)

(* The body runs for the element, or the loop is over.                     *)
Enter(l) == IF Ended(l) THEN l
            ELSE [l EXCEPT !.due = @ \ {Element(l)}, !.seen = @ \union {Element(l)}]

(* dfs<O>(t), reverse_dfs<O>(t): begin and end are asked for once.         *)
BeginLoop(t, o) ==
    /\ loop = Idle /\ t \in live
    /\ \E forward \in BOOLEAN :
          loop' = Enter([tree |-> t, order |-> o, forward |-> forward,
                         pos |-> IF forward THEN DfsBegin(t, o) ELSE Null,
                         end |-> IF forward THEN Null ELSE DfsBegin(t, o),
                         due |-> Nodes(t), seen |-> {}])
    /\ UNCHANGED vars

(* Mutant of Advance: ++ of a copy that is then dropped.                   *)
AdvanceTwice ==
    /\ loop # Idle /\ ~Ended(loop)
    /\ loop' = Enter([loop EXCEPT !.pos =
                        IF loop.forward
                        THEN IF Increment(@, loop.order) = Null THEN Null
                             ELSE Increment(Increment(@, loop.order), loop.order)
                        ELSE Element(loop)])
    /\ UNCHANGED vars

(* operator++ of the loop's iterator; of a reverse one, operator-- of its  *)
(* base.                                                                   *)
Advance ==
    /\ loop # Idle /\ ~Ended(loop)
    /\ loop' = Enter([loop EXCEPT !.pos =
                        IF loop.forward THEN Increment(@, loop.order) ELSE Element(loop)])
    /\ UNCHANGED vars

EndLoop == loop # Idle /\ Ended(loop) /\ loop' = Idle /\ UNCHANGED vars

(* The body calls an operation of the trees, which moves or replaces the   *)
(* nodes "moved" of a tree.  The iterators stay valid as long as their     *)
(* nodes are in the tree they were made for (traversal.hpp:161-163), and   *)
(* the element of a reverse loop stays what it was as long as it is the    *)
(* one before its base; else the program leaves the loop.                  *)
Follow(moved) ==
    LET kept(n)  == n # Null => store'[n] = loop.tree
        stay     == {n \in Node \ moved : store'[n] = loop.tree}
        goesOn   == /\ loop.tree \in live' /\ kept(loop.pos) /\ kept(loop.end)
                    /\ loop.pos \notin moved /\ loop.end \notin moved
                    /\ ~loop.forward => /\ \A l \in {loop} : Element(l)' = Element(l)
                                        /\ Element(loop) \notin moved
    IN  IF loop = Idle THEN UNCHANGED loop
        ELSE /\ ~Ended(loop)
             /\ loop' = IF goesOn THEN [loop EXCEPT !.due = @ \intersect stay,
                                                    !.seen = @ \intersect stay]
                        ELSE Idle

CopyTree(t, u) == CopyAssign(t, u) /\ Follow(Nodes(t))
MoveInTree(t, where, s) == Move(t, where, s) /\ Follow(Subtree(heap, s))

LoopNext ==
    \/ \E t \in Tree, o \in Order : BeginLoop(t, o)
    \/ Advance
    \/ EndLoop
    \/ OrderKept /\ Follow({})
    \/ \E t, u \in Tree : CopyTree(t, u)
    \/ \E t \in Tree, where, s \in Node : MoveInTree(t, where, s)

LoopSpec == LoopInit /\ [][LoopNext]_<<vars, loop>>

-----------------------------------------------------------------------------
(* A loop misses no node: when it comes to its end, it has been at every   *)
(* node that was in the tree when it began and stayed there, in its place, *)
(* whatever the body inserted, erased, merged, cut off or moved elsewhere. *)
MissesNothing == loop # Idle /\ Ended(loop) => loop.due = {}

(* A loop comes to no node a second time, the ones inserted meanwhile      *)
(* included, as long as the node is not moved.                             *)
NothingTwice ==
    [][loop # Idle /\ loop' # Idle /\ loop'.pos # loop.pos /\ ~Ended(loop')
          => Element(loop)' \notin loop.seen]_<<vars, loop>>

=============================================================================
