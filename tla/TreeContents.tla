---------------------------- MODULE TreeContents ----------------------------
(***************************************************************************)
(* tools::tree (src/cpptools/container/tree.hpp) as a container of values: *)
(* how trees are built, node by node, from other trees and initializers,   *)
(* assigned and merged, and what is left when a constructor of the value   *)
(* type throws halfway.  The values are unsigned integers.                 *)
(***************************************************************************)
EXTENDS TreeTraversal

CONSTANTS
    Modulus,      \* 2 to the width of the value type
    Seed,         \* the values that programs put in trees
    Initializer,  \* the initializers used, as lists of values and depths
    MaxLost       \* bound: how many allocations may be lost

Word == 0..(Modulus - 1)

(* Values with their depths in pre-order: a root, then nodes that are at   *)
(* most one deeper than the one before.                                    *)
Item == [value : Word, depth : Nat]
IsOutline(l) ==
    /\ l \in Seq(Item)
    /\ \A i \in DOMAIN l : l[i].depth \in IF i = 1 THEN {0} ELSE 1..(l[i - 1].depth + 1)

ASSUME ContentsAssumption ==
    /\ Modulus \in Nat \ {0} /\ Seed \subseteq Word
    /\ \A l \in Initializer : IsOutline(l)

Strategy == {"keep", "replace", "add", "subtract", "multiply", "divide"}

VARIABLES
    value,  \* value[n]: the value held by node n
    lost,   \* the nodes allocated that nothing points to any more
    job     \* the tree being built, NoJob when there is none

cvars == <<vars, value, lost, job>>

(* Of a job, temp is the tree whose constructor runs, into the tree it is  *)
(* to be moved to (Null: it is the result), todo the values that are left  *)
(* to make a node for, in pre-order, and path the last node made at each   *)
(* depth.  The rest is kept for the properties.                            *)
NoJob == [temp |-> Null]

Contents(t) ==
    IF root[t] = Null THEN <<>>
    ELSE LET l == Preorder(heap, root[t])
         IN  [i \in DOMAIN l |-> [value |-> value[l[i].node], depth |-> l[i].depth]]

Snapshot == [t \in live |-> Contents(t)]

(* The addresses the next node may have.                                   *)
Spare == FreeNodes \ lost

(* The value of a node goes with the node.                                 *)
Held(values) == [n \in Node |-> IF store'[n] = Null THEN 0 ELSE values[n]]

ContentsInit ==
    /\ Init
    /\ value = [n \in Node |-> 0]
    /\ lost = {}
    /\ job = NoJob

-----------------------------------------------------------------------------
(* Building trees.                                                         *)

Begin(list, copying, into) ==
    /\ job = NoJob /\ into \in live \union {Null}
    /\ \E temp \in Tree \ live :
          /\ Construct(temp)
          /\ job' = [temp |-> temp, into |-> into, copying |-> copying,
                     todo |-> list, path |-> <<>>, wanted |-> list, before |-> Snapshot]
    /\ UNCHANGED <<value, lost>>

(* tree(const tree&), tree(const const_node_handle&), and the assignments  *)
(* that go through them: from the subtree of a node, be it of the tree     *)
(* assigned to.                                                            *)
BeginCopy(from, into) ==
    /\ store[from] # Null
    /\ LET l == Preorder(heap, from)
       IN  Begin([i \in DOMAIN l |-> [value |-> value[l[i].node], depth |-> l[i].depth]],
                 TRUE, into)

BeginCopyOfEmpty(u, into) == u \in live /\ root[u] = Null /\ Begin(<<>>, TRUE, into)

(* tree(initializer), and the assignments that go through it.              *)
BeginFill(init, into) == Begin(init, FALSE, into)

(* Mutant of CopyNode: every copy goes under the root.                     *)
CopyNodeFlat(u, n, where) ==
    /\ heap' = IF where = Null THEN heap ELSE InsertChild(heap, root[u], n)
    /\ store' = Give({n}, u)
    /\ SetPointers(u, IF where = Null THEN n ELSE root[u], n, n)
    /\ UNCHANGED live

(* _copy_children_recursive: the node is made, inserted and gone into; the *)
(* extrema are looked for at the end.                                      *)
CopyNode(u, n, where) ==
    /\ heap' = IF where = Null THEN heap ELSE InsertChild(heap, where, n)
    /\ store' = Give({n}, u)
    /\ IF Len(job.todo) > 1
       THEN SetPointers(u, IF where = Null THEN n ELSE root[u], Null, Null)
       ELSE LET r == IF where = Null THEN n ELSE root[u]
            IN  SetPointers(u, r, LeftmostChildOrThis(heap', r), RightmostChildOrThis(heap', r))
    /\ UNCHANGED live

(* _copy_fill_from_init and _move_fill_from_init: emplace_node for each.   *)
FillNode(u, n, where) == IF where = Null THEN EmplaceRoot(u, n) ELSE Emplace(u, where, n)

MakeNext ==
    /\ job # NoJob /\ job.todo # <<>>
    /\ \E n \in Spare :
          LET next  == Head(job.todo)
              where == IF next.depth = 0 THEN Null ELSE job.path[next.depth]
          IN  /\ IF job.copying THEN CopyNode(job.temp, n, where)
                 ELSE FillNode(job.temp, n, where)
              /\ value' = [value EXCEPT ![n] = next.value]
              /\ job' = [job EXCEPT !.todo = Tail(@),
                                    !.path = Append(SubSeq(@, 1, next.depth), n)]
    /\ UNCHANGED lost

(* make_node throws: out of memory, or from the value's constructor, once  *)
(* the node is allocated.                                                  *)
NodeThrows ==
    \/ UNCHANGED lost
    \/ Cardinality(lost) < MaxLost /\ \E n \in Spare : lost' = lost \union {n}

(* Mutant of MakeThrows: a tree under construction is not destroyed.       *)
MakeThrowsOutright ==
    /\ job # NoJob /\ job.todo # <<>>
    /\ NodeThrows
    /\ job' = NoJob
    /\ UNCHANGED <<vars, value>>

(* The constructor of temp delegated to another one, so temp is destroyed, *)
(* also with a new node that insert_child had no memory to link.           *)
MakeThrows ==
    /\ job # NoJob /\ job.todo # <<>>
    /\ NodeThrows
    /\ Destroy(job.temp)
    /\ job' = NoJob
    /\ value' = Held(value)

(* The tree is the result, or is moved to the one assigned to and then     *)
(* destroyed.                                                              *)
Finish ==
    /\ job # NoJob /\ job.todo = <<>>
    /\ \/ job.into = Null /\ UNCHANGED vars
       \/ job.into # Null /\ Steal(job.into, job.temp) /\ live' = live \ {job.temp}
    /\ job' = NoJob
    /\ value' = Held(value)
    /\ UNCHANGED lost

-----------------------------------------------------------------------------
(* Changing trees.                                                         *)

EmplaceValue(t, where, n, v) ==
    /\ job = NoJob /\ n \in Spare
    /\ IF where = Null THEN EmplaceRoot(t, n) ELSE Emplace(t, where, n)
    /\ value' = [value EXCEPT ![n] = v]
    /\ UNCHANGED <<lost, job>>

(* emplace_node throws while it makes the node (unsafe_tree.hpp:758-762),  *)
(* which is then not in the tree.  That linking it may fail later is left  *)
(* out.                                                                    *)
EmplaceThrows == job = NoJob /\ live # {} /\ NodeThrows /\ UNCHANGED <<vars, value, job>>

(* merge::keep ... merge::divide on unsigned integers.                     *)
Merged(strategy, original, other) ==
    CASE strategy = "keep"     -> original
      [] strategy = "replace"  -> other
      [] strategy = "add"      -> (original + other) % Modulus
      [] strategy = "subtract" -> (original + Modulus - other) % Modulus
      [] strategy = "multiply" -> (original * other) % Modulus
      [] strategy = "divide"   -> original \div other

(* Mutant of MergeValue: the arguments of the strategy swapped.            *)
MergeValueSwapped(t, n, strategy) ==
    /\ job = NoJob
    /\ strategy = "divide" => value[n] # 0
    /\ Merge(t, n)
    /\ value' = Held([value EXCEPT ![heap[n].parent] = Merged(strategy, value[n], @)])
    /\ UNCHANGED <<lost, job>>

(* merge_with_parent<merge_t>.                                             *)
MergeValue(t, n, strategy) ==
    /\ job = NoJob
    /\ strategy = "divide" => value[n] # 0
    /\ Merge(t, n)
    /\ value' = Held([value EXCEPT ![heap[n].parent] = Merged(strategy, @, value[n])])
    /\ UNCHANGED <<lost, job>>

(* What leaves the values alone.                                           *)
Rearrange ==
    /\ job = NoJob
    /\ \E t \in Tree :
          \/ Construct(t) \/ Clear(t) \/ Destroy(t)
          \/ \E u \in Tree : MoveConstruct(t, u) \/ MoveAssign(t, u) \/ Swap(t, u)
          \/ \E n \in Node : Erase(t, n)
          \/ \E n, m \in Node : Move(t, n, m)
          \/ \E n \in Node, u \in Tree : Chop(t, n, u) \/ Adopt(t, n, u)
    /\ value' = Held(value)
    /\ UNCHANGED <<lost, job>>

ContentsNext ==
    \/ \E into \in Tree \union {Null} :
          \/ \E n \in Node : BeginCopy(n, into)
          \/ \E u \in Tree : BeginCopyOfEmpty(u, into)
          \/ \E init \in Initializer : BeginFill(init, into)
    \/ MakeNext \/ MakeThrows \/ Finish \/ EmplaceThrows
    \/ \E t \in Tree, n \in Node :
          \/ \E v \in Seed, where \in Node \union {Null} : EmplaceValue(t, where, n, v)
          \/ \E strategy \in Strategy : MergeValue(t, n, strategy)
    \/ Rearrange

ContentsSpec == ContentsInit /\ [][ContentsNext]_cvars

-----------------------------------------------------------------------------
(* A tree built from another one, from a part of the very tree it is       *)
(* assigned to, or from an initializer has the contents it was to have     *)
(* when that began, its extrema are right, and no other tree has changed.  *)
BuiltAsWanted ==
    [][job # NoJob /\ job' = NoJob /\ job.todo = <<>> =>
          LET t == IF job.into = Null THEN job.temp ELSE job.into
          IN  /\ \A u \in live' : Contents(u)' = IF u = t THEN job.wanted ELSE job.before[u]
              /\ live' = DOMAIN job.before \union {t}
              /\ root'[t] # Null =>
                    /\ leftmost'[t] = LeftmostChildOrThis(heap', root'[t])
                    /\ rightmost'[t] = RightmostChildOrThis(heap', root'[t])]_cvars

(* When a value's constructor throws, in the middle of an assignment or of *)
(* a construction, every tree is what it was before: the one assigned to   *)
(* keeps its contents and nothing of the one being built remains.          *)
FailureChangesNothing ==
    [][job # NoJob /\ job' = NoJob /\ job.todo # <<>> => Snapshot' = job.before]_cvars

(* unsafe_tree.hpp:787-796: a merge takes the node out of the pre-order    *)
(* list of values, combines its value into its parent's, the parent's      *)
(* first, and touches no other value of any tree.                          *)
MergesIntoParent ==
    [][\A t \in live : \A n \in {m \in Nodes(t) : store' = Give({m}, Null)}, s \in Strategy :
          MergeValue(t, n, s) =>
              LET l == Preorder(heap, root[t])
                  i == CHOOSE k \in DOMAIN l : l[k].node = n
                  j == CHOOSE k \in DOMAIN l : l[k].node = heap[n].parent
                  values == [k \in DOMAIN l |-> value[l[k].node]]
                  c == Contents(t)'
              IN  /\ [k \in DOMAIN c |-> c[k].value] =
                        RemoveAt([values EXCEPT ![j] = Merged(s, values[j], values[i])], i)
                  /\ \A u \in live \ {t} : Contents(u)' = Contents(u)]_cvars

=============================================================================
