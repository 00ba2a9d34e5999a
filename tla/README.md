# CppTools: specifications, checks and proofs

CppTools is a C++ library of independent parts: a worker thread, a tree
container with its iterators, small command-line interfaces (shell, menu,
argument parser), value wrappers, string and range utilities. This directory
holds TLA+ modules translated from its code, TLC configurations that check them
on small instances, and proofs that TLAPS checks for every instance.

`PROJECT.json` is the index: components, runs, the lines each definition stands
for, findings, hazards and theorems. Paths below are relative to
`src/cpptools/`.

## Inventory

**Worker** (`thread/worker.cpp`, interface `thread/interruptible.hpp`).
State: two control flags (`_exit`, `_execute`), three informative flags
(`_finalized`, `_paused`, `_running`), four mutexes each with a condition
variable, a future, and two locals of the thread's loop. Operations: request
(`finalize`, `pause`, `run`), query, wait with or without a request, destructor;
the loop `_work` calls five user functions. Client threads and the worker's
thread interact only through the flags, the mutexes and the condition
variables; a user function may throw, or call the worker it runs in. Hard:
interleavings of several clients with the loop, decisions used after the unlock,
lost wake-ups, two flags written under two locks, locks held across callbacks,
exceptions, destruction at any moment. Correct when: at most one task starts
after a request to halt; flags agree with the state; nobody sleeps on a
condition that holds; no lock is left behind; requests, waits and the destructor
return when they should.

**Tree** (`container/tree.hpp`, `container/tree/unsafe_tree.hpp`,
`container/tree/node.hpp`). State of a tree: a set of unique pointers to the
nodes, raw pointers to the root and to the leftmost and rightmost nodes; of a
node: value, parent, index among its siblings, vector of children. Operations:
construct, copy, move, swap, clear, destroy, emplace, chop, adopt, move and erase
subtrees, merge a node with its parent, compare. Nodes move between trees. Hard:
long sequences of legal operations; extrema and indices that are updated from
what a function knows of the change, never recomputed; functions that read
before and use after a change. Correct when: links, indices and vectors say the
same; a tree owns exactly what its root reaches; the cached extrema are what
their names say; each operation does to the tree what its documentation says.

**Traversal** (`container/tree/traversal.hpp`) steps from node to node through
parents and indices; **node handles** (`container/tree/node_handle.hpp`) wrap a
node pointer. Correct when loops list every node once in the order asked.
Hard: iterators held while the tree changes.

**Shell, menu, command sequence, input** (`cli/`). State: the registered
commands and the exit command; a loop reads, looks up and runs. Hard: exceptions
in and out of the try block, end of input, an exit command that declines,
numbers out of range, a cached string shared by all menus of a type. Correct
when: the loop ends exactly on exit and no command's exception leaves it.

**Argument parsing** (`cli/argument_parsing.hpp`). Two parsers, with and without
a specification, and the map of values they return, which callers search and erase
from by either form of a name. Hard: unknown arguments, repeated ones, counts
at the end of the line, an argument that consumes all the others, names that
overlap. Correct when: every word is consumed once, as a name or as a value of the
argument before; required ones are present; a search finds the entry it names.

**Value wrappers** (`utility/clamped_value.hpp`, `wrapping_value.hpp`,
`monitored_value.hpp`): one number kept in range, or observed. Hard: operands of
other types, overflow before the correction. Correct when: the value stands for
the exact result wherever C++ can compute it.

**String algorithms** (`utility/string.cpp`, `string.hpp`): pure functions on
texts. Hard: delimiters at the ends, comments in comments, numbers out of range.

**Contiguous storage** (`memory/contiguous_storage.hpp`), **ranges**
(`utility/ranges.hpp`, `utility/detail/range_base.hpp`): see *Not modelled*.

**Not to be modelled**: predicates, concepts and type utilities (compile-time),
`math/sine_generator.hpp` (floating point and the wall clock), exceptions and
debug macros (wording; the conditions of the assertions are guards of actions).

## Plan

Done:

1. `Worker`, the abstract `Interruptible`, their refinement and proofs.
2. `Node`, `UnsafeTree`, the abstract `Forest` and the refinement;
   `TreeTraversal`; `TreeDeleters`.
3. `Shell` and `Menu` (with sequences and prompts) composed in `Cli` on one call
   stack, and proofs about the table of commands.
4. `TreeContents`: values of trees, building them node by node with values whose
   constructors throw, merge strategies; `TreeComparison`: equality.
5. `TreeLoops`: iterators held while the loop's body changes trees.
6. `Arguments`, `Strings` and `Values`, composed with `TreeComparison` in `Library`.
7. Proofs: the worker's destructor, the stack of calls of `Cli`, `Arguments` (what
   is parsed, its search and its erasure), and the trees: types, links, ownership,
   extrema in the tree, extrema that are extreme, the iterators of every tree, the
   refinement of `Forest`, and loops whose body changes the tree.

Left, all of them proofs: contents under construction, the arithmetic of `Values`
and the texts of `Strings`.

## Modules

| Module | Models | |
|---|---|---|
| `Worker` | `thread/worker.cpp`, `worker.hpp` | detailed specification |
| `Interruptible` | `thread/interruptible.hpp`, the callbacks' contract | abstract specification |
| `WorkerProofs` | | theorems about `Worker` |
| `WorkerPromise` | what callers are told in `interruptible.hpp` | `Worker` with a history variable |
| `Node` | `container/tree/node.hpp` | operators on a heap of nodes |
| `UnsafeTree` | `container/tree/unsafe_tree.hpp` | trees that share a heap |
| `NodeProofs` | | lemmas about `Node`: subtrees, ancestors, ends of branches, what each operation does to a tree of nodes, and the lists of its nodes |
| `UnsafeTreeProofs` | | theorems about `UnsafeTree` |
| `TraversalProofs` | | theorems about the cached extrema of `UnsafeTree` and its iterators |
| `ArgumentsProofs` | | theorems about the parsers of `Arguments` and their map |
| `Forest` | `container/tree.hpp`, its promises | abstract specification |
| `TreeRefinement` | | `UnsafeTree` implements `Forest` |
| `TreeListProofs` | | theorems about `TreeRefinement` and `TreeContents` |
| `TreeTraversal` | `container/tree/traversal.hpp` | operators over `UnsafeTree` |
| `TreeLoops` | loops of `traversal.hpp` in progress | `UnsafeTree` with the iterators of a loop |
| `LoopProofs` | | theorems about `TreeLoops` |
| `TreeContents` | `container/tree.hpp`, node making and filling in `unsafe_tree.hpp`, `utility/merge_strategy.hpp` | `UnsafeTree` with values and a tree under construction |
| `TreeComparison` | `operator==`, `_subtrees_equal` | an algorithm on two trees |
| `TreeDeleters` | `_deleter_t&` in the owning pointers | `UnsafeTree` with an auxiliary variable |
| `CallStack` | C++ calls and exceptions | frames that wait for one another |
| `Shell` | `cli/shell.hpp` | the table of commands, and the loop as frames |
| `Menu` | `cli/menu.hpp`, `menu_command.hpp`, `command_sequence.hpp`, prompts of `input.hpp` | loops as frames |
| `Cli` | a program with a shell and menus | composes `Shell` and `Menu` on one stack |
| `CliStackProofs` | | theorems about the table of commands and the stack in `Cli` |
| `Arguments` | `cli/argument_parsing.hpp` | both parsers, word by word, and the map they return |
| `Strings` | `utility/string.cpp`, `string.hpp` | operators on texts |
| `Values` | `utility/clamped_value.hpp`, `wrapping_value.hpp` | one number and the arithmetic of C++ |
| `Library` | | `Arguments`, `Strings`, `Values` and `TreeComparison` side by side |
| `MC...` | | constants for TLC |

### Worker

Each critical section is three steps or more (acquire, body, release), so that
other threads run in between; the guard of an acquisition is a free mutex.
`wpc` is the place of the worker's thread in `_work`, `cpc[t]` the place of
thread `t` in a member function, whose `call` says what it requests and what it
waits for: the member functions are all a request, then a look at a flag, with
one of the two missing in some. `cpc[W]` is used when a callback calls
`finalize`, `pause` or `run` on its own worker. A condition variable is its set
of sleeping threads; waiting releases the mutex and joins the set in one step,
and wakes by leaving the set and then acquiring the mutex. `execute' = TRUE` and
the notification of `run` are two steps in one critical section, as in the code.
`Throw` is an exception leaving a callback: locks are released by unwinding. The
destructor (`Destroy`, then a request, then `Join`) starts when no client is in a
member function, which C++ asks of any object; callbacks may still be calling.

`overrun` is a history variable: tasks started since the worker was last told to
halt. Nothing reads it but the properties.

The callbacks that a configuration lets call back (`Reentrant`) include `on_resume`,
which runs with `_mutex_run` locked. They leave out `on_pause`, which runs with
`_mutex_execute` locked and would lock it again.

### Tree

Nodes are addresses, allocated from the constant `Node` and freed back to it;
`store[n]` is the tree whose `_nodes` owns `n`. Every action of `UnsafeTree` is one
member function of `unsafe_tree`, whole; the guards are the conditions its debug
assertions state. Move operations are between trees whose allocators are equal. No
structural operation reads a value, so values are added in `TreeContents` only.

`TreeContents` takes apart what `UnsafeTree` does in one step: a constructor that
copies a tree, a subtree or an initializer makes one node at a time (`MakeNext`),
and may throw at each (`MakeThrows`): out of memory, or from the value's constructor
once the node is allocated, which loses that memory (`lost`). `job` is the
constructor that runs. The assignments of `tree` go through a temporary
(`tree.hpp:110-149`); `Finish` moves it. The other operations of `UnsafeTree` happen
between jobs, with the values (`Rearrange`). A node that was made and could not be
linked, because the vector of children did not grow, is destroyed with the tree under
construction (`MakeThrows` covers it); `emplace_node` on a tree in use has no such
tree to destroy, and `EmplaceThrows` is about the making of the node only (see *Not
modelled*). `before` and `wanted` in `job` are for the properties.

In `TreeLoops` a loop holds the iterator it advances and the one it compares with,
as `for` does. The body calls any operation of `UnsafeTree`. `traversal.hpp:161-163`
says when an iterator stays valid: as long as its node is in the tree it was made
for; `Follow` ends a loop whose body breaks that, since the program must then leave
it. A reverse loop is one of `std::reverse_iterator`, whose element is the one
before its base: the model also ends it when the body changes which element that
is. Copying a tree onto the tree of a loop replaces its nodes, and `move_subtree`
takes nodes to another place: `due` and `seen`, which the properties read, leave
such nodes out.

`Wild` lets a configuration use operations beyond what they handle (see the
findings): removing a subtree that holds an extremum and has siblings (`erase`,
`chop`), and moving a subtree under its own root (`move`, which no run uses).
Without `Wild` the removals are restricted by `TameRemoval`.

In `TreeRefinement` the lists of `Forest` are computed from root and children
vectors only, so it also says that operations do not depend on the cached
extrema; the auxiliary variable `preorder` holds them to save time.

### Command line

One thread runs everything. `stack` holds a frame for each function that has not
returned: a shell's `run`, a menu's `show`, a sequence's `run`, or a command of
the program; a frame has the local variables and the place of that function.
A call that ends leaves `outcome` (a code, an exception derived from
`std::exception`, or one that is not), which the frame below looks at in its next
step: that is where the handlers of the code are. The body of a command of the
program is any code: it may show menus, run a sequence, run the shell again, and
add, remove, exchange or clear the shell's commands, also the one that runs.

In `Shell` a command is owned by the table, the exit slot or the program. `entry`
in a shell's frame says whether the iterator `it` of `_process_input` is still
valid; a handler that reads it when it is not makes the rest of the execution
`undefined`. The constructor's test for equal names looks among views of strings
that no longer exist (`shell.hpp:84-91`): from the second name on its answer is
any. (Where the compiler reuses the place of the local string, it refuses names of
equal length.) What the program passes is not null, and a shell and a menu are
not destroyed while they run.

In `Menu` the objects are constants, since nothing changes them; only the static
option strings are state, one for each size. An answer to a prompt is a number, a
number too large for `int`, or another text; the empty line at the end of the
input is of the last kind, so a menu asks for ever then, and a shell answers empty
lines for ever: `run` and `show` do not test the stream. No source says what they
should do.

### Arguments, texts, values

In `Arguments` a character is a number and a word is its leading dashes (two at
most) and what follows. Each turn of a parser's loop is an action, and so is the
look at one specification; `outcome` ends the call with an exception, `undefined`
or `done`. After it the caller erases entries (`Erase`), and has no other way to
change the map: its `operator[]` ends in `return it->second;` under `decltype(auto)`
(`argument_parsing.hpp:331-356`), which returns a copy of the values. The
`erase` that takes a name in both forms is a const member that changes the map: it
cannot be called, so `Erase` has one form only. `end()` of a vector of values is
its `begin()`, so a loop over it visits nothing; the model has no loop over values.

In `Strings` each algorithm is an operator, and the machine only types texts:
a state is an input. `Sto` is `std::stoi` and `std::stoll` with the widths `IntBits`
and `LongBits`.

In `Values` a type is a sign and a width, and sums are computed as C++ computes
them: promoted, converted to the common type, overflowing in it. `undefined` records
a signed overflow, or a `std::clamp` whose bounds are reversed by the conversion.

`TreeComparison` runs `_subtrees_equal` on every pair of small trees, given as
lists of values and depths.

These parts keep no state of each other; `Library` picks one for each behaviour.

## Runs

| Run | Shows | Bounds |
|---|---|---|
| `worker_safety` | types, lock discipline, overrun, flags, wake-ups, destruction at rest, refinement of `Interruptible` | 2 clients, 4 events, all calls, all callbacks throw, four call back |
| `worker_live` | `finalize` is honoured; waits, requests and the destructor return, also after a callback threw | 2 clients, 3 events, requests with their waits, all callbacks throw, four call back |
| `worker_stale_pause` | finding | 1 client, 4 events |
| `tree_structure` | links, ownership, extrema in the tree, refinement of `Forest` | 6 nodes, 2 trees, wild removals |
| `tree_order` | extrema are extrema; iterators list the tree both ways; loops whose bodies change trees miss nothing and repeat nothing | 5 nodes, 2 trees |
| `tree_contents` | trees are built as wanted; failures leave every tree as it was; merges | 6 nodes, 4 of them in trees when a job begins, 3 trees (one is the temporary), values of one bit, 1 lost node |
| `tree_erase`, `tree_deleters` | findings | 2 to 4 nodes |
| `cli` | the table and its owners, calls and answers, when loops end, where sequences go on, what exceptions cross | 4 shell commands, 3 menus, a sequence in another, calls of the program from 2 frames deep |
| `cli_constructor` | finding | as in `cli`, up to 3 commands for the constructor |
| `library` | what parsers, algorithms, wrapped values and comparisons return | below |
| `arguments_unknown` | finding | as in `library` |

The run `library` takes every command line of up to 3 of 7 words (with a short and
a long name, a name with two letters, a plain word, a lone dash, two dashes) with no
specification or one of up to two arguments, counts from -2 to 2; every text of up
to 6 characters of three alphabets (slashes, stars and ends of line; digits, minus
and colon; letters, spaces, carriage returns and ends of line), with integers of 6
and 7 bits; every value and operand of types of 3 to 5 bits where `int` has 4, so
that operands are narrower, wider and of the other sign; every pair of trees of up
to 4 nodes with two values. Two arguments are enough for names that overlap and for
two that consume the rest; three words for a name, its values and what follows.
Six characters hold two comments one after the other, or a range of two numbers
of which one is too large.

Five nodes and two trees in `tree_order` allow a loop in the middle of siblings that
have children, while the body inserts above, before, after and below, merges the
element's siblings and moves subtrees between both trees. In
`tree_contents` a chain and a fork of three nodes are copied and filled in, beside
the tree copied from; states at rest with more than four nodes are checked and not
gone on from (`SmallAtRest`). Values of one bit there tell the six merge strategies apart except `add` from `subtract`,
which are the same modulo 2.

An *event* is a call or a spurious wake-up (`MaxEvents`). With two clients and
four events one client can pause, run and pause again while the other waits, and
each race between two requests and the loop's decision occurs. The safety
properties do not depend on that bound: they are proved. `worker_live` has one event
less: three let both clients wait while a callback makes a request, or let the destructor
follow two calls. The worker's runs do not check deadlock, since a thread may rightly wait for ever
(`wait_until_paused(false)` with nobody to pause, or a wait for a worker that a
callback's exception has ended); a cycle of locks would break `RequestsReturn`. What a
callback calls while it holds a lock (`on_resume` holds `_mutex_run`) could close one
with a client that calls `run`: the run shows that none does.

In `tree_structure` six nodes allow three levels with siblings on both sides of a merged, moved or
removed node, and two trees allow every transfer between them. Nodes and trees
are interchangeable, and so are clients: the safety runs use symmetry, the
liveness runs do not.

Four shell commands give two of one name, one more, and one named by a keyword. The
menus have a nested menu of the same size, a sequence in it, a sequence in that one,
and a menu in the inner sequence, so that a failure has two sequences to stop.
`MaxDepth = 2` lets a command of a shell or of a menu start the shell or the menu
(sequences are run by a menu or a sequence only): frames are then up to eight deep, and
two frames of one shell wait at once. Symmetry is in the two commands of one name.

### Fairness

`Fairness` is weak fairness of the worker's loop, of each thread's steps inside a
call, and of the join: threads are scheduled, tasks and callbacks return. Calls
and spurious wake-ups need not happen. Nothing is assumed of who gets a free
mutex, so a thread that keeps locking one may starve another; `FinalizeIsHonoured` and
`WaitersReturn` hold even so, because each needs requests only that have already been
written. `RequestsReturn` and `DestructionEnds` do not: the loop unlocks and locks
`_mutex_execute` for ever. They say what they need: strong fairness of that one
acquisition (`NobodyStarves`), an assumption about the platform's mutex that
the code relies on and does not enforce.

## Proofs

`WorkerProofs` proves, for any set of clients, any calls, callbacks that call back
or throw, and any number of events (the only assumption is `WorkerAssumption`,
which says that the constants are of their kinds):

- `TypeCorrect`;
- `LocksAreDisciplined`: each mutex is owned by the thread in its critical
  section. Inductive with `SelfCalls`: the worker's own calls happen inside
  callbacks only, and never get `_mutex_execute` inside `on_pause`;
- `OverrunIsBounded`: `AtMostOneOverrun` alone is not inductive: it must be known
  that between the decision and the task there is either no debt or an order to
  stop (`Debt`), that what the loop read under the lock holds until it unlocks
  (`Decisions`, from the lock discipline: lemma `WorkerIsAlone`);
- `FlagsAreTruthful`: strengthened by `FlagWindows`, what each flag is at each
  place of the loop;
- `WakeUpsAreNotLost`: strengthened by who may sleep on `_sem_execute` and where;
- `DestructionIsSafe`: `DestroyedAtRest`, strengthened by what each sleeper is
  doing (`Sleepers`: whoever is in the set of a condition variable is at the wait
  of its own call) and by how far the destructor is (`Lifetime`: it runs in one
  client, the others being in no call, and returns only once the thread has);
- `WorkerImplementsInterruptible`: every step maps through `PhaseOf` to a step of
  `Interruptible` or to a stutter, using
  `IInv == TypeOK /\ SelfCalls /\ LockDiscipline /\ Decisions /\ Debt`
  (`InductiveInvariant`).

`CliStackProofs` proves, for any commands, names, menus and depth (from
`ShellAssumption`):

- `ShellRegistryAgrees`: `RegistryAgrees`, with the types of table, exit slot and
  held commands (`IInv`): that a name is given to one command at most is what
  makes removal leave the others in place;
- `ShellOnlyClearDestroys`: the action property `OnlyClearDestroys`, from `IInv`.

Both hold while commands run and nest, since `OthersLeaveTable` shows that no
step of a loop touches the table.

It also proves the other properties of the run `cli`, for stacks of any
depth. None is inductive: what a loop does when a call ends depends on the frame
below the top, which earlier steps have written. The invariant `SInv` says of every
pair of neighbours that the lower one waits for the upper one and of the top that
it fits the outcome (`WellLinked`), and of every frame of a shell that its entry, if
still valid, is its command's (`Current`). A step pushes a frame, pops one or rewrites
the top, so that three lemmas about sequences (`PushLinks`, `EndLinks`,
`BecomesLinks`) carry it through all actions; erasing a command rewrites all frames
at once (`InvalidatedKeeps`). From it:

- `CliTypeCorrect`, `CallsAlwaysMatch`, `EntriesStayCurrent`, the invariants;
- `ShellsEndOnExit`, `ExceptionsAreStopped`, `MenusAlwaysSucceed`, the action
  properties: `OnlyEndsEnd` and `LoopEnds` show that a stack gets shorter only where a
  loop or a command ends, and with which outcome;
- `SequencesAlwaysStop`, the action property `SequencesStopAtFailure`: `StackChanges` lists
  the ways in which any step changes the stack, none of which touches a frame of a
  sequence below the top (`PlacesAreKept`), and while one is on top only its own loop
  runs (`OnlySequencesRun`).

The proofs found one error of the model: `IsCalleeOf` was a CASE of which two arms
held for a shell that runs its exit command. TLC takes the first; in TLA+ it may be
either. It is now a conjunction.

`UnsafeTreeProofs` proves, for any nodes and trees, with the wild removals of the
findings and without:

- `TypeCorrect`, `LinksAlwaysAgree`, `AlwaysRooted`, `ExtremaStayInTree`, from the
  inductive invariant `IInv` (`TreesAreOwned`): the nodes of a tree object are all that
  its root reaches, links agree among them, the extrema are two of them, and
  free nodes are fresh. Links alone are not inductive: that the subtree moved or
  removed is a tree of its own, and that its parent is outside it, needs to be known.

The hypothesis `"move" \notin Wild` is the precondition of `move_subtree` that
its assertions leave out (see the findings): with it the property is false. Every
run satisfies it.

What a subtree is and who is above whom are defined by iteration (`Subtree`,
`InSubtree`). The library's induction rules cannot be used here, but an instance can be
derived each time from `WFMin` (a nonempty set of numbers has a least one), which
quantifies over sets only: `SetInduction` does that once, `IterationIs` gives an iterated
function its equations, and `NodeProofs` concludes that a subtree is the
least set closed under children (`SubtreeLeast`), and that the ancestors are the least
set closed under parents (`AncestorsLeast`). After that no proof counts: it shows
by closed sets what `insert_child`, `remove_child`, `replace_child` and `merge_child`
make of `IsTree`, and `UnsafeTreeProofs` has one lemma per member function.

`TraversalProofs` proves `ExtremaStayExtreme`, the property `ExtremaAreExtreme`: what the
member functions know of a change is enough to keep `_leftmost` and `_rightmost` at
the ends of the walks by first and by last children, without ever walking. It is
inductive beside `IInv`. `Towards` is the set of nodes whose walk ends at a given
leaf; one lemma for each operation on nodes (`InsertEnds`, `RemoveEnds`, `MoveEnds`,
`MergeEnds`) follows it through the change and says where the walk from the root ends
then, in the very cases in which the code tells the operations apart; the two sides are
proved at once (`End`). Both tests of the code for an insertion are shown right: the new
child is the leftmost node exactly when its parent was, which is then a leaf,
and the rightmost one if its parent is above the old one (`TestsAre`, `Changes`). The
hypothesis `Wild = {}` leaves out, besides moves of a subtree under itself, the removals
of finding 2: there the property is false, as `tree_erase` shows.

It also proves `IteratorsListEveryTree`, the property `IteratorsListTheTree`: in both
orders, `begin` and `++` list the whole tree, `--` lists it backwards, and
the list is the one the recursive definition of the order gives. Such a list is
a recursive function over a tree, so that its equation has to be derived first:
`NodeProofs` defines it by iteration, bounded by the number of nodes of a subtree,
and shows by induction over that number that it obeys the equation
(the list of a node is made of those of its children), that it holds each node once,
and that it holds exactly the subtree. Then the successor of a node is the one
next to it in the list: `Increment` looks down, to the right or up, in the same cases
in which the next element is in a child's list, a sibling's, or that of an
ancestor; `Decrement` likewise. The begin iterator is a cached extremum, so that the
theorem rests on `ExtremaStayExtreme` and has its hypothesis.

`LoopProofs` proves `LoopsMissNothing` and `LoopsComeTwiceNowhere`, the properties
`MissesNothing` and `NothingTwice` of loops whose body changes the trees. An iterator is
a node and nothing else, so that what a loop has left to do is not in its state: the
invariant (`LoopInv`) says that what is due comes after the loop's element in the order
of the tree as it is now, and what was seen before it; in a reverse loop, whose
end is a node that may no longer be the first, also that what is due does not come
before that end. The order is a relation of nodes and not a list (`Comes`: below, or
under a sibling further left), so that a step can keep it for the nodes that stay:
one lemma for each operation on children vectors (`GrowingStays`, `RemovingStays`,
`MergingStays`), and from them one per member function, which say that two nodes
that stay in a tree and are not moved stay in order (`StaysFor`). That the list of
the iterators is in this order (`WalkIs`) comes from `IteratorsListEveryTree`, which
gives the theorems their hypothesis; with it `++` and `--` skip nothing due
(`AdvanceRuns`).

`TreeListProofs` proves `TreesImplementForest`, the property
`ImplementsForest`: the lists of nodes and depths that `Forest` operates on are the
preorder lists of the trees, and each member function does to them what its
promise says. The list of a tree is cut around the block of a node into what is before,
the block and what is after; the block is the list of the subtree, deeper by the
node's depth (`Blocks`). A list depends only on the vectors of children of its own
nodes (the frame lemma), so that a step leaves the lists of the other trees alone and
changes one tree's where the operation on nodes changes a vector. One lemma per
member function says which action of `Forest` it is:

| `UnsafeTree` | `Forest` |
|---|---|
| `Construct`, `Clear`, `Destroy` | `New`, `Empty`, `Delete` |
| `MoveConstruct`, `MoveAssign`, `Swap` | `Take`, `Exchange` |
| `CopyConstruct`, `CopyAssign` | `Copy` |
| `EmplaceRoot`, `Emplace` | `AddRoot`, `Add` |
| `Chop`, `Adopt`, `Move` | `Detach` or `Take`, `Attach`, `Transfer` |
| `Erase`, `Merge` | `Drop`, `Collapse` |

It needs nothing of the extrema, so that its hypothesis is that of
`TreesAreOwned` only.

With the same lists it proves the three properties of `TreeContents`:

- `FailuresChangeNothing`, the property `FailureChangesNothing`;
- `TreesAreBuiltAsWanted`, the property `BuiltAsWanted`;
- `ValuesMergeIntoParents`, the property `MergesIntoParent`.

A tree under construction is not one that the member functions know: a copy has its
root and nodes but null extrema until the last node is there (`unsafe_tree.hpp:224-233`).
So `IInv` does not hold while a copy runs; `Sound` is `IInv` with that one exception, and
every action between jobs has `IInv` back (`SoundIsIInv`). The inductive invariant
`CInv` adds what building is: the list of the temporary is the beginning of `wanted`
and `todo` is the rest; each node in `path` is the last one made at its depth and
nothing that came later is outside its subtree, so that a node appended to its children
is appended to the list (`IsBuilt`); and every other tree has the contents that
`before` says. With the last part a throw changes nothing, and at the end `wanted` is
built. That the extrema are then right is a second invariant (`XInv`): a fill goes
through `emplace_node`, whose tests `TraversalProofs` has shown right, and a copy walks to
both ends when it is done. As in `ExtremaStayExtreme` this takes `Wild = {}`; the other two
theorems need `"move" \notin Wild` only. They also rest on `ContentsAssumption`:
initializers are trees (`unsafe_tree.hpp:124-132`), so that their values in
pre-order begin with the only one at depth 0 and go down one level at a time
(`IsOutline`).

The proofs asked for one change of the model: `NoJob` was the null of the nodes, and
nothing said that a job is not it. It is now a record without the fields of a job.

`ArgumentsProofs` proves, for any command lines and specifications:

- `EntriesAreFound`, the invariant `FormsFindTheirEntry`;
- `ErasedStaysGone`, the action property `ErasedIsGone`, from it;
- `LinesMeanWhatTheySay`, the invariant `ParseIsDefined`.

The search compares the parts of a name one by one, so that it finds one entry
only if no two entries of the map have a part in common (`Distinct`, `FormsFind`).
Each parser sees to that in its own way, which is what `IInv` says: the one without
specification makes names of one part (`FreeKeys`), and the other takes names from
specifications that `validate_arg_specs` has compared pairwise, those before the
cursor by the time it gets there (`Compared`, `SpecKeys`, `NamesAreDistinct`).

`ParseIsDefined` is about the whole line and the parsers look at one word at a time: the
last mention of a name counts, and "not enough arguments" means that the line
cannot be divided into names and their words in any way. The invariant `PInv` says of
the words before the cursor that they are divided at a set `T` of names (`Division`),
that the map is what this division means (`Means`), and that every division of the
whole line agrees with it so far (`SpecDivision`); without a specification `T` is the
words with dashes (`FreeDivision`). `FreeStep` and `TakeStep`
carry it past the next name and its words; at the end `MeaningIs` shows that the map is
`Meaning`, `NoCut` that a name which wants more words than are left is in no
division, and `SpecAnswer` that the required arguments are missed exactly when no
name is theirs, which needs `IInv`. No recursion is needed: least and greatest
positions come from `WFMin` (`LeastIs`, `GreatestIs`).

Only model-checked: all liveness (fairness is beyond the prover); the wrong deleters and the findings; and the other parts of
`Library`, most of whose properties are about what recursive definitions compute.

## Findings

1. *`wait_until_paused(true)` returns on an earlier pause* (`worker_stale_pause`).
   `_paused` is reset after the worker has released `_mutex_execute`
   (`worker.cpp:141-147`). After `run()`, a client may pause and wait before the
   reset; it sees the old flag, returns, and a task starts.
2. *Extrema after `erase_subtree` and `chop_subtree`* (`tree_erase`; the run
   shows the first, the same lines are in the second): set to the parent although
   it has other children (`unsafe_tree.hpp:743-744`, `606-607`); post-order loops
   then begin at the wrong node, and loops from the end likewise.
3. *Deleters* (`tree_deleters`): a node's owner refers to the `_deleter` of the
   tree that allocated the node, also after another tree has adopted it
   (`unsafe_tree.hpp:69, 549, 625`).
4. *Unknown arguments* (`arguments_unknown`): announced as ignored, and then the end
   iterator of the specifications is dereferenced (`argument_parsing.hpp:492`).
5. *Names of the constructor's commands* (`cli_constructor`). `command_names` holds views
   of strings that are destroyed at the end of each turn (`shell.hpp:84-92`). A second
   command of a name may be accepted and then destroys the first; `add_command`
   says that the shell does not accept it (`shell.hpp:104`). Where the strings take the
   same place in memory, distinct names of one length are refused instead.

Also seen, where a model excludes or shows it and no run is about it:

- `running()` stays true when a worker that was running is finalized
  (`worker.cpp:171-175`; `interruptible.hpp:42` says it tells whether it runs).
- After a block comment `strip_c_comments` looks for the next one a character too far
  (`string.cpp:87`): of `/**//**/` the second stays. `CommentsAreStripped` says what is
  returned for such texts too: the character after a block comment opens no comment.
- `emplace_node` stores the new node in `_nodes`, and in `_root` when it has no
  destination, before it links it (`unsafe_tree.hpp:762-769`), where `push_back` may throw
  `std::bad_alloc` (`node.hpp:125`): the tree keeps a node that nothing reaches, or a root
  that does not reach the others. (For values whose constructor is `noexcept`, a
  release build ends the program instead.)
- `move_subtree(n, n)` passes the assertions (`unsafe_tree.hpp:682`) and makes `n`
  its own child.
- The option strings of a menu are a static local (`menu.hpp:106`): the second
  menu of a size shows the options of the first.
- `help` with an unknown name and a number too large for `int`
  end the shell's and the menu's loop by an exception (`shell.hpp:241`,
  `input.hpp:36`).
- `operator[]` of the map of arguments returns a copy (`argument_parsing.hpp:331-356`):
  an assignment or a `push_back` through it leaves the map as it was.
- A lone dash makes the parser without specification throw `out_of_range`
  (`argument_parsing.hpp:431`); in the other one, two dashes alone name the first
  argument without a long name.
- `parse_int_range` makes an omitted right boundary the least number
  (`string.hpp:233`), where `string.hpp:146-147` says the greatest; and a boundary
  too large for the widest type throws instead of being clamped (`150-151`).
  `RangeIsInOrder` leaves the first out and speaks of calls that return.
- `multiline_concatenate` reads the last character of an empty line (`pop_cr`,
  `string.cpp:36`); `LinesAreConcatenated` is about texts without empty lines. It also
  drops the carriage returns that end lines.
- A lone minus sign passes `is_integer` and makes `stoi` throw.
- `value - clamped` and `value - wrapping` are computed the other way round
  (`clamped_value.hpp:102`, `wrapping_value.hpp:116`); `ValuesStandForResults` leaves
  that operator out.
- `it[n]` of a view's iterator is the element of the adapted range, not what `*(it + n)`
  shows (`range_base.hpp:183`).
- Copies of a `contiguous_storage` point into the original
  (`contiguous_storage.hpp:144`), and its offsets are sums of sizes without regard
  to alignment.

## Not modelled

- `_move_assign_contents` (`unsafe_tree.hpp:243-305`), for moves between unequal
  allocators: `tree<T>` has no allocator to choose, and the code takes the child of
  the root one past the last (line 302), so a tree of two nodes or more is undefined.
- `node_handle.hpp`: pointers with the accessors of `Node`.
- `monitored_value.hpp`: sets a flag in every operation. Floating-point instances of
  the other wrappers.
- `ranges.hpp` and `range_base.hpp`: types computed around iterators that forward
  each step; `contiguous_storage.hpp`: constant offsets.
- `from_file` (files), `narrow` and `widen` (character sets), `pop_string` and
  `pop_crlf` (one statement or two, called by tests only).
- Predicates, concepts and type utilities (compile time), `math/sine_generator.hpp`
  (floating point and the wall clock), exceptions and debug macros (wording; the
  conditions of the assertions are guards).
- `std::bad_alloc` from the containers of a tree (`emplace_node` once the node is made,
  `adopt_subtree`, `move_subtree`), but where it leaves a constructor.
- A merge strategy that throws: `merge_child` (`node.hpp:218`) has then taken the
  node out of its parent's children, and the tree still owns it.
- Undefined behaviour outside the contracts (calls on a worker that is being
  destroyed, a request from `on_pause`, an iterator past its end) is excluded by
  guards.

## Running

In this directory, `tlc -config MCWorkerSafety.cfg MCWorker` and likewise for
the other configurations (the table in `PROJECT.json` gives the module of each);
`tlapm M.tla` for the proofs, with `M` one of `WorkerProofs`, `CliStackProofs`,
`ArgumentsProofs`, `NodeProofs`, `UnsafeTreeProofs`, `TraversalProofs`, `LoopProofs` and
`TreeListProofs`.
An operator whose comment begins with
"Mutant" is the code with a plausible error; no specification uses it.
`PROJECT.json` names the property that finds each.
