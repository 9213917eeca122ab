---------------------------- MODULE ProcessTree ----------------------------
(***************************************************************************)
(* The process tree and the random path searcher, the default one.  Every  *)
(* execution state is at a leaf of a binary tree: a fork splits the leaf,  *)
(* the end of a state removes it together with the ancestors that have no  *)
(* child left.  selectState walks down from the root to a node with a      *)
(* state, turning left or right at random.                                 *)
(*                                                                         *)
(* Addresses of deleted nodes and states are reused by the allocator; the  *)
(* fields of what is deleted are null in the model, which nobody reads.    *)
(* The loop of remove and the loop of selectState take a step per          *)
(* iteration; nothing else happens meanwhile.                              *)
(***************************************************************************)
EXTENDS Naturals, FiniteSets

CONSTANTS
  Nodes,    \* addresses of PTreeNodes (bound)
  States,   \* addresses of execution states (bound)
  Root,     \* processTree->root
  Initial,  \* the initial execution state
  NoNode,   \* null pointers
  NoState

ASSUME PointersAssumption ==
  /\ Root \in Nodes /\ NoNode \notin Nodes
  /\ Initial \in States /\ NoState \notin States

VARIABLES
  nodes,       \* PTreeNodes that are allocated
  parent, left, right, data,  \* their fields
  live,        \* execution states that are allocated
  ptreeNode,   \* ExecutionState::ptreeNode
  current,     \* the selected state
  addedStates, \* what its instruction forked
  removing,    \* n in PTree::remove, NoNode outside
  at,          \* n in RandomPathSearcher::selectState
  phase        \* "select", "execute", "update", "aborted" (an assert)

treeVars == <<nodes, parent, left, right, data>>
stateVars == <<live, ptreeNode, current, addedStates>>
vars == <<treeVars, stateVars, removing, at, phase>>

Leaf(n) == left[n] = NoNode /\ right[n] = NoNode

\* The tree of the initial state alone.
Init ==
  /\ nodes = {Root}
  /\ parent = [n \in Nodes |-> NoNode]
  /\ left = [n \in Nodes |-> NoNode] /\ right = [n \in Nodes |-> NoNode]
  /\ data = [n \in Nodes |-> IF n = Root THEN Initial ELSE NoState]
  /\ live = {Initial}
  /\ ptreeNode = [s \in States |-> IF s = Initial THEN Root ELSE NoNode]
  /\ current = NoState /\ addedStates = {} /\ removing = NoNode
  /\ at = Root /\ phase = "select"

-----------------------------------------------------------------------------
(* RandomPathSearcher::selectState *)

\* Mutant of turn: the left child is taken whether it is there or not.
turnLeft(n) == {left[n]}

\* where the walk can go from a node without a state
turn(n) == IF left[n] = NoNode THEN {right[n]}
           ELSE IF right[n] = NoNode THEN {left[n]}
           ELSE {left[n], right[n]}

walk ==
  /\ phase = "select" /\ at \in nodes /\ data[at] = NoState
  /\ at' \in turn(at)
  /\ UNCHANGED <<treeVars, stateVars, removing, phase>>

selectState ==
  /\ phase = "select" /\ at \in nodes /\ data[at] # NoState
  /\ current' = data[at]
  /\ phase' = "execute"
  /\ UNCHANGED <<treeVars, live, ptreeNode, addedStates, removing, at>>

-----------------------------------------------------------------------------
(* The instruction *)

Executing == phase = "execute" /\ removing = NoNode

\* Mutant of SplitData: the forked state is still the data of the split node.
SplitDataKept(s, t, l, r) == [data EXCEPT ![l] = t, ![r] = s]

SplitData(s, t, l, r) ==
  [data EXCEPT ![ptreeNode[s]] = NoState, ![l] = t, ![r] = s]

\* Mutant of split: s stays at the node that was split.
splitKeepsPointer(s, t, l, r) ==
  LET n == ptreeNode[s] IN
  /\ nodes' = nodes \cup {l, r}
  /\ parent' = [parent EXCEPT ![l] = n, ![r] = n]
  /\ left' = [left EXCEPT ![n] = l, ![l] = NoNode, ![r] = NoNode]
  /\ right' = [right EXCEPT ![n] = r, ![l] = NoNode, ![r] = NoNode]
  /\ data' = SplitData(s, t, l, r)
  /\ ptreeNode' = [ptreeNode EXCEPT ![t] = l]

\* PTree::split at the node of s: t gets the left child and s the right one
split(s, t, l, r) ==
  LET n == ptreeNode[s] IN
  /\ nodes' = nodes \cup {l, r}
  /\ parent' = [parent EXCEPT ![l] = n, ![r] = n]
  /\ left' = [left EXCEPT ![n] = l, ![l] = NoNode, ![r] = NoNode]
  /\ right' = [right EXCEPT ![n] = r, ![l] = NoNode, ![r] = NoNode]
  /\ data' = SplitData(s, t, l, r)
  /\ ptreeNode' = [ptreeNode EXCEPT ![t] = l, ![s] = r]

\* fork, branch and handleTimingObservationPoint: t is a copy of s.  split
\* asserts that the node of s is a leaf.
fork(s, t, l, r) ==
  /\ Executing
  /\ s \in {current} \cup addedStates /\ t \in States \ live
  /\ l \in Nodes \ nodes /\ r \in Nodes \ nodes /\ l # r
  /\ split(s, t, l, r)
  /\ phase' = IF Leaf(ptreeNode[s]) THEN "execute" ELSE "aborted"
  /\ live' = live \cup {t} /\ addedStates' = addedStates \cup {t}
  /\ UNCHANGED <<current, removing, at>>

\* delete s and PTree::remove of its node, which asserts that it is a leaf
delete(s) ==
  /\ live' = live \ {s} /\ addedStates' = addedStates \ {s}
  /\ removing' = ptreeNode[s]
  /\ phase' = IF Leaf(ptreeNode[s]) THEN phase ELSE "aborted"
  /\ ptreeNode' = [ptreeNode EXCEPT ![s] = NoNode]
  /\ UNCHANGED <<treeVars, current, at>>

\* terminateState of a state that this instruction forked
terminateAdded(s) ==
  /\ Executing
  /\ s \in addedStates
  /\ delete(s)

\* updateStates begins: the forked states are members of states now.
updateStates ==
  /\ Executing
  /\ phase' = "update"
  /\ addedStates' = {}
  /\ UNCHANGED <<treeVars, live, ptreeNode, current, removing, at>>

Updating == phase = "update" /\ removing = NoNode

\* A state in removedStates: the current one, one that was killed at the memory
\* cap, or, when the run was halted, any that is left (doDumpStates).
deleteRemoved(s) ==
  /\ Updating
  /\ s \in live
  /\ delete(s)

\* The next iteration of the loop in run, while there are states.
nextStep ==
  /\ Updating /\ live # {}
  /\ at' = Root
  /\ phase' = "select"
  /\ current' = NoState
  /\ UNCHANGED <<treeVars, live, ptreeNode, addedStates, removing>>

-----------------------------------------------------------------------------
(* PTree::remove *)

\* Mutant of climbs: ancestors without a child stay.
climbsNever(n, p) == FALSE

\* while (n && !n->left && !n->right), with n set to its parent p, which has
\* just lost the child n
climbs(n, p) == p # NoNode /\ {left[p], right[p]} \subseteq {n, NoNode}

\* What is left of the children of p when n is taken out.
leftWithout(n, p) == IF p # NoNode /\ n = left[p]
                       THEN [left EXCEPT ![p] = NoNode] ELSE left

rightWithout(n, p) == IF p # NoNode /\ n # left[p]
                        THEN [right EXCEPT ![p] = NoNode] ELSE right

\* One iteration; what is no left child is asserted to be the right one.
remove ==
  LET n == removing
      p == parent[n]
  IN
  /\ removing # NoNode /\ phase # "aborted"
  /\ nodes' = nodes \ {n}
  /\ parent' = [parent EXCEPT ![n] = NoNode]
  /\ data' = [data EXCEPT ![n] = NoState]
  /\ left' = leftWithout(n, p) /\ right' = rightWithout(n, p)
  /\ removing' = IF climbs(n, p) THEN p ELSE NoNode
  /\ phase' = IF p = NoNode \/ n \in {left[p], right[p]} THEN phase ELSE "aborted"
  /\ UNCHANGED <<stateVars, at>>

Next ==
  \/ walk
  \/ selectState
  \/ \E s, t \in States, l, r \in Nodes : fork(s, t, l, r)
  \/ \E s \in States : terminateAdded(s)
  \/ updateStates
  \/ \E s \in States : deleteRemoved(s)
  \/ nextStep
  \/ remove

Spec == Init /\ [][Next]_vars

\* The loop of selectState runs on until it returns.
FairSpec == Spec /\ WF_vars(walk \/ selectState)

-----------------------------------------------------------------------------
(* Properties *)

TypeOK ==
  /\ nodes \subseteq Nodes
  /\ parent \in [Nodes -> Nodes \cup {NoNode}]
  /\ left \in [Nodes -> Nodes \cup {NoNode}]
  /\ right \in [Nodes -> Nodes \cup {NoNode}]
  /\ data \in [Nodes -> States \cup {NoState}]
  /\ live \subseteq States
  /\ ptreeNode \in [States -> Nodes \cup {NoNode}]
  /\ current \in States \cup {NoState} /\ addedStates \subseteq States
  /\ removing \in Nodes \cup {NoNode}
  /\ at \in Nodes \cup {NoNode}
  /\ phase \in {"select", "execute", "update", "aborted"}

\* The walk of selectState dereferences neither a null pointer nor a deleted
\* node: remove leaves no node without a state and without a child, in
\* whatever order states are forked and removed, addresses reused.
WalkStaysInTree == phase = "select" => at \in nodes

\* The state that the walk returns was not deleted.
SelectsLiveState == phase = "execute" => current \in live

\* The asserts of split and remove hold.
TreeAssertsHold == phase # "aborted"

\* The walk can reach every execution state: it is at a node of the tree that
\* is linked with its parent, and no other state is there.
StatesAreInTree ==
  removing = NoNode =>
    /\ \A s \in live : ptreeNode[s] \in nodes /\ data[ptreeNode[s]] = s
    /\ \A n \in nodes \ {Root} :
         parent[n] \in nodes /\ n \in {left[parent[n]], right[parent[n]]}

\* The walk ends: every selectState returns a state.
WalkEnds == phase = "select" ~> phase = "execute"
=============================================================================
