------------------------- MODULE ProcessTreeProofs -------------------------
(***************************************************************************)
(* Proofs about ProcessTree, for any number of nodes and states: the walk  *)
(* of the random path searcher never leaves the tree, and the asserts of   *)
(* split and remove hold.                                                  *)
(***************************************************************************)
EXTENDS ProcessTree, TLAPS

\* Parents and children know each other.
LinksInv ==
  /\ parent[Root] = NoNode
  /\ \A n \in nodes :
       /\ left[n] # NoNode => left[n] \in nodes /\ parent[left[n]] = n
       /\ right[n] # NoNode => right[n] \in nodes /\ parent[right[n]] = n
       /\ left[n] # NoNode => left[n] # right[n]
       /\ n # Root => /\ parent[n] \in nodes
                      /\ n \in {left[parent[n]], right[parent[n]]}

\* There is no part of the tree that is cut off from the root, or in a circle.
RootedInv ==
  \A S \in SUBSET nodes :
    S # {} /\ (\A n \in S \ {Root} : parent[n] \in S) => Root \in S

\* The leaves are the nodes of the live states, except the one that remove is
\* about to delete.
DataInv ==
  /\ \A n \in nodes \ {removing} :
       /\ Leaf(n) => data[n] \in live /\ ptreeNode[data[n]] = n
       /\ ~Leaf(n) => data[n] = NoState
  /\ removing # NoNode =>
       removing \in nodes /\ Leaf(removing) /\ data[removing] \notin live
  /\ \A s \in live : ptreeNode[s] \in nodes /\ data[ptreeNode[s]] = s

\* What may be deleted, and where the walk is.
PhaseInv ==
  /\ addedStates \subseteq live
  /\ phase # "execute" => addedStates = {}
  /\ phase = "execute" => current \in live \ addedStates
  /\ phase = "select" => at \in nodes /\ removing = NoNode
  /\ phase # "aborted"

IInv == TypeOK /\ LinksInv /\ RootedInv /\ DataInv /\ PhaseInv

\* The tree of one node.
LEMMA InitInv == Init => IInv
<1> SUFFICES ASSUME Init PROVE IInv
  OBVIOUS
<1> USE PointersAssumption DEF Init, Leaf
<1>1. TypeOK
  BY DEF TypeOK
<1>2. LinksInv
  BY DEF LinksInv
<1>3. RootedInv
  BY DEF RootedInv
<1>4. DataInv
  BY DEF DataInv
<1>5. PhaseInv
  BY DEF PhaseInv
<1> QED
  BY <1>1, <1>2, <1>3, <1>4, <1>5 DEF IInv

\* A node without a state has a child, and the walk goes there.
LEMMA WalkInv == ASSUME IInv, walk PROVE IInv'
<1> USE PointersAssumption DEF walk, treeVars, stateVars
<1>1. ~Leaf(at)
  BY DEF IInv, TypeOK, DataInv, PhaseInv
<1>2. at' \in nodes
  BY <1>1 DEF IInv, LinksInv, Leaf, turn
<1>3. TypeOK'
  BY <1>2 DEF IInv, TypeOK
<1>4. LinksInv' /\ RootedInv' /\ DataInv'
  BY DEF IInv, LinksInv, RootedInv, DataInv, Leaf
<1>5. PhaseInv'
  BY <1>2 DEF IInv, PhaseInv
<1> QED
  BY <1>3, <1>4, <1>5 DEF IInv

\* Only leaves hold a state, and only one that is live.
LEMMA SelectInv == ASSUME IInv, selectState PROVE IInv'
<1> USE PointersAssumption DEF selectState, treeVars
<1>1. data[at] \in live
  BY DEF IInv, DataInv, PhaseInv, TypeOK
<1>2. TypeOK'
  BY <1>1 DEF IInv, TypeOK
<1>3. LinksInv' /\ RootedInv' /\ DataInv'
  BY DEF IInv, LinksInv, RootedInv, DataInv, Leaf
<1>4. PhaseInv'
  BY <1>1 DEF IInv, PhaseInv
<1> QED
  BY <1>2, <1>3, <1>4 DEF IInv

\* The new leaves take the states of the old one.
LEMMA ForkInv ==
  ASSUME IInv, NEW s \in States, NEW t \in States, NEW l \in Nodes, NEW r \in Nodes,
         fork(s, t, l, r)
  PROVE  IInv'
<1> DEFINE n == ptreeNode[s]
<1> USE PointersAssumption DEF fork, Executing, split, SplitData
<1>1. s \in live /\ n \in nodes /\ data[n] = s /\ t # s
  BY DEF IInv, DataInv, PhaseInv
<1>2. Leaf(n) /\ n \in Nodes /\ n # l /\ n # r /\ n # NoNode
  BY <1>1 DEF IInv, TypeOK, DataInv
<1> HIDE DEF n
<1>3. /\ nodes' = nodes \cup {l, r} /\ l \notin nodes /\ r \notin nodes /\ l # r
      /\ parent' = [parent EXCEPT ![l] = n, ![r] = n]
      /\ left' = [left EXCEPT ![n] = l, ![l] = NoNode, ![r] = NoNode]
      /\ right' = [right EXCEPT ![n] = r, ![l] = NoNode, ![r] = NoNode]
      /\ data' = [data EXCEPT ![n] = NoState, ![l] = t, ![r] = s]
      /\ ptreeNode' = [ptreeNode EXCEPT ![t] = l, ![s] = r]
      /\ live' = live \cup {t} /\ t \notin live
  BY DEF n
<1>4. TypeOK'
  BY <1>1, <1>2, <1>3 DEF IInv, TypeOK, n
<1>5. LinksInv'
  <2>1. parent'[Root] = NoNode
    <3>1. Root \in nodes
      <4>1. nodes # {} /\ \A m \in nodes \ {Root} : parent[m] \in nodes
        BY <1>1 DEF IInv, LinksInv
      <4> QED
        BY <4>1 DEF IInv, RootedInv
    <3> QED
      BY <3>1, <1>3 DEF IInv, TypeOK, LinksInv
  <2>2. ASSUME NEW m \in nodes, m # n
        PROVE  /\ left'[m] = left[m] /\ right'[m] = right[m] /\ parent'[m] = parent[m]
    BY <1>2, <1>3, <2>2 DEF IInv, TypeOK
  <2>3. left'[n] = l /\ right'[n] = r /\ parent'[n] = parent[n]
    BY <1>1, <1>2, <1>3 DEF IInv, TypeOK
  <2>4. /\ left'[l] = NoNode /\ right'[l] = NoNode /\ parent'[l] = n
        /\ left'[r] = NoNode /\ right'[r] = NoNode /\ parent'[r] = n
    BY <1>2, <1>3 DEF IInv, TypeOK
  <2>5. ASSUME NEW m \in nodes'
        PROVE  /\ left'[m] # NoNode => left'[m] \in nodes' /\ parent'[left'[m]] = m
               /\ right'[m] # NoNode => right'[m] \in nodes' /\ parent'[right'[m]] = m
               /\ left'[m] # NoNode => left'[m] # right'[m]
    <3>1. CASE m = n
      BY <3>1, <2>3, <2>4, <1>3
    <3>2. CASE m \in {l, r}
      BY <3>2, <2>4
    <3>3. CASE m \in nodes /\ m # n
      <4>1. /\ left[m] # NoNode => left[m] \in nodes /\ parent[left[m]] = m
            /\ right[m] # NoNode => right[m] \in nodes /\ parent[right[m]] = m
            /\ left[m] # NoNode => left[m] # right[m]
        BY <3>3 DEF IInv, LinksInv
      <4> QED
        BY <4>1, <3>3, <2>2, <2>3, <1>3
    <3> QED
      BY <3>1, <3>2, <3>3, <1>3
  <2>6. ASSUME NEW m \in nodes', m # Root
        PROVE  parent'[m] \in nodes' /\ m \in {left'[parent'[m]], right'[parent'[m]]}
    <3>1. CASE m \in {l, r}
      BY <3>1, <2>3, <2>4, <1>1, <1>3
    <3>2. CASE m \in nodes
      <4>1. parent[m] \in nodes /\ m \in {left[parent[m]], right[parent[m]]}
        BY <3>2, <2>6 DEF IInv, LinksInv
      <4>2. m \in Nodes
        BY <3>2 DEF IInv, TypeOK
      <4>3. parent[m] # n
        BY <4>1, <4>2, <1>2 DEF Leaf
      <4>4. parent'[m] = parent[m]
        BY <3>2, <2>2, <2>3
      <4>5. /\ left'[parent[m]] = left[parent[m]]
            /\ right'[parent[m]] = right[parent[m]]
        BY <4>1, <4>3, <2>2
      <4> QED
        BY <4>1, <4>4, <4>5, <1>3
    <3> QED
      BY <3>1, <3>2, <1>3
  <2> QED
    BY <2>1, <2>5, <2>6 DEF LinksInv
<1>6. RootedInv'
  <2> SUFFICES ASSUME NEW S \in SUBSET nodes', S # {},
                      \A m \in S \ {Root} : parent'[m] \in S
               PROVE  Root \in S
    BY DEF RootedInv
  <2> DEFINE T == S \ {l, r}
  <2>1. parent'[l] = n /\ parent'[r] = n
    BY <1>2, <1>3 DEF IInv, TypeOK
  <2>2. CASE Root \in {l, r} /\ Root \in S
    BY <2>2
  <2>3. CASE Root \notin S
    <3>1. T # {}
      BY <2>1, <2>3, <1>2
    <3>2. \A m \in T \ {Root} : parent[m] \in T
      <4> SUFFICES ASSUME NEW m \in T, m # Root PROVE parent[m] \in T
        OBVIOUS
      <4>1. m \in nodes /\ m \in Nodes /\ parent'[m] = parent[m] /\ parent[m] \in S
        BY <1>3 DEF IInv, TypeOK
      <4>2. parent[m] \in nodes
        BY <4>1 DEF IInv, LinksInv
      <4> QED
        BY <4>1, <4>2, <1>3
    <3>3. T \in SUBSET nodes
      BY <1>3
    <3> QED
      BY <3>1, <3>2, <3>3 DEF IInv, RootedInv
  <2> QED
    BY <2>2, <2>3
<1>7. DataInv'
  <2>1. removing' = NoNode /\ removing = NoNode
    OBVIOUS
  <2>2. \A m \in nodes' : /\ Leaf(m)' => data'[m] \in live' /\ ptreeNode'[data'[m]] = m
                          /\ ~Leaf(m)' => data'[m] = NoState
    <3> SUFFICES ASSUME NEW m \in nodes'
                 PROVE  /\ Leaf(m)' => data'[m] \in live' /\ ptreeNode'[data'[m]] = m
                        /\ ~Leaf(m)' => data'[m] = NoState
      OBVIOUS
    <3>1. CASE m = n
      BY <3>1, <1>1, <1>2, <1>3 DEF IInv, TypeOK, Leaf
    <3>2. CASE m \in {l, r}
      BY <3>2, <1>1, <1>2, <1>3 DEF IInv, TypeOK, Leaf
    <3>3. CASE m \in nodes /\ m # n
      <4>1. /\ m \in Nodes /\ m \notin {l, r, n, removing}
            /\ left'[m] = left[m] /\ right'[m] = right[m] /\ data'[m] = data[m]
        BY <3>3, <2>1, <1>2, <1>3 DEF IInv, TypeOK
      <4>2. Leaf(m)' <=> Leaf(m)
        BY <4>1 DEF Leaf
      <4>3. CASE Leaf(m)
        <5>1. data[m] \in live /\ ptreeNode[data[m]] = m
          BY <4>3, <3>3, <4>1 DEF IInv, DataInv
        <5>2. data[m] # s /\ data[m] # t /\ data[m] \in States
          BY <5>1, <3>3, <1>3 DEF n, IInv, TypeOK
        <5> QED
          BY <5>1, <5>2, <4>1, <4>2, <4>3, <1>3 DEF IInv, TypeOK
      <4>4. CASE ~Leaf(m)
        BY <4>4, <4>1, <4>2, <3>3 DEF IInv, DataInv
      <4> QED
        BY <4>3, <4>4
    <3> QED
      BY <3>1, <3>2, <3>3, <1>3
  <2>3. \A x \in live' : ptreeNode'[x] \in nodes' /\ data'[ptreeNode'[x]] = x
    <3> SUFFICES ASSUME NEW x \in live'
                 PROVE  ptreeNode'[x] \in nodes' /\ data'[ptreeNode'[x]] = x
      OBVIOUS
    <3>1. CASE x \in {s, t}
      BY <3>1, <1>1, <1>2, <1>3 DEF IInv, TypeOK
    <3>2. CASE x \in live /\ x # s
      <4>1. ptreeNode[x] \in nodes /\ data[ptreeNode[x]] = x /\ ptreeNode[x] # n
        BY <3>2, <1>1 DEF IInv, DataInv
      <4>2. x # t /\ x \in States
        BY <3>2, <1>3 DEF IInv, TypeOK
      <4> QED
        BY <3>2, <4>1, <4>2, <1>3 DEF IInv, TypeOK
    <3> QED
      BY <3>1, <3>2, <1>3
  <2> QED
    BY <2>1, <2>2, <2>3 DEF DataInv
<1>8. PhaseInv'
  <2>1. phase' = "execute"
    BY <1>2 DEF n
  <2> QED
    BY <2>1, <1>1, <1>3 DEF IInv, PhaseInv
<1> QED
  BY <1>4, <1>5, <1>6, <1>7, <1>8 DEF IInv

\* Deleting a state leaves its leaf to remove.
LEMMA DeleteInv ==
  ASSUME IInv, NEW s \in live, removing = NoNode, delete(s),
         phase \in {"execute", "update"},
         phase = "execute" => s \in addedStates
  PROVE  IInv'
<1> DEFINE n == ptreeNode[s]
<1> USE PointersAssumption DEF delete, treeVars
<1>1. n \in nodes /\ data[n] = s /\ n # NoNode /\ s \in States
  BY DEF IInv, DataInv, TypeOK
<1>2. Leaf(n) /\ phase' = phase /\ removing' = n
  BY <1>1 DEF IInv, DataInv, TypeOK
<1>3. \A x \in live' : x \in live /\ x # s /\ ptreeNode'[x] = ptreeNode[x]
  BY DEF IInv, TypeOK
<1>4. TypeOK'
  BY <1>2 DEF IInv, TypeOK
<1>5. LinksInv' /\ RootedInv'
  BY DEF IInv, LinksInv, RootedInv
<1>6. DataInv'
  <2>1. ASSUME NEW m \in nodes \ {n}
        PROVE  /\ Leaf(m)' => data'[m] \in live' /\ ptreeNode'[data'[m]] = m
               /\ ~Leaf(m)' => data'[m] = NoState
    <3>1. Leaf(m)' <=> Leaf(m)
      BY DEF Leaf
    <3>2. CASE Leaf(m)
      <4>1. data[m] \in live /\ ptreeNode[data[m]] = m /\ data[m] # s
        BY <3>2, <1>1 DEF IInv, DataInv, TypeOK
      <4> QED
        BY <4>1, <3>1, <3>2, <1>3 DEF IInv, TypeOK
    <3>3. CASE ~Leaf(m)
      BY <3>1, <3>3 DEF IInv, DataInv, TypeOK
    <3> QED
      BY <3>2, <3>3
  <2>2. n \in nodes' /\ left'[n] = NoNode /\ right'[n] = NoNode /\ data'[n] \notin live'
    BY <1>1, <1>2, <1>3 DEF Leaf
  <2>3. \A x \in live' : ptreeNode'[x] \in nodes' /\ data'[ptreeNode'[x]] = x
    BY <1>3 DEF IInv, DataInv
  <2> QED
    BY <2>1, <2>2, <2>3, <1>2 DEF DataInv, Leaf
<1>7. PhaseInv'
  BY <1>2 DEF IInv, PhaseInv
<1> QED
  BY <1>4, <1>5, <1>6, <1>7 DEF IInv

LEMMA UpdateInv == ASSUME IInv, updateStates PROVE IInv'
<1> USE PointersAssumption DEF updateStates, treeVars, Executing
<1>1. TypeOK'
  BY DEF IInv, TypeOK
<1>2. LinksInv' /\ RootedInv' /\ DataInv'
  BY DEF IInv, LinksInv, RootedInv, DataInv, Leaf
<1>3. PhaseInv'
  BY DEF IInv, PhaseInv
<1> QED
  BY <1>1, <1>2, <1>3 DEF IInv

\* As long as there is a state, the root is still there.
LEMMA NextStepInv == ASSUME IInv, nextStep PROVE IInv'
<1> USE PointersAssumption DEF nextStep, treeVars, Updating
<1>1. Root \in nodes
  <2>1. nodes # {}
    BY DEF IInv, DataInv
  <2>2. \A m \in nodes \ {Root} : parent[m] \in nodes
    BY DEF IInv, LinksInv
  <2> QED
    BY <2>1, <2>2 DEF IInv, RootedInv
<1>2. TypeOK'
  BY DEF IInv, TypeOK
<1>3. LinksInv' /\ RootedInv' /\ DataInv'
  BY DEF IInv, LinksInv, RootedInv, DataInv, Leaf
<1>4. PhaseInv'
  BY <1>1 DEF IInv, PhaseInv
<1> QED
  BY <1>2, <1>3, <1>4 DEF IInv

\* Taking the leaf n out: its parent p, if it has no child left, is next.
LEMMA RemoveInv == ASSUME IInv, remove PROVE IInv'
<1> DEFINE n == removing
           p == parent[n]
<1> USE PointersAssumption DEF remove, leftWithout, rightWithout, stateVars
<1>1. n \in nodes /\ n \in Nodes /\ n # NoNode /\ Leaf(n) /\ data[n] \notin live
  BY DEF IInv, DataInv, TypeOK
<1>2. p = NoNode \/ (p \in nodes /\ p \in Nodes /\ p # n /\ n \in {left[p], right[p]})
  BY <1>1 DEF IInv, LinksInv, TypeOK, Leaf
<1>3. phase' = phase
  BY <1>2
<1>4. /\ nodes' = nodes \ {n}
      /\ parent' = [parent EXCEPT ![n] = NoNode]
      /\ data' = [data EXCEPT ![n] = NoState]
      /\ left' = IF p # NoNode /\ n = left[p]
                   THEN [left EXCEPT ![p] = NoNode] ELSE left
      /\ right' = IF p # NoNode /\ n # left[p]
                    THEN [right EXCEPT ![p] = NoNode] ELSE right
      /\ removing' = IF climbs(n, p) THEN p ELSE NoNode
  OBVIOUS
<1> HIDE DEF n, p
\* nodes other than p keep their children, all but n their parent and state
<1>5. ASSUME NEW m \in nodes'
      PROVE  /\ m \in nodes /\ m \in Nodes /\ m # n
             /\ parent'[m] = parent[m] /\ data'[m] = data[m]
             /\ m # p => left'[m] = left[m] /\ right'[m] = right[m]
  BY <1>1, <1>2, <1>4 DEF IInv, TypeOK
<1>6. ASSUME p # NoNode
      PROVE  \/ n = left[p] /\ left'[p] = NoNode /\ right'[p] = right[p]
             \/ n = right[p] /\ n # left[p] /\ right'[p] = NoNode /\ left'[p] = left[p]
  BY <1>2, <1>4, <1>6 DEF IInv, TypeOK
<1>7. TypeOK'
  BY <1>1, <1>2, <1>3, <1>4 DEF IInv, TypeOK
<1>8. LinksInv'
  <2>1. parent'[Root] = NoNode
    BY <1>4 DEF IInv, LinksInv, TypeOK
  <2>2. ASSUME NEW m \in nodes'
        PROVE  /\ left'[m] # NoNode => left'[m] \in nodes' /\ parent'[left'[m]] = m
               /\ right'[m] # NoNode => right'[m] \in nodes' /\ parent'[right'[m]] = m
               /\ left'[m] # NoNode => left'[m] # right'[m]
    <3>1. /\ left[m] # NoNode => left[m] \in nodes /\ parent[left[m]] = m
          /\ right[m] # NoNode => right[m] \in nodes /\ parent[right[m]] = m
          /\ left[m] # NoNode => left[m] # right[m]
      BY <1>5 DEF IInv, LinksInv
    <3>2. CASE m = p
      <4>1. p # NoNode
        BY <3>2, <1>5
      <4>2. CASE n = left[p] /\ left'[p] = NoNode /\ right'[p] = right[p]
        BY <4>2, <3>1, <3>2, <1>1, <1>4, <1>5
      <4>3. CASE n = right[p] /\ n # left[p] /\ right'[p] = NoNode /\ left'[p] = left[p]
        BY <4>3, <3>1, <3>2, <1>1, <1>4, <1>5
      <4> QED
        BY <4>1, <4>2, <4>3, <1>6
    <3>3. CASE m # p
      <4>1. left[m] # n /\ right[m] # n
        BY <3>1, <3>3, <1>1 DEF p
      <4> QED
        BY <4>1, <3>1, <3>3, <1>4, <1>5
    <3> QED
      BY <3>2, <3>3
  <2>3. ASSUME NEW m \in nodes', m # Root
        PROVE  parent'[m] \in nodes' /\ m \in {left'[parent'[m]], right'[parent'[m]]}
    <3>1. parent[m] \in nodes /\ m \in {left[parent[m]], right[parent[m]]}
      BY <1>5, <2>3 DEF IInv, LinksInv
    <3>2. parent[m] # n
      BY <3>1, <1>1, <1>5 DEF Leaf
    <3>3. parent'[m] \in nodes' /\ parent'[m] = parent[m]
      BY <3>1, <3>2, <1>4, <1>5
    <3>4. CASE parent[m] = p
      BY <3>1, <3>3, <3>4, <1>5, <1>6
    <3>5. CASE parent[m] # p
      BY <3>1, <3>3, <3>5, <1>5
    <3> QED
      BY <3>4, <3>5
  <2> QED
    BY <2>1, <2>2, <2>3 DEF LinksInv
<1>9. RootedInv'
  <2> SUFFICES ASSUME NEW S \in SUBSET nodes', S # {},
                      \A m \in S \ {Root} : parent'[m] \in S
               PROVE  Root \in S
    BY DEF RootedInv
  <2>1. S \in SUBSET nodes /\ \A m \in S \ {Root} : parent[m] \in S
    BY <1>4, <1>5
  <2> QED
    BY <2>1 DEF IInv, RootedInv
<1>10. DataInv'
  <2>1. ASSUME p # NoNode
        PROVE  data[p] = NoState /\ ~Leaf(p)
    <3>1. ~Leaf(p)
      BY <1>1, <1>2, <2>1 DEF Leaf
    <3> QED
      BY <3>1, <1>2, <2>1 DEF IInv, DataInv, n
  <2>2. ASSUME p # NoNode
        PROVE  climbs(n, p) <=> left'[p] = NoNode /\ right'[p] = NoNode
    <3>1. LinksInv /\ p \in nodes
      BY <1>2, <2>2 DEF IInv
    <3> QED
      BY <3>1, <1>1, <1>6, <2>2 DEF climbs, Leaf, LinksInv
  <2>3. ASSUME NEW m \in nodes' \ {removing'}
        PROVE  /\ Leaf(m)' => data'[m] \in live' /\ ptreeNode'[data'[m]] = m
               /\ ~Leaf(m)' => data'[m] = NoState
    <3>1. CASE m = p
      <4>1. ~Leaf(m)'
        BY <3>1, <2>2, <2>3, <1>4, <1>5 DEF Leaf
      <4> QED
        BY <4>1, <3>1, <2>1, <1>5
    <3>2. CASE m # p
      <4>1. Leaf(m)' <=> Leaf(m)
        BY <3>2, <1>5 DEF Leaf
      <4>2. m \in nodes \ {removing}
        BY <1>5 DEF n
      <4> QED
        BY <4>1, <4>2, <1>5 DEF IInv, DataInv
    <3> QED
      BY <3>1, <3>2
  <2>4. removing' # NoNode =>
          removing' \in nodes' /\ Leaf(removing)' /\ data'[removing'] \notin live'
    <3> SUFFICES ASSUME removing' # NoNode
                 PROVE  removing' \in nodes' /\ Leaf(removing)' /\ data'[removing'] \notin live'
      OBVIOUS
    <3>1. removing' = p /\ p # NoNode /\ climbs(n, p)
      BY <1>4
    <3>2. left'[p] = NoNode /\ right'[p] = NoNode /\ p \in nodes' /\ data[p] = NoState
      BY <3>1, <2>1, <2>2, <1>2, <1>4
    <3>3. NoState \notin live'
      BY DEF IInv, TypeOK
    <3> QED
      BY <3>1, <3>2, <3>3, <1>5 DEF Leaf
  <2>5. \A x \in live' : ptreeNode'[x] \in nodes' /\ data'[ptreeNode'[x]] = x
    <3> SUFFICES ASSUME NEW x \in live
                 PROVE  ptreeNode[x] \in nodes' /\ data'[ptreeNode[x]] = x
      OBVIOUS
    <3>1. ptreeNode[x] \in nodes /\ data[ptreeNode[x]] = x
      BY DEF IInv, DataInv
    <3> QED
      BY <3>1, <1>1, <1>4, <1>5
  <2> QED
    BY <2>3, <2>4, <2>5 DEF DataInv
<1>11. PhaseInv'
  <2>1. phase # "select"
    BY <1>1 DEF IInv, PhaseInv, n
  <2> QED
    BY <2>1, <1>3 DEF IInv, PhaseInv
<1> QED
  BY <1>7, <1>8, <1>9, <1>10, <1>11 DEF IInv

\* The inductive invariant.
THEOREM Invariant == Spec => []IInv
<1>1. Init => IInv
  BY InitInv
<1>2. IInv /\ [Next]_vars => IInv'
  <2> SUFFICES ASSUME IInv, [Next]_vars PROVE IInv'
    OBVIOUS
  <2>1. CASE walk
    BY <2>1, WalkInv
  <2>2. CASE selectState
    BY <2>2, SelectInv
  <2>3. ASSUME NEW s \in States, NEW t \in States, NEW l \in Nodes, NEW r \in Nodes,
               fork(s, t, l, r)
        PROVE  IInv'
    BY <2>3, ForkInv
  <2>4. ASSUME NEW s \in States, terminateAdded(s) PROVE IInv'
    <3>1. s \in live /\ removing = NoNode /\ delete(s) /\ phase = "execute"
      BY <2>4 DEF terminateAdded, Executing, IInv, PhaseInv
    <3>2. s \in addedStates
      BY <2>4 DEF terminateAdded
    <3> QED
      BY <3>1, <3>2, DeleteInv
  <2>5. CASE updateStates
    BY <2>5, UpdateInv
  <2>6. ASSUME NEW s \in States, deleteRemoved(s) PROVE IInv'
    <3>1. s \in live /\ removing = NoNode /\ delete(s) /\ phase = "update"
      BY <2>6 DEF deleteRemoved, Updating
    <3> QED
      BY <3>1, DeleteInv
  <2>7. CASE nextStep
    BY <2>7, NextStepInv
  <2>8. CASE remove
    BY <2>8, RemoveInv
  <2>9. CASE UNCHANGED vars
    BY <2>9 DEF vars, treeVars, stateVars, IInv, TypeOK, LinksInv, RootedInv,
                DataInv, PhaseInv, Leaf
  <2> QED
    BY <2>1, <2>2, <2>3, <2>4, <2>5, <2>6, <2>7, <2>8, <2>9 DEF Next
<1> QED
  BY <1>1, <1>2, PTL DEF Spec

\* Types of the tree's fields.
THEOREM TypeCorrect == Spec => []TypeOK
<1>1. IInv => TypeOK
  BY DEF IInv
<1> QED
  BY <1>1, Invariant, PTL

\* RandomPathSearcher::selectState follows no null pointer and no pointer to a
\* deleted node.
THEOREM WalkIsSafe == Spec => []WalkStaysInTree
<1>1. IInv => WalkStaysInTree
  BY DEF IInv, PhaseInv, WalkStaysInTree
<1> QED
  BY <1>1, Invariant, PTL

\* What it returns is a state that was not deleted.
THEOREM SelectionIsLive == Spec => []SelectsLiveState
<1>1. IInv => SelectsLiveState
  BY DEF IInv, PhaseInv, SelectsLiveState
<1> QED
  BY <1>1, Invariant, PTL

\* The asserts of PTree::split and PTree::remove hold.
THEOREM AssertsHold == Spec => []TreeAssertsHold
<1>1. IInv => TreeAssertsHold
  BY DEF IInv, PhaseInv, TreeAssertsHold
<1> QED
  BY <1>1, Invariant, PTL

\* No execution state is lost to the searcher.
THEOREM AllStatesInTree == Spec => []StatesAreInTree
<1>1. IInv => StatesAreInTree
  BY DEF IInv, LinksInv, DataInv, StatesAreInTree
<1> QED
  BY <1>1, Invariant, PTL
=============================================================================
