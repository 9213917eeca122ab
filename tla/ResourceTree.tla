---------------------------- MODULE ResourceTree ----------------------------
(***************************************************************************)
(* The side channel analysis.  While the program is explored, a tree of RD *)
(* nodes records what each path costs (ru) and, since its nearest branch   *)
(* on secret data (HA, the high ancestor), on which secret (HC) and public *)
(* (LC) conditions the path depends.  After the run, propagate carries the *)
(* cost of every leaf up to its high ancestors and checkLeakage compares   *)
(* there the costs of paths that differ in secret data only.               *)
(*                                                                         *)
(* A branch condition tests one input, of which both outcomes are          *)
(* possible; a condition is the set of its literals <<input, outcome>>,    *)
(* and a hash stands for the condition itself.  Conditions that mix secret *)
(* and public data are kept whole in LC by the code, as public ones are.   *)
(* A node is named by its path from the root, which replaces stateid.      *)
(***************************************************************************)
EXTENDS Naturals, Sequences, FiniteSets, SequencesExt, TLC

CONSTANTS
  Secrets,     \* inputs declared high
  Publics,     \* inputs declared low (or tested together with high ones)
  Others,      \* symbolic inputs that are neither
  NoRD,        \* a null RD pointer
  Options,     \* command lines that are explored, see OptionsAssumption
  MaxNodes,    \* bound: RD nodes, for each of the options
  MaxExtra     \* bound: instructions on a path that create no node

ASSUME InputsAssumption ==
  /\ Secrets \cap Publics = {} /\ Secrets \cap Others = {}
  /\ Publics \cap Others = {}
  /\ NoRD \notin Seq(0 .. 3)
  /\ MaxNodes \in [Options -> Nat] /\ MaxExtra \in Nat
\* obs:       --timing-obs-point-analysis
\* untrusted: some called functions are listed as untrusted
\* loopBound: --loop-bound
ASSUME OptionsAssumption ==
  Options \subseteq [obs : BOOLEAN, untrusted : BOOLEAN, loopBound : BOOLEAN]

VARIABLES
  opts,       \* the command line
  phase,      \* "run", then "propagate" and "check" per root, then "done"
  rd,         \* the RD nodes
  live,       \* nodes that an execution state is at (rdmap)
  roots,      \* resourceTreeRootList
  pending,    \* roots still to analyse
  root,       \* root that is analysed
  visited,    \* nodes that the recursion on root has finished with
  cursor,     \* the node that climbs in propagate
  Ru,         \* Ru and terminated of each node: hash -> range, count
  sourcev,    \* pairs of hashes that were reported
  reported    \* the violations: node and pair of hashes

runVars == <<opts, rd, live, roots>>
vars == <<runVars, phase, pending, root, visited, cursor, Ru, sourcev, reported>>

Inputs == Secrets \cup Publics \cup Others
Literals == Inputs \X {0, 1}
Hash == [h : SUBSET Literals, l : SUBSET Literals]

succ(n) == {Append(n, i) : i \in 0 .. 3} \cap DOMAIN rd
Below(n) == {m \in DOMAIN rd : IsPrefix(n, m)}
Leaves(n) == {m \in Below(n) : succ(m) = {}}

\* Children of n: the two outcomes of a branch, the copy that ends at an
\* observation point, and the node at which counting starts again.
Branched(n, b) == Append(n, b)
Observed(n) == Append(n, 2)
Restarted(n) == Append(n, 3)

HasRoomFor(k) == Cardinality(DOMAIN rd) + k <= MaxNodes[opts]

newNode(constraints) ==
  [isHBr |-> FALSE, HA |-> NoRD, HC |-> {}, LC |-> {}, ru |-> 0,
   pathterminated |-> FALSE, constraints |-> constraints]

Init ==
  /\ opts \in Options
  /\ phase = "run"
  /\ rd = [n \in {<<>>} |-> newNode({})]
  /\ live = {<<>>} /\ roots = {<<>>}
  /\ pending = {} /\ root = NoRD /\ visited = {} /\ cursor = NoRD
  /\ Ru = <<>> /\ sourcev = {} /\ reported = {}

-----------------------------------------------------------------------------
(* Building the tree: the end of the loop body in run, and calls *)

Running(n) == phase = "run" /\ n \in live

analysisVars == <<phase, pending, root, visited, cursor, Ru, sourcev, reported>>

\* an instruction: currentRD->ru += getTimingCost
Execute(n) ==
  /\ Running(n)
  /\ rd[n].ru < Len(n) + MaxExtra
  /\ rd' = [rd EXCEPT ![n].ru = @ + 1]
  /\ UNCHANGED <<opts, live, roots, analysisVars>>

Undecided(n, v) == \A b \in {0, 1} : <<v, b>> \notin rd[n].constraints

\* lastCondition of the successor with outcome b; with a loop bound both
\* successors are given the condition of the true one
lastCondition(v, b) == IF opts.loopBound THEN <<v, 1>> ELSE <<v, b>>

\* Mutant of Successor: the public conditions before a secret branch are kept.
SuccessorKeepsLC(n, v, b) ==
  LET cond == lastCondition(v, b)
      copy == [rd[n] EXCEPT !.isHBr = FALSE, !.ru = @ + 1,
                            !.constraints = @ \cup {<<v, b>>}]
  IN IF v \in Secrets THEN [copy EXCEPT !.HA = n, !.HC = {cond}]
     ELSE [copy EXCEPT !.LC = @ \cup {cond}]

\* The RD node of a successor.  Conditions that contradict the path, as the
\* wrong one of a false successor does, are dropped (mayBeTrue).
Successor(n, v, b) ==
  LET cond == lastCondition(v, b)
      feasible == cond = <<v, b>>
      copy == [rd[n] EXCEPT !.isHBr = FALSE, !.ru = @ + 1,
                            !.constraints = @ \cup {<<v, b>>}]
  IN IF feasible /\ v \in Secrets
       THEN [copy EXCEPT !.HA = n, !.HC = {cond}, !.LC = {}]
     ELSE IF feasible /\ v \in Publics
       THEN [copy EXCEPT !.LC = @ \cup {cond}]
     ELSE copy

\* A branch with two successors.
Branch(n, v) ==
  /\ Running(n)
  /\ Undecided(n, v) /\ HasRoomFor(2)
  /\ rd' = [m \in DOMAIN rd \cup {Branched(n, 0), Branched(n, 1)} |->
              IF m = n THEN [rd[n] EXCEPT !.isHBr = (v \in Secrets), !.ru = @ + 1]
              ELSE IF m = Branched(n, 0) THEN Successor(n, v, 0)
              ELSE IF m = Branched(n, 1) THEN Successor(n, v, 1)
              ELSE rd[m]]
  /\ live' = (live \ {n}) \cup {Branched(n, 0), Branched(n, 1)}
  /\ UNCHANGED <<opts, roots, analysisVars>>

\* The loop bound is reached for one successor, which is terminated: the
\* other one stays at its node.
BranchCut(n, v, b) ==
  /\ Running(n)
  /\ opts.loopBound /\ Undecided(n, v)
  /\ rd[n].ru < Len(n) + MaxExtra
  /\ rd' = [rd EXCEPT ![n].constraints = @ \cup {<<v, b>>}, ![n].ru = @ + 1]
  /\ UNCHANGED <<opts, live, roots, analysisVars>>

\* handleTimingObservationPoint: a copy of the state ends here
Observation(n) == [rd[n] EXCEPT !.pathterminated = TRUE]

\* The first call of a function below a secret branch (once per node: bound).
ObservationPoint(n) ==
  /\ Running(n)
  /\ opts.obs /\ rd[n].HA # NoRD
  /\ Observed(n) \notin DOMAIN rd /\ HasRoomFor(1)
  /\ rd' = [m \in DOMAIN rd \cup {Observed(n)} |->
              IF m = n THEN [rd[n] EXCEPT !.ru = @ + 1]
              ELSE IF m = Observed(n) THEN Observation(n)
              ELSE rd[m]]
  /\ UNCHANGED <<opts, live, roots, analysisVars>>

\* A call of an untrusted function: also a root of its own for what follows.
UntrustedCall(n) ==
  /\ Running(n)
  /\ opts.untrusted
  /\ Observed(n) \notin DOMAIN rd /\ HasRoomFor(2)
  /\ rd' = [m \in DOMAIN rd \cup {Observed(n), Restarted(n)} |->
              IF m = Observed(n) THEN Observation(n)
              ELSE IF m = Restarted(n)
                THEN [newNode(rd[n].constraints) EXCEPT !.ru = 1]
              ELSE rd[m]]
  /\ live' = (live \ {n}) \cup {Restarted(n)}
  /\ roots' = roots \cup {Restarted(n)}
  /\ UNCHANGED <<opts, analysisVars>>

\* Ret of the entry function
Exit(n) ==
  /\ Running(n)
  /\ rd' = [rd EXCEPT ![n].pathterminated = TRUE]
  /\ live' = live \ {n}
  /\ UNCHANGED <<opts, roots, analysisVars>>

\* an error, a limit, or the end of the run
TerminateEarly(n) ==
  /\ Running(n)
  /\ live' = live \ {n}
  /\ UNCHANGED <<opts, rd, roots, analysisVars>>

-----------------------------------------------------------------------------
(* timeSideChannelAnalysis: for every root, propagate and checkLeakage *)

\* The roots are in a set of pointers: any order.
NextRoot(left) ==
  \E r \in left :
    /\ root' = r
    /\ pending' = left \ {r}
    /\ phase' = "propagate"
    /\ visited' = {}

timeSideChannelAnalysis ==
  /\ phase = "run" /\ live = {}
  /\ NextRoot(roots)
  /\ UNCHANGED <<runVars, cursor, Ru, sourcev, reported>>

\* The recursion is depth first, with the children in any order: a subtree
\* that was begun is finished first.
PropagateInOrder(m) ==
  \A n \in Below(root) :
    LET L == Leaves(n) IN
      (L \cap visited # {} /\ ~(L \subseteq visited)) => m \in L

\* Mutant of ClimbsOn: a leaf reaches its nearest high ancestor only.
StopsAtFirst(a) == IF rd[a].HA = NoRD \/ succ(a) # {} THEN NoRD ELSE a

\* rd = a, and on while it has a high ancestor itself
ClimbsOn(a) == IF rd[a].HA = NoRD THEN NoRD ELSE a

\* propagate reaches a leaf, the only nodes that climb
PropagateLeaf(m) ==
  /\ phase = "propagate" /\ cursor = NoRD
  /\ m \in Leaves(root) \ visited
  /\ PropagateInOrder(m)
  /\ visited' = visited \cup {m}
  /\ cursor' = ClimbsOn(m)
  /\ UNCHANGED <<runVars, phase, pending, root, Ru, sourcev, reported>>

getHash(n) == [h |-> rd[n].HC, l |-> rd[n].LC]
EntriesAt(n) == {x \in DOMAIN Ru : x[1] = n}
HashesAt(n) == {x[2] : x \in EntriesAt(n)}

\* what node n contributes to its high ancestor
Contributions(n) ==
  IF ~rd[n].isHBr
    THEN {[hash |-> getHash(n), min |-> rd[n].ru, max |-> rd[n].ru,
           terminated |-> IF rd[n].pathterminated THEN 1 ELSE 0]}
    ELSE {[hash |-> [h |-> rd[n].HC \cup x[2].h, l |-> rd[n].LC \cup x[2].l],
           min |-> Ru[x].min, max |-> Ru[x].max,
           terminated |-> Ru[x].terminated] :
             x \in EntriesAt(n)}

\* combineRange with the range R of the ancestor for the hash of n itself
combineRange(R, c) ==
  IF R = {} THEN [min |-> c.min, max |-> c.max, terminated |-> c.terminated]
  ELSE LET r == CHOOSE r \in R : TRUE IN
       [min |-> IF r.min < c.min THEN r.min ELSE c.min,
        max |-> IF r.max > c.max THEN r.max ELSE c.max,
        terminated |-> c.terminated]

\* One iteration of while (rd->HAset).  map::insert keeps a range that is
\* there; terminated is added to.
ClimbStep ==
  /\ phase = "propagate" /\ cursor # NoRD
  /\ LET a == rd[cursor].HA
         C == Contributions(cursor)
         R == {Ru[x] : x \in DOMAIN Ru \cap {<<a, getHash(cursor)>>}}
     IN /\ Ru' = [x \in DOMAIN Ru \cup {<<a, c.hash>> : c \in C} |->
                    IF x[1] = a /\ \E c \in C : c.hash = x[2]
                      THEN LET c == CHOOSE c \in C : c.hash = x[2] IN
                           IF x \in DOMAIN Ru
                             THEN [Ru[x] EXCEPT !.terminated = @ + c.terminated]
                             ELSE combineRange(R, c)
                      ELSE Ru[x]]
        /\ cursor' = ClimbsOn(a)
  /\ UNCHANGED <<runVars, phase, pending, root, visited, sourcev, reported>>

PropagateDone ==
  /\ phase = "propagate" /\ cursor = NoRD
  /\ Leaves(root) \subseteq visited
  /\ phase' = "check" /\ visited' = {}
  /\ UNCHANGED <<runVars, pending, root, cursor, Ru, sourcev, reported>>

\* Mutant of PublicsAgree: paths for different public data are compared.
PublicsIgnored(k1, k2) == TRUE

\* isTrue of h1 /\ ~h2 or of h2 /\ ~h1, and of l1 /\ l2
SecretsDiffer(k1, k2) == k1.h # k2.h
PublicsAgree(k1, k2) ==
  \A v \in Inputs : ~({<<v, 0>>, <<v, 1>>} \subseteq (k1.l \cup k2.l))

Distance(i, j) == IF i > j THEN i - j ELSE j - i

\* diff > epsilon, with the upper ends compared either way and the lower ends
\* only one way
RangesDiffer(R1, R2) == Distance(R1.max, R2.max) > 0 \/ R2.min > R1.min

\* printLeakage compares every two hashes of n, in the order of the map, that
\* were not reported before.
Comparable(n) ==
  {{q[1], q[2]} : q \in
     {p \in HashesAt(n) \X HashesAt(n) :
        /\ p[1] # p[2] /\ {p[1], p[2]} \notin sourcev
        /\ SecretsDiffer(p[1], p[2]) /\ PublicsAgree(p[1], p[2])
        /\ Ru[<<n, p[1]>>].terminated > 0 /\ Ru[<<n, p[2]>>].terminated > 0}}
DifferEitherWay(n, p) ==
  \A k1, k2 \in p : k1 # k2 => RangesDiffer(Ru[<<n, k1>>], Ru[<<n, k2>>])
DifferSomeWay(n, p) ==
  \E k1, k2 \in p : k1 # k2 /\ RangesDiffer(Ru[<<n, k1>>], Ru[<<n, k2>>])

printLeakage(n) ==
  \E found \in SUBSET {p \in Comparable(n) : DifferSomeWay(n, p)} :
    /\ {p \in Comparable(n) : DifferEitherWay(n, p)} \subseteq found
    /\ reported' = reported \cup {[node |-> n, pair |-> p] : p \in found}
    /\ sourcev' = sourcev \cup found

\* At a node where no cost arrived printLeakage has nothing to compare.
ToCheck(n) == {m \in Below(n) : HashesAt(m) # {}}

CheckInOrder(m) ==
  \A n \in Below(root) :
    LET C == ToCheck(n) IN
      (C \cap visited # {} /\ ~(C \subseteq visited)) => m \in C

\* checkLeakage: the children first
checkLeakage(n) ==
  /\ phase = "check"
  /\ n \in ToCheck(root) \ visited /\ ToCheck(n) \ {n} \subseteq visited
  /\ CheckInOrder(n)
  /\ printLeakage(n)
  /\ visited' = visited \cup {n}
  /\ UNCHANGED <<runVars, phase, pending, root, cursor, Ru>>

CheckDone ==
  /\ phase = "check" /\ ToCheck(root) \subseteq visited
  /\ \/ NextRoot(pending)
     \/ /\ pending = {}
        /\ phase' = "done" /\ visited' = {} /\ UNCHANGED <<pending, root>>
  /\ UNCHANGED <<runVars, cursor, Ru, sourcev, reported>>

-----------------------------------------------------------------------------
explore ==
  \E n \in live :
    \/ Execute(n)
    \/ \E v \in Inputs : Branch(n, v)
    \/ \E v \in Inputs, b \in {0, 1} : BranchCut(n, v, b)
    \/ ObservationPoint(n)
    \/ UntrustedCall(n)
    \/ Exit(n)
    \/ TerminateEarly(n)

analyse ==
  \/ timeSideChannelAnalysis
  \/ \E n \in DOMAIN rd : PropagateLeaf(n)
  \/ ClimbStep
  \/ PropagateDone
  \/ \E n \in DOMAIN rd : checkLeakage(n)
  \/ CheckDone

Next == explore \/ analyse

Spec == Init /\ [][Next]_vars

-----------------------------------------------------------------------------
(* Properties *)

\* No branch was on data that is neither secret nor public.
NeutralFree == \A n \in DOMAIN rd : \A x \in rd[n].constraints : x[1] \notin Others

\* The tree that n belongs to starts at the nearest root.
RootOf(n) == CHOOSE r \in roots :
               IsPrefix(r, n) /\ \A q \in roots : IsPrefix(q, n) => Len(q) <= Len(r)

\* Which secret and which public data decided how path l went on from n, read
\* off the path conditions.
DecidedBetween(n, l) ==
  LET D == rd[l].constraints \ rd[n].constraints
  IN [h |-> {x \in D : x[1] \in Secrets}, l |-> {x \in D : x[1] \in Publics}]

\* The inputs that two paths know to be different.
DifferIn(V, l1, l2) ==
  \E v \in V, i \in {0, 1} : /\ <<v, i>> \in rd[l1].constraints
                             /\ <<v, 1 - i>> \in rd[l2].constraints

\* Two paths that run apart at n, in one tree, and that agree on public data,
\* differ in secret data, and differ in cost.
Leak(n, l1, l2) ==
  /\ l1 # n /\ l2 # n
  /\ IsPrefix(n, l1) /\ IsPrefix(n, l2) /\ l1[Len(n) + 1] # l2[Len(n) + 1]
  /\ RootOf(l1) = RootOf(l2)
  /\ rd[l1].ru # rd[l2].ru
  /\ DifferIn(Secrets, l1, l2) /\ ~DifferIn(Publics, l1, l2)

\* While the tree grows, through nested secret and public branches,
\* observation points and restarts, HC and LC of a node are the secret and
\* public conditions of its path since HA, and HA is a secret branch above it
\* in the same tree.
ConditionsMatchPath ==
  (phase = "run" /\ ~opts.loopBound) =>
    \A n \in DOMAIN rd :
      LET base == IF rd[n].HA = NoRD THEN RootOf(n) ELSE rd[n].HA IN
        /\ IsPrefix(base, n) /\ RootOf(base) = RootOf(n)
        /\ rd[n].HA # NoRD => rd[base].isHBr
        /\ getHash(n) = DecidedBetween(base, n)

\* Every two completed paths that differ in secret data only and differ in
\* cost are reported, by the pair of their conditions, at whichever branch
\* and from whichever root they are compared first.
LeaksAreReported ==
  (phase = "done" /\ NeutralFree /\ ~opts.obs /\ ~opts.loopBound) =>
    \A l1, l2 \in {l \in DOMAIN rd : rd[l].pathterminated} :
      \A n \in DOMAIN rd :
        Leak(n, l1, l2) =>
          \E r \in reported : r.pair = {DecidedBetween(n, l1), DecidedBetween(n, l2)}

\* Every report is about two completed paths below its node, by their
\* conditions since it, that do not differ in public data and whose secret
\* conditions do.  Without observation points they differ in secret data and in
\* cost.  (With them an observation is compared with later ends of its own path,
\* whose conditions include its own.)
ReportsAreLeaks ==
  (NeutralFree /\ ~opts.loopBound) =>
    \A r \in reported :
      \E l1, l2 \in {l \in Leaves(r.node) : rd[l].pathterminated} :
        /\ r.pair = {DecidedBetween(r.node, l1), DecidedBetween(r.node, l2)}
        /\ ~DifferIn(Publics, l1, l2)
        /\ DecidedBetween(r.node, l1).h # DecidedBetween(r.node, l2).h
        /\ ~opts.obs => DifferIn(Secrets, l1, l2) /\ rd[l1].ru # rd[l2].ru
=============================================================================
