------------------------- MODULE ResourceTreeProofs -------------------------
(***************************************************************************)
(* Proofs about ResourceTree, for any inputs, any size of the tree and any *)
(* command line without a loop bound.                                      *)
(***************************************************************************)
EXTENDS ResourceTree, TLAPS

Path == Seq(0 .. 3)

-----------------------------------------------------------------------------
(* Prefixes *)

LEMMA PrefixPointwise ==
  ASSUME NEW s \in Path, NEW t \in Path
  PROVE  IsPrefix(s, t) <=> Len(s) <= Len(t) /\ \A i \in 1 .. Len(s) : s[i] = t[i]
<1>1. CASE Len(s) <= Len(t)
  <2>1. /\ SubSeq(s, 1, Len(s)) \in Seq(0 .. 3) /\ SubSeq(t, 1, Len(s)) \in Seq(0 .. 3)
        /\ Len(SubSeq(s, 1, Len(s))) = Len(s) /\ Len(SubSeq(t, 1, Len(s))) = Len(s)
        /\ \A i \in 1 .. Len(s) : SubSeq(s, 1, Len(s))[i] = s[i]
        /\ \A i \in 1 .. Len(s) : SubSeq(t, 1, Len(s))[i] = t[i]
    BY <1>1 DEF Path
  <2>2. SubSeq(s, 1, Len(s)) = SubSeq(t, 1, Len(s)) <=> \A i \in 1 .. Len(s) : s[i] = t[i]
    BY <2>1
  <2> QED BY <1>1, <2>2 DEF IsPrefix
<1>2. CASE ~(Len(s) <= Len(t))
  BY <1>2 DEF IsPrefix
<1> QED BY <1>1, <1>2

LEMMA PrefixOrder ==
  ASSUME NEW s \in Path, NEW t \in Path, NEW u \in Path
  PROVE  /\ IsPrefix(s, s) /\ IsPrefix(<<>>, s)
         /\ IsPrefix(s, t) /\ IsPrefix(t, u) => IsPrefix(s, u)
         /\ IsPrefix(s, t) => Len(s) <= Len(t)
         /\ IsPrefix(s, t) /\ Len(t) <= Len(s) => s = t
         /\ IsPrefix(s, u) /\ IsPrefix(t, u) /\ Len(s) <= Len(t) => IsPrefix(s, t)
         /\ IsPrefix(s, u) /\ IsPrefix(t, u) => IsPrefix(s, t) \/ IsPrefix(t, s)
<1>1. <<>> \in Path
  BY DEF Path
<1>2. IsPrefix(s, t) /\ Len(t) <= Len(s) => s = t
  BY PrefixPointwise DEF Path
<1>3. IsPrefix(s, u) /\ IsPrefix(t, u) /\ Len(s) <= Len(t) => IsPrefix(s, t)
  BY PrefixPointwise DEF Path
<1>4. IsPrefix(s, t) /\ IsPrefix(t, u) => IsPrefix(s, u)
  BY PrefixPointwise DEF Path
<1>5. IsPrefix(s, u) /\ IsPrefix(t, u) => IsPrefix(s, t) \/ IsPrefix(t, s)
  <2>1. Len(s) <= Len(t) \/ Len(t) <= Len(s)
    BY DEF Path
  <2>2. IsPrefix(s, u) /\ IsPrefix(t, u) /\ Len(t) <= Len(s) => IsPrefix(t, s)
    BY PrefixPointwise DEF Path
  <2> QED BY <2>1, <2>2, <1>3
<1>6. IsPrefix(s, s) /\ (IsPrefix(s, t) => Len(s) <= Len(t))
  BY PrefixPointwise DEF Path
<1>7. IsPrefix(<<>>, s)
  <2>1. Len(<<>>) = 0 /\ Len(s) \in Nat
    BY DEF Path
  <2>2. Len(<<>>) <= Len(s) /\ \A i \in 1 .. Len(<<>>) : <<>>[i] = s[i]
    BY <2>1
  <2> QED BY <1>1, <2>2, PrefixPointwise, Zenon
<1> QED BY <1>2, <1>3, <1>4, <1>5, <1>6, <1>7

\* What lies above a child is the child and what lies above its parent.
LEMMA PrefixOfChild ==
  ASSUME NEW s \in Path, NEW t \in Path, NEW i \in 0 .. 3
  PROVE  /\ Append(t, i) \in Path /\ Append(t, i) # t
         /\ Len(Append(t, i)) = Len(t) + 1
         /\ IsPrefix(t, Append(t, i)) /\ ~IsPrefix(Append(t, i), t)
         /\ IsPrefix(s, Append(t, i)) <=> s = Append(t, i) \/ IsPrefix(s, t)
<1> DEFINE c == Append(t, i)
<1>1. /\ c \in Path /\ Len(c) = Len(t) + 1 /\ c # t
      /\ \A j \in 1 .. Len(t) : c[j] = t[j]
  BY DEF Path
<1>2. IsPrefix(t, c) /\ ~IsPrefix(c, t)
  <2> HIDE DEF c
  <2> QED BY <1>1, PrefixPointwise DEF Path
<1>3. IsPrefix(s, t) => IsPrefix(s, c)
  <2> HIDE DEF c
  <2> QED BY <1>1, <1>2, PrefixOrder
<1>4. IsPrefix(s, c) => s = c \/ IsPrefix(s, t)
  <2> HIDE DEF c
  <2>1. Len(s) \in Nat /\ Len(t) \in Nat
    BY DEF Path
  <2>2. CASE Len(s) <= Len(t)
    BY <1>1, <1>2, <2>2, PrefixOrder
  <2>3. CASE Len(c) <= Len(s)
    BY <1>1, <2>3, PrefixOrder
  <2> QED BY <1>1, <2>1, <2>2, <2>3
<1>5. IsPrefix(c, c)
  BY <1>1, PrefixOrder
<1> QED BY <1>1, <1>2, <1>3, <1>4, <1>5, Zenon

LEMMA ChildrenDiffer ==
  ASSUME NEW s \in Path, NEW t \in Path, NEW i \in 0 .. 3, NEW j \in 0 .. 3,
         Append(s, i) = Append(t, j)
  PROVE  s = t /\ i = j
<1>1. Len(s) = Len(t) /\ \A k \in 1 .. Len(s) : s[k] = t[k]
  <2>1. /\ Len(Append(s, i)) = Len(s) + 1 /\ Len(Append(t, j)) = Len(t) + 1
        /\ \A k \in 1 .. Len(s) : Append(s, i)[k] = s[k]
        /\ \A k \in 1 .. Len(t) : Append(t, j)[k] = t[k]
    BY DEF Path
  <2> QED BY <2>1 DEF Path
<1>2. Append(s, i)[Len(s) + 1] = i /\ Append(t, j)[Len(t) + 1] = j
  BY DEF Path
<1> QED BY <1>1, <1>2 DEF Path

\* The child of t on the way to a path below t.
LEMMA ChildTowards ==
  ASSUME NEW t \in Path, NEW u \in Path, IsPrefix(t, u), t # u
  PROVE  /\ u[Len(t) + 1] \in 0 .. 3
         /\ IsPrefix(Append(t, u[Len(t) + 1]), u)
<1>1. Len(t) < Len(u) /\ \A k \in 1 .. Len(t) : t[k] = u[k]
  BY PrefixPointwise DEF Path
<1>2. u[Len(t) + 1] \in 0 .. 3
  BY <1>1 DEF Path
<1> DEFINE i == u[Len(t) + 1]
           c == Append(t, i)
<1>3. /\ c \in Path /\ Len(c) = Len(t) + 1
      /\ \A k \in 1 .. Len(t) : c[k] = t[k]
      /\ c[Len(t) + 1] = i
  BY <1>2 DEF Path
<1>4. \A k \in 1 .. Len(c) : c[k] = u[k]
  <2> HIDE DEF c
  <2> QED BY <1>1, <1>3 DEF Path
<1>5. Len(c) <= Len(u)
  <2> HIDE DEF c
  <2> QED BY <1>1, <1>3 DEF Path
<1> HIDE DEF c
<1>6. IsPrefix(c, u)
  BY <1>3, <1>4, <1>5, PrefixPointwise
<1> QED BY <1>2, <1>6 DEF c

LEMMA OneChildTowards ==
  ASSUME NEW t \in Path, NEW u \in Path, NEW i \in 0 .. 3, NEW j \in 0 .. 3,
         IsPrefix(Append(t, i), u), IsPrefix(Append(t, j), u)
  PROVE  i = j
<1>1. /\ Append(t, i) \in Path /\ Append(t, j) \in Path
      /\ Len(Append(t, i)) = Len(t) + 1 /\ Len(Append(t, j)) = Len(t) + 1
      /\ Len(t) \in Nat
  BY PrefixOfChild DEF Path
<1>2. Len(Append(t, i)) <= Len(Append(t, j))
  BY <1>1
<1>3. IsPrefix(Append(t, i), Append(t, j))
  BY <1>1, <1>2, PrefixOrder
<1>4. Append(t, i) = Append(t, j)
  BY <1>1, <1>3, PrefixOrder
<1> QED BY <1>4, ChildrenDiffer

-----------------------------------------------------------------------------
(* The trees: the nodes below one root up to the next *)

IsRootIn(R, r, n) ==
  r \in R /\ IsPrefix(r, n) /\ \A q \in R : IsPrefix(q, n) => Len(q) <= Len(r)

LEMMA OneRoot ==
  ASSUME NEW R \in SUBSET Path, NEW n \in Path, NEW r \in R, NEW q \in R,
         IsRootIn(R, r, n), IsRootIn(R, q, n)
  PROVE  q = r
<1>1. r \in Path /\ q \in Path /\ Len(r) \in Nat /\ Len(q) \in Nat
  BY DEF Path
<1>2. IsPrefix(r, n) /\ IsPrefix(q, n) /\ Len(q) <= Len(r) /\ Len(r) <= Len(q)
  BY DEF IsRootIn
<1>3. IsPrefix(q, r)
  BY <1>1, <1>2, PrefixOrder
<1> QED BY <1>1, <1>2, <1>3, PrefixOrder

RootIn(R, n) ==
  CHOOSE r \in R : IsPrefix(r, n) /\ \A q \in R : IsPrefix(q, n) => Len(q) <= Len(r)

LEMMA RootIs ==
  ASSUME NEW R \in SUBSET Path, NEW n \in Path, NEW r, IsRootIn(R, r, n)
  PROVE  RootIn(R, n) = r
<1>1. r \in R /\ IsPrefix(r, n) /\ \A q \in R : IsPrefix(q, n) => Len(q) <= Len(r)
  BY DEF IsRootIn
<1>2. IsRootIn(R, RootIn(R, n), n)
  BY <1>1 DEF RootIn, IsRootIn
<1>3. RootIn(R, n) \in R
  BY <1>2 DEF IsRootIn
<1> QED BY <1>1, <1>2, <1>3, OneRoot

LEMMA RootOfRoot ==
  ASSUME NEW R \in SUBSET Path, NEW r \in R
  PROVE  IsRootIn(R, r, r) /\ RootIn(R, r) = r
<1>1. \A q \in R : IsPrefix(q, r) => Len(q) <= Len(r)
  BY PrefixOrder
<1>2. IsRootIn(R, r, r)
  BY <1>1, PrefixOrder DEF IsRootIn
<1> QED BY <1>2, RootIs

LEMMA RootOfChild ==
  ASSUME NEW R \in SUBSET Path, NEW n \in Path, NEW i \in 0 .. 3, NEW r,
         Append(n, i) \notin R, IsRootIn(R, r, n)
  PROVE  IsRootIn(R, r, Append(n, i))
<1>1. \A q \in R : IsPrefix(q, Append(n, i)) <=> IsPrefix(q, n)
  BY PrefixOfChild
<1> QED BY <1>1 DEF IsRootIn

LEMMA RootElsewhere ==
  ASSUME NEW R \in SUBSET Path, NEW n \in Path, NEW c \in Path, NEW r,
         ~IsPrefix(c, n), IsRootIn(R, r, n)
  PROVE  IsRootIn(R \cup {c}, r, n)
BY DEF IsRootIn

\* Between a root and a node there is no other root.
LEMMA RootBetween ==
  ASSUME NEW R \in SUBSET Path, NEW n \in Path, NEW m \in Path, NEW r,
         IsRootIn(R, r, m), IsPrefix(n, m), IsPrefix(r, n)
  PROVE  IsRootIn(R, r, n)
<1>1. \A q \in R : IsPrefix(q, n) => IsPrefix(q, m)
  BY PrefixOrder
<1> QED BY <1>1 DEF IsRootIn

-----------------------------------------------------------------------------
(* The invariant of the tree *)

\* Paths, conditions and marks of the nodes.
RDNode ==
  [isHBr : BOOLEAN, HA : Path \cup {NoRD}, HC : SUBSET Literals,
   LC : SUBSET Literals, ru : Nat, pathterminated : BOOLEAN,
   constraints : SUBSET Literals]
TreeType ==
  /\ opts \in Options
  /\ DOMAIN rd \subseteq Path
  /\ rd \in [DOMAIN rd -> RDNode]
  /\ live \subseteq DOMAIN rd /\ roots \subseteq DOMAIN rd /\ <<>> \in roots

\* The parents of a node are there.
ParentsThere == \A n \in DOMAIN rd : \A s \in Path : IsPrefix(s, n) => s \in DOMAIN rd

\* Paths grow at their ends only, and observations do not grow.
LiveAtEnds ==
  /\ \A n \in live :
       /\ ~rd[n].isHBr /\ ~rd[n].pathterminated
       /\ \A m \in DOMAIN rd : IsPrefix(n, m) => m = n \/ (opts.obs /\ m = Observed(n))
  /\ \A k \in DOMAIN rd : Observed(k) \notin live

\* Every node has a nearest root.
Rooted == \A n \in DOMAIN rd : IsRootIn(roots, RootIn(roots, n), n)

\* A path keeps its conditions and they do not contradict each other.
ConditionsGrow ==
  \A a, n \in DOMAIN rd : IsPrefix(a, n) => rd[a].constraints \subseteq rd[n].constraints
ConditionsAgree == \A n \in DOMAIN rd : ~DifferIn(Inputs, n, n)

Above(a, n) == IsPrefix(a, n) /\ RootIn(roots, a) = RootIn(roots, n)

\* The high ancestor is a secret branch above, in the same tree.
AncestorsAbove ==
  \A n \in DOMAIN rd :
    rd[n].HA # NoRD => /\ rd[n].HA \in DOMAIN rd /\ rd[n].HA # n
                       /\ Above(rd[n].HA, n) /\ rd[rd[n].HA].isHBr

\* Since when the hash of a node holds conditions.
Base(n) == IF rd[n].HA = NoRD THEN RootIn(roots, n) ELSE rd[n].HA
HashesSinceBase == \A n \in DOMAIN rd : getHash(n) = DecidedBetween(Base(n), n)

TreeInv ==
  /\ TreeType /\ ParentsThere /\ LiveAtEnds /\ Rooted
  /\ ConditionsGrow /\ ConditionsAgree /\ AncestorsAbove /\ HashesSinceBase

-----------------------------------------------------------------------------
(* How an instruction lets the tree grow *)

\* What an instruction leaves as it is at the nodes that are there.
Kept(m) ==
  /\ rd'[m].constraints = rd[m].constraints /\ rd'[m].HA = rd[m].HA
  /\ rd'[m].HC = rd[m].HC /\ rd'[m].LC = rd[m].LC
  /\ rd[m].isHBr => rd'[m].isHBr
  /\ RootIn(roots', m) = RootIn(roots, m)

BranchChild(n, c, v, b) ==
  /\ Undecided(n, v)
  /\ c = Branched(n, b) /\ RootIn(roots', c) = RootIn(roots, n)
  /\ rd'[c].constraints = rd[n].constraints \cup {<<v, b>>}
  /\ rd'[n].isHBr = (v \in Secrets)
  /\ v \in Secrets => rd'[c].HA = n /\ rd'[c].HC = {<<v, b>>} /\ rd'[c].LC = {}
  /\ v \notin Secrets => rd'[c].HA = rd[n].HA /\ rd'[c].HC = rd[n].HC
  /\ v \in Publics => rd'[c].LC = rd[n].LC \cup {<<v, b>>}
  /\ v \in Others => rd'[c].LC = rd[n].LC

ObservedChild(n, c) ==
  /\ c = Observed(n) /\ RootIn(roots', c) = RootIn(roots, n) /\ ~rd'[n].isHBr
  /\ rd'[c].constraints = rd[n].constraints /\ rd'[c].HA = rd[n].HA
  /\ rd'[c].HC = rd[n].HC /\ rd'[c].LC = rd[n].LC

RestartedChild(n, c) ==
  /\ c = Restarted(n) /\ RootIn(roots', c) = c /\ ~rd'[n].isHBr
  /\ rd'[c].constraints = rd[n].constraints
  /\ rd'[c].HA = NoRD /\ rd'[c].HC = {} /\ rd'[c].LC = {}

NewChild(n, c) ==
  /\ \E i \in 0 .. 3 : c = Append(n, i)
  /\ ~rd'[c].isHBr /\ IsRootIn(roots', RootIn(roots', c), c)
  /\ \/ \E v \in Inputs, b \in {0, 1} : BranchChild(n, c, v, b)
     \/ ObservedChild(n, c)
     \/ RestartedChild(n, c)

BranchedBoth(n, v) ==
  /\ DOMAIN rd' = DOMAIN rd \cup {Branched(n, 0), Branched(n, 1)}
  /\ \A b \in {0, 1} : BranchChild(n, Branched(n, b), v, b)

GrownAt(n) ==
  /\ n \in live /\ DOMAIN rd \subseteq DOMAIN rd' /\ opts' = opts
  /\ \A m \in DOMAIN rd : Kept(m) /\ IsRootIn(roots', RootIn(roots, m), m)
  /\ \A m \in DOMAIN rd \ {n} : rd'[m].isHBr = rd[m].isHBr
  /\ \A c \in DOMAIN rd' \ DOMAIN rd : NewChild(n, c)

LEMMA CopyOfNode ==
  ASSUME NEW r \in RDNode, NEW P \in SUBSET Literals
  PROVE  LET copy == [r EXCEPT !.isHBr = FALSE, !.ru = @ + 1, !.constraints = P] IN
         /\ copy \in RDNode /\ copy.isHBr = FALSE /\ copy.constraints = P
         /\ copy.HA = r.HA /\ copy.HC = r.HC /\ copy.LC = r.LC
         /\ copy.pathterminated = r.pathterminated
<1>1. PICK k \in Nat : k = r.ru + 1
  BY DEF RDNode
<1>2. LET copy == [r EXCEPT !.isHBr = FALSE, !.ru = k, !.constraints = P] IN
      /\ copy \in RDNode /\ copy.isHBr = FALSE /\ copy.constraints = P
      /\ copy.HA = r.HA /\ copy.HC = r.HC /\ copy.LC = r.LC
      /\ copy.pathterminated = r.pathterminated
  BY DEF RDNode
<1> QED BY <1>1, <1>2

IsSuccessor(s, n, v, b) ==
  /\ s \in RDNode /\ s.isHBr = FALSE
  /\ s.pathterminated = rd[n].pathterminated
  /\ s.constraints = rd[n].constraints \cup {<<v, b>>}
  /\ v \in Secrets => s.HA = n /\ s.HC = {<<v, b>>} /\ s.LC = {}
  /\ v \notin Secrets => s.HA = rd[n].HA /\ s.HC = rd[n].HC
  /\ v \in Publics => s.LC = rd[n].LC \cup {<<v, b>>}
  /\ v \in Others => s.LC = rd[n].LC

LEMMA SuccessorNode ==
  ASSUME TreeType, ~opts.loopBound, NEW n \in DOMAIN rd, NEW v \in Inputs, NEW b \in {0, 1}
  PROVE  IsSuccessor(Successor(n, v, b), n, v, b)
<1> DEFINE s == Successor(n, v, b)
           path == rd[n].constraints \cup {<<v, b>>}
           copy == [rd[n] EXCEPT !.isHBr = FALSE, !.ru = @ + 1, !.constraints = path]
<1>1. rd[n] \in RDNode /\ n \in Path
  BY DEF TreeType
<1>2. <<v, b>> \in Literals
  BY DEF Literals
<1>3. path \in SUBSET Literals
  BY <1>1, <1>2 DEF RDNode
<1>4. /\ copy \in RDNode /\ copy.isHBr = FALSE /\ copy.constraints = path
      /\ copy.HA = rd[n].HA /\ copy.HC = rd[n].HC /\ copy.LC = rd[n].LC
      /\ copy.pathterminated = rd[n].pathterminated
  BY <1>1, <1>3, CopyOfNode
<1>5. s = IF v \in Secrets THEN [copy EXCEPT !.HA = n, !.HC = {<<v, b>>}, !.LC = {}]
          ELSE IF v \in Publics THEN [copy EXCEPT !.LC = @ \cup {<<v, b>>}]
          ELSE copy
  BY DEF Successor, lastCondition
<1> HIDE DEF s, copy
<1>6. CASE v \in Secrets
  <2>1. s = [copy EXCEPT !.HA = n, !.HC = {<<v, b>>}, !.LC = {}]
    BY <1>5, <1>6
  <2>2. v \notin Publics /\ v \notin Others
    BY <1>6, InputsAssumption
  <2>3. /\ s \in RDNode /\ s.HA = n /\ s.HC = {<<v, b>>} /\ s.LC = {}
        /\ s.isHBr = copy.isHBr /\ s.pathterminated = copy.pathterminated
        /\ s.constraints = copy.constraints
    BY <1>1, <1>2, <1>4, <2>1 DEF RDNode
  <2>4. QED BY <1>4, <1>6, <2>2, <2>3 DEF s, path, IsSuccessor
<1>7. CASE v \in Publics
  <2>1. v \notin Secrets /\ v \notin Others
    BY <1>7, InputsAssumption
  <2>2. s = [copy EXCEPT !.LC = @ \cup {<<v, b>>}]
    BY <1>5, <1>7, <2>1
  <2>3. /\ s \in RDNode /\ s.LC = copy.LC \cup {<<v, b>>}
        /\ s.HA = copy.HA /\ s.HC = copy.HC
        /\ s.isHBr = copy.isHBr /\ s.pathterminated = copy.pathterminated
        /\ s.constraints = copy.constraints
    BY <1>1, <1>2, <1>4, <2>2 DEF RDNode
  <2>4. QED BY <1>4, <1>7, <2>1, <2>3 DEF s, path, IsSuccessor
<1>8. CASE v \notin Secrets /\ v \notin Publics
  <2>1. s = copy
    BY <1>5, <1>8
  <2>2. QED BY <1>4, <1>8, <2>1 DEF s, path, IsSuccessor
<1> QED BY <1>6, <1>7, <1>8

\* The node that is added is not there yet.
LEMMA ChildIsNew ==
  ASSUME TreeType, LiveAtEnds, NEW n \in live, NEW i \in 0 .. 3,
         i # 2 \/ ~opts.obs
  PROVE  Append(n, i) \notin DOMAIN rd
<1>1. n \in Path /\ n \in DOMAIN rd
  BY DEF TreeType
<1>2. IsPrefix(n, Append(n, i)) /\ Append(n, i) # n
  BY <1>1, PrefixOfChild
<1>3. i # 2 => Append(n, i) # Observed(n)
  BY <1>1, ChildrenDiffer DEF Observed
<1> QED BY <1>1, <1>2, <1>3 DEF LiveAtEnds

-----------------------------------------------------------------------------
(* Every instruction lets the tree grow in this way *)

LEMMA GrowthInPlace ==
  ASSUME TreeInv, NEW n \in live, opts' = opts, roots' = roots,
         DOMAIN rd' = DOMAIN rd,
         \A m \in DOMAIN rd : /\ rd'[m].constraints = rd[m].constraints
                              /\ rd'[m].HA = rd[m].HA /\ rd'[m].HC = rd[m].HC
                              /\ rd'[m].LC = rd[m].LC /\ rd'[m].isHBr = rd[m].isHBr
  PROVE  GrownAt(n)
<1>1. \A m : RootIn(roots', m) = RootIn(roots, m)
  OBVIOUS
<1>2. \A m \in DOMAIN rd : Kept(m)
  BY <1>1 DEF Kept
<1>3. \A m \in DOMAIN rd : IsRootIn(roots', RootIn(roots, m), m)
  BY DEF TreeInv, Rooted
<1> QED BY <1>2, <1>3 DEF GrownAt

LEMMA ExecuteGrows ==
  ASSUME TreeInv, NEW n \in live, Execute(n)
  PROVE  TreeType' /\ GrownAt(n)
<1>1. /\ rd \in [DOMAIN rd -> RDNode] /\ n \in DOMAIN rd
  BY DEF TreeInv, TreeType
<1>2. rd' = [rd EXCEPT ![n].ru = @ + 1]
  BY DEF Execute
<1>3. /\ rd' \in [DOMAIN rd -> RDNode] /\ DOMAIN rd' = DOMAIN rd
      /\ \A m \in DOMAIN rd : /\ rd'[m].constraints = rd[m].constraints
                              /\ rd'[m].HA = rd[m].HA /\ rd'[m].HC = rd[m].HC
                              /\ rd'[m].LC = rd[m].LC /\ rd'[m].isHBr = rd[m].isHBr
  BY <1>1, <1>2 DEF RDNode
<1>4. GrownAt(n)
  BY <1>3, GrowthInPlace DEF Execute
<1>5. TreeType'
  BY <1>3 DEF TreeInv, TreeType, Execute
<1> QED BY <1>4, <1>5

LEMMA ExitGrows ==
  ASSUME TreeInv, NEW n \in live, Exit(n)
  PROVE  TreeType' /\ GrownAt(n)
<1>1. /\ rd \in [DOMAIN rd -> RDNode] /\ n \in DOMAIN rd
  BY DEF TreeInv, TreeType
<1>2. rd' = [rd EXCEPT ![n].pathterminated = TRUE]
  BY DEF Exit
<1>3. /\ rd' \in [DOMAIN rd -> RDNode] /\ DOMAIN rd' = DOMAIN rd
      /\ \A m \in DOMAIN rd : /\ rd'[m].constraints = rd[m].constraints
                              /\ rd'[m].HA = rd[m].HA /\ rd'[m].HC = rd[m].HC
                              /\ rd'[m].LC = rd[m].LC /\ rd'[m].isHBr = rd[m].isHBr
  BY <1>1, <1>2 DEF RDNode
<1>4. GrownAt(n)
  BY <1>3, GrowthInPlace DEF Exit
<1>5. TreeType'
  BY <1>3 DEF TreeInv, TreeType, Exit
<1> QED BY <1>4, <1>5

LEMMA TerminateEarlyGrows ==
  ASSUME TreeInv, NEW n \in live, TerminateEarly(n)
  PROVE  TreeType' /\ GrownAt(n)
<1>1. GrownAt(n)
  BY GrowthInPlace DEF TerminateEarly
<1>2. TreeType'
  BY DEF TreeInv, TreeType, TerminateEarly
<1> QED BY <1>1, <1>2

\* A new node in the tree of its parent.
LEMMA ChildInTree ==
  ASSUME TreeInv, NEW n \in DOMAIN rd, NEW i \in 0 .. 3, Append(n, i) \notin DOMAIN rd,
         roots' = roots
  PROVE  /\ RootIn(roots', Append(n, i)) = RootIn(roots, n)
         /\ IsRootIn(roots', RootIn(roots', Append(n, i)), Append(n, i))
<1>1. /\ roots \in SUBSET Path /\ n \in Path /\ Append(n, i) \in Path
      /\ Append(n, i) \notin roots /\ IsRootIn(roots, RootIn(roots, n), n)
  BY PrefixOfChild DEF TreeInv, TreeType, Rooted
<1>2. IsRootIn(roots, RootIn(roots, n), Append(n, i))
  BY <1>1, RootOfChild
<1>3. RootIn(roots, Append(n, i)) = RootIn(roots, n)
  BY <1>1, <1>2, RootIs
<1>4. RootIn(roots', Append(n, i)) = RootIn(roots, Append(n, i))
  OBVIOUS
<1> QED BY <1>2, <1>3, <1>4

LEMMA BranchGrows ==
  ASSUME TreeInv, ~opts.loopBound, NEW n \in live, NEW v \in Inputs, Branch(n, v)
  PROVE  TreeType' /\ GrownAt(n) /\ BranchedBoth(n, v)
<1> DEFINE c(b) == Branched(n, b)
<1>1. /\ rd \in [DOMAIN rd -> RDNode] /\ n \in DOMAIN rd /\ n \in Path
      /\ DOMAIN rd \subseteq Path /\ TreeType /\ opts' = opts /\ roots' = roots
  BY DEF TreeInv, TreeType, Branch
<1>2. \A b \in {0, 1} : /\ c(b) = Append(n, b) /\ c(b) \in Path /\ c(b) \notin DOMAIN rd
  BY <1>1, ChildIsNew, PrefixOfChild DEF TreeInv, Branched
<1>3. c(0) # c(1)
  BY <1>1, ChildrenDiffer DEF Branched
<1>4. \A b \in {0, 1} : Successor(n, v, b) \in RDNode
  BY <1>1, SuccessorNode DEF IsSuccessor
<1>5. /\ rd[n].ru + 1 \in Nat /\ rd[n] \in RDNode
      /\ (v \in Secrets) \in BOOLEAN
  BY <1>1 DEF RDNode
<1> DEFINE here == [rd[n] EXCEPT !.isHBr = (v \in Secrets), !.ru = @ + 1]
<1>6. /\ here \in RDNode /\ here.isHBr = (v \in Secrets)
      /\ here.constraints = rd[n].constraints /\ here.HA = rd[n].HA
      /\ here.HC = rd[n].HC /\ here.LC = rd[n].LC
  <2>1. PICK k \in Nat : k = rd[n].ru + 1
    BY <1>5
  <2>2. PICK s \in BOOLEAN : s = (v \in Secrets)
    <3>1. CASE v \in Secrets
      <4>1. TRUE = (v \in Secrets)
        BY <3>1
      <4> QED BY <4>1, Zenon
    <3>2. CASE v \notin Secrets
      <4>1. FALSE = (v \in Secrets)
        BY <3>2
      <4> QED BY <4>1, Zenon
    <3> QED BY <3>1, <3>2
  <2>3. LET h == [rd[n] EXCEPT !.isHBr = s, !.ru = k] IN
        /\ h \in RDNode /\ h.isHBr = s
        /\ h.constraints = rd[n].constraints /\ h.HA = rd[n].HA
        /\ h.HC = rd[n].HC /\ h.LC = rd[n].LC
    BY <1>5 DEF RDNode
  <2> QED BY <2>1, <2>2, <2>3
<1>7. rd' = [m \in DOMAIN rd \cup {c(0), c(1)} |->
               IF m = n THEN here
               ELSE IF m = c(0) THEN Successor(n, v, 0)
               ELSE IF m = c(1) THEN Successor(n, v, 1)
               ELSE rd[m]]
  BY DEF Branch
<1> HIDE DEF here, c
<1>8. /\ DOMAIN rd' = DOMAIN rd \cup {c(0), c(1)} /\ rd'[n] = here
      /\ \A m \in DOMAIN rd \ {n} : rd'[m] = rd[m]
      /\ \A b \in {0, 1} : rd'[c(b)] = Successor(n, v, b)
  BY <1>1, <1>2, <1>3, <1>7
<1>9. rd' \in [DOMAIN rd' -> RDNode]
  <2>1. \A m \in DOMAIN rd' : rd'[m] \in RDNode
    BY <1>1, <1>4, <1>6, <1>8
  <2> QED BY <1>7, <2>1
<1>10. TreeType'
  <2>1. DOMAIN rd' \subseteq Path
    BY <1>1, <1>2, <1>8
  <2>2. /\ live' \subseteq DOMAIN rd' /\ roots' \subseteq DOMAIN rd' /\ <<>> \in roots'
        /\ opts' \in Options
    BY <1>1, <1>8 DEF TreeType, Branch, c
  <2> QED BY <1>9, <2>1, <2>2 DEF TreeType
<1>11. \A m \in DOMAIN rd : Kept(m) /\ IsRootIn(roots', RootIn(roots, m), m)
  <2> TAKE m \in DOMAIN rd
  <2>1. /\ rd'[m].constraints = rd[m].constraints /\ rd'[m].HA = rd[m].HA
        /\ rd'[m].HC = rd[m].HC /\ rd'[m].LC = rd[m].LC
    BY <1>6, <1>8
  <2>2. rd[m].isHBr => rd'[m].isHBr
    BY <1>8 DEF TreeInv, LiveAtEnds
  <2>3. RootIn(roots', m) = RootIn(roots, m)
    BY <1>1
  <2>4. IsRootIn(roots', RootIn(roots, m), m)
    BY <1>1 DEF TreeInv, Rooted
  <2> QED BY <2>1, <2>2, <2>3, <2>4 DEF Kept
<1>12. \A b \in {0, 1} : NewChild(n, c(b)) /\ BranchChild(n, c(b), v, b)
  <2> TAKE b \in {0, 1}
  <2>1. c(b) = Append(n, b) /\ b \in 0 .. 3
    BY <1>2
  <2>2. RootIn(roots', c(b)) = RootIn(roots, n) /\ IsRootIn(roots', RootIn(roots', c(b)), c(b))
    BY <1>1, <1>2, <2>1, ChildInTree
  <2>3. IsSuccessor(rd'[c(b)], n, v, b)
    <3>1. rd'[c(b)] = Successor(n, v, b)
      BY <1>8
    <3>2. IsSuccessor(Successor(n, v, b), n, v, b)
      BY <1>1, SuccessorNode
    <3> QED BY <3>1, <3>2
  <2>4. Undecided(n, v) /\ c(b) = Branched(n, b) /\ rd'[n].isHBr = (v \in Secrets)
    BY <1>6, <1>8 DEF Branch, c
  <2>5. BranchChild(n, c(b), v, b)
    BY <2>2, <2>3, <2>4, Zenon DEF BranchChild, IsSuccessor
  <2>6. ~rd'[c(b)].isHBr
    BY <2>3 DEF IsSuccessor
  <2> QED BY <2>1, <2>2, <2>5, <2>6 DEF NewChild
<1>13. GrownAt(n)
  BY <1>1, <1>8, <1>11, <1>12 DEF GrownAt
<1>14. BranchedBoth(n, v)
  BY <1>8, <1>12 DEF BranchedBoth, c
<1> QED BY <1>10, <1>13, <1>14

LEMMA ObservationGrows ==
  ASSUME TreeInv, NEW n \in live, ObservationPoint(n)
  PROVE  TreeType' /\ GrownAt(n)
<1> DEFINE c == Observed(n)
           here == [rd[n] EXCEPT !.ru = @ + 1]
<1>1. /\ rd \in [DOMAIN rd -> RDNode] /\ n \in DOMAIN rd /\ n \in Path
      /\ DOMAIN rd \subseteq Path /\ TreeType /\ opts' = opts /\ roots' = roots
      /\ rd[n] \in RDNode
  BY DEF TreeInv, TreeType, ObservationPoint
<1>2. c = Append(n, 2) /\ c \in Path /\ c \notin DOMAIN rd
  BY <1>1, PrefixOfChild DEF ObservationPoint, Observed
<1>3. /\ Observation(n) \in RDNode /\ Observation(n).isHBr = rd[n].isHBr
      /\ Observation(n).constraints = rd[n].constraints /\ Observation(n).HA = rd[n].HA
      /\ Observation(n).HC = rd[n].HC /\ Observation(n).LC = rd[n].LC
  BY <1>1 DEF Observation, RDNode
<1>4. /\ here \in RDNode /\ here.isHBr = rd[n].isHBr
      /\ here.constraints = rd[n].constraints /\ here.HA = rd[n].HA
      /\ here.HC = rd[n].HC /\ here.LC = rd[n].LC
  <2>1. PICK k \in Nat : k = rd[n].ru + 1
    BY <1>1 DEF RDNode
  <2>2. LET h == [rd[n] EXCEPT !.ru = k] IN
        /\ h \in RDNode /\ h.isHBr = rd[n].isHBr
        /\ h.constraints = rd[n].constraints /\ h.HA = rd[n].HA
        /\ h.HC = rd[n].HC /\ h.LC = rd[n].LC
    BY <1>1 DEF RDNode
  <2> QED BY <2>1, <2>2
<1>5. rd' = [m \in DOMAIN rd \cup {c} |->
               IF m = n THEN here ELSE IF m = c THEN Observation(n) ELSE rd[m]]
  BY DEF ObservationPoint
<1> HIDE DEF here, c
<1>6. /\ DOMAIN rd' = DOMAIN rd \cup {c} /\ rd'[n] = here /\ rd'[c] = Observation(n)
      /\ \A m \in DOMAIN rd \ {n} : rd'[m] = rd[m]
  BY <1>1, <1>2, <1>5
<1>7. ~rd[n].isHBr
  BY DEF TreeInv, LiveAtEnds
<1>8. TreeType'
  <2>1. \A m \in DOMAIN rd' : rd'[m] \in RDNode
    BY <1>1, <1>3, <1>4, <1>6
  <2>2. rd' \in [DOMAIN rd' -> RDNode]
    BY <1>5, <2>1
  <2>3. DOMAIN rd' \subseteq Path
    BY <1>1, <1>2, <1>6
  <2>4. /\ live' \subseteq DOMAIN rd' /\ roots' \subseteq DOMAIN rd' /\ <<>> \in roots'
        /\ opts' \in Options
    BY <1>1, <1>6 DEF TreeType, ObservationPoint
  <2> QED BY <2>2, <2>3, <2>4 DEF TreeType
<1>9. \A m \in DOMAIN rd : Kept(m) /\ IsRootIn(roots', RootIn(roots, m), m)
  <2> TAKE m \in DOMAIN rd
  <2>1. /\ rd'[m].constraints = rd[m].constraints /\ rd'[m].HA = rd[m].HA
        /\ rd'[m].HC = rd[m].HC /\ rd'[m].LC = rd[m].LC
        /\ rd[m].isHBr => rd'[m].isHBr
    BY <1>4, <1>6
  <2>2. RootIn(roots', m) = RootIn(roots, m)
    BY <1>1
  <2>3. IsRootIn(roots', RootIn(roots, m), m)
    BY <1>1 DEF TreeInv, Rooted
  <2> QED BY <2>1, <2>2, <2>3 DEF Kept
<1>10. NewChild(n, c)
  <2>1. RootIn(roots', c) = RootIn(roots, n) /\ IsRootIn(roots', RootIn(roots', c), c)
    BY <1>1, <1>2, ChildInTree
  <2>2. ObservedChild(n, c)
    BY <1>3, <1>4, <1>6, <1>7, <2>1 DEF ObservedChild, c
  <2>3. ~rd'[c].isHBr
    BY <1>3, <1>6, <1>7
  <2> QED BY <1>2, <2>1, <2>2, <2>3 DEF NewChild
<1>11. GrownAt(n)
  BY <1>1, <1>6, <1>9, <1>10 DEF GrownAt
<1> QED BY <1>8, <1>11

LEMMA UntrustedCallGrows ==
  ASSUME TreeInv, NEW n \in live, UntrustedCall(n)
  PROVE  TreeType' /\ GrownAt(n)
<1> DEFINE c == Observed(n)
           d == Restarted(n)
           start == [newNode(rd[n].constraints) EXCEPT !.ru = 1]
<1>1. /\ rd \in [DOMAIN rd -> RDNode] /\ n \in DOMAIN rd /\ n \in Path
      /\ DOMAIN rd \subseteq Path /\ TreeType /\ opts' = opts
      /\ roots' = roots \cup {d} /\ live' = (live \ {n}) \cup {d}
      /\ rd[n] \in RDNode
  BY DEF TreeInv, TreeType, UntrustedCall
<1>2. c = Append(n, 2) /\ c \in Path /\ c \notin DOMAIN rd
  BY <1>1, PrefixOfChild DEF UntrustedCall, Observed
<1>3. d = Append(n, 3) /\ d \in Path /\ d \notin DOMAIN rd
  BY <1>1, PrefixOfChild, ChildIsNew DEF TreeInv, Restarted
<1>4. c # d /\ ~IsPrefix(d, c)
  <2>1. c # d
    BY <1>1, ChildrenDiffer DEF Observed, Restarted
  <2>2. ~IsPrefix(d, n)
    BY <1>1, <1>3, PrefixOfChild
  <2>3. IsPrefix(d, c) => d = c \/ IsPrefix(d, n)
    BY <1>1, <1>2, <1>3, PrefixOfChild
  <2> QED BY <2>1, <2>2, <2>3
<1>5. /\ Observation(n) \in RDNode /\ Observation(n).isHBr = rd[n].isHBr
      /\ Observation(n).constraints = rd[n].constraints /\ Observation(n).HA = rd[n].HA
      /\ Observation(n).HC = rd[n].HC /\ Observation(n).LC = rd[n].LC
  BY <1>1 DEF Observation, RDNode
<1>6. /\ start \in RDNode /\ start.isHBr = FALSE
      /\ start.constraints = rd[n].constraints /\ start.HA = NoRD
      /\ start.HC = {} /\ start.LC = {}
  <2>1. rd[n].constraints \in SUBSET Literals
    BY <1>1 DEF RDNode
  <2> QED BY <2>1 DEF newNode, RDNode
<1>7. rd' = [m \in DOMAIN rd \cup {c, d} |->
               IF m = c THEN Observation(n) ELSE IF m = d THEN start ELSE rd[m]]
  BY DEF UntrustedCall
<1> HIDE DEF start, c, d
<1>8. /\ DOMAIN rd' = DOMAIN rd \cup {c, d} /\ rd'[c] = Observation(n) /\ rd'[d] = start
      /\ \A m \in DOMAIN rd : rd'[m] = rd[m]
  BY <1>2, <1>3, <1>4, <1>7
<1>9. ~rd[n].isHBr
  BY DEF TreeInv, LiveAtEnds
<1>10. TreeType'
  <2>1. \A m \in DOMAIN rd' : rd'[m] \in RDNode
    BY <1>1, <1>5, <1>6, <1>8
  <2>2. rd' \in [DOMAIN rd' -> RDNode]
    BY <1>7, <2>1
  <2>3. DOMAIN rd' \subseteq Path
    BY <1>1, <1>2, <1>3, <1>8
  <2>4. /\ live' \subseteq DOMAIN rd' /\ roots' \subseteq DOMAIN rd' /\ <<>> \in roots'
        /\ opts' \in Options
    BY <1>1, <1>8 DEF TreeType
  <2> QED BY <2>2, <2>3, <2>4 DEF TreeType
<1>11. roots \in SUBSET Path /\ roots' \in SUBSET Path /\ d \in roots'
  BY <1>1, <1>3 DEF TreeType
<1>12. \A m \in DOMAIN rd : IsRootIn(roots', RootIn(roots, m), m)
  <2> TAKE m \in DOMAIN rd
  <2>1. ~IsPrefix(d, m)
    BY <1>3 DEF TreeInv, ParentsThere
  <2>2. IsRootIn(roots, RootIn(roots, m), m)
    BY DEF TreeInv, Rooted
  <2> QED BY <1>1, <1>3, <1>11, <2>1, <2>2, RootElsewhere
<1>13. \A m \in DOMAIN rd : Kept(m) /\ IsRootIn(roots', RootIn(roots, m), m)
  <2> TAKE m \in DOMAIN rd
  <2>1. RootIn(roots', m) = RootIn(roots, m)
    BY <1>1, <1>11, <1>12, RootIs
  <2> QED BY <1>8, <1>12, <2>1 DEF Kept
<1>14. NewChild(n, c)
  <2>1. IsRootIn(roots, RootIn(roots, n), n) /\ c \notin roots
    BY <1>1, <1>2 DEF TreeInv, TreeType, Rooted
  <2>2. IsRootIn(roots, RootIn(roots, n), c)
    BY <1>1, <1>2, <1>11, <2>1, RootOfChild
  <2>3. IsRootIn(roots', RootIn(roots, n), c)
    BY <1>1, <1>2, <1>3, <1>4, <1>11, <2>2, RootElsewhere
  <2>4. RootIn(roots', c) = RootIn(roots, n)
    BY <1>2, <1>11, <2>3, RootIs
  <2>5. ~rd'[c].isHBr /\ ~rd'[n].isHBr
    BY <1>1, <1>5, <1>8, <1>9
  <2>6. ObservedChild(n, c)
    BY <1>5, <1>8, <2>4, <2>5 DEF ObservedChild, c
  <2> QED BY <1>2, <2>3, <2>4, <2>5, <2>6 DEF NewChild
<1>15. NewChild(n, d)
  <2>1. IsRootIn(roots', d, d) /\ RootIn(roots', d) = d
    BY <1>11, RootOfRoot
  <2>2. ~rd'[d].isHBr /\ ~rd'[n].isHBr
    BY <1>1, <1>6, <1>8, <1>9
  <2>3. RestartedChild(n, d)
    BY <1>6, <1>8, <2>1, <2>2 DEF RestartedChild, d
  <2>4. IsRootIn(roots', RootIn(roots', d), d)
    BY <2>1, Zenon
  <2>5. 3 \in 0 .. 3
    OBVIOUS
  <2>6. \E i \in 0 .. 3 : d = Append(n, i)
    BY <1>3, <2>5, Zenon
  <2> QED BY <2>2, <2>3, <2>4, <2>6 DEF NewChild
<1>16. GrownAt(n)
  BY <1>1, <1>8, <1>13, <1>14, <1>15 DEF GrownAt
<1> QED BY <1>10, <1>16

-----------------------------------------------------------------------------
(* The invariant of the tree is preserved *)

LEMMA GrownParents ==
  ASSUME TreeInv, TreeType', NEW n \in live, GrownAt(n)
  PROVE  ParentsThere'
<1>1. n \in Path /\ n \in DOMAIN rd /\ DOMAIN rd \subseteq Path /\ ParentsThere
  BY DEF TreeInv, TreeType
<1>2. ASSUME NEW m \in DOMAIN rd', NEW s \in Path, IsPrefix(s, m)
      PROVE  s \in DOMAIN rd'
  <2>1. CASE m \in DOMAIN rd
    BY <1>1, <1>2, <2>1 DEF ParentsThere, GrownAt
  <2>2. CASE m \notin DOMAIN rd
    <3>1. PICK i \in 0 .. 3 : m = Append(n, i)
      BY <2>2 DEF GrownAt, NewChild
    <3>2. s = m \/ IsPrefix(s, n)
      BY <1>1, <1>2, <3>1, PrefixOfChild
    <3> QED BY <1>1, <3>2 DEF ParentsThere, GrownAt
  <2> QED BY <2>1, <2>2
<1> QED BY <1>2 DEF ParentsThere

LEMMA GrownRooted ==
  ASSUME NEW n \in live, GrownAt(n)
  PROVE  Rooted'
<1>1. ASSUME NEW m \in DOMAIN rd'
      PROVE  IsRootIn(roots', RootIn(roots', m), m)
  BY DEF GrownAt, Kept, NewChild
<1> QED BY <1>1 DEF Rooted

\* What a node has above it when an instruction has been executed.
LEMMA GrownAbove ==
  ASSUME TreeInv, TreeType', NEW n \in live, GrownAt(n),
         NEW a \in DOMAIN rd', NEW m \in DOMAIN rd', IsPrefix(a, m)
  PROVE  /\ n \in Path /\ n \in DOMAIN rd /\ a \in Path /\ m \in Path
         /\ m \in DOMAIN rd => a \in DOMAIN rd
         /\ m \notin DOMAIN rd =>
              /\ NewChild(n, m) /\ IsPrefix(n, m)
              /\ a # m => a \in DOMAIN rd /\ IsPrefix(a, n)
<1>1. n \in Path /\ n \in DOMAIN rd /\ a \in Path /\ m \in Path
  BY DEF TreeInv, TreeType
<1>2. m \in DOMAIN rd => a \in DOMAIN rd
  BY <1>1 DEF TreeInv, ParentsThere
<1>3. ASSUME m \notin DOMAIN rd
      PROVE  /\ NewChild(n, m) /\ IsPrefix(n, m)
             /\ a # m => a \in DOMAIN rd /\ IsPrefix(a, n)
  <2>1. NewChild(n, m)
    BY <1>3 DEF GrownAt
  <2>2. PICK i \in 0 .. 3 : m = Append(n, i)
    BY <2>1 DEF NewChild
  <2>3. IsPrefix(n, m) /\ (a # m => IsPrefix(a, n))
    BY <1>1, <2>2, PrefixOfChild
  <2> QED BY <1>1, <2>1, <2>3 DEF TreeInv, ParentsThere
<1> QED BY <1>1, <1>2, <1>3

LEMMA NewConditions ==
  ASSUME NEW n, NEW c, NewChild(n, c)
  PROVE  \/ rd'[c].constraints = rd[n].constraints
         \/ \E v \in Inputs, b \in {0, 1} :
              Undecided(n, v) /\ rd'[c].constraints = rd[n].constraints \cup {<<v, b>>}
BY DEF NewChild, BranchChild, ObservedChild, RestartedChild

LEMMA GrownConditions ==
  ASSUME TreeInv, TreeType', NEW n \in live, GrownAt(n)
  PROVE  ConditionsGrow' /\ ConditionsAgree'
<1>1. n \in DOMAIN rd
  BY DEF TreeInv, TreeType
<1>2. ASSUME NEW a \in DOMAIN rd', NEW m \in DOMAIN rd', IsPrefix(a, m)
      PROVE  rd'[a].constraints \subseteq rd'[m].constraints
  <2>1. CASE m \in DOMAIN rd
    <3>1. a \in DOMAIN rd
      BY <1>2, <2>1, GrownAbove
    <3>2. rd[a].constraints \subseteq rd[m].constraints
      BY <1>2, <2>1, <3>1 DEF TreeInv, ConditionsGrow
    <3> QED BY <2>1, <3>1, <3>2 DEF GrownAt, Kept
  <2>2. CASE m \notin DOMAIN rd
    <3>1. NewChild(n, m) /\ (a # m => a \in DOMAIN rd /\ IsPrefix(a, n))
      BY <1>2, <2>2, GrownAbove
    <3>2. rd[n].constraints \subseteq rd'[m].constraints
      BY <3>1, NewConditions
    <3>3. a # m => rd'[a].constraints \subseteq rd[n].constraints
      BY <1>1, <3>1 DEF GrownAt, Kept, TreeInv, ConditionsGrow
    <3> QED BY <3>2, <3>3
  <2> QED BY <2>1, <2>2
<1>3. ASSUME NEW m \in DOMAIN rd', NEW w \in Inputs, NEW i \in {0, 1},
             <<w, i>> \in rd'[m].constraints, <<w, 1 - i>> \in rd'[m].constraints
      PROVE  FALSE
  <2>1. \A k \in DOMAIN rd : ~(<<w, i>> \in rd[k].constraints /\ <<w, 1 - i>> \in rd[k].constraints)
    BY DEF TreeInv, ConditionsAgree, DifferIn
  <2>2. CASE m \in DOMAIN rd
    BY <1>3, <2>1, <2>2 DEF GrownAt, Kept
  <2>3. CASE m \notin DOMAIN rd
    <3>1. NewChild(n, m)
      BY <2>3 DEF GrownAt
    <3>2. CASE rd'[m].constraints = rd[n].constraints
      BY <1>1, <1>3, <2>1, <3>2
    <3>3. CASE \E v \in Inputs, b \in {0, 1} :
                 Undecided(n, v) /\ rd'[m].constraints = rd[n].constraints \cup {<<v, b>>}
      <4>1. PICK v \in Inputs, b \in {0, 1} :
              Undecided(n, v) /\ rd'[m].constraints = rd[n].constraints \cup {<<v, b>>}
        BY <3>3
      <4>2. /\ <<w, i>> \in rd[n].constraints \/ <<w, i>> = <<v, b>>
            /\ <<w, 1 - i>> \in rd[n].constraints \/ <<w, 1 - i>> = <<v, b>>
        BY <1>3, <4>1
      <4>3. i # 1 - i /\ 1 - i \in {0, 1}
        OBVIOUS
      <4> QED BY <1>1, <2>1, <4>1, <4>2, <4>3 DEF Undecided
    <3> QED BY <3>1, <3>2, <3>3, NewConditions
  <2> QED BY <2>2, <2>3
<1>4. ConditionsGrow'
  BY <1>2 DEF ConditionsGrow
<1>5. ConditionsAgree'
  BY <1>3 DEF ConditionsAgree, DifferIn
<1> QED BY <1>4, <1>5

LEMMA GrownAncestors ==
  ASSUME TreeInv, TreeType', NEW n \in live, GrownAt(n)
  PROVE  AncestorsAbove'
<1>1. /\ n \in DOMAIN rd /\ DOMAIN rd \subseteq Path /\ n \in Path /\ NoRD \notin Path
      /\ DOMAIN rd \subseteq DOMAIN rd'
  BY InputsAssumption DEF TreeInv, TreeType, Path, GrownAt
<1>2. ASSUME NEW m \in DOMAIN rd, rd[m].HA # NoRD
      PROVE  /\ rd[m].HA \in DOMAIN rd' /\ rd[m].HA # m /\ IsPrefix(rd[m].HA, m)
             /\ RootIn(roots', rd[m].HA) = RootIn(roots, m) /\ rd'[rd[m].HA].isHBr
  BY <1>1, <1>2 DEF TreeInv, AncestorsAbove, Above, GrownAt, Kept
<1>3. ASSUME NEW m \in DOMAIN rd', rd'[m].HA # NoRD
      PROVE  /\ rd'[m].HA \in DOMAIN rd' /\ rd'[m].HA # m /\ IsPrefix(rd'[m].HA, m)
             /\ RootIn(roots', rd'[m].HA) = RootIn(roots', m) /\ rd'[rd'[m].HA].isHBr
  <2>1. CASE m \in DOMAIN rd
    BY <1>2, <1>3, <2>1 DEF GrownAt, Kept
  <2>2. CASE m \notin DOMAIN rd
    <3>1. NewChild(n, m)
      BY <2>2 DEF GrownAt
    <3>2. m \in Path /\ IsPrefix(n, m) /\ m # n
      BY <1>1, <2>2, <3>1, PrefixOfChild DEF NewChild
    <3>3. RootIn(roots', n) = RootIn(roots, n)
      BY <1>1 DEF GrownAt, Kept
    <3>4. CASE rd'[m].HA = n
      <4>1. rd'[n].isHBr /\ RootIn(roots', m) = RootIn(roots, n)
        <5>1. rd[n].HA # n
          BY <1>1 DEF TreeInv, AncestorsAbove
        <5>2. NoRD # n
          BY <1>1
        <5> QED BY <3>1, <3>4, <5>1, <5>2
                DEF NewChild, BranchChild, ObservedChild, RestartedChild
      <4> QED BY <1>1, <3>2, <3>3, <3>4, <4>1
    <3>5. CASE rd'[m].HA # n
      <4>1. rd'[m].HA = rd[n].HA /\ RootIn(roots', m) = RootIn(roots, n)
        BY <1>3, <3>1, <3>5 DEF NewChild, BranchChild, ObservedChild, RestartedChild
      <4>2. /\ rd[n].HA \in DOMAIN rd' /\ IsPrefix(rd[n].HA, n) /\ rd[n].HA \in DOMAIN rd
            /\ RootIn(roots', rd[n].HA) = RootIn(roots, n) /\ rd'[rd[n].HA].isHBr
        BY <1>1, <1>2, <1>3, <4>1 DEF TreeInv, AncestorsAbove
      <4>3. IsPrefix(rd[n].HA, m) /\ rd[n].HA # m
        BY <1>1, <2>2, <3>2, <4>2, PrefixOrder
      <4> QED BY <4>1, <4>2, <4>3
    <3> QED BY <3>4, <3>5
  <2> QED BY <2>1, <2>2
<1> QED BY <1>3 DEF AncestorsAbove, Above

\* Which of the conditions are secret and which are public.
SecretOf(D) == {x \in D : x[1] \in Secrets}
PublicOf(D) == {x \in D : x[1] \in Publics}

OneMore(C, B, v, b) ==
  /\ v \in Secrets => /\ SecretOf((C \cup {<<v, b>>}) \ C) = {<<v, b>>}
                      /\ PublicOf((C \cup {<<v, b>>}) \ C) = {}
  /\ v \notin Secrets => SecretOf((C \cup {<<v, b>>}) \ B) = SecretOf(C \ B)
  /\ v \in Publics => PublicOf((C \cup {<<v, b>>}) \ B) = PublicOf(C \ B) \cup {<<v, b>>}
  /\ v \in Others => PublicOf((C \cup {<<v, b>>}) \ B) = PublicOf(C \ B)

LEMMA OneMoreCondition ==
  ASSUME NEW C, NEW B, NEW v \in Inputs, NEW b, <<v, b>> \notin C, B \subseteq C
  PROVE  OneMore(C, B, v, b)
<1>1. <<v, b>>[1] = v
  OBVIOUS
<1> QED BY <1>1, InputsAssumption DEF SecretOf, PublicOf, OneMore

LEMMA HashIsSince ==
  HashesSinceBase <=>
    \A n \in DOMAIN rd : /\ rd[n].HC = SecretOf(rd[n].constraints \ rd[Base(n)].constraints)
                         /\ rd[n].LC = PublicOf(rd[n].constraints \ rd[Base(n)].constraints)
BY DEF HashesSinceBase, getHash, DecidedBetween, SecretOf, PublicOf

LEMMA BaseAbove ==
  ASSUME TreeInv, NEW n \in DOMAIN rd
  PROVE  /\ Base(n) \in DOMAIN rd /\ IsPrefix(Base(n), n)
         /\ RootIn(roots, Base(n)) = RootIn(roots, n)
         /\ rd[Base(n)].constraints \subseteq rd[n].constraints
<1>1. /\ roots \in SUBSET Path /\ roots \subseteq DOMAIN rd
      /\ IsRootIn(roots, RootIn(roots, n), n)
  BY DEF TreeInv, TreeType, Rooted
<1>2. CASE rd[n].HA = NoRD
  <2>1. RootIn(roots, n) \in roots /\ IsPrefix(RootIn(roots, n), n)
    BY <1>1 DEF IsRootIn
  <2>2. RootIn(roots, RootIn(roots, n)) = RootIn(roots, n)
    BY <1>1, <2>1, RootOfRoot
  <2> QED BY <1>1, <1>2, <2>1, <2>2 DEF Base, TreeInv, ConditionsGrow
<1>3. CASE rd[n].HA # NoRD
  BY <1>3 DEF Base, TreeInv, AncestorsAbove, Above, ConditionsGrow
<1> QED BY <1>2, <1>3

LEMMA GrownHashes ==
  ASSUME TreeInv, TreeType', NEW n \in live, GrownAt(n), AncestorsAbove'
  PROVE  HashesSinceBase'
<1> DEFINE con(m) == rd[m].constraints
           newBase(m) == IF rd'[m].HA = NoRD THEN RootIn(roots', m) ELSE rd'[m].HA
<1>1. /\ n \in DOMAIN rd /\ DOMAIN rd \subseteq Path /\ n \in Path /\ NoRD \notin Path
      /\ DOMAIN rd \subseteq DOMAIN rd'
  BY InputsAssumption DEF TreeInv, TreeType, Path, GrownAt
<1>2. \A m \in DOMAIN rd : /\ rd'[m].constraints = con(m) /\ newBase(m) = Base(m)
                           /\ rd'[m].HC = rd[m].HC /\ rd'[m].LC = rd[m].LC
  BY DEF GrownAt, Kept, Base
<1>3. \A m \in DOMAIN rd : /\ rd[m].HC = SecretOf(con(m) \ con(Base(m)))
                           /\ rd[m].LC = PublicOf(con(m) \ con(Base(m)))
  BY HashIsSince DEF TreeInv
<1>4. /\ Base(n) \in DOMAIN rd /\ con(Base(n)) \subseteq con(n)
  BY <1>1, BaseAbove
<1>5. ASSUME NEW m \in DOMAIN rd'
      PROVE  /\ rd'[m].HC = SecretOf(rd'[m].constraints \ rd'[newBase(m)].constraints)
             /\ rd'[m].LC = PublicOf(rd'[m].constraints \ rd'[newBase(m)].constraints)
  <2>1. CASE m \in DOMAIN rd
    <3>1. Base(m) \in DOMAIN rd
      BY <2>1, BaseAbove
    <3>2. rd'[newBase(m)].constraints = con(Base(m))
      BY <1>2, <2>1, <3>1
    <3> HIDE DEF newBase, con
    <3> QED BY <1>2, <1>3, <2>1, <3>2
  <2>2. CASE m \notin DOMAIN rd
    <3>1. NewChild(n, m)
      BY <2>2 DEF GrownAt
    <3>2. rd'[n].constraints = con(n) /\ rd'[Base(n)].constraints = con(Base(n))
      BY <1>1, <1>2, <1>4
    <3>3. CASE \E v \in Inputs, b \in {0, 1} : BranchChild(n, m, v, b)
      <4>1. PICK v \in Inputs, b \in {0, 1} : BranchChild(n, m, v, b)
        BY <3>3
      <4>2. /\ <<v, b>> \notin con(n) /\ <<v, b>> \notin con(Base(n))
            /\ rd'[m].constraints = con(n) \cup {<<v, b>>}
        BY <1>4, <4>1 DEF BranchChild, Undecided
      <4>3. CASE v \in Secrets
        <5>1. rd'[m].HA = n /\ rd'[m].HC = {<<v, b>>} /\ rd'[m].LC = {}
          BY <4>1, <4>3 DEF BranchChild
        <5>2. newBase(m) = n
          BY <1>1, <5>1
        <5>3. rd'[newBase(m)].constraints = con(n)
          BY <3>2, <5>2
        <5>4. /\ SecretOf((con(n) \cup {<<v, b>>}) \ con(n)) = {<<v, b>>}
              /\ PublicOf((con(n) \cup {<<v, b>>}) \ con(n)) = {}
          <6> HIDE DEF con
          <6>1. OneMore(con(n), con(Base(n)), v, b)
            BY <1>4, <4>2, OneMoreCondition
          <6> QED BY <4>3, <6>1 DEF OneMore
        <5> HIDE DEF newBase, con
        <5> QED BY <4>2, <5>1, <5>3, <5>4
      <4>4. CASE v \notin Secrets
        <5>1. newBase(m) = Base(n)
          BY <1>1, <4>1, <4>4 DEF BranchChild, Base
        <5>2. rd'[newBase(m)].constraints = con(Base(n))
          BY <3>2, <5>1
        <5>3. /\ rd'[m].HC = rd[n].HC
              /\ v \in Publics => rd'[m].LC = rd[n].LC \cup {<<v, b>>}
              /\ v \in Others => rd'[m].LC = rd[n].LC
          BY <4>1, <4>4 DEF BranchChild
        <5>4. v \in Publics \/ v \in Others
          BY <4>4 DEF Inputs
        <5>5. rd[n].HC = SecretOf(con(n) \ con(Base(n))) /\ rd[n].LC = PublicOf(con(n) \ con(Base(n)))
          BY <1>1, <1>3
        <5>6. /\ SecretOf((con(n) \cup {<<v, b>>}) \ con(Base(n))) = SecretOf(con(n) \ con(Base(n)))
              /\ v \in Publics => PublicOf((con(n) \cup {<<v, b>>}) \ con(Base(n)))
                                    = PublicOf(con(n) \ con(Base(n))) \cup {<<v, b>>}
              /\ v \in Others => PublicOf((con(n) \cup {<<v, b>>}) \ con(Base(n)))
                                    = PublicOf(con(n) \ con(Base(n)))
          <6> HIDE DEF con
          <6>1. OneMore(con(n), con(Base(n)), v, b)
            BY <1>4, <4>2, OneMoreCondition
          <6> QED BY <4>4, <6>1 DEF OneMore
        <5> HIDE DEF newBase, con
        <5>7. CASE v \in Publics
          BY <4>2, <5>2, <5>3, <5>5, <5>6, <5>7
        <5>8. CASE v \in Others
          BY <4>2, <5>2, <5>3, <5>5, <5>6, <5>8
        <5> QED BY <5>4, <5>7, <5>8
      <4> QED BY <4>3, <4>4
    <3>4. CASE ObservedChild(n, m)
      <4>1. newBase(m) = Base(n) /\ rd'[m].constraints = con(n)
            /\ rd'[m].HC = rd[n].HC /\ rd'[m].LC = rd[n].LC
        BY <3>4 DEF ObservedChild, Base
      <4>2. rd'[newBase(m)].constraints = con(Base(n))
        BY <3>2, <4>1
      <4> HIDE DEF newBase, con
      <4> QED BY <1>1, <1>3, <4>1, <4>2
    <3>5. CASE RestartedChild(n, m)
      <4>1. newBase(m) = m /\ rd'[m].HC = {} /\ rd'[m].LC = {}
        BY <3>5 DEF RestartedChild
      <4> HIDE DEF newBase
      <4> QED BY <4>1 DEF SecretOf, PublicOf
    <3> QED BY <3>1, <3>3, <3>4, <3>5 DEF NewChild
  <2> QED BY <2>1, <2>2
<1>6. \A m : newBase(m) = IF rd'[m].HA = NoRD THEN RootIn(roots', m) ELSE rd'[m].HA
  OBVIOUS
<1> HIDE DEF newBase
<1> QED BY <1>5, <1>6 DEF HashesSinceBase, getHash, DecidedBetween, SecretOf, PublicOf, Base

\* Where execution goes on after an instruction at n.
LiveGrown(n) ==
  /\ live' \subseteq live \cup (DOMAIN rd' \ DOMAIN rd)
  /\ Observed(n) \notin live'
  /\ \A m \in live' : ~rd'[m].isHBr /\ ~rd'[m].pathterminated
  /\ n \in live' => \A c \in DOMAIN rd' \ DOMAIN rd : opts.obs /\ c = Observed(n)

LEMMA ExecuteLive ==
  ASSUME TreeInv, NEW n \in live,
         Execute(n) \/ Exit(n) \/ TerminateEarly(n)
  PROVE  LiveGrown(n)
<1>1. rd \in [DOMAIN rd -> RDNode] /\ n \in DOMAIN rd /\ live \subseteq DOMAIN rd
  BY DEF TreeInv, TreeType
<1>2. DOMAIN rd' = DOMAIN rd /\ live' \subseteq live
  BY <1>1 DEF Execute, Exit, TerminateEarly
<1>3. \A m \in live' : rd'[m].isHBr = rd[m].isHBr /\ rd'[m].pathterminated = rd[m].pathterminated
  BY <1>1 DEF Execute, Exit, TerminateEarly, RDNode
<1> QED BY <1>1, <1>2, <1>3 DEF LiveGrown, TreeInv, LiveAtEnds

LEMMA BranchLive ==
  ASSUME TreeInv, ~opts.loopBound, NEW n \in live, NEW v \in Inputs, Branch(n, v)
  PROVE  LiveGrown(n)
<1>1. /\ rd \in [DOMAIN rd -> RDNode] /\ n \in DOMAIN rd /\ n \in Path
      /\ live \subseteq DOMAIN rd /\ TreeType
  BY DEF TreeInv, TreeType
<1>2. /\ Branched(n, 0) \notin DOMAIN rd /\ Branched(n, 1) \notin DOMAIN rd
      /\ Branched(n, 0) # Branched(n, 1)
      /\ Observed(n) # Branched(n, 0) /\ Observed(n) # Branched(n, 1)
  BY <1>1, ChildIsNew, ChildrenDiffer DEF TreeInv, Branched, Observed
<1>3. Observed(n) \notin live
  BY <1>1 DEF TreeInv, LiveAtEnds
<1>4. \A b \in {0, 1} : rd'[Branched(n, b)] = Successor(n, v, b)
  BY <1>1, <1>2 DEF Branch
<1>5. \A m \in DOMAIN rd \ {n} : rd'[m] = rd[m]
  BY <1>1, <1>2 DEF Branch
<1>6. live' = (live \ {n}) \cup {Branched(n, 0), Branched(n, 1)} /\ n \notin live'
  BY <1>1, <1>2 DEF Branch
<1>7. DOMAIN rd' = DOMAIN rd \cup {Branched(n, 0), Branched(n, 1)}
  BY DEF Branch
<1>8. \A b \in {0, 1} : IsSuccessor(Successor(n, v, b), n, v, b)
  BY <1>1, SuccessorNode
<1>9. \A b \in {0, 1} : /\ ~rd'[Branched(n, b)].isHBr
                        /\ rd'[Branched(n, b)].pathterminated = rd[n].pathterminated
  BY <1>4, <1>8 DEF IsSuccessor
<1>10. \A m \in live : ~rd[m].isHBr /\ ~rd[m].pathterminated
  BY DEF TreeInv, LiveAtEnds
<1>11. \A m \in live' : ~rd'[m].isHBr /\ ~rd'[m].pathterminated
  BY <1>1, <1>5, <1>6, <1>9, <1>10
<1>12. live' \subseteq live \cup (DOMAIN rd' \ DOMAIN rd) /\ Observed(n) \notin live'
  BY <1>2, <1>3, <1>6, <1>7
<1> QED BY <1>6, <1>11, <1>12 DEF LiveGrown

LEMMA CallLive ==
  ASSUME TreeInv, NEW n \in live, ObservationPoint(n) \/ UntrustedCall(n)
  PROVE  LiveGrown(n)
<1>1. /\ rd \in [DOMAIN rd -> RDNode] /\ n \in DOMAIN rd /\ n \in Path
      /\ live \subseteq DOMAIN rd /\ TreeType
  BY DEF TreeInv, TreeType
<1>2. /\ Restarted(n) \notin DOMAIN rd /\ Observed(n) # Restarted(n) /\ Observed(n) # n
      /\ Observed(n) \notin live
  BY <1>1, ChildIsNew, ChildrenDiffer, PrefixOfChild
     DEF TreeInv, LiveAtEnds, Restarted, Observed
<1>3. \A m \in live : ~rd[m].isHBr /\ ~rd[m].pathterminated
  BY DEF TreeInv, LiveAtEnds
<1>4. CASE ObservationPoint(n)
  <2>1. DOMAIN rd' = DOMAIN rd \cup {Observed(n)} /\ live' = live /\ opts.obs
    BY <1>4 DEF ObservationPoint
  <2>2. \A m \in live : rd'[m].isHBr = rd[m].isHBr /\ rd'[m].pathterminated = rd[m].pathterminated
    BY <1>1, <1>2, <1>4 DEF ObservationPoint, RDNode
  <2> QED BY <1>2, <1>3, <2>1, <2>2 DEF LiveGrown
<1>5. CASE UntrustedCall(n)
  <2>1. /\ DOMAIN rd' = DOMAIN rd \cup {Observed(n), Restarted(n)}
        /\ live' = (live \ {n}) \cup {Restarted(n)}
    BY <1>5 DEF UntrustedCall
  <2>2. Restarted(n) # n
    BY <1>1, <1>2
  <2>3. /\ \A m \in live : rd'[m] = rd[m]
        /\ ~rd'[Restarted(n)].isHBr /\ ~rd'[Restarted(n)].pathterminated
    BY <1>1, <1>2, <1>5 DEF UntrustedCall, newNode
  <2>4. n \notin live'
    BY <2>1, <2>2
  <2> QED BY <1>2, <1>3, <2>1, <2>3, <2>4 DEF LiveGrown
<1> QED BY <1>4, <1>5

LEMMA GrownLive ==
  ASSUME TreeInv, TreeType', NEW n \in live, GrownAt(n), LiveGrown(n)
  PROVE  LiveAtEnds'
<1>1. /\ n \in DOMAIN rd /\ n \in Path /\ DOMAIN rd \subseteq Path
      /\ DOMAIN rd' \subseteq Path /\ live' \subseteq DOMAIN rd' /\ opts' = opts
  BY DEF TreeInv, TreeType, GrownAt
<1>2. ASSUME NEW m \in live', NEW x \in DOMAIN rd', IsPrefix(m, x)
      PROVE  x = m \/ (opts.obs /\ x = Observed(m))
  <2>1. CASE x \in DOMAIN rd
    <3>1. m \in live
      BY <1>1, <1>2, <2>1, GrownAbove DEF LiveGrown
    <3> QED BY <1>2, <2>1, <3>1 DEF TreeInv, LiveAtEnds
  <2>2. CASE x \notin DOMAIN rd /\ m # x
    <3>1. m \in DOMAIN rd /\ IsPrefix(m, n)
      BY <1>1, <1>2, <2>2, GrownAbove
    <3>2. m \in live
      BY <3>1 DEF LiveGrown
    <3>3. n = m
      BY <1>1, <3>1, <3>2 DEF TreeInv, LiveAtEnds
    <3> QED BY <2>2, <3>3 DEF LiveGrown
  <2> QED BY <2>1, <2>2
<1>3. ASSUME NEW k \in DOMAIN rd', Observed(k) \in live'
      PROVE  FALSE
  <2>1. k \in Path /\ Observed(k) \in DOMAIN rd' /\ IsPrefix(k, Observed(k)) /\ Observed(k) # k
    BY <1>1, <1>3, PrefixOfChild DEF Observed
  <2>2. CASE Observed(k) \in DOMAIN rd
    <3>1. k \in DOMAIN rd
      BY <2>1, <2>2, GrownAbove
    <3> QED BY <1>3, <2>2, <3>1 DEF TreeInv, LiveAtEnds, LiveGrown
  <2>3. CASE Observed(k) \notin DOMAIN rd
    <3>1. PICK i \in 0 .. 3 : Observed(k) = Append(n, i)
      BY <2>1, <2>3 DEF GrownAt, NewChild
    <3>2. k = n
      BY <1>1, <2>1, <3>1, ChildrenDiffer DEF Observed
    <3> QED BY <1>3, <3>2 DEF LiveGrown
  <2> QED BY <2>2, <2>3
<1> QED BY <1>1, <1>2, <1>3 DEF LiveAtEnds, LiveGrown, Observed

\* An instruction at a node, without a loop bound.
LEMMA ExploreGrows ==
  ASSUME TreeInv, ~opts.loopBound, explore
  PROVE  TreeType' /\ \E n \in live : GrownAt(n) /\ LiveGrown(n)
<1>1. PICK n \in live :
        \/ Execute(n)
        \/ \E v \in Inputs : Branch(n, v)
        \/ \E v \in Inputs, b \in {0, 1} : BranchCut(n, v, b)
        \/ ObservationPoint(n)
        \/ UntrustedCall(n)
        \/ Exit(n)
        \/ TerminateEarly(n)
  BY DEF explore
<1>2. CASE Execute(n)
  BY <1>2, ExecuteGrows, ExecuteLive
<1>3. CASE \E v \in Inputs : Branch(n, v)
  BY <1>3, BranchGrows, BranchLive
<1>4. CASE \E v \in Inputs, b \in {0, 1} : BranchCut(n, v, b)
  BY <1>4 DEF BranchCut
<1>5. CASE ObservationPoint(n)
  BY <1>5, ObservationGrows, CallLive
<1>6. CASE UntrustedCall(n)
  BY <1>6, UntrustedCallGrows, CallLive
<1>7. CASE Exit(n)
  BY <1>7, ExitGrows, ExecuteLive
<1>8. CASE TerminateEarly(n)
  BY <1>8, TerminateEarlyGrows, ExecuteLive
<1> QED BY <1>1, <1>2, <1>3, <1>4, <1>5, <1>6, <1>7, <1>8

LEMMA TreeUnchanged ==
  ASSUME TreeInv, UNCHANGED runVars
  PROVE  TreeInv'
<1> USE DEF runVars
<1>1. TreeType' /\ ParentsThere' /\ Rooted'
  BY DEF TreeInv, TreeType, ParentsThere, Rooted
<1>2. LiveAtEnds'
  BY DEF TreeInv, LiveAtEnds, Observed
<1>3. ConditionsGrow' /\ ConditionsAgree'
  BY DEF TreeInv, ConditionsGrow, ConditionsAgree, DifferIn
<1>4. AncestorsAbove'
  BY DEF TreeInv, AncestorsAbove, Above
<1>5. HashesSinceBase'
  BY DEF TreeInv, HashesSinceBase, getHash, DecidedBetween, Base
<1> QED BY <1>1, <1>2, <1>3, <1>4, <1>5 DEF TreeInv

LEMMA AnalyseKeeps == analyse => UNCHANGED runVars
BY DEF analyse, timeSideChannelAnalysis, PropagateLeaf, ClimbStep, PropagateDone,
       checkLeakage, CheckDone

LEMMA TreeInit == Init => TreeInv
<1> SUFFICES ASSUME Init PROVE TreeInv
  OBVIOUS
<1> DEFINE e == <<>>
<1>1. /\ opts \in Options /\ DOMAIN rd = {e} /\ rd[e] = newNode({})
      /\ rd = [n \in {e} |-> newNode({})] /\ live = {e} /\ roots = {e}
  BY DEF Init
<1>2. e \in Path /\ \A i \in 0 .. 3 : Append(e, i) # e
  BY DEF Path
<1> HIDE DEF e
<1>3. newNode({}) \in RDNode
  BY DEF newNode, RDNode
<1>4. TreeType
  BY <1>1, <1>2, <1>3 DEF TreeType, e
<1>5. \A s \in Path : IsPrefix(s, e) => s = e
  BY <1>2, PrefixOrder DEF e
<1>6. IsRootIn(roots, e, e) /\ RootIn(roots, e) = e
  BY <1>1, <1>2, RootOfRoot
<1>7. ParentsThere /\ Rooted
  BY <1>1, <1>5, <1>6 DEF ParentsThere, Rooted
<1>8. LiveAtEnds
  BY <1>1, <1>2 DEF LiveAtEnds, newNode, Observed
<1>9. ConditionsGrow /\ ConditionsAgree /\ AncestorsAbove
  BY <1>1 DEF ConditionsGrow, ConditionsAgree, DifferIn, AncestorsAbove, newNode
<1>10. HashesSinceBase
  <2>1. rd[e].HC = {} /\ rd[e].LC = {} /\ Base(e) = e
    BY <1>1, <1>6 DEF Base, newNode
  <2>2. \A D : SecretOf(D \ D) = {} /\ PublicOf(D \ D) = {}
    BY DEF SecretOf, PublicOf
  <2> QED BY <1>1, <2>1, <2>2, HashIsSince
<1> QED BY <1>4, <1>7, <1>8, <1>9, <1>10 DEF TreeInv

LEMMA TreeStep ==
  ASSUME TreeInv, ~opts.loopBound, [Next]_vars
  PROVE  TreeInv'
<1>1. CASE explore
  <2>1. TreeType'
    BY <1>1, ExploreGrows
  <2>2. PICK n \in live : GrownAt(n) /\ LiveGrown(n)
    BY <1>1, ExploreGrows
  <2>3. AncestorsAbove'
    BY <2>1, <2>2, GrownAncestors
  <2>4. HashesSinceBase'
    BY <2>1, <2>2, <2>3, GrownHashes
  <2>5. ParentsThere' /\ Rooted' /\ ConditionsGrow' /\ ConditionsAgree' /\ LiveAtEnds'
    BY <2>1, <2>2, GrownParents, GrownRooted, GrownConditions, GrownLive
  <2> QED BY <2>1, <2>3, <2>4, <2>5 DEF TreeInv
<1>2. CASE analyse
  BY <1>2, AnalyseKeeps, TreeUnchanged
<1>3. CASE UNCHANGED vars
  BY <1>3, TreeUnchanged DEF vars
<1> QED BY <1>1, <1>2, <1>3 DEF Next

LEMMA OptionsKept == [Next]_vars => opts' = opts
BY DEF Next, explore, Execute, Branch, BranchCut, ObservationPoint, UntrustedCall, Exit,
       TerminateEarly, analyse, timeSideChannelAnalysis, PropagateLeaf,
       ClimbStep, PropagateDone, checkLeakage, CheckDone, vars, runVars

\* Without a loop bound the conditions of every node stay those of its path.
THEOREM TreeInvariance == Spec => [](~opts.loopBound => TreeInv)
<1>1. Init => (~opts.loopBound => TreeInv)
  BY TreeInit
<1>2. (~opts.loopBound => TreeInv) /\ [Next]_vars => (~opts.loopBound => TreeInv)'
  BY TreeStep, OptionsKept
<1> QED BY <1>1, <1>2, PTL DEF Spec

\* While the tree grows, HC and LC of a node are the secret and public
\* conditions of its path since HA, and HA is a secret branch above it in the
\* same tree.
THEOREM HashesMatchThePath == Spec => []ConditionsMatchPath
<1>1. ASSUME TreeInv, NEW n \in DOMAIN rd
      PROVE  LET base == IF rd[n].HA = NoRD THEN RootOf(n) ELSE rd[n].HA IN
             /\ IsPrefix(base, n) /\ RootOf(base) = RootOf(n)
             /\ rd[n].HA # NoRD => rd[base].isHBr
             /\ getHash(n) = DecidedBetween(base, n)
  <2>1. \A m : RootOf(m) = RootIn(roots, m)
    BY DEF RootOf, RootIn
  <2>2. Base(n) = IF rd[n].HA = NoRD THEN RootOf(n) ELSE rd[n].HA
    BY <2>1 DEF Base
  <2>3. IsPrefix(Base(n), n) /\ RootOf(Base(n)) = RootOf(n)
    BY <1>1, <2>1, BaseAbove
  <2>4. rd[n].HA # NoRD => rd[Base(n)].isHBr
    BY <1>1 DEF Base, TreeInv, AncestorsAbove
  <2>5. getHash(n) = DecidedBetween(Base(n), n)
    BY <1>1 DEF TreeInv, HashesSinceBase
  <2> QED BY <2>2, <2>3, <2>4, <2>5
<1>2. (~opts.loopBound => TreeInv) => ConditionsMatchPath
  BY <1>1 DEF ConditionsMatchPath
<1> QED BY <1>2, TreeInvariance, PTL

-----------------------------------------------------------------------------
(* Without observation points: what tells paths apart *)

\* A node ends a path, or has its observation and restart below it, or the two
\* outcomes of a branch.
Split(n, v) ==
  /\ Undecided(n, v) /\ (rd[n].isHBr <=> v \in Secrets)
  /\ \A b \in {0, 1} :
       /\ Branched(n, b) \in DOMAIN rd
       /\ rd[Branched(n, b)].constraints = rd[n].constraints \cup {<<v, b>>}
Branches ==
  \A n \in DOMAIN rd :
    /\ rd[n].isHBr => Branched(n, 0) \in DOMAIN rd
    /\ \A b \in {0, 1} : Branched(n, b) \in DOMAIN rd =>
         /\ Observed(n) \notin DOMAIN rd /\ Restarted(n) \notin DOMAIN rd
         /\ \E v \in Inputs : Split(n, v)
    /\ Restarted(n) \in DOMAIN rd => Restarted(n) \in roots

\* A completed path does not go on.
EndsStay ==
  \A n, m \in DOMAIN rd : rd[n].pathterminated /\ IsPrefix(n, m) => m = n

Differ(C, D) == \E v \in Inputs, i \in {0, 1} : <<v, i>> \in C /\ <<v, 1 - i>> \in D

\* Two nodes of a tree are on one path or their conditions exclude each other.
Diverge ==
  \A l, m \in DOMAIN rd :
    RootIn(roots, l) = RootIn(roots, m) =>
      Differ(rd[l].constraints, rd[m].constraints) \/ IsPrefix(l, m) \/ IsPrefix(m, l)

\* The high ancestor is the nearest of the secret branches above.
Nearest ==
  \A a, n \in DOMAIN rd :
    rd[a].isHBr /\ a # n /\ Above(a, n) => rd[n].HA # NoRD /\ IsPrefix(a, rd[n].HA)

PathInv == Branches /\ EndsStay /\ Diverge /\ Nearest

\* What an instruction adds below n, and which path it completes.
GrownAs(n) ==
  /\ \/ \E v \in Inputs : BranchedBoth(n, v)
     \/ /\ DOMAIN rd' \subseteq DOMAIN rd \cup {Observed(n), Restarted(n)}
        /\ ~rd'[n].isHBr
  /\ \A m \in DOMAIN rd : rd'[m].pathterminated =>
       rd[m].pathterminated \/ (m = n /\ DOMAIN rd' = DOMAIN rd)

LEMMA ExploreGrowsAs ==
  ASSUME TreeInv, ~opts.loopBound, explore
  PROVE  TreeType' /\ \E n \in live : GrownAt(n) /\ GrownAs(n)
<1>1. PICK n \in live :
        \/ Execute(n)
        \/ \E v \in Inputs : Branch(n, v)
        \/ \E v \in Inputs, b \in {0, 1} : BranchCut(n, v, b)
        \/ ObservationPoint(n)
        \/ UntrustedCall(n)
        \/ Exit(n)
        \/ TerminateEarly(n)
  BY DEF explore
<1>2. /\ rd \in [DOMAIN rd -> RDNode] /\ n \in DOMAIN rd /\ n \in Path
      /\ TreeType /\ ~rd[n].isHBr
  BY DEF TreeInv, TreeType, LiveAtEnds
<1>3. CASE Execute(n) \/ Exit(n) \/ TerminateEarly(n)
  <2>1. DOMAIN rd' = DOMAIN rd /\ rd'[n].isHBr = rd[n].isHBr
    BY <1>2, <1>3 DEF Execute, Exit, TerminateEarly, RDNode
  <2>2. \A m \in DOMAIN rd \ {n} : rd'[m].pathterminated = rd[m].pathterminated
    BY <1>2, <1>3 DEF Execute, Exit, TerminateEarly, RDNode
  <2>3. GrownAs(n)
    BY <1>2, <2>1, <2>2 DEF GrownAs
  <2> QED BY <1>3, <2>3, ExecuteGrows, ExitGrows, TerminateEarlyGrows
<1>4. CASE \E v \in Inputs : Branch(n, v)
  <2>1. PICK v \in Inputs : Branch(n, v)
    BY <1>4
  <2>2. TreeType' /\ GrownAt(n) /\ BranchedBoth(n, v)
    BY <2>1, BranchGrows
  <2>3. \A m \in DOMAIN rd \ {n} : rd'[m] = rd[m]
    <3>1. Branched(n, 0) \notin DOMAIN rd /\ Branched(n, 1) \notin DOMAIN rd
      BY <1>2, ChildIsNew DEF TreeInv, Branched
    <3> QED BY <2>1, <3>1 DEF Branch
  <2>4. rd'[n].pathterminated = rd[n].pathterminated
    BY <1>2, <2>1 DEF Branch, RDNode
  <2> QED BY <2>2, <2>3, <2>4 DEF GrownAs
<1>5. CASE \E v \in Inputs, b \in {0, 1} : BranchCut(n, v, b)
  BY <1>5 DEF BranchCut
<1>6. CASE ObservationPoint(n)
  <2>1. /\ DOMAIN rd' = DOMAIN rd \cup {Observed(n)} /\ rd'[n].isHBr = rd[n].isHBr
        /\ rd'[n].pathterminated = rd[n].pathterminated
        /\ \A m \in DOMAIN rd \ {n} : rd'[m] = rd[m]
    BY <1>2, <1>6 DEF ObservationPoint, RDNode
  <2> QED BY <1>2, <1>6, <2>1, ObservationGrows DEF GrownAs
<1>7. CASE UntrustedCall(n)
  <2>1. Restarted(n) \notin DOMAIN rd /\ Observed(n) \notin DOMAIN rd
    BY <1>2, <1>7, ChildIsNew DEF TreeInv, Restarted, UntrustedCall
  <2>2. /\ DOMAIN rd' = DOMAIN rd \cup {Observed(n), Restarted(n)}
        /\ \A m \in DOMAIN rd : rd'[m] = rd[m]
    BY <1>7, <2>1 DEF UntrustedCall
  <2> QED BY <1>2, <1>7, <2>2, UntrustedCallGrows DEF GrownAs
<1> QED BY <1>1, <1>3, <1>4, <1>5, <1>6, <1>7

LEMMA GrownBranches ==
  ASSUME TreeInv, TreeType', ParentsThere', PathInv, ~opts.obs,
         NEW n \in live, GrownAt(n), GrownAs(n)
  PROVE  Branches'
<1>1. /\ n \in DOMAIN rd /\ n \in Path /\ DOMAIN rd \subseteq Path /\ roots \subseteq roots'
      /\ DOMAIN rd' \subseteq Path /\ DOMAIN rd \subseteq DOMAIN rd' /\ TreeType /\ LiveAtEnds
  <2>1. roots \subseteq roots'
    <3>1. ASSUME NEW r \in roots PROVE r \in roots'
      <4>1. r \in DOMAIN rd /\ roots \in SUBSET Path
        BY DEF TreeInv, TreeType
      <4>2. RootIn(roots, r) = r
        BY <4>1, RootOfRoot
      <4> QED BY <4>1, <4>2 DEF GrownAt, IsRootIn
    <3> QED BY <3>1
  <2> QED BY <2>1 DEF TreeInv, TreeType, GrownAt
<1>2. \A i \in 0 .. 3 : Append(n, i) \notin DOMAIN rd
  BY <1>1, ChildIsNew
\* Where a child can be new.
<1>3. ASSUME NEW k \in DOMAIN rd', NEW i \in 0 .. 3, Append(k, i) \in DOMAIN rd'
      PROVE  /\ k \in DOMAIN rd
             /\ k # n => Append(k, i) \in DOMAIN rd
  <2>1. k \in Path /\ Append(k, i) \in Path /\ IsPrefix(k, Append(k, i)) /\ k # Append(k, i)
    BY <1>1, PrefixOfChild
  <2>2. k \in DOMAIN rd
    BY <1>3, <2>1, GrownAbove
  <2>3. ASSUME Append(k, i) \notin DOMAIN rd PROVE k = n
    <3>1. PICK j \in 0 .. 3 : Append(k, i) = Append(n, j)
      BY <1>3, <2>3 DEF GrownAt, NewChild
    <3> QED BY <1>1, <2>1, <3>1, ChildrenDiffer
  <2> QED BY <2>2, <2>3
<1>4. /\ \A b \in {0, 1} : b \in 0 .. 3
      /\ \A k : /\ Observed(k) = Append(k, 2) /\ Restarted(k) = Append(k, 3)
                /\ \A b \in {0, 1} : Branched(k, b) = Append(k, b)
  BY DEF Observed, Restarted, Branched
<1>5. \A k \in DOMAIN rd' :
        /\ Observed(k) \in DOMAIN rd' =>
             k \in DOMAIN rd /\ (k # n => Observed(k) \in DOMAIN rd)
        /\ Restarted(k) \in DOMAIN rd' =>
             k \in DOMAIN rd /\ (k # n => Restarted(k) \in DOMAIN rd)
        /\ \A b \in {0, 1} : Branched(k, b) \in DOMAIN rd' =>
             k \in DOMAIN rd /\ (k # n => Branched(k, b) \in DOMAIN rd)
  <2>1. 2 \in 0 .. 3 /\ 3 \in 0 .. 3
    OBVIOUS
  <2> QED BY <1>3, <1>4, <2>1, Zenon
<1>6. Observed(n) \notin DOMAIN rd /\ Restarted(n) \notin DOMAIN rd
  <2>1. 2 \in 0 .. 3 /\ 3 \in 0 .. 3
    OBVIOUS
  <2> QED BY <1>2, <1>4, <2>1, Zenon
<1>7. \A k \in DOMAIN rd : rd'[k].constraints = rd[k].constraints
  BY DEF GrownAt, Kept
<1>8. ASSUME NEW k \in DOMAIN rd', rd'[k].isHBr
      PROVE  Branched(k, 0) \in DOMAIN rd'
  <2>1. k \in DOMAIN rd
    BY <1>8 DEF GrownAt, NewChild
  <2>2. CASE k # n
    BY <1>1, <1>8, <2>1, <2>2 DEF GrownAt, PathInv, Branches
  <2>3. CASE k = n
    BY <1>8, <2>3 DEF GrownAs, BranchedBoth
  <2> QED BY <2>2, <2>3
<1>9. ASSUME NEW k \in DOMAIN rd', NEW b \in {0, 1}, Branched(k, b) \in DOMAIN rd'
      PROVE  /\ Observed(k) \notin DOMAIN rd' /\ Restarted(k) \notin DOMAIN rd'
             /\ \E v \in Inputs :
                  /\ \A x \in {0, 1} : <<v, x>> \notin rd'[k].constraints
                  /\ rd'[k].isHBr <=> v \in Secrets
                  /\ \A x \in {0, 1} :
                       /\ Branched(k, x) \in DOMAIN rd'
                       /\ rd'[Branched(k, x)].constraints = rd'[k].constraints \cup {<<v, x>>}
  <2>1. k \in DOMAIN rd
    BY <1>5, <1>9
  <2>2. CASE k # n
    <3>1. Branched(k, b) \in DOMAIN rd
      BY <1>5, <1>9, <2>2
    <3>2. Observed(k) \notin DOMAIN rd' /\ Restarted(k) \notin DOMAIN rd'
      BY <1>5, <2>1, <2>2, <3>1 DEF PathInv, Branches
    <3>3. PICK v \in Inputs : Split(k, v)
      BY <2>1, <3>1 DEF PathInv, Branches
    <3>4. rd'[k].isHBr = rd[k].isHBr
      BY <2>1, <2>2 DEF GrownAt
    <3> QED BY <1>1, <1>7, <2>1, <3>2, <3>3, <3>4 DEF Split, Undecided
  <2>3. CASE k = n
    <3>1. PICK v \in Inputs : BranchedBoth(n, v)
      <4>1. Branched(n, b) # Observed(n) /\ Branched(n, b) # Restarted(n)
        BY <1>1, ChildrenDiffer DEF Branched, Observed, Restarted
      <4>2. b \in 0 .. 3 /\ Branched(n, b) = Append(n, b) /\ Branched(n, b) \in DOMAIN rd'
        BY <1>4, <1>9, <2>3
      <4>3. Branched(n, b) \notin DOMAIN rd
        BY <1>2, <4>2
      <4>4. ~(DOMAIN rd' \subseteq DOMAIN rd \cup {Observed(n), Restarted(n)})
        BY <4>1, <4>2, <4>3
      <4> QED BY <4>4 DEF GrownAs
    <3>2. Observed(n) \notin DOMAIN rd' /\ Restarted(n) \notin DOMAIN rd'
      <4>1. \A x \in {0, 1} : Observed(n) # Branched(n, x) /\ Restarted(n) # Branched(n, x)
        BY <1>1, ChildrenDiffer DEF Branched, Observed, Restarted
      <4> QED BY <1>6, <3>1, <4>1 DEF BranchedBoth
    <3>3. /\ \A x \in {0, 1} : BranchChild(n, Branched(n, x), v, x)
          /\ rd'[n].constraints = rd[n].constraints
      BY <1>1, <1>7, <3>1 DEF BranchedBoth
    <3>4. /\ \A x \in {0, 1} : <<v, x>> \notin rd'[n].constraints
          /\ rd'[n].isHBr <=> v \in Secrets
      BY <3>3 DEF BranchChild, Undecided
    <3>5. \A x \in {0, 1} :
            /\ Branched(n, x) \in DOMAIN rd'
            /\ rd'[Branched(n, x)].constraints = rd'[n].constraints \cup {<<v, x>>}
      BY <3>1, <3>3 DEF BranchChild, BranchedBoth
    <3> QED BY <2>3, <3>2, <3>4, <3>5
  <2> QED BY <2>2, <2>3
<1>10. ASSUME NEW k \in DOMAIN rd', Restarted(k) \in DOMAIN rd'
      PROVE  Restarted(k) \in roots'
  <2>1. k \in DOMAIN rd
    BY <1>5, <1>10
  <2>2. CASE Restarted(k) \in DOMAIN rd
    BY <1>1, <2>1, <2>2 DEF PathInv, Branches
  <2>3. CASE Restarted(k) \notin DOMAIN rd
    <3>1. k = n
      BY <1>5, <1>10, <2>3
    <3>2. NewChild(n, Restarted(n))
      BY <1>10, <2>3, <3>1 DEF GrownAt
    <3>3. Restarted(n) # Observed(n) /\ \A x \in {0, 1} : Restarted(n) # Branched(n, x)
      BY <1>1, ChildrenDiffer DEF Branched, Observed, Restarted
    <3>4. RestartedChild(n, Restarted(n))
      BY <3>2, <3>3 DEF NewChild, BranchChild, ObservedChild
    <3>5. IsRootIn(roots', Restarted(n), Restarted(n))
      BY <3>2, <3>4 DEF NewChild, RestartedChild
    <3> QED BY <3>1, <3>5 DEF IsRootIn
  <2> QED BY <2>2, <2>3
<1> QED BY <1>8, <1>9, <1>10 DEF Branches, Split, Undecided, Branched, Observed, Restarted

LEMMA GrownEnds ==
  ASSUME TreeInv, TreeType', PathInv, ~opts.obs,
         NEW n \in live, GrownAt(n), GrownAs(n)
  PROVE  EndsStay'
<1>1. n \in DOMAIN rd /\ n \in Path /\ DOMAIN rd' \subseteq Path /\ ~rd[n].pathterminated
  BY DEF TreeInv, TreeType, LiveAtEnds
<1>2. ASSUME NEW k \in DOMAIN rd', NEW m \in DOMAIN rd',
             rd'[k].pathterminated, IsPrefix(k, m), m # k
      PROVE  FALSE
  <2>1. k \in DOMAIN rd /\ (m \notin DOMAIN rd => IsPrefix(k, n))
    BY <1>2, GrownAbove
  <2>2. CASE rd[k].pathterminated
    BY <1>1, <1>2, <2>1, <2>2 DEF PathInv, EndsStay
  <2>3. CASE k = n /\ DOMAIN rd' = DOMAIN rd
    BY <1>2, <2>3 DEF TreeInv, LiveAtEnds
  <2> QED BY <1>2, <2>1, <2>2, <2>3 DEF GrownAs
<1> QED BY <1>2 DEF EndsStay

LEMMA DifferMore ==
  ASSUME NEW C, NEW D, NEW E, Differ(C, D), C \subseteq E
  PROVE  Differ(E, D)
BY DEF Differ

LEMMA DifferSymmetric ==
  ASSUME NEW C, NEW D, Differ(C, D)
  PROVE  Differ(D, C)
<1>1. PICK v \in Inputs, i \in {0, 1} : <<v, i>> \in C /\ <<v, 1 - i>> \in D
  BY DEF Differ
<1>2. 1 - i \in {0, 1} /\ 1 - (1 - i) = i
  OBVIOUS
<1> QED BY <1>1, <1>2 DEF Differ

\* A new node against an old one.
LEMMA NewAgainstOld ==
  ASSUME TreeInv, TreeType', PathInv, ~opts.obs, NEW n \in live, GrownAt(n),
         NEW c \in DOMAIN rd' \ DOMAIN rd, NEW m \in DOMAIN rd,
         RootIn(roots', c) = RootIn(roots', m)
  PROVE  Differ(rd'[c].constraints, rd[m].constraints) \/ IsPrefix(m, c)
<1>1. /\ n \in DOMAIN rd /\ n \in Path /\ c \in Path /\ m \in Path
      /\ RootIn(roots', m) = RootIn(roots, m) /\ RootIn(roots, m) \in DOMAIN rd
  BY DEF TreeInv, TreeType, Rooted, IsRootIn, GrownAt, Kept
<1>2. NewChild(n, c) /\ IsPrefix(n, c)
  <2>1. NewChild(n, c)
    BY DEF GrownAt
  <2>2. PICK i \in 0 .. 3 : c = Append(n, i)
    BY <2>1 DEF NewChild
  <2> QED BY <1>1, <2>1, <2>2, PrefixOfChild
<1>3. RootIn(roots, n) = RootIn(roots, m)
  BY <1>1, <1>2 DEF NewChild, BranchChild, ObservedChild, RestartedChild
<1>4. rd[n].constraints \subseteq rd'[c].constraints
  BY <1>2, NewConditions
<1>5. CASE Differ(rd[n].constraints, rd[m].constraints)
  BY <1>4, <1>5, DifferMore
<1>6. CASE IsPrefix(n, m)
  BY <1>2, <1>6 DEF TreeInv, LiveAtEnds
<1>7. CASE IsPrefix(m, n)
  BY <1>1, <1>2, <1>7, PrefixOrder
<1> QED BY <1>1, <1>3, <1>5, <1>6, <1>7 DEF PathInv, Diverge

\* Two new nodes.
LEMMA NewAgainstNew ==
  ASSUME TreeInv, TreeType', NEW n \in live, GrownAt(n), GrownAs(n),
         NEW c \in DOMAIN rd' \ DOMAIN rd, NEW d \in DOMAIN rd' \ DOMAIN rd,
         RootIn(roots', c) = RootIn(roots', d), c # d
  PROVE  Differ(rd'[c].constraints, rd'[d].constraints)
<1>1. n \in DOMAIN rd /\ n \in Path /\ RootIn(roots, n) \in DOMAIN rd
  BY DEF TreeInv, TreeType, Rooted, IsRootIn
<1>2. CASE \E v \in Inputs : BranchedBoth(n, v)
  <2>1. PICK v \in Inputs : BranchedBoth(n, v)
    BY <1>2
  <2>2. PICK b \in {0, 1} : c = Branched(n, b)
    BY <2>1 DEF BranchedBoth
  <2>3. d = Branched(n, 1 - b) /\ 1 - b \in {0, 1}
    BY <2>1, <2>2 DEF BranchedBoth
  <2>4. <<v, b>> \in rd'[c].constraints /\ <<v, 1 - b>> \in rd'[d].constraints
    BY <2>1, <2>2, <2>3 DEF BranchedBoth, BranchChild
  <2> QED BY <2>4 DEF Differ
<1>3. CASE DOMAIN rd' \subseteq DOMAIN rd \cup {Observed(n), Restarted(n)}
  <2>1. Observed(n) # Restarted(n)
        /\ \A b \in {0, 1} : Observed(n) # Branched(n, b) /\ Restarted(n) # Branched(n, b)
    BY <1>1, ChildrenDiffer DEF Observed, Restarted, Branched
  <2>2. ASSUME NEW x \in DOMAIN rd' \ DOMAIN rd, NEW y \in DOMAIN rd' \ DOMAIN rd,
               x = Observed(n), y = Restarted(n)
        PROVE  RootIn(roots', x) # RootIn(roots', y)
    <3>1. ObservedChild(n, x) /\ RestartedChild(n, y)
      BY <2>1, <2>2 DEF GrownAt, NewChild, BranchChild, ObservedChild, RestartedChild
    <3> QED BY <1>1, <3>1 DEF ObservedChild, RestartedChild
  <2> QED BY <1>3, <2>2
<1> QED BY <1>2, <1>3 DEF GrownAs

LEMMA GrownDiverge ==
  ASSUME TreeInv, TreeType', PathInv, ~opts.obs, NEW n \in live, GrownAt(n), GrownAs(n)
  PROVE  Diverge'
<1>1. ASSUME NEW l \in DOMAIN rd', NEW m \in DOMAIN rd',
             RootIn(roots', l) = RootIn(roots', m)
      PROVE  \/ Differ(rd'[l].constraints, rd'[m].constraints)
             \/ IsPrefix(l, m) \/ IsPrefix(m, l)
  <2>1. l \in Path /\ m \in Path /\ IsPrefix(l, l)
    BY PrefixOrder DEF TreeType
  <2>2. CASE l \in DOMAIN rd /\ m \in DOMAIN rd
    BY <1>1, <2>2 DEF GrownAt, Kept, PathInv, Diverge
  <2>3. CASE l \notin DOMAIN rd /\ m \in DOMAIN rd
    <3>1. Differ(rd'[l].constraints, rd[m].constraints) \/ IsPrefix(m, l)
      BY <1>1, <2>3, NewAgainstOld
    <3> QED BY <2>3, <3>1 DEF GrownAt, Kept
  <2>4. CASE l \in DOMAIN rd /\ m \notin DOMAIN rd
    <3>1. Differ(rd'[m].constraints, rd[l].constraints) \/ IsPrefix(l, m)
      BY <1>1, <2>4, NewAgainstOld
    <3>2. rd'[l].constraints = rd[l].constraints
      BY <2>4 DEF GrownAt, Kept
    <3> QED BY <3>1, <3>2, DifferSymmetric
  <2>5. CASE l \notin DOMAIN rd /\ m \notin DOMAIN rd
    BY <1>1, <2>1, <2>5, NewAgainstNew
  <2> QED BY <2>2, <2>3, <2>4, <2>5
<1> QED BY <1>1 DEF Diverge

LEMMA GrownNearest ==
  ASSUME TreeInv, TreeType', PathInv, ~opts.obs, NEW n \in live, GrownAt(n), GrownAs(n)
  PROVE  Nearest'
<1>1. /\ n \in DOMAIN rd /\ n \in Path /\ DOMAIN rd \subseteq Path /\ NoRD \notin Path
      /\ DOMAIN rd' \subseteq Path
  BY InputsAssumption DEF TreeInv, TreeType, Path
<1>2. ASSUME NEW a \in DOMAIN rd', NEW m \in DOMAIN rd', rd'[a].isHBr, a # m,
             IsPrefix(a, m), RootIn(roots', a) = RootIn(roots', m)
      PROVE  rd'[m].HA # NoRD /\ IsPrefix(a, rd'[m].HA)
  <2>1. a \in DOMAIN rd
    BY <1>2 DEF GrownAt, NewChild
  <2>2. a # n => rd[a].isHBr
    BY <1>2, <2>1 DEF GrownAt
  <2>3. RootIn(roots', a) = RootIn(roots, a) /\ RootIn(roots, a) \in DOMAIN rd
    BY <2>1 DEF GrownAt, Kept, TreeInv, TreeType, Rooted, IsRootIn
  <2>4. CASE m \in DOMAIN rd
    <3>1. a # n
      BY <1>2, <2>4 DEF TreeInv, LiveAtEnds
    <3>2. Above(a, m)
      BY <1>2, <2>3, <2>4 DEF Above, GrownAt, Kept
    <3> QED BY <1>2, <2>1, <2>2, <2>4, <3>1, <3>2 DEF PathInv, Nearest, GrownAt, Kept
  <2>5. CASE m \notin DOMAIN rd
    <3>1. NewChild(n, m) /\ IsPrefix(a, n)
      BY <1>2, <2>5, GrownAbove
    <3>2. RootIn(roots', m) = RootIn(roots, n)
      <4>1. RootIn(roots', m) # m
        BY <1>2, <2>3, <2>5
      <4> QED BY <3>1, <4>1 DEF NewChild, BranchChild, ObservedChild, RestartedChild
    <3>3. CASE rd'[n].isHBr
      <4>1. rd'[m].HA = n
        BY <3>1, <3>3 DEF NewChild, BranchChild, ObservedChild, RestartedChild
      <4> QED BY <1>1, <3>1, <4>1
    <3>4. CASE ~rd'[n].isHBr
      <4>1. rd'[m].HA = rd[n].HA
        <5>1. RootIn(roots, n) # m
          BY <1>2, <2>3, <2>5, <3>2
        <5> QED BY <3>1, <3>2, <3>4, <5>1
                DEF NewChild, BranchChild, ObservedChild, RestartedChild
      <4>2. a # n
        BY <1>2, <3>4
      <4>3. Above(a, n)
        BY <1>2, <2>3, <3>1, <3>2 DEF Above
      <4> QED BY <1>1, <2>1, <2>2, <4>1, <4>2, <4>3 DEF PathInv, Nearest
    <3> QED BY <3>3, <3>4
  <2> QED BY <2>4, <2>5
<1> QED BY <1>2 DEF Nearest, Above

LEMMA PathUnchanged ==
  ASSUME PathInv, UNCHANGED runVars
  PROVE  PathInv'
<1> USE DEF runVars
<1>1. Branches'
  <2>1. \A n, v : Split(n, v)' <=> Split(n, v)
    BY DEF Split, Undecided, Branched
  <2>2. \A n, b : /\ Branched(n, b)' = Branched(n, b)
                   /\ Observed(n)' = Observed(n) /\ Restarted(n)' = Restarted(n)
    BY DEF Branched, Observed, Restarted
  <2> QED BY <2>1, <2>2 DEF PathInv, Branches
<1>2. EndsStay' /\ Diverge'
  BY DEF PathInv, EndsStay, Diverge
<1>3. Nearest'
  BY DEF PathInv, Nearest, Above
<1> QED BY <1>1, <1>2, <1>3 DEF PathInv

LEMMA PathInit == Init => PathInv
<1> SUFFICES ASSUME Init PROVE PathInv
  OBVIOUS
<1>1. DOMAIN rd = {<<>>} /\ rd[<<>>] = newNode({}) /\ <<>> \in Path
  BY DEF Init, Path
<1>2. \A i \in 0 .. 3 : Append(<<>>, i) # <<>>
  BY DEF Path
<1>3. Branches
  <2>1. ~rd[<<>>].isHBr
    BY <1>1 DEF newNode
  <2>2. Branched(<<>>, 0) # <<>> /\ Branched(<<>>, 1) # <<>> /\ Restarted(<<>>) # <<>>
    BY <1>2 DEF Branched, Restarted
  <2> QED BY <1>1, <2>1, <2>2 DEF Branches
<1>4. EndsStay /\ Nearest
  BY <1>1 DEF EndsStay, Nearest, newNode
<1>5. Diverge
  BY <1>1, PrefixOrder DEF Diverge
<1> QED BY <1>3, <1>4, <1>5 DEF PathInv

LEMMA PathStep ==
  ASSUME TreeInv, TreeInv', PathInv, ~opts.loopBound, ~opts.obs, [Next]_vars
  PROVE  PathInv'
<1>1. CASE explore
  <2>1. PICK n \in live : GrownAt(n) /\ GrownAs(n)
    BY <1>1, ExploreGrowsAs
  <2>2. TreeType' /\ ParentsThere'
    BY DEF TreeInv
  <2> QED BY <2>1, <2>2, GrownBranches, GrownEnds, GrownDiverge, GrownNearest DEF PathInv
<1>2. CASE analyse
  BY <1>2, AnalyseKeeps, PathUnchanged
<1>3. CASE UNCHANGED vars
  BY <1>3, PathUnchanged DEF vars
<1> QED BY <1>1, <1>2, <1>3 DEF Next

-----------------------------------------------------------------------------
(* The leaves of a tree *)

LEMMA LeafEnds ==
  ASSUME TreeInv, NEW l \in DOMAIN rd, succ(l) = {}, NEW m \in DOMAIN rd, IsPrefix(l, m)
  PROVE  m = l
<1>1. l \in Path /\ m \in Path
  BY DEF TreeInv, TreeType
<1>2. ASSUME m # l PROVE FALSE
  <2>1. PICK i \in 0 .. 3 : IsPrefix(Append(l, i), m)
    BY <1>1, <1>2, ChildTowards
  <2>2. Append(l, i) \in DOMAIN rd
    BY <1>1, <2>1, PrefixOfChild DEF TreeInv, ParentsThere
  <2> QED BY <2>2 DEF succ
<1> QED BY <1>2

\* A path below a branch took one of its outcomes.
LEMMA BelowBranch ==
  ASSUME TreeInv, PathInv, NEW n \in DOMAIN rd, NEW m \in DOMAIN rd,
         IsPrefix(n, m), n # m, NEW x \in {0, 1}, Branched(n, x) \in DOMAIN rd
  PROVE  m[Len(n) + 1] \in {0, 1} /\ IsPrefix(Branched(n, m[Len(n) + 1]), m)
<1>1. n \in Path /\ m \in Path
  BY DEF TreeInv, TreeType
<1>2. PICK i \in 0 .. 3 : i = m[Len(n) + 1] /\ IsPrefix(Append(n, i), m)
  BY <1>1, ChildTowards
<1>3. Append(n, i) \in DOMAIN rd
  BY <1>1, <1>2, PrefixOfChild DEF TreeInv, ParentsThere
<1>4. Append(n, 2) \notin DOMAIN rd /\ Append(n, 3) \notin DOMAIN rd
  BY DEF PathInv, Branches, Observed, Restarted
<1>5. i \in {0, 1}
  BY <1>3, <1>4
<1> QED BY <1>2, <1>5 DEF Branched

LEMMA AgreesWithItself ==
  ASSUME TreeInv, NEW n \in DOMAIN rd
  PROVE  ~Differ(rd[n].constraints, rd[n].constraints)
BY DEF TreeInv, ConditionsAgree, DifferIn, Differ

\* Two leaves of a tree have different conditions.
LEMMA OneLeaf ==
  ASSUME TreeInv, PathInv, NEW l \in DOMAIN rd, NEW m \in DOMAIN rd,
         succ(l) = {}, succ(m) = {}, RootIn(roots, l) = RootIn(roots, m),
         rd[l].constraints = rd[m].constraints
  PROVE  l = m
<1>1. ~Differ(rd[l].constraints, rd[m].constraints)
  BY AgreesWithItself
<1>2. IsPrefix(l, m) \/ IsPrefix(m, l)
  BY <1>1 DEF PathInv, Diverge
<1> QED BY <1>2, LeafEnds

\* A leaf of a tree has other conditions than a secret branch.
LEMMA LeafIsNoBranch ==
  ASSUME TreeInv, PathInv, NEW l \in DOMAIN rd, NEW c \in DOMAIN rd,
         succ(l) = {}, rd[c].isHBr, RootIn(roots, l) = RootIn(roots, c)
  PROVE  l # c /\ rd[l].constraints # rd[c].constraints
<1>1. Branched(c, 0) \in DOMAIN rd /\ c \in Path /\ l \in Path
  BY DEF PathInv, Branches, TreeInv, TreeType
<1>2. l # c
  <2>1. 0 \in 0 .. 3 /\ Append(c, 0) \in DOMAIN rd
    BY <1>1 DEF Branched
  <2>2. Append(c, 0) \in succ(c)
    BY <2>1 DEF succ
  <2> QED BY <2>2
<1>3. ASSUME rd[l].constraints = rd[c].constraints PROVE FALSE
  <2>1. ~Differ(rd[l].constraints, rd[c].constraints)
    BY <1>3, AgreesWithItself
  <2>2. IsPrefix(c, l)
    BY <1>2, <2>1, LeafEnds DEF PathInv, Diverge
  <2>3. PICK b \in {0, 1} : IsPrefix(Branched(c, b), l)
    BY <1>1, <1>2, <2>2, BelowBranch
  <2>4. Branched(c, b) \in DOMAIN rd
    <3>1. Branched(c, b) \in Path
      BY <1>1, PrefixOfChild DEF Branched
    <3> QED BY <2>3, <3>1 DEF TreeInv, ParentsThere
  <2>5. PICK v \in Inputs : Split(c, v)
    BY <2>4 DEF PathInv, Branches
  <2>6. <<v, b>> \in rd[Branched(c, b)].constraints /\ <<v, b>> \notin rd[c].constraints
    BY <2>5 DEF Split, Undecided
  <2>7. rd[Branched(c, b)].constraints \subseteq rd[l].constraints
    BY <2>3, <2>4 DEF TreeInv, ConditionsGrow
  <2> QED BY <1>3, <2>6, <2>7
<1> QED BY <1>2, <1>3

-----------------------------------------------------------------------------
(* What was decided since a node *)

LEMMA Decided ==
  ASSUME NEW a, NEW l
  PROVE  /\ DecidedBetween(a, l).h = SecretOf(rd[l].constraints \ rd[a].constraints)
         /\ DecidedBetween(a, l).l = PublicOf(rd[l].constraints \ rd[a].constraints)
         /\ \A h : h = DecidedBetween(a, l) <=>
              h = [h |-> SecretOf(rd[l].constraints \ rd[a].constraints),
                   l |-> PublicOf(rd[l].constraints \ rd[a].constraints)]
BY DEF DecidedBetween, SecretOf, PublicOf

LEMMA SameDecided ==
  ASSUME TreeInv, NeutralFree, NEW a \in DOMAIN rd, NEW l \in DOMAIN rd, NEW m \in DOMAIN rd,
         IsPrefix(a, l), IsPrefix(a, m), DecidedBetween(a, l) = DecidedBetween(a, m)
  PROVE  rd[l].constraints = rd[m].constraints
<1>1. rd[a].constraints \subseteq rd[l].constraints /\ rd[a].constraints \subseteq rd[m].constraints
  BY DEF TreeInv, ConditionsGrow
<1>2. \A k \in DOMAIN rd : \A x \in rd[k].constraints : x[1] \in Secrets \/ x[1] \in Publics
  <2>1. \A k \in DOMAIN rd : rd[k].constraints \subseteq Literals
    BY DEF TreeInv, TreeType, RDNode
  <2>2. \A x \in Literals : x[1] \in Inputs
    BY DEF Literals
  <2> QED BY <2>1, <2>2 DEF NeutralFree, Inputs
<1>3. /\ SecretOf(rd[l].constraints \ rd[a].constraints)
           = SecretOf(rd[m].constraints \ rd[a].constraints)
      /\ PublicOf(rd[l].constraints \ rd[a].constraints)
           = PublicOf(rd[m].constraints \ rd[a].constraints)
  BY Decided
<1>4. ASSUME NEW k \in DOMAIN rd, NEW j \in DOMAIN rd,
             rd[a].constraints \subseteq rd[j].constraints,
             SecretOf(rd[k].constraints \ rd[a].constraints)
               = SecretOf(rd[j].constraints \ rd[a].constraints),
             PublicOf(rd[k].constraints \ rd[a].constraints)
               = PublicOf(rd[j].constraints \ rd[a].constraints)
      PROVE  rd[k].constraints \subseteq rd[j].constraints
  <2>1. ASSUME NEW x \in rd[k].constraints, x \notin rd[a].constraints
        PROVE  x \in rd[j].constraints
    <3>1. CASE x[1] \in Secrets
      BY <1>4, <2>1, <3>1 DEF SecretOf
    <3>2. CASE x[1] \in Publics
      BY <1>4, <2>1, <3>2 DEF PublicOf
    <3> QED BY <1>2, <3>1, <3>2
  <2> QED BY <1>4, <2>1
<1>5. rd[l].constraints \subseteq rd[m].constraints
  BY <1>1, <1>3, <1>4
<1>6. rd[m].constraints \subseteq rd[l].constraints
  BY <1>1, <1>3, <1>4
<1> QED BY <1>5, <1>6

\* The conditions since a are those up to c and those since c.
LEMMA DecidedInTwo ==
  ASSUME TreeInv, NEW a \in DOMAIN rd, NEW c \in DOMAIN rd, NEW l \in DOMAIN rd,
         IsPrefix(a, c), IsPrefix(c, l)
  PROVE  DecidedBetween(a, l) =
           [h |-> DecidedBetween(a, c).h \cup DecidedBetween(c, l).h,
            l |-> DecidedBetween(a, c).l \cup DecidedBetween(c, l).l]
<1>1. rd[a].constraints \subseteq rd[c].constraints /\ rd[c].constraints \subseteq rd[l].constraints
  BY DEF TreeInv, ConditionsGrow
<1>2. /\ SecretOf(rd[l].constraints \ rd[a].constraints)
           = SecretOf(rd[c].constraints \ rd[a].constraints)
               \cup SecretOf(rd[l].constraints \ rd[c].constraints)
      /\ PublicOf(rd[l].constraints \ rd[a].constraints)
           = PublicOf(rd[c].constraints \ rd[a].constraints)
               \cup PublicOf(rd[l].constraints \ rd[c].constraints)
  BY <1>1 DEF SecretOf, PublicOf
<1> QED BY <1>2, Decided

-----------------------------------------------------------------------------
(* What arrives at a node comes from a leaf below it *)

\* A cost with hash h that ends at a is that of leaf l.
Cost(a, h, min, max, terminated, l) ==
  /\ l \in DOMAIN rd /\ succ(l) = {} /\ l # a /\ Above(a, l)
  /\ h = DecidedBetween(a, l)
  /\ terminated > 0 => rd[l].pathterminated
  /\ ~opts.obs => /\ rd[l].pathterminated => terminated > 0
                  /\ min = rd[l].ru /\ max = rd[l].ru

RuType ==
  /\ \A x \in DOMAIN Ru : x = <<x[1], x[2]>> /\ x[1] \in DOMAIN rd
  /\ Ru \in [DOMAIN Ru -> [min : Nat, max : Nat, terminated : Nat]]

RuRight ==
  \A x \in DOMAIN Ru : \E l \in DOMAIN rd :
    Cost(x[1], x[2], Ru[x].min, Ru[x].max, Ru[x].terminated, l)

\* Leaves and secret branches climb.
CursorRight ==
  cursor # NoRD => /\ cursor \in DOMAIN rd /\ rd[cursor].HA # NoRD
                   /\ succ(cursor) = {} \/ rd[cursor].isHBr

RunEmpty == phase = "run" => Ru = <<>> /\ reported = {} /\ sourcev = {} /\ cursor = NoRD

LEMMA AncestorOfCursor ==
  ASSUME TreeInv, CursorRight, cursor # NoRD
  PROVE  LET a == rd[cursor].HA IN
         /\ a \in DOMAIN rd /\ cursor \in DOMAIN rd /\ a # cursor /\ Above(a, cursor)
         /\ rd[a].isHBr /\ getHash(cursor) = DecidedBetween(a, cursor)
BY DEF CursorRight, TreeInv, AncestorsAbove, HashesSinceBase, Base

Contribution(c, a, l) ==
  /\ c.min \in Nat /\ c.max \in Nat /\ c.terminated \in Nat
  /\ Cost(a, c.hash, c.min, c.max, c.terminated, l)

LEMMA ContributionRight ==
  ASSUME TreeInv, RuType, RuRight, CursorRight, cursor # NoRD,
         NEW c \in Contributions(cursor)
  PROVE  \E l \in DOMAIN rd : Contribution(c, rd[cursor].HA, l)
<1> DEFINE a == rd[cursor].HA
<1>1. /\ a \in DOMAIN rd /\ cursor \in DOMAIN rd /\ a # cursor /\ Above(a, cursor)
      /\ getHash(cursor) = DecidedBetween(a, cursor)
      /\ a \in Path /\ cursor \in Path /\ rd[cursor] \in RDNode
  BY AncestorOfCursor DEF TreeInv, TreeType
<1> HIDE DEF a
<1>2. CASE ~rd[cursor].isHBr
  <2>1. succ(cursor) = {}
    BY <1>2 DEF CursorRight
  <2>2. /\ c.hash = getHash(cursor) /\ c.min = rd[cursor].ru /\ c.max = rd[cursor].ru
        /\ c.terminated = IF rd[cursor].pathterminated THEN 1 ELSE 0
    BY <1>2 DEF Contributions
  <2>3. rd[cursor].ru \in Nat
    BY <1>1 DEF RDNode
  <2>4. /\ c.terminated \in Nat /\ (c.terminated > 0 <=> rd[cursor].pathterminated)
    BY <2>2
  <2>5. Contribution(c, a, cursor)
    BY <1>1, <2>1, <2>2, <2>3, <2>4 DEF Contribution, Cost
  <2> QED BY <1>1, <2>5 DEF a
<1>3. CASE rd[cursor].isHBr
  <2>1. PICK x \in EntriesAt(cursor) :
          c = [hash |-> [h |-> rd[cursor].HC \cup x[2].h, l |-> rd[cursor].LC \cup x[2].l],
               min |-> Ru[x].min, max |-> Ru[x].max, terminated |-> Ru[x].terminated]
    BY <1>3 DEF Contributions
  <2>2. x \in DOMAIN Ru /\ x[1] = cursor
    BY DEF EntriesAt
  <2>3. PICK l \in DOMAIN rd :
          Cost(cursor, x[2], Ru[x].min, Ru[x].max, Ru[x].terminated, l)
    BY <2>2 DEF RuRight
  <2>4. l \in Path /\ Above(cursor, l) /\ l # cursor /\ x[2] = DecidedBetween(cursor, l)
    BY <2>3 DEF Cost, TreeInv, TreeType
  <2>5. Above(a, l) /\ l # a
    BY <1>1, <2>4, PrefixOrder DEF Above
  <2>6. c.hash = [h |-> DecidedBetween(a, cursor).h \cup DecidedBetween(cursor, l).h,
                  l |-> DecidedBetween(a, cursor).l \cup DecidedBetween(cursor, l).l]
    <3>1. rd[cursor].HC = getHash(cursor).h /\ rd[cursor].LC = getHash(cursor).l
      BY DEF getHash
    <3> QED BY <1>1, <2>1, <2>4, <3>1
  <2>7. c.hash = DecidedBetween(a, l)
    BY <1>1, <2>4, <2>6, DecidedInTwo DEF Above
  <2>8. /\ c.min = Ru[x].min /\ c.max = Ru[x].max /\ c.terminated = Ru[x].terminated
        /\ Ru[x].min \in Nat /\ Ru[x].max \in Nat /\ Ru[x].terminated \in Nat
    BY <2>1, <2>2 DEF RuType
  <2>9. Contribution(c, a, l)
    BY <2>3, <2>5, <2>7, <2>8 DEF Contribution, Cost
  <2> QED BY <2>9 DEF a
<1> QED BY <1>2, <1>3

\* A hash at a node belongs to one leaf.
LEMMA OneCost ==
  ASSUME TreeInv, PathInv, NeutralFree,
         NEW a \in DOMAIN rd, NEW h, NEW l \in DOMAIN rd, NEW m \in DOMAIN rd,
         succ(l) = {}, succ(m) = {}, Above(a, l), Above(a, m),
         h = DecidedBetween(a, l), h = DecidedBetween(a, m)
  PROVE  l = m
<1>1. rd[l].constraints = rd[m].constraints
  BY SameDecided DEF Above
<1> QED BY <1>1, OneLeaf DEF Above

\* combineRange has nothing to combine with.
LEMMA NoRangeYet ==
  ASSUME TreeInv, PathInv, NeutralFree, RuRight, CursorRight, cursor # NoRD,
         NEW c \in Contributions(cursor), <<rd[cursor].HA, c.hash>> \notin DOMAIN Ru
  PROVE  <<rd[cursor].HA, getHash(cursor)>> \notin DOMAIN Ru
<1> DEFINE a == rd[cursor].HA
           x == <<a, getHash(cursor)>>
<1>1. /\ a \in DOMAIN rd /\ cursor \in DOMAIN rd /\ a # cursor /\ Above(a, cursor)
      /\ getHash(cursor) = DecidedBetween(a, cursor)
  BY AncestorOfCursor
<1> SUFFICES ASSUME x \in DOMAIN Ru PROVE FALSE
  OBVIOUS
<1>2. x[1] = a /\ x[2] = getHash(cursor)
  OBVIOUS
<1> HIDE DEF a, x
<1>3. PICK l \in DOMAIN rd : Cost(a, getHash(cursor), Ru[x].min, Ru[x].max, Ru[x].terminated, l)
  BY <1>2 DEF RuRight
<1>4. succ(l) = {} /\ Above(a, l) /\ DecidedBetween(a, l) = DecidedBetween(a, cursor)
  BY <1>1, <1>3 DEF Cost
<1>5. rd[l].constraints = rd[cursor].constraints
  BY <1>1, <1>4, SameDecided DEF Above
<1>6. ~rd[cursor].isHBr
  BY <1>1, <1>4, <1>5, LeafIsNoBranch DEF Above
<1>7. c.hash = getHash(cursor)
  BY <1>6 DEF Contributions
<1> QED BY <1>7 DEF a, x

-----------------------------------------------------------------------------
(* Costs that climb stay right *)

LEMMA TreeOperatorsKept ==
  ASSUME UNCHANGED runVars
  PROVE  /\ \A n : succ(n)' = succ(n) /\ getHash(n)' = getHash(n)
         /\ \A n, m : (Above(n, m)' <=> Above(n, m)) /\ DecidedBetween(n, m)' = DecidedBetween(n, m)
         /\ NeutralFree' <=> NeutralFree
BY DEF runVars, succ, getHash, Above, DecidedBetween, NeutralFree

LEMMA CostsKept ==
  ASSUME UNCHANGED runVars,
         \A x \in DOMAIN Ru' : \E l \in DOMAIN rd :
           Cost(x[1], x[2], Ru'[x].min, Ru'[x].max, Ru'[x].terminated, l)
  PROVE  RuRight'
BY TreeOperatorsKept DEF runVars, RuRight, Cost

LEMMA RangeCombined ==
  ASSUME NEW R, NEW c, c.min \in Nat, c.max \in Nat, c.terminated \in Nat,
         \A r \in R : r.min \in Nat /\ r.max \in Nat
  PROVE  /\ combineRange(R, c) \in [min : Nat, max : Nat, terminated : Nat]
         /\ combineRange(R, c).terminated = c.terminated
         /\ R = {} => combineRange(R, c).min = c.min /\ combineRange(R, c).max = c.max
<1>1. CASE R = {}
  BY <1>1 DEF combineRange
<1>2. CASE R # {}
  <2>1. PICK r \in R : r = CHOOSE q \in R : TRUE
    BY <1>2
  <2>2. r.min \in Nat /\ r.max \in Nat
    OBVIOUS
  <2>3. combineRange(R, c) = [min |-> IF r.min < c.min THEN r.min ELSE c.min,
                              max |-> IF r.max > c.max THEN r.max ELSE c.max,
                              terminated |-> c.terminated]
    BY <1>2, <2>1 DEF combineRange
  <2> QED BY <1>2, <2>2, <2>3
<1> QED BY <1>1, <1>2

\* What ClimbStep does to the costs.
LEMMA ClimbedCosts ==
  ASSUME TreeInv, ClimbStep
  PROVE  LET a == rd[cursor].HA
             C == Contributions(cursor)
             R == {Ru[x] : x \in DOMAIN Ru \cap {<<a, getHash(cursor)>>}}
         IN /\ DOMAIN Ru' = DOMAIN Ru \cup {<<a, c.hash>> : c \in C}
            /\ \A x \in DOMAIN Ru' :
                 \/ x \in DOMAIN Ru /\ Ru'[x] = Ru[x]
                 \/ \E c \in C :
                      /\ x[1] = a /\ x[2] = c.hash
                      /\ Ru'[x] = IF x \in DOMAIN Ru
                                    THEN [Ru[x] EXCEPT !.terminated = @ + c.terminated]
                                    ELSE combineRange(R, c)
<1> DEFINE a == rd[cursor].HA
           C == Contributions(cursor)
           R == {Ru[x] : x \in DOMAIN Ru \cap {<<a, getHash(cursor)>>}}
           Added(x, c) == IF x \in DOMAIN Ru
                            THEN [Ru[x] EXCEPT !.terminated = @ + c.terminated]
                            ELSE combineRange(R, c)
<1>1. Ru' = [x \in DOMAIN Ru \cup {<<a, c.hash>> : c \in C} |->
               IF x[1] = a /\ \E c \in C : c.hash = x[2]
                 THEN Added(x, CHOOSE c \in C : c.hash = x[2])
                 ELSE Ru[x]]
  BY DEF ClimbStep
<1> HIDE DEF a, C, R, Added
<1>2. DOMAIN Ru' = DOMAIN Ru \cup {<<a, c.hash>> : c \in C}
  BY <1>1
<1>3. ASSUME NEW x \in DOMAIN Ru'
      PROVE  \/ x \in DOMAIN Ru /\ Ru'[x] = Ru[x]
             \/ \E c \in C : x[1] = a /\ x[2] = c.hash /\ Ru'[x] = Added(x, c)
  <2>1. CASE x[1] = a /\ \E c \in C : c.hash = x[2]
    <3>1. PICK c \in C : c = CHOOSE d \in C : d.hash = x[2]
      BY <2>1
    <3>2. c.hash = x[2]
      BY <2>1, <3>1
    <3>3. Ru'[x] = Added(x, c)
      BY <1>1, <1>2, <2>1, <3>1
    <3> QED BY <2>1, <3>2, <3>3
  <2>2. CASE ~(x[1] = a /\ \E c \in C : c.hash = x[2])
    <3>1. x \in DOMAIN Ru
      BY <1>2, <2>2
    <3>2. Ru'[x] = Ru[x]
      BY <1>1, <1>2, <2>2
    <3> QED BY <3>1, <3>2
  <2> QED BY <2>1, <2>2
<1>4. \A x, c : Added(x, c) = IF x \in DOMAIN Ru
                                THEN [Ru[x] EXCEPT !.terminated = @ + c.terminated]
                                ELSE combineRange(R, c)
  BY DEF Added
<1> QED BY <1>2, <1>3, <1>4 DEF a, C, R

LEMMA ClimbKeepsCosts ==
  ASSUME TreeInv, ~opts.obs => PathInv, NeutralFree, RuType, RuRight, CursorRight, ClimbStep
  PROVE  RuType' /\ RuRight'
<1> DEFINE a == rd[cursor].HA
           C == Contributions(cursor)
           R == {Ru[x] : x \in DOMAIN Ru \cap {<<a, getHash(cursor)>>}}
<1>1. cursor # NoRD /\ UNCHANGED runVars
  BY DEF ClimbStep
<1>2. /\ DOMAIN Ru' = DOMAIN Ru \cup {<<a, c.hash>> : c \in C}
      /\ \A x \in DOMAIN Ru' :
           \/ x \in DOMAIN Ru /\ Ru'[x] = Ru[x]
           \/ \E c \in C :
                /\ x[1] = a /\ x[2] = c.hash
                /\ Ru'[x] = IF x \in DOMAIN Ru
                              THEN [Ru[x] EXCEPT !.terminated = @ + c.terminated]
                              ELSE combineRange(R, c)
  BY ClimbedCosts
<1>3. a \in DOMAIN rd
  BY <1>1, AncestorOfCursor
<1>4. \A c \in C : \E l \in DOMAIN rd : Contribution(c, a, l)
  BY <1>1, ContributionRight
<1>5. \A c \in C : ~opts.obs /\ <<a, c.hash>> \notin DOMAIN Ru => R = {}
  BY <1>1, NoRangeYet
<1>6. \A r \in R : r.min \in Nat /\ r.max \in Nat
  BY DEF RuType
<1>7. \A x \in DOMAIN Ru : Ru[x] \in [min : Nat, max : Nat, terminated : Nat]
  BY DEF RuType
<1> HIDE DEF a, C, R
<1>8. \A x \in DOMAIN Ru' : x = <<x[1], x[2]>> /\ x[1] \in DOMAIN rd
  BY <1>2, <1>3 DEF RuType
<1>9. ASSUME NEW x \in DOMAIN Ru'
      PROVE  /\ Ru'[x] \in [min : Nat, max : Nat, terminated : Nat]
             /\ \E l \in DOMAIN rd :
                  Cost(x[1], x[2], Ru'[x].min, Ru'[x].max, Ru'[x].terminated, l)
  <2>1. CASE x \in DOMAIN Ru /\ Ru'[x] = Ru[x]
    BY <1>7, <2>1 DEF RuRight
  <2>2. CASE \E c \in C :
               /\ x[1] = a /\ x[2] = c.hash
               /\ Ru'[x] = IF x \in DOMAIN Ru
                             THEN [Ru[x] EXCEPT !.terminated = @ + c.terminated]
                             ELSE combineRange(R, c)
    <3>1. PICK c \in C :
               /\ x[1] = a /\ x[2] = c.hash
               /\ Ru'[x] = IF x \in DOMAIN Ru
                             THEN [Ru[x] EXCEPT !.terminated = @ + c.terminated]
                             ELSE combineRange(R, c)
      BY <2>2
    <3>2. PICK l \in DOMAIN rd : Contribution(c, a, l)
      BY <1>4
    <3>3. c.min \in Nat /\ c.max \in Nat /\ c.terminated \in Nat
      BY <3>2 DEF Contribution
    <3>4. CASE x \in DOMAIN Ru
      <4>1. /\ Ru'[x] = [Ru[x] EXCEPT !.terminated = @ + c.terminated]
            /\ Ru[x] \in [min : Nat, max : Nat, terminated : Nat]
        BY <1>7, <3>1, <3>4
      <4>2. /\ Ru'[x].min = Ru[x].min /\ Ru'[x].max = Ru[x].max
            /\ Ru'[x].terminated = Ru[x].terminated + c.terminated
            /\ Ru[x].terminated \in Nat
            /\ Ru'[x] \in [min : Nat, max : Nat, terminated : Nat]
        BY <3>3, <4>1
      <4>3. PICK m \in DOMAIN rd : Cost(x[1], x[2], Ru[x].min, Ru[x].max, Ru[x].terminated, m)
        BY <3>4 DEF RuRight
      <4>4. CASE opts.obs /\ Ru[x].terminated = 0
        <5>1. Ru'[x].terminated = c.terminated
          BY <3>3, <4>2, <4>4
        <5>2. Cost(x[1], x[2], Ru'[x].min, Ru'[x].max, Ru'[x].terminated, l)
          BY <3>1, <3>2, <4>4, <5>1 DEF Contribution, Cost
        <5> QED BY <4>2, <5>2
      <4>5. CASE opts.obs /\ Ru[x].terminated # 0
        <5>1. Ru[x].terminated > 0
          BY <4>2, <4>5
        <5>2. Cost(x[1], x[2], Ru'[x].min, Ru'[x].max, Ru'[x].terminated, m)
          BY <4>3, <4>5, <5>1 DEF Cost
        <5> QED BY <4>2, <5>2
      <4>6. CASE ~opts.obs
        <5>1. l = m
          BY <1>3, <3>1, <3>2, <4>3, <4>6, OneCost DEF Contribution, Cost
        <5>2. Ru'[x].terminated > 0 <=> Ru[x].terminated > 0 \/ c.terminated > 0
          BY <3>3, <4>2
        <5>3. Cost(x[1], x[2], Ru'[x].min, Ru'[x].max, Ru'[x].terminated, m)
          BY <3>2, <4>2, <4>3, <4>6, <5>1, <5>2 DEF Contribution, Cost
        <5> QED BY <4>2, <5>3
      <4> QED BY <4>4, <4>5, <4>6
    <3>5. CASE x \notin DOMAIN Ru
      <4>1. Ru'[x] = combineRange(R, c) /\ x = <<a, c.hash>>
        BY <1>8, <3>1, <3>5
      <4>2. /\ Ru'[x] \in [min : Nat, max : Nat, terminated : Nat]
            /\ Ru'[x].terminated = c.terminated
            /\ R = {} => Ru'[x].min = c.min /\ Ru'[x].max = c.max
        BY <1>6, <3>3, <4>1, RangeCombined
      <4>3. ~opts.obs => R = {}
        BY <1>5, <3>5, <4>1
      <4>4. Cost(x[1], x[2], Ru'[x].min, Ru'[x].max, Ru'[x].terminated, l)
        BY <3>1, <3>2, <4>2, <4>3 DEF Contribution, Cost
      <4> QED BY <4>2, <4>4
    <3> QED BY <3>4, <3>5
  <2> QED BY <1>2, <2>1, <2>2
<1>10. Ru' = [x \in DOMAIN Ru' |-> Ru'[x]]
  BY DEF ClimbStep
<1>11. Ru' \in [DOMAIN Ru' -> [min : Nat, max : Nat, terminated : Nat]]
  BY <1>9, <1>10
<1>12. RuType'
  BY <1>1, <1>8, <1>11 DEF RuType, runVars
<1>13. RuRight'
  BY <1>1, <1>9, CostsKept
<1> QED BY <1>12, <1>13

-----------------------------------------------------------------------------
(* What is reported *)

\* Hashes agree on public data when their paths do.
LEMMA PublicAgreement ==
  ASSUME TreeInv, NEW n \in DOMAIN rd, NEW l \in DOMAIN rd, NEW m \in DOMAIN rd,
         IsPrefix(n, l), IsPrefix(n, m)
  PROVE  PublicsAgree(DecidedBetween(n, l), DecidedBetween(n, m)) <=> ~DifferIn(Publics, l, m)
<1> DEFINE k1 == DecidedBetween(n, l)
           k2 == DecidedBetween(n, m)
<1>1. /\ rd[n].constraints \subseteq rd[l].constraints
      /\ rd[n].constraints \subseteq rd[m].constraints
  BY DEF TreeInv, ConditionsGrow
<1>2. /\ ~Differ(rd[l].constraints, rd[l].constraints)
      /\ ~Differ(rd[m].constraints, rd[m].constraints)
  BY AgreesWithItself
<1>3. /\ k1.l = PublicOf(rd[l].constraints \ rd[n].constraints)
      /\ k2.l = PublicOf(rd[m].constraints \ rd[n].constraints)
  BY Decided
<1> HIDE DEF k1, k2
<1>4. ASSUME NEW v \in Publics, NEW i \in {0, 1},
             <<v, i>> \in rd[l].constraints, <<v, 1 - i>> \in rd[m].constraints
      PROVE  v \in Inputs /\ {<<v, 0>>, <<v, 1>>} \subseteq (k1.l \cup k2.l)
  <2>1. v \in Inputs /\ 1 - i \in {0, 1} /\ 1 - (1 - i) = i
    BY DEF Inputs
  <2>2. <<v, i>> \notin rd[n].constraints
    BY <1>1, <1>2, <1>4, <2>1 DEF Differ
  <2>3. <<v, 1 - i>> \notin rd[n].constraints
    BY <1>1, <1>2, <1>4, <2>1 DEF Differ
  <2>4. <<v, i>>[1] = v /\ <<v, 1 - i>>[1] = v
    OBVIOUS
  <2>5. <<v, i>> \in k1.l /\ <<v, 1 - i>> \in k2.l
    BY <1>3, <1>4, <2>2, <2>3, <2>4 DEF PublicOf
  <2>6. i = 0 \/ i = 1
    OBVIOUS
  <2> QED BY <2>1, <2>5, <2>6
<1>5. ASSUME NEW v \in Inputs, {<<v, 0>>, <<v, 1>>} \subseteq (k1.l \cup k2.l)
      PROVE  DifferIn(Publics, l, m)
  <2>1. \A x \in k1.l : x \in rd[l].constraints /\ x[1] \in Publics
    BY <1>3 DEF PublicOf
  <2>2. \A x \in k2.l : x \in rd[m].constraints /\ x[1] \in Publics
    BY <1>3 DEF PublicOf
  <2>3. <<v, 0>>[1] = v /\ v \in Publics
    BY <1>5, <2>1, <2>2
  <2>4. ~(<<v, 0>> \in k1.l /\ <<v, 1>> \in k1.l) /\ ~(<<v, 0>> \in k2.l /\ <<v, 1>> \in k2.l)
    BY <1>2, <2>1, <2>2 DEF Differ
  <2>5. \E i \in {0, 1} : <<v, i>> \in k1.l /\ <<v, 1 - i>> \in k2.l
    <3>1. CASE <<v, 0>> \in k1.l /\ <<v, 1>> \in k2.l
      BY <3>1
    <3>2. CASE <<v, 1>> \in k1.l /\ <<v, 0>> \in k2.l
      BY <3>2
    <3> QED BY <1>5, <2>4, <3>1, <3>2
  <2> QED BY <2>1, <2>2, <2>3, <2>5 DEF DifferIn
<1>6. PublicsAgree(k1, k2) <=> ~DifferIn(Publics, l, m)
  BY <1>4, <1>5 DEF PublicsAgree, DifferIn
<1> QED BY <1>6 DEF k1, k2

\* Two leaves of a tree that agree on public data differ in secret data.
LEMMA SecretsTellApart ==
  ASSUME TreeInv, PathInv, NeutralFree, NEW l \in DOMAIN rd, NEW m \in DOMAIN rd,
         succ(l) = {}, succ(m) = {}, RootIn(roots, l) = RootIn(roots, m), l # m,
         ~DifferIn(Publics, l, m)
  PROVE  DifferIn(Secrets, l, m)
<1>1. Differ(rd[l].constraints, rd[m].constraints)
  BY LeafEnds DEF PathInv, Diverge
<1>2. PICK v \in Inputs, i \in {0, 1} :
        <<v, i>> \in rd[l].constraints /\ <<v, 1 - i>> \in rd[m].constraints
  BY <1>1 DEF Differ
<1>3. v \notin Publics
  BY <1>2 DEF DifferIn
<1>4. v \notin Others
  <2>1. <<v, i>>[1] = v
    OBVIOUS
  <2> QED BY <1>2, <2>1 DEF NeutralFree
<1>5. v \in Secrets
  BY <1>3, <1>4 DEF Inputs
<1> QED BY <1>2, <1>5 DEF DifferIn

\* A report: two paths below its node, of one tree.
ReportRight(r) ==
  \E l1, l2 \in {l \in Leaves(r.node) : rd[l].pathterminated} :
    /\ r.pair = {DecidedBetween(r.node, l1), DecidedBetween(r.node, l2)}
    /\ ~DifferIn(Publics, l1, l2)
    /\ DecidedBetween(r.node, l1).h # DecidedBetween(r.node, l2).h
    /\ ~opts.obs => DifferIn(Secrets, l1, l2) /\ rd[l1].ru # rd[l2].ru

LEMMA ReportedAt ==
  ASSUME NEW n, printLeakage(n), NEW r \in reported', r \notin reported
  PROVE  /\ r.node = n /\ r.pair \in sourcev'
         /\ \E k1, k2 \in HashesAt(n) :
              /\ r.pair = {k1, k2} /\ k1 # k2
              /\ SecretsDiffer(k1, k2) /\ PublicsAgree(k1, k2)
              /\ Ru[<<n, k1>>].terminated > 0 /\ Ru[<<n, k2>>].terminated > 0
              /\ RangesDiffer(Ru[<<n, k1>>], Ru[<<n, k2>>])
<1>1. PICK found \in SUBSET {p \in Comparable(n) : DifferSomeWay(n, p)} :
        /\ reported' = reported \cup {[node |-> n, pair |-> p] : p \in found}
        /\ sourcev' = sourcev \cup found
  BY DEF printLeakage
<1>2. PICK p \in found : r = [node |-> n, pair |-> p]
  BY <1>1
<1>3. p \in Comparable(n) /\ DifferSomeWay(n, p)
  OBVIOUS
<1>4. PICK q \in HashesAt(n) \X HashesAt(n) :
        /\ p = {q[1], q[2]} /\ q[1] # q[2]
        /\ SecretsDiffer(q[1], q[2]) /\ PublicsAgree(q[1], q[2])
        /\ Ru[<<n, q[1]>>].terminated > 0 /\ Ru[<<n, q[2]>>].terminated > 0
  BY <1>3 DEF Comparable
<1>5. PICK k1 \in p, k2 \in p : k1 # k2 /\ RangesDiffer(Ru[<<n, k1>>], Ru[<<n, k2>>])
  BY <1>3 DEF DifferSomeWay
<1>6. k1 \in HashesAt(n) /\ k2 \in HashesAt(n) /\ p = {k1, k2}
  BY <1>4, <1>5
<1>7. /\ SecretsDiffer(k1, k2) /\ PublicsAgree(k1, k2)
      /\ Ru[<<n, k1>>].terminated > 0 /\ Ru[<<n, k2>>].terminated > 0
  <2>1. CASE k1 = q[1] /\ k2 = q[2]
    BY <1>4, <2>1
  <2>2. CASE k1 = q[2] /\ k2 = q[1]
    BY <1>4, <2>2 DEF SecretsDiffer, PublicsAgree
  <2> QED BY <1>4, <1>5, <2>1, <2>2
<1> QED BY <1>1, <1>2, <1>5, <1>6, <1>7

LEMMA ReportIsRight ==
  ASSUME TreeInv, ~opts.obs => PathInv, NeutralFree, RuType, RuRight,
         NEW n, printLeakage(n), NEW r \in reported', r \notin reported
  PROVE  ReportRight(r)
<1>1. r.node = n
  BY ReportedAt
<1>2. PICK k1 \in HashesAt(n), k2 \in HashesAt(n) :
        /\ r.pair = {k1, k2} /\ k1 # k2
        /\ SecretsDiffer(k1, k2) /\ PublicsAgree(k1, k2)
        /\ Ru[<<n, k1>>].terminated > 0 /\ Ru[<<n, k2>>].terminated > 0
        /\ RangesDiffer(Ru[<<n, k1>>], Ru[<<n, k2>>])
  BY ReportedAt
<1> DEFINE R1 == Ru[<<n, k1>>]
           R2 == Ru[<<n, k2>>]
<1>3. <<n, k1>> \in DOMAIN Ru /\ <<n, k2>> \in DOMAIN Ru /\ n \in DOMAIN rd
  BY DEF HashesAt, EntriesAt, RuType
<1>4. PICK l1 \in DOMAIN rd : Cost(n, k1, R1.min, R1.max, R1.terminated, l1)
  BY <1>3 DEF RuRight
<1>5. PICK l2 \in DOMAIN rd : Cost(n, k2, R2.min, R2.max, R2.terminated, l2)
  BY <1>3 DEF RuRight
<1>6. /\ R1 \in [min : Nat, max : Nat, terminated : Nat]
      /\ R2 \in [min : Nat, max : Nat, terminated : Nat]
  BY <1>3 DEF RuType
<1>7. R1.terminated > 0 /\ R2.terminated > 0 /\ RangesDiffer(R1, R2)
  BY <1>2
<1> HIDE DEF R1, R2
<1>8. /\ succ(l1) = {} /\ Above(n, l1) /\ k1 = DecidedBetween(n, l1) /\ rd[l1].pathterminated
      /\ succ(l2) = {} /\ Above(n, l2) /\ k2 = DecidedBetween(n, l2) /\ rd[l2].pathterminated
  BY <1>4, <1>5, <1>7 DEF Cost
<1>9. l1 \in Leaves(n) /\ l2 \in Leaves(n)
  BY <1>8 DEF Leaves, Below, Above
<1>10. ~DifferIn(Publics, l1, l2)
  BY <1>2, <1>3, <1>8, PublicAgreement DEF Above
<1>11. DecidedBetween(n, l1).h # DecidedBetween(n, l2).h
  BY <1>2, <1>8 DEF SecretsDiffer
<1>12. ASSUME ~opts.obs
       PROVE  DifferIn(Secrets, l1, l2) /\ rd[l1].ru # rd[l2].ru
  <2>1. l1 # l2
    BY <1>11
  <2>2. DifferIn(Secrets, l1, l2)
    BY <1>8, <1>10, <1>12, <2>1, SecretsTellApart DEF Above
  <2>3. R1.min = rd[l1].ru /\ R1.max = rd[l1].ru /\ R2.min = rd[l2].ru /\ R2.max = rd[l2].ru
    BY <1>4, <1>5, <1>12 DEF Cost
  <2>4. rd[l1].ru # rd[l2].ru
    BY <1>6, <1>7, <2>3 DEF RangesDiffer, Distance
  <2> QED BY <2>2, <2>4
<1>13. /\ r.pair = {DecidedBetween(n, l1), DecidedBetween(n, l2)}
       /\ l1 \in {l \in Leaves(n) : rd[l].pathterminated}
       /\ l2 \in {l \in Leaves(n) : rd[l].pathterminated}
  BY <1>2, <1>8, <1>9
<1> QED BY <1>1, <1>10, <1>11, <1>12, <1>13 DEF ReportRight

CostInv ==
  /\ RunEmpty /\ CursorRight
  /\ NeutralFree => RuType /\ RuRight /\ \A r \in reported : ReportRight(r)

LEMMA CostsOfRun ==
  ASSUME Ru = <<>>, reported = {}, cursor = NoRD, sourcev = {}
  PROVE  CostInv
<1>1. DOMAIN Ru = {} /\ Ru \in [{} -> [min : Nat, max : Nat, terminated : Nat]]
  OBVIOUS
<1>2. RuType /\ RuRight
  BY <1>1 DEF RuType, RuRight
<1> QED BY <1>2 DEF CostInv, RunEmpty, CursorRight

LEMMA CostsUnchanged ==
  ASSUME TreeInv, RuType, RuRight, UNCHANGED runVars, Ru' = Ru
  PROVE  RuType' /\ RuRight'
<1>1. RuType'
  BY DEF RuType, runVars
<1>2. RuRight'
  BY CostsKept DEF RuRight
<1> QED BY <1>1, <1>2

LEMMA ReportsKept ==
  ASSUME UNCHANGED runVars, NEW r, ReportRight(r)
  PROVE  ReportRight(r)'
<1>1. \A n : Leaves(n)' = Leaves(n)
  BY DEF runVars, Leaves, Below, succ
<1>2. \A n, m : DecidedBetween(n, m)' = DecidedBetween(n, m)
  BY TreeOperatorsKept
<1>3. \A V, n, m : DifferIn(V, n, m)' <=> DifferIn(V, n, m)
  BY DEF runVars, DifferIn
<1>4. rd' = rd /\ opts' = opts
  BY DEF runVars
<1> QED BY <1>1, <1>2, <1>3, <1>4 DEF ReportRight

LEMMA CursorStep ==
  ASSUME TreeInv, CursorRight, analyse
  PROVE  CursorRight'
<1>1. UNCHANGED runVars
  BY AnalyseKeeps
<1>2. \A n : succ(n)' = succ(n)
  BY <1>1, TreeOperatorsKept
<1>3. cursor' = NoRD \/ cursor' = cursor
      \/ (\E n \in DOMAIN rd : PropagateLeaf(n)) \/ ClimbStep
  BY DEF analyse, timeSideChannelAnalysis, PropagateDone, checkLeakage, CheckDone
<1>4. CASE cursor' = NoRD \/ cursor' = cursor
  BY <1>1, <1>2, <1>4 DEF CursorRight, runVars
<1>5. CASE \E n \in DOMAIN rd : PropagateLeaf(n)
  <2>1. PICK n \in DOMAIN rd : PropagateLeaf(n)
    BY <1>5
  <2>2. succ(n) = {} /\ cursor' = IF rd[n].HA = NoRD THEN NoRD ELSE n
    BY <2>1 DEF PropagateLeaf, ClimbsOn, Leaves
  <2> QED BY <1>1, <1>2, <2>2 DEF CursorRight, runVars
<1>6. CASE ClimbStep
  <2> DEFINE a == rd[cursor].HA
  <2>1. a \in DOMAIN rd /\ rd[a].isHBr
    BY <1>6, AncestorOfCursor DEF ClimbStep
  <2>2. cursor' = IF rd[a].HA = NoRD THEN NoRD ELSE a
    BY <1>6 DEF ClimbStep, ClimbsOn
  <2> HIDE DEF a
  <2> QED BY <1>1, <2>1, <2>2 DEF CursorRight, runVars
<1> QED BY <1>3, <1>4, <1>5, <1>6

LEMMA CostStep ==
  ASSUME TreeInv, ~opts.obs => PathInv, CostInv, [Next]_vars
  PROVE  CostInv'
<1>1. CASE explore
  <2>1. phase = "run" /\ UNCHANGED <<Ru, reported, cursor, sourcev>>
    BY <1>1 DEF explore, Execute, Branch, BranchCut, ObservationPoint, UntrustedCall, Exit,
                TerminateEarly, Running, analysisVars
  <2>2. Ru' = <<>> /\ reported' = {} /\ cursor' = NoRD /\ sourcev' = {}
    BY <2>1 DEF CostInv, RunEmpty
  <2>3. DOMAIN Ru' = {} /\ Ru' \in [{} -> [min : Nat, max : Nat, terminated : Nat]]
    BY <2>2
  <2>4. RuType' /\ RuRight'
    BY <2>3 DEF RuType, RuRight
  <2> QED BY <2>2, <2>4 DEF CostInv, RunEmpty, CursorRight
<1>2. CASE analyse
  <2>1. UNCHANGED runVars
    BY <1>2, AnalyseKeeps
  <2>2. CursorRight'
    BY <1>2, CursorStep DEF CostInv
  <2>3. RunEmpty'
    <3>1. phase' # "run"
      BY <1>2 DEF analyse, timeSideChannelAnalysis, NextRoot, PropagateLeaf, ClimbStep,
                  PropagateDone, checkLeakage, CheckDone
    <3> QED BY <3>1 DEF RunEmpty
  <2>4. ASSUME NeutralFree'
        PROVE  RuType' /\ RuRight' /\ \A r \in reported' : ReportRight(r)'
    <3>1. NeutralFree
      BY <2>1, <2>4, TreeOperatorsKept
    <3>2. RuType /\ RuRight /\ CursorRight /\ \A r \in reported : ReportRight(r)
      BY <3>1 DEF CostInv
    <3>3. RuType' /\ RuRight'
      <4>1. CASE ClimbStep
        BY <3>1, <3>2, <4>1, ClimbKeepsCosts
      <4>2. CASE Ru' = Ru
        BY <2>1, <3>2, <4>2, CostsUnchanged
      <4> QED BY <1>2, <4>1, <4>2 DEF analyse, timeSideChannelAnalysis, PropagateLeaf,
                                      PropagateDone, checkLeakage, CheckDone
    <3>4. ASSUME NEW r \in reported' PROVE ReportRight(r)
      <4>1. reported' = reported \/ \E n \in DOMAIN rd : printLeakage(n)
        BY <1>2 DEF analyse, timeSideChannelAnalysis, PropagateLeaf, ClimbStep,
                    PropagateDone, checkLeakage, CheckDone
      <4>2. CASE r \in reported
        BY <3>2, <4>2
      <4>3. CASE r \notin reported
        <5>1. PICK n \in DOMAIN rd : printLeakage(n)
          BY <3>4, <4>1, <4>3
        <5> QED BY <3>1, <3>2, <3>4, <4>3, <5>1, ReportIsRight
      <4> QED BY <4>2, <4>3
    <3> QED BY <2>1, <3>3, <3>4, ReportsKept
  <2> QED BY <2>2, <2>3, <2>4 DEF CostInv
<1>3. CASE UNCHANGED vars
  <2>1. UNCHANGED runVars /\ UNCHANGED <<Ru, reported, cursor, phase, sourcev>>
    BY <1>3 DEF vars
  <2>2. RunEmpty' /\ CursorRight'
    BY <2>1, TreeOperatorsKept DEF CostInv, RunEmpty, CursorRight, runVars
  <2>3. ASSUME NeutralFree'
        PROVE  RuType' /\ RuRight' /\ \A r \in reported' : ReportRight(r)'
    <3>1. NeutralFree
      BY <2>1, <2>3, TreeOperatorsKept
    <3>2. RuType /\ RuRight /\ \A r \in reported : ReportRight(r)
      BY <3>1 DEF CostInv
    <3>3. RuType' /\ RuRight'
      BY <2>1, <3>2, CostsUnchanged
    <3> QED BY <2>1, <3>2, <3>3, ReportsKept
  <2> QED BY <2>2, <2>3 DEF CostInv
<1> QED BY <1>1, <1>2, <1>3 DEF Next

-----------------------------------------------------------------------------
(* Leaks, without observation points *)

LEMMA CompletedIsLeaf ==
  ASSUME TreeInv, PathInv, NEW l \in DOMAIN rd, rd[l].pathterminated
  PROVE  succ(l) = {}
<1>1. ASSUME NEW i \in 0 .. 3, Append(l, i) \in DOMAIN rd PROVE FALSE
  <2>1. l \in Path
    BY DEF TreeInv, TreeType
  <2>2. IsPrefix(l, Append(l, i)) /\ Append(l, i) # l
    BY <2>1, PrefixOfChild
  <2> QED BY <1>1, <2>2 DEF PathInv, EndsStay
<1> QED BY <1>1 DEF succ

\* Paths of one tree that run apart at n have n in their tree.
LEMMA LeakInTree ==
  ASSUME TreeInv, NEW n \in DOMAIN rd, NEW l \in DOMAIN rd, NEW m \in DOMAIN rd,
         l # n, m # n, IsPrefix(n, l), IsPrefix(n, m), l[Len(n) + 1] # m[Len(n) + 1],
         RootIn(roots, l) = RootIn(roots, m)
  PROVE  LET r == RootIn(roots, n) IN
         /\ RootIn(roots, l) = r /\ IsRootIn(roots, r, n)
         /\ IsRootIn(roots, r, l) /\ IsRootIn(roots, r, m)
<1>1. PICK r : r = RootIn(roots, l)
  OBVIOUS
<1>2. /\ n \in Path /\ l \in Path /\ m \in Path /\ roots \in SUBSET Path
      /\ IsRootIn(roots, r, l) /\ IsRootIn(roots, r, m) /\ r \in Path
      /\ IsPrefix(r, l) /\ IsPrefix(r, m)
  BY <1>1 DEF TreeInv, TreeType, Rooted, IsRootIn
<1>3. IsPrefix(r, n)
  <2>1. IsPrefix(r, n) \/ IsPrefix(n, r)
    BY <1>2, PrefixOrder
  <2>2. ASSUME IsPrefix(n, r), n # r PROVE FALSE
    <3>1. PICK j \in 0 .. 3 : IsPrefix(Append(n, j), r)
      BY <1>2, <2>2, ChildTowards
    <3>2. PICK x \in 0 .. 3 : x = l[Len(n) + 1] /\ IsPrefix(Append(n, x), l)
      BY <1>2, ChildTowards
    <3>3. PICK y \in 0 .. 3 : y = m[Len(n) + 1] /\ IsPrefix(Append(n, y), m)
      BY <1>2, ChildTowards
    <3>4. /\ Append(n, j) \in Path
          /\ IsPrefix(Append(n, j), l) /\ IsPrefix(Append(n, j), m)
      <4>1. Append(n, j) \in Path
        BY <1>2, PrefixOfChild
      <4> QED BY <1>2, <3>1, <4>1, PrefixOrder
    <3>5. x = j
      BY <1>2, <3>2, <3>4, OneChildTowards
    <3>6. y = j
      BY <1>2, <3>3, <3>4, OneChildTowards
    <3> QED BY <1>2, <3>2, <3>3, <3>5, <3>6
  <2>3. IsPrefix(n, n)
    BY <1>2, PrefixOrder
  <2> QED BY <2>1, <2>2, <2>3
<1>4. IsRootIn(roots, r, n)
  BY <1>2, <1>3, RootBetween
<1>5. RootIn(roots, n) = r
  BY <1>2, <1>4, RootIs
<1> QED BY <1>1, <1>2, <1>4, <1>5

\* They run apart at the two outcomes of a branch.
LEMMA LeakOutcomes ==
  ASSUME TreeInv, PathInv, NEW n \in DOMAIN rd, NEW l \in DOMAIN rd, NEW m \in DOMAIN rd,
         l # n, m # n, IsPrefix(n, l), IsPrefix(n, m), l[Len(n) + 1] # m[Len(n) + 1],
         RootIn(roots, l) = RootIn(roots, m)
  PROVE  \E v \in Inputs, b \in {0, 1} :
           /\ Split(n, v)
           /\ <<v, b>> \in rd[l].constraints /\ <<v, 1 - b>> \in rd[m].constraints
<1>1. PICK r : /\ r = RootIn(roots, n) /\ IsRootIn(roots, r, n)
               /\ IsRootIn(roots, r, l) /\ IsRootIn(roots, r, m)
  BY LeakInTree
<1>2. n \in Path /\ l \in Path /\ m \in Path /\ r \in Path /\ Len(n) \in Nat /\ Len(r) \in Nat
  BY <1>1 DEF TreeInv, TreeType, IsRootIn, Path
<1>3. PICK x \in 0 .. 3 : x = l[Len(n) + 1] /\ IsPrefix(Append(n, x), l)
  BY <1>2, ChildTowards
<1>4. PICK y \in 0 .. 3 : y = m[Len(n) + 1] /\ IsPrefix(Append(n, y), m)
  BY <1>2, ChildTowards
<1>5. Append(n, x) \in DOMAIN rd /\ Append(n, y) \in DOMAIN rd
  BY <1>2, <1>3, <1>4, PrefixOfChild DEF TreeInv, ParentsThere
<1>6. ASSUME NEW k \in DOMAIN rd, IsRootIn(roots, r, k), IsPrefix(Append(n, 3), k),
             Append(n, 3) \in DOMAIN rd
      PROVE  FALSE
  <2>1. Append(n, 3) \in roots
    BY <1>6 DEF PathInv, Branches, Restarted
  <2>2. Len(Append(n, 3)) = Len(n) + 1
    BY <1>2, PrefixOfChild
  <2>3. Len(n) + 1 <= Len(r)
    BY <1>6, <2>1, <2>2 DEF IsRootIn
  <2>4. Len(r) <= Len(n)
    BY <1>1, <1>2, PrefixOrder DEF IsRootIn
  <2> QED BY <1>2, <2>3, <2>4
<1>7. x # 3 /\ y # 3
  BY <1>1, <1>3, <1>4, <1>5, <1>6
<1>8. x # y
  BY <1>3, <1>4
<1>9. \E z \in {0, 1} : Branched(n, z) \in DOMAIN rd
  <2>1. x \in {0, 1} \/ y \in {0, 1}
    BY <1>7, <1>8
  <2> QED BY <1>5, <2>1 DEF Branched
<1>10. x \in {0, 1} /\ y \in {0, 1} /\ y = 1 - x
  BY <1>3, <1>4, <1>8, <1>9, BelowBranch
<1>11. PICK v \in Inputs : Split(n, v)
  BY <1>9 DEF PathInv, Branches
<1>12. <<v, x>> \in rd[l].constraints
  <2>1. <<v, x>> \in rd[Append(n, x)].constraints
    BY <1>10, <1>11 DEF Split, Branched
  <2> QED BY <1>3, <1>5, <2>1 DEF TreeInv, ConditionsGrow
<1>13. <<v, y>> \in rd[m].constraints
  <2>1. <<v, y>> \in rd[Append(n, y)].constraints
    BY <1>10, <1>11 DEF Split, Branched
  <2> QED BY <1>4, <1>5, <2>1 DEF TreeInv, ConditionsGrow
<1> QED BY <1>10, <1>11, <1>12, <1>13

\* A leak is at a secret branch, where the two hashes can be compared.
LEMMA LeakAtBranch ==
  ASSUME TreeInv, PathInv, NeutralFree,
         NEW n \in DOMAIN rd, NEW l \in DOMAIN rd, NEW m \in DOMAIN rd,
         rd[l].pathterminated, rd[m].pathterminated, Leak(n, l, m)
  PROVE  /\ rd[n].isHBr /\ Above(n, l) /\ Above(n, m) /\ n # l /\ n # m
         /\ succ(l) = {} /\ succ(m) = {} /\ rd[l].ru # rd[m].ru
         /\ SecretsDiffer(DecidedBetween(n, l), DecidedBetween(n, m))
         /\ PublicsAgree(DecidedBetween(n, l), DecidedBetween(n, m))
<1>1. RootOf(l) = RootIn(roots, l) /\ RootOf(m) = RootIn(roots, m)
  BY DEF RootOf, RootIn
<1>2. /\ l # n /\ m # n /\ IsPrefix(n, l) /\ IsPrefix(n, m) /\ l[Len(n) + 1] # m[Len(n) + 1]
      /\ RootIn(roots, l) = RootIn(roots, m)
      /\ rd[l].ru # rd[m].ru /\ ~DifferIn(Publics, l, m)
  BY <1>1 DEF Leak
<1>3. Above(n, l) /\ Above(n, m)
  BY <1>2, LeakInTree DEF Above
<1>4. PICK v \in Inputs, b \in {0, 1} :
        Split(n, v) /\ <<v, b>> \in rd[l].constraints /\ <<v, 1 - b>> \in rd[m].constraints
  BY <1>2, LeakOutcomes
<1>5. <<v, b>>[1] = v
  OBVIOUS
<1>6. v \in Secrets
  <2>1. v \notin Publics
    BY <1>2, <1>4 DEF DifferIn
  <2>2. v \notin Others
    BY <1>4, <1>5 DEF NeutralFree
  <2> QED BY <2>1, <2>2 DEF Inputs
<1>7. rd[n].isHBr
  BY <1>4, <1>6 DEF Split
<1>8. <<v, b>> \in SecretOf(rd[l].constraints \ rd[n].constraints)
  BY <1>4, <1>5, <1>6 DEF SecretOf, Split, Undecided
<1>9. <<v, b>> \notin SecretOf(rd[m].constraints \ rd[n].constraints)
  <2>1. <<v, b>> \notin rd[m].constraints
    BY <1>4, AgreesWithItself DEF Differ
  <2> QED BY <2>1 DEF SecretOf
<1>10. SecretsDiffer(DecidedBetween(n, l), DecidedBetween(n, m))
  BY <1>8, <1>9, Decided DEF SecretsDiffer
<1>11. PublicsAgree(DecidedBetween(n, l), DecidedBetween(n, m))
  BY <1>2, PublicAgreement
<1> QED BY <1>2, <1>3, <1>7, <1>10, <1>11, CompletedIsLeaf

-----------------------------------------------------------------------------
(* The analysis finds every leak: costs arrive, and are compared *)

HighAbove(a, l) == rd[a].isHBr /\ a # l /\ Above(a, l)

\* The cost of leaf l has arrived at a, or is on its way from the cursor.
Carried(l, a) == <<a, DecidedBetween(a, l)>> \in DOMAIN Ru
OnTheWay(l, a) ==
  cursor # NoRD /\ a # cursor /\ IsPrefix(a, cursor) /\ Above(cursor, l)

\* The leaks between completed paths at n are reported.
Checked(n) ==
  NeutralFree =>
    \A l, m \in {k \in DOMAIN rd : rd[k].pathterminated} :
      Leak(n, l, m) =>
        \E r \in reported : r.pair = {DecidedBetween(n, l), DecidedBetween(n, m)}

PhaseInv ==
  /\ phase \in {"run", "propagate", "check", "done"}
  /\ pending \subseteq roots
  /\ phase \in {"propagate", "check"} => root \in roots
  /\ phase # "propagate" => cursor = NoRD
PairsReported == \A p \in sourcev : \E r \in reported : r.pair = p
Climbing ==
  phase = "propagate" =>
    \A l \in visited :
      /\ l \in DOMAIN rd /\ succ(l) = {}
      /\ \A a \in DOMAIN rd : HighAbove(a, l) => Carried(l, a) \/ OnTheWay(l, a)
Arrived ==
  phase = "check" =>
    \A l \in Leaves(root) : \A a \in DOMAIN rd : HighAbove(a, l) => Carried(l, a)
CheckedBelow == phase = "check" => \A n \in visited : Checked(n)
RootChecked ==
  \/ phase = "run"
  \/ phase \in {"propagate", "check"} /\ (<<>> \in pending \/ root = <<>>)
  \/ \A n \in DOMAIN rd : Checked(n)

AnalysisInv ==
  PhaseInv /\ PairsReported /\ Climbing /\ Arrived /\ CheckedBelow /\ RootChecked

LEMMA AnalysisInit == Init => AnalysisInv
<1> SUFFICES ASSUME Init PROVE AnalysisInv
  OBVIOUS
<1>1. phase = "run" /\ pending = {} /\ cursor = NoRD /\ sourcev = {}
  BY DEF Init
<1> QED BY <1>1 DEF AnalysisInv, PhaseInv, PairsReported, Climbing, Arrived, CheckedBelow,
                    RootChecked

LEMMA HighAboveKept ==
  ASSUME UNCHANGED runVars
  PROVE  \A a, l : HighAbove(a, l)' <=> HighAbove(a, l)
BY TreeOperatorsKept DEF HighAbove, runVars

LEMMA CarriedKept ==
  ASSUME UNCHANGED runVars, DOMAIN Ru \subseteq DOMAIN Ru', NEW l, NEW a, Carried(l, a)
  PROVE  Carried(l, a)'
BY TreeOperatorsKept DEF Carried

LEMMA LeakKept ==
  ASSUME UNCHANGED runVars
  PROVE  \A n, l, m : Leak(n, l, m)' <=> Leak(n, l, m)
<1>1. \A k : RootOf(k)' = RootOf(k)
  <2>1. \A k : RootOf(k) = RootIn(roots, k) /\ RootOf(k)' = RootIn(roots', k)
    BY DEF RootOf, RootIn
  <2> QED BY <2>1 DEF runVars
<1>2. \A V, l, m : DifferIn(V, l, m)' <=> DifferIn(V, l, m)
  BY DEF runVars, DifferIn
<1>3. rd' = rd
  BY DEF runVars
<1> QED BY <1>1, <1>2, <1>3 DEF Leak

LEMMA CheckedKept ==
  ASSUME UNCHANGED runVars, reported \subseteq reported', NEW n, Checked(n)
  PROVE  Checked(n)'
<1>1. rd' = rd
  BY DEF runVars
<1>2. NeutralFree' <=> NeutralFree
  BY TreeOperatorsKept
<1>3. \A l : DecidedBetween(n, l)' = DecidedBetween(n, l)
  BY TreeOperatorsKept
<1> QED BY <1>1, <1>2, <1>3, LeakKept DEF Checked

\* A leaf starts to climb: every secret branch above it is at or above its
\* high ancestor.
LEMMA LeafStarts ==
  ASSUME TreeInv, PathInv, Climbing, NEW m \in DOMAIN rd, PropagateLeaf(m)
  PROVE  Climbing'
<1>1. /\ UNCHANGED runVars /\ Ru' = Ru /\ phase = "propagate" /\ cursor = NoRD
      /\ m \in Leaves(root) /\ visited' = visited \cup {m}
      /\ cursor' = IF rd[m].HA = NoRD THEN NoRD ELSE m
  BY DEF PropagateLeaf, ClimbsOn
<1>2. m \in Path /\ succ(m) = {} /\ rd' = rd
  BY <1>1 DEF Leaves, TreeInv, TreeType, runVars
<1>3. m # NoRD
  BY <1>2, InputsAssumption DEF Path
<1>4. ASSUME NEW l \in visited', NEW a \in DOMAIN rd, HighAbove(a, l)
      PROVE  Carried(l, a)' \/ OnTheWay(l, a)'
  <2>1. CASE l \in visited
    <3>1. Carried(l, a)
      BY <1>1, <1>4, <2>1 DEF Climbing, OnTheWay
    <3> QED BY <1>1, <3>1, CarriedKept
  <2>2. CASE l = m
    <3>1. rd[m].HA # NoRD
      BY <1>4, <2>2 DEF HighAbove, PathInv, Nearest
    <3>2. cursor' = m
      BY <1>1, <3>1
    <3>3. IsPrefix(a, m) /\ a # m
      BY <1>4, <2>2 DEF HighAbove, Above
    <3>4. Above(m, m)
      BY <1>2, PrefixOrder DEF Above
    <3>5. Above(m, m)'
      BY <1>1, <3>4, TreeOperatorsKept
    <3>6. OnTheWay(m, a)'
      BY <1>3, <3>2, <3>3, <3>5 DEF OnTheWay
    <3> QED BY <2>2, <3>6
  <2> QED BY <1>1, <2>1, <2>2
<1>5. \A l \in visited' : l \in DOMAIN rd /\ succ(l) = {}
  BY <1>1, <1>2 DEF Climbing
<1> QED BY <1>1, <1>2, <1>4, <1>5, HighAboveKept, TreeOperatorsKept DEF Climbing

\* One step up: the costs that arrived at the cursor arrive at its high
\* ancestor, below which no other secret branch lies.
LEMMA ClimbArrives ==
  ASSUME TreeInv, PathInv, CursorRight, ClimbStep,
         NEW l \in DOMAIN rd, succ(l) = {}, Above(cursor, l),
         cursor # l => Carried(l, cursor)
  PROVE  <<rd[cursor].HA, DecidedBetween(rd[cursor].HA, l)>> \in DOMAIN Ru'
<1> DEFINE a == rd[cursor].HA
           C == Contributions(cursor)
           d == DecidedBetween(a, cursor)
           e == DecidedBetween(cursor, l)
<1>1. DOMAIN Ru' = DOMAIN Ru \cup {<<a, c.hash>> : c \in C}
  BY ClimbedCosts
<1>2. /\ a \in DOMAIN rd /\ cursor \in DOMAIN rd /\ Above(a, cursor)
      /\ getHash(cursor) = d
  BY AncestorOfCursor DEF ClimbStep
<1>3. rd[cursor].HC = d.h /\ rd[cursor].LC = d.l
  BY <1>2 DEF getHash
<1>4. \E c \in C : c.hash = DecidedBetween(a, l)
  <2>1. CASE ~rd[cursor].isHBr
    <3>1. succ(cursor) = {}
      BY <2>1 DEF CursorRight, ClimbStep
    <3>2. cursor = l
      BY <1>2, <3>1, LeafEnds DEF Above
    <3>3. PICK c \in C : c.hash = getHash(cursor)
      BY <2>1 DEF Contributions
    <3> QED BY <1>2, <3>2, <3>3
  <2>2. CASE rd[cursor].isHBr
    <3>1. cursor # l
      BY <1>2, <2>2, LeafIsNoBranch
    <3>2. <<cursor, e>> \in DOMAIN Ru
      BY <3>1 DEF Carried
    <3>3. PICK x \in EntriesAt(cursor) : x[2] = e
      BY <3>2 DEF EntriesAt
    <3>4. PICK c \in C : c.hash = [h |-> rd[cursor].HC \cup x[2].h,
                                   l |-> rd[cursor].LC \cup x[2].l]
      <4>1. [hash |-> [h |-> rd[cursor].HC \cup x[2].h, l |-> rd[cursor].LC \cup x[2].l],
             min |-> Ru[x].min, max |-> Ru[x].max, terminated |-> Ru[x].terminated] \in C
        BY <2>2 DEF Contributions
      <4> QED BY <4>1
    <3>5. DecidedBetween(a, l) = [h |-> d.h \cup e.h, l |-> d.l \cup e.l]
      BY <1>2, DecidedInTwo DEF Above
    <3> HIDE DEF a, C, d, e
    <3> QED BY <1>3, <3>3, <3>4, <3>5
  <2> QED BY <2>1, <2>2
<1> HIDE DEF C
<1>5. PICK c \in C : c.hash = DecidedBetween(a, l)
  BY <1>4
<1>6. <<a, c.hash>> \in DOMAIN Ru'
  BY <1>1
<1> QED BY <1>5, <1>6

LEMMA ClimbGoesOn ==
  ASSUME TreeInv, PathInv, CursorRight, Climbing, ClimbStep
  PROVE  Climbing'
<1>1. PICK h : h = rd[cursor].HA
  OBVIOUS
<1>2. /\ UNCHANGED runVars /\ phase = "propagate" /\ cursor # NoRD /\ visited' = visited
      /\ cursor' = IF rd[h].HA = NoRD THEN NoRD ELSE h
  BY <1>1 DEF ClimbStep, ClimbsOn
<1>3. /\ h \in DOMAIN rd /\ cursor \in DOMAIN rd /\ h # cursor /\ Above(h, cursor)
      /\ h \in Path /\ cursor \in Path /\ h # NoRD
  <2>1. h \in DOMAIN rd /\ cursor \in DOMAIN rd /\ h # cursor /\ Above(h, cursor)
    BY <1>2, <1>1, AncestorOfCursor
  <2>2. h # NoRD
    BY <1>2, <1>1 DEF CursorRight
  <2>3. h \in Path /\ cursor \in Path
    BY <2>1 DEF TreeInv, TreeType
  <2> QED BY <2>1, <2>2, <2>3
<1>4. DOMAIN Ru \subseteq DOMAIN Ru'
  BY ClimbedCosts
<1>5. ASSUME NEW l \in visited, NEW a \in DOMAIN rd, HighAbove(a, l)
      PROVE  Carried(l, a)' \/ OnTheWay(l, a)'
  <2>1. l \in DOMAIN rd /\ succ(l) = {} /\ l \in Path
    BY <1>2, <1>5 DEF Climbing, TreeInv, TreeType
  <2>2. CASE Carried(l, a)
    BY <1>2, <1>4, <2>2, CarriedKept
  <2>3. CASE OnTheWay(l, a)
    <3>1. a # cursor /\ IsPrefix(a, cursor) /\ Above(cursor, l)
      BY <2>3 DEF OnTheWay
    <3>2. Above(a, cursor) /\ rd[a].isHBr
      BY <1>5, <3>1 DEF HighAbove, Above
    <3>3. IsPrefix(a, h)
      BY <1>3, <1>1, <3>1, <3>2 DEF PathInv, Nearest
    <3>4. CASE a = h
      <4>1. cursor # l => Carried(l, cursor)
        <5>1. ASSUME cursor # l PROVE Carried(l, cursor)
          <6>1. rd[cursor].isHBr
            <7>1. ASSUME succ(cursor) = {} PROVE FALSE
              BY <1>3, <2>1, <3>1, <5>1, <7>1, LeafEnds DEF Above
            <7> QED BY <1>2, <7>1 DEF CursorRight
          <6>2. HighAbove(cursor, l)
            BY <3>1, <5>1, <6>1 DEF HighAbove
          <6>3. ~OnTheWay(l, cursor)
            BY DEF OnTheWay
          <6> QED BY <1>2, <1>3, <1>5, <6>2, <6>3 DEF Climbing
        <5> QED BY <5>1
      <4>2. <<h, DecidedBetween(h, l)>> \in DOMAIN Ru'
        BY <1>1, <2>1, <3>1, <4>1, ClimbArrives
      <4>3. Carried(l, a)'
        BY <1>2, <3>4, <4>2, TreeOperatorsKept DEF Carried
      <4> QED BY <4>3
    <3>5. CASE a # h
      <4>1. Above(a, h)
        BY <1>3, <3>2, <3>3 DEF Above
      <4>2. rd[h].HA # NoRD
        BY <1>3, <3>2, <3>5, <4>1 DEF PathInv, Nearest
      <4>3. cursor' = h
        BY <1>2, <4>2
      <4>4. Above(h, l)
        BY <1>3, <2>1, <3>1, PrefixOrder DEF Above
      <4>5. Above(h, l)'
        BY <1>2, <4>4, TreeOperatorsKept
      <4>6. OnTheWay(l, a)'
        BY <1>3, <3>3, <3>5, <4>3, <4>5 DEF OnTheWay
      <4> QED BY <4>6
    <3> QED BY <3>4, <3>5
  <2> QED BY <1>2, <1>5, <2>2, <2>3 DEF Climbing
<1>6. \A l \in visited' : l \in DOMAIN rd /\ succ(l) = {}
  BY <1>2 DEF Climbing
<1>7. rd' = rd
  BY <1>2 DEF runVars
<1> QED BY <1>2, <1>5, <1>6, <1>7, HighAboveKept, TreeOperatorsKept DEF Climbing

\* When no leaf is left to visit, all costs have arrived.
LEMMA AllArrive ==
  ASSUME Climbing, PropagateDone
  PROVE  Arrived'
<1>1. /\ UNCHANGED runVars /\ UNCHANGED <<Ru, root>> /\ phase = "propagate" /\ cursor = NoRD
      /\ Leaves(root) \subseteq visited
  BY DEF PropagateDone
<1>2. \A l \in Leaves(root), a \in DOMAIN rd : HighAbove(a, l) => Carried(l, a)
  BY <1>1 DEF Climbing, OnTheWay
<1>3. Leaves(root)' = Leaves(root) /\ rd' = rd
  BY <1>1 DEF runVars, Leaves, Below, succ
<1>4. \A l, a : Carried(l, a) => Carried(l, a)'
  BY <1>1, CarriedKept
<1> QED BY <1>1, <1>2, <1>3, <1>4, HighAboveKept DEF Arrived

\* The cost of a completed path at a secret branch above it.
LEMMA CostThere ==
  ASSUME TreeInv, PathInv, NeutralFree, RuType, RuRight, ~opts.obs,
         NEW n \in DOMAIN rd, NEW l \in DOMAIN rd, succ(l) = {}, rd[l].pathterminated,
         Above(n, l), Carried(l, n)
  PROVE  LET k == DecidedBetween(n, l) IN
         /\ k \in HashesAt(n)
         /\ Ru[<<n, k>>].terminated > 0 /\ Ru[<<n, k>>].max = rd[l].ru
<1> DEFINE k == DecidedBetween(n, l)
           x == <<n, k>>
<1>1. x \in DOMAIN Ru /\ x[1] = n /\ x[2] = k
  BY DEF Carried
<1>2. k \in HashesAt(n)
  BY <1>1 DEF HashesAt, EntriesAt
<1> HIDE DEF x
<1>3. PICK m \in DOMAIN rd : Cost(n, k, Ru[x].min, Ru[x].max, Ru[x].terminated, m)
  BY <1>1 DEF RuRight
<1>4. succ(m) = {} /\ Above(n, m) /\ k = DecidedBetween(n, m)
  BY <1>3 DEF Cost
<1>5. m = l
  BY <1>4, OneCost
<1>6. Ru[x].terminated > 0 /\ Ru[x].max = rd[l].ru
  BY <1>3, <1>5 DEF Cost
<1> QED BY <1>2, <1>6 DEF x

\* checkLeakage reports the leaks at its node that were not reported before.
LEMMA CheckReports ==
  ASSUME TreeInv, PathInv, NeutralFree => RuType /\ RuRight, ~opts.obs,
         PhaseInv, PairsReported, Arrived, NEW n \in DOMAIN rd, checkLeakage(n)
  PROVE  Checked(n)'
<1>1. /\ phase = "check" /\ UNCHANGED runVars /\ reported \subseteq reported'
      /\ n \in Below(root) /\ printLeakage(n)
  BY DEF checkLeakage, ToCheck, printLeakage
<1>2. ASSUME NeutralFree,
             NEW l \in DOMAIN rd, NEW m \in DOMAIN rd,
             rd[l].pathterminated, rd[m].pathterminated, Leak(n, l, m)
      PROVE  \E r \in reported' : r.pair = {DecidedBetween(n, l), DecidedBetween(n, m)}
  <2> DEFINE k == DecidedBetween(n, l)
             j == DecidedBetween(n, m)
             p == {k, j}
  <2>1. /\ rd[n].isHBr /\ Above(n, l) /\ Above(n, m) /\ n # l /\ n # m
        /\ succ(l) = {} /\ succ(m) = {} /\ rd[l].ru # rd[m].ru
        /\ SecretsDiffer(k, j) /\ PublicsAgree(k, j)
    BY <1>2, LeakAtBranch
  <2>2. l \in Leaves(root) /\ m \in Leaves(root)
    <3>1. root \in Path
      BY <1>1 DEF PhaseInv, TreeInv, TreeType
    <3>2. IsPrefix(root, n) /\ n \in Path /\ l \in Path /\ m \in Path
      BY <1>1 DEF Below, TreeInv, TreeType
    <3> QED BY <2>1, <3>1, <3>2, PrefixOrder DEF Leaves, Below, Above
  <2>3. Carried(l, n) /\ Carried(m, n)
    BY <1>1, <2>1, <2>2 DEF Arrived, HighAbove
  <2>4. k \in HashesAt(n) /\ Ru[<<n, k>>].terminated > 0 /\ Ru[<<n, k>>].max = rd[l].ru
    BY <1>2, <2>1, <2>3, CostThere
  <2>5. j \in HashesAt(n) /\ Ru[<<n, j>>].terminated > 0 /\ Ru[<<n, j>>].max = rd[m].ru
    BY <1>2, <2>1, <2>3, CostThere
  <2>6. rd[l].ru \in Nat /\ rd[m].ru \in Nat
    BY DEF TreeInv, TreeType, RDNode
  <2> HIDE DEF k, j
  <2>7. CASE p \in sourcev
    BY <1>1, <2>7 DEF PairsReported, k, j
  <2>8. CASE p \notin sourcev
    <3>1. p \in Comparable(n)
      <4>1. <<k, j>> \in HashesAt(n) \X HashesAt(n) /\ <<k, j>>[1] = k /\ <<k, j>>[2] = j
        BY <2>4, <2>5
      <4>2. k # j
        BY <2>1 DEF SecretsDiffer
      <4> QED BY <2>1, <2>4, <2>5, <2>8, <4>1, <4>2 DEF Comparable
    <3>2. RangesDiffer(Ru[<<n, k>>], Ru[<<n, j>>]) /\ RangesDiffer(Ru[<<n, j>>], Ru[<<n, k>>])
      BY <2>1, <2>4, <2>5, <2>6 DEF RangesDiffer, Distance
    <3>3. DifferEitherWay(n, p)
      BY <3>2 DEF DifferEitherWay
    <3>4. PICK found : /\ {q \in Comparable(n) : DifferEitherWay(n, q)} \subseteq found
                       /\ reported' = reported \cup {[node |-> n, pair |-> q] : q \in found}
      BY <1>1 DEF printLeakage
    <3>5. p \in found
      BY <3>1, <3>3, <3>4
    <3>6. [node |-> n, pair |-> p] \in reported' /\ [node |-> n, pair |-> p].pair = p
      BY <3>4, <3>5
    <3> QED BY <3>6 DEF k, j
  <2> QED BY <2>7, <2>8
<1>3. rd' = rd
  BY <1>1 DEF runVars
<1>4. NeutralFree' <=> NeutralFree
  BY <1>1, TreeOperatorsKept
<1>5. \A l : DecidedBetween(n, l)' = DecidedBetween(n, l)
  BY <1>1, TreeOperatorsKept
<1> QED BY <1>1, <1>2, <1>3, <1>4, <1>5, LeakKept DEF Checked

\* Where no cost arrived there is no leak.
LEMMA NothingToCheck ==
  ASSUME TreeInv, PathInv, Arrived, phase = "check", root \in DOMAIN rd,
         NEW n \in Below(root), HashesAt(n) = {}
  PROVE  Checked(n)
<1>1. ASSUME NeutralFree,
             NEW l \in DOMAIN rd, NEW m \in DOMAIN rd,
             rd[l].pathterminated, rd[m].pathterminated, Leak(n, l, m)
      PROVE  FALSE
  <2>1. n \in DOMAIN rd /\ IsPrefix(root, n)
    BY DEF Below
  <2>2. rd[n].isHBr /\ Above(n, l) /\ n # l /\ succ(l) = {}
    BY <1>1, <2>1, LeakAtBranch
  <2>3. root \in Path /\ n \in Path /\ l \in Path
    BY <2>1 DEF TreeInv, TreeType
  <2>4. l \in Leaves(root)
    BY <2>1, <2>2, <2>3, PrefixOrder DEF Leaves, Below, Above
  <2>5. Carried(l, n)
    BY <2>1, <2>2, <2>4 DEF Arrived, HighAbove
  <2> QED BY <2>5 DEF Carried, HashesAt, EntriesAt
<1> QED BY <1>1 DEF Checked

\* The outermost root is the last to leave a leak unreported.
LEMMA RootIsChecked ==
  ASSUME TreeInv, PathInv, PhaseInv, Arrived, CheckedBelow, CheckDone, root = <<>>
  PROVE  \A n \in DOMAIN rd : Checked(n)
<1>1. phase = "check" /\ ToCheck(root) \subseteq visited
  BY DEF CheckDone
<1>2. root \in DOMAIN rd
  BY DEF TreeInv, TreeType
<1>3. ASSUME NEW n \in DOMAIN rd PROVE n \in Below(root)
  <2>1. n \in Path
    BY DEF TreeInv, TreeType
  <2> QED BY <2>1, PrefixOrder DEF Below
<1>4. ASSUME NEW n \in DOMAIN rd PROVE Checked(n)
  <2>1. CASE n \in ToCheck(root)
    BY <1>1, <2>1 DEF CheckedBelow
  <2>2. CASE n \notin ToCheck(root)
    BY <1>1, <1>2, <1>3, <2>2, NothingToCheck DEF ToCheck
  <2> QED BY <2>1, <2>2
<1> QED BY <1>4

\* The phases follow each other, whatever was found.
LEMMA PhaseStep ==
  ASSUME PhaseInv, PairsReported, [Next]_vars
  PROVE  PhaseInv' /\ PairsReported'
<1>1. CASE explore
  <2>1. phase = "run" /\ UNCHANGED <<phase, pending, cursor, sourcev, reported>>
    BY <1>1 DEF explore, Execute, Branch, BranchCut, ObservationPoint, UntrustedCall, Exit,
                TerminateEarly, Running, analysisVars
  <2>2. roots \subseteq roots'
    BY <1>1 DEF explore, Execute, Branch, BranchCut, ObservationPoint, UntrustedCall, Exit,
                TerminateEarly
  <2> QED BY <2>1, <2>2 DEF PhaseInv, PairsReported
<1>2. CASE timeSideChannelAnalysis \/ PropagateDone \/ CheckDone
  <2>1. roots' = roots /\ UNCHANGED <<sourcev, reported>>
    BY <1>2 DEF timeSideChannelAnalysis, PropagateDone, CheckDone, runVars
  <2> QED BY <1>2, <2>1 DEF timeSideChannelAnalysis, PropagateDone, CheckDone, NextRoot,
                            PhaseInv, PairsReported
<1>3. CASE (\E n \in DOMAIN rd : PropagateLeaf(n)) \/ ClimbStep \/ UNCHANGED vars
  <2>1. /\ UNCHANGED <<roots, phase, pending, root, sourcev, reported>>
        /\ phase = "propagate" \/ cursor' = cursor
    BY <1>3 DEF PropagateLeaf, ClimbStep, vars, runVars
  <2> QED BY <2>1 DEF PhaseInv, PairsReported
<1>4. CASE \E n \in DOMAIN rd : checkLeakage(n)
  <2>1. PICK n \in DOMAIN rd : checkLeakage(n)
    BY <1>4
  <2>2. UNCHANGED <<roots, phase, pending, root, cursor>>
    BY <2>1 DEF checkLeakage, runVars
  <2>3. PICK found : /\ reported' = reported \cup {[node |-> n, pair |-> p] : p \in found}
                     /\ sourcev' = sourcev \cup found
    BY <2>1 DEF checkLeakage, printLeakage
  <2>4. ASSUME NEW p \in found PROVE \E r \in reported' : r.pair = p
    <3>1. [node |-> n, pair |-> p] \in reported' /\ [node |-> n, pair |-> p].pair = p
      BY <2>3
    <3> QED BY <3>1
  <2> QED BY <2>2, <2>3, <2>4 DEF PhaseInv, PairsReported
<1> QED BY <1>1, <1>2, <1>3, <1>4 DEF Next, analyse

LEMMA AnalysisStep ==
  ASSUME TreeInv, PathInv, CostInv, AnalysisInv, ~opts.obs, [Next]_vars
  PROVE  AnalysisInv'
<1>1. /\ PhaseInv /\ PairsReported /\ Climbing /\ Arrived /\ CheckedBelow /\ RootChecked
      /\ CursorRight
      /\ NeutralFree => RuType /\ RuRight
  BY DEF AnalysisInv, CostInv
<1>2. PhaseInv' /\ PairsReported'
  BY <1>1, PhaseStep
<1>3. phase \in {"run", "propagate", "check", "done"}
  BY <1>1 DEF PhaseInv
<1>4. CASE explore
  <2>1. phase' = "run"
    BY <1>4 DEF explore, Execute, Branch, BranchCut, ObservationPoint, UntrustedCall, Exit,
                TerminateEarly, Running, analysisVars
  <2> QED BY <1>2, <2>1 DEF AnalysisInv, Climbing, Arrived, CheckedBelow, RootChecked
<1>5. CASE timeSideChannelAnalysis
  <2>1. PICK r \in roots : /\ root' = r /\ pending' = roots \ {r}
                           /\ phase' = "propagate" /\ visited' = {}
    BY <1>5 DEF timeSideChannelAnalysis, NextRoot
  <2>2. <<>> \in roots
    BY DEF TreeInv, TreeType
  <2> QED BY <1>2, <2>1, <2>2 DEF AnalysisInv, Climbing, Arrived, CheckedBelow, RootChecked
<1>6. ASSUME UNCHANGED runVars, reported \subseteq reported',
             UNCHANGED <<phase, pending, root>>
      PROVE  RootChecked'
  <2>1. \A n \in DOMAIN rd : Checked(n) => Checked(n)'
    BY <1>6, CheckedKept
  <2>2. rd' = rd
    BY <1>6 DEF runVars
  <2> QED BY <1>1, <1>6, <2>1, <2>2 DEF RootChecked
<1>7. CASE \E m \in DOMAIN rd : PropagateLeaf(m)
  <2>1. PICK m \in DOMAIN rd : PropagateLeaf(m)
    BY <1>7
  <2>2. Climbing'
    BY <1>1, <2>1, LeafStarts
  <2>3. /\ UNCHANGED runVars /\ UNCHANGED <<phase, pending, root, reported>>
        /\ phase = "propagate"
    BY <2>1 DEF PropagateLeaf
  <2>4. RootChecked'
    BY <1>6, <2>3
  <2> QED BY <1>2, <2>2, <2>3, <2>4 DEF AnalysisInv, Arrived, CheckedBelow
<1>8. CASE ClimbStep
  <2>1. Climbing'
    BY <1>1, <1>8, ClimbGoesOn
  <2>2. /\ UNCHANGED runVars /\ UNCHANGED <<phase, pending, root, reported>>
        /\ phase = "propagate"
    BY <1>8 DEF ClimbStep
  <2>3. RootChecked'
    BY <1>6, <2>2
  <2> QED BY <1>2, <2>1, <2>2, <2>3 DEF AnalysisInv, Arrived, CheckedBelow
<1>9. CASE PropagateDone
  <2>1. Arrived'
    BY <1>1, <1>9, AllArrive
  <2>2. /\ UNCHANGED runVars /\ UNCHANGED <<pending, root, reported>>
        /\ phase = "propagate" /\ phase' = "check" /\ visited' = {}
    BY <1>9 DEF PropagateDone
  <2>3. \A n \in DOMAIN rd : Checked(n) => Checked(n)'
    BY <2>2, CheckedKept
  <2>4. RootChecked'
    BY <1>1, <2>2, <2>3 DEF RootChecked, runVars
  <2> QED BY <1>2, <2>1, <2>2, <2>4 DEF AnalysisInv, Climbing, CheckedBelow
<1>10. CASE \E n \in DOMAIN rd : checkLeakage(n)
  <2>1. PICK n \in DOMAIN rd : checkLeakage(n)
    BY <1>10
  <2>2. Checked(n)'
    BY <1>1, <2>1, CheckReports
  <2>3. /\ UNCHANGED runVars /\ UNCHANGED <<phase, pending, root, cursor, Ru>>
        /\ phase = "check" /\ visited' = visited \cup {n} /\ reported \subseteq reported'
    BY <2>1 DEF checkLeakage, printLeakage
  <2>4. CheckedBelow'
    BY <1>1, <2>2, <2>3, CheckedKept DEF CheckedBelow
  <2>5. Arrived'
    <3>1. Leaves(root)' = Leaves(root) /\ rd' = rd
      BY <2>3 DEF runVars, Leaves, Below, succ
    <3>2. \A l, a : Carried(l, a) => Carried(l, a)'
      BY <2>3, CarriedKept
    <3> QED BY <1>1, <2>3, <3>1, <3>2, HighAboveKept DEF Arrived
  <2>6. RootChecked'
    BY <1>6, <2>3
  <2> QED BY <1>2, <2>3, <2>4, <2>5, <2>6 DEF AnalysisInv, Climbing
<1>11. CASE CheckDone
  <2>1. /\ UNCHANGED runVars /\ reported' = reported /\ phase = "check"
        /\ visited' = {} /\ phase' \in {"propagate", "done"}
    BY <1>11 DEF CheckDone, NextRoot
  <2>2. RootChecked'
    <3>1. CASE (\A n \in DOMAIN rd : Checked(n)) \/ root = <<>>
      <4>1. \A n \in DOMAIN rd : Checked(n)
        BY <1>1, <1>11, <3>1, RootIsChecked
      <4>2. \A n \in DOMAIN rd : Checked(n)'
        BY <2>1, <4>1, CheckedKept
      <4> QED BY <2>1, <4>2 DEF RootChecked, runVars
    <3>2. CASE <<>> \in pending
      <4>1. PICK r \in pending : root' = r /\ pending' = pending \ {r} /\ phase' = "propagate"
        BY <1>11, <3>2 DEF CheckDone, NextRoot
      <4> QED BY <3>2, <4>1 DEF RootChecked
    <3> QED BY <1>1, <2>1, <3>1, <3>2 DEF RootChecked
  <2> QED BY <1>2, <2>1, <2>2 DEF AnalysisInv, Climbing, Arrived, CheckedBelow
<1>12. CASE UNCHANGED vars
  <2>1. /\ UNCHANGED runVars
        /\ UNCHANGED <<phase, pending, root, visited, cursor, Ru, sourcev, reported>>
    BY <1>12 DEF vars
  <2>2. RootChecked'
    BY <1>6, <2>1
  <2>3. \A l, a : Carried(l, a) => Carried(l, a)'
    BY <2>1, CarriedKept
  <2>4. /\ Leaves(root)' = Leaves(root) /\ rd' = rd
        /\ \A n : succ(n)' = succ(n)
        /\ \A n, m : Above(n, m)' <=> Above(n, m)
    BY <2>1, TreeOperatorsKept DEF runVars, Leaves, Below, succ
  <2>5. Arrived'
    BY <1>1, <2>1, <2>3, <2>4, HighAboveKept DEF Arrived
  <2>6. CheckedBelow'
    BY <1>1, <2>1, CheckedKept DEF CheckedBelow
  <2>7. \A l, a : OnTheWay(l, a)' <=> OnTheWay(l, a)
    BY <2>1, <2>4 DEF OnTheWay
  <2>8. Climbing'
    BY <1>1, <2>1, <2>3, <2>4, <2>7, HighAboveKept DEF Climbing
  <2> QED BY <1>2, <2>2, <2>5, <2>6, <2>8 DEF AnalysisInv
<1> QED BY <1>4, <1>5, <1>7, <1>8, <1>9, <1>10, <1>11, <1>12 DEF Next, analyse

-----------------------------------------------------------------------------
(* The inductive invariant *)

IInv ==
  ~opts.loopBound =>
    /\ TreeInv
    /\ CostInv
    /\ ~opts.obs => PathInv /\ AnalysisInv

LEMMA IInvInit == Init => IInv
<1> SUFFICES ASSUME Init PROVE IInv
  OBVIOUS
<1>1. CostInv
  BY CostsOfRun DEF Init
<1> QED BY <1>1, TreeInit, PathInit, AnalysisInit DEF IInv

LEMMA IInvStep == IInv /\ [Next]_vars => IInv'
<1> SUFFICES ASSUME IInv, [Next]_vars, ~opts.loopBound PROVE IInv'
  BY OptionsKept DEF IInv
<1>1. opts' = opts
  BY OptionsKept
<1>2. /\ TreeInv /\ CostInv
      /\ ~opts.obs => PathInv /\ AnalysisInv
  BY DEF IInv
<1>3. TreeInv'
  BY <1>2, TreeStep
<1>4. CostInv'
  BY <1>2, CostStep
<1>5. ~opts.obs => PathInv'
  BY <1>2, <1>3, PathStep
<1>6. ~opts.obs => AnalysisInv'
  BY <1>2, AnalysisStep
<1> QED BY <1>1, <1>3, <1>4, <1>5, <1>6 DEF IInv

\* The tree, what tells its paths apart, the costs that have climbed and the
\* comparisons that were made, for every command line without a loop bound.
THEOREM Invariance == Spec => []IInv
BY IInvInit, IInvStep, PTL DEF Spec

\* Every report is about two completed paths below its node that do not differ
\* in public data and whose secret conditions since the node do; without
\* observation points they differ in secret data and in cost.
THEOREM ReportsAreAboutLeaks == Spec => []ReportsAreLeaks
<1>1. IInv => ReportsAreLeaks
  BY DEF IInv, CostInv, ReportsAreLeaks, ReportRight
<1> QED BY <1>1, Invariance, PTL

\* When the analysis is done, every two completed paths of a tree that differ
\* in secret data only and differ in cost are reported.
THEOREM LeaksAreFound == Spec => []LeaksAreReported
<1>1. ASSUME IInv, phase = "done", NeutralFree, ~opts.obs, ~opts.loopBound,
             NEW l1 \in {l \in DOMAIN rd : rd[l].pathterminated},
             NEW l2 \in {l \in DOMAIN rd : rd[l].pathterminated},
             NEW n \in DOMAIN rd, Leak(n, l1, l2)
      PROVE  \E r \in reported : r.pair = {DecidedBetween(n, l1), DecidedBetween(n, l2)}
  <2>1. Checked(n)
    BY <1>1 DEF IInv, AnalysisInv, RootChecked
  <2> QED BY <1>1, <2>1 DEF Checked
<1>2. IInv => LeaksAreReported
  BY <1>1 DEF LeaksAreReported
<1> QED BY <1>2, Invariance, PTL
=============================================================================
