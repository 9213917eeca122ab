---------------------------- MODULE ExprBuilders ----------------------------
(***************************************************************************)
(* The builders that a parsed expression is built with, one on another:    *)
(* the default one allocates, the folding one gathers constants, the       *)
(* simplifying one reduces comparisons and negations.  A rule calls the    *)
(* builder it belongs to again, or, where it has nothing to do, the one    *)
(* below.                                                                  *)
(***************************************************************************)
EXTENDS Expressions

Default == 0
ConstantFolding == 1
Simplifying == 2

RECURSIVE build(_, _, _, _), buildNot(_, _)

\* Neg, and what a sum with a constant is: c + (k + x), c + (k - x) and their like.
Neg(c) == Fold("Sub", Const(0, c.width), c)
AddConstant(b, c, r) ==
  IF Is(c, 0) THEN r
  ELSE IF ConstLeft(r, "Add") THEN build(b, "Add", Fold("Add", c, r.kids[1]), r.kids[2])
  ELSE IF r.op = "Add" /\ IsConst(r.kids[2]) THEN build(b, "Add", Fold("Add", c, r.kids[2]), r.kids[1])
  ELSE IF ConstLeft(r, "Sub") THEN build(b, "Sub", Fold("Add", c, r.kids[1]), r.kids[2])
  ELSE IF r.op = "Sub" /\ IsConst(r.kids[2]) THEN build(b, "Add", Fold("Sub", c, r.kids[2]), r.kids[1])
  ELSE build(b - 1, "Add", c, r)

SubFromConstant(b, c, r) ==
  IF ConstLeft(r, "Add") THEN build(b, "Sub", Fold("Sub", c, r.kids[1]), r.kids[2])
  ELSE IF r.op = "Add" /\ IsConst(r.kids[2]) THEN build(b, "Sub", Fold("Sub", c, r.kids[2]), r.kids[1])
  ELSE IF ConstLeft(r, "Sub") THEN build(b, "Add", Fold("Sub", c, r.kids[1]), r.kids[2])
  ELSE IF r.op = "Sub" /\ IsConst(r.kids[2]) THEN build(b, "Sub", Fold("Add", c, r.kids[2]), r.kids[1])
  ELSE build(b - 1, "Sub", c, r)

\* Of a sum or difference r, its constant operand and the other one.
HasConstant(r) == r.op \in {"Add", "Sub"} /\ (IsConst(r.kids[1]) \/ IsConst(r.kids[2]))
ConstantIn(r) == IF IsConst(r.kids[1]) THEN r.kids[1] ELSE r.kids[2]
OtherIn(r) == IF IsConst(r.kids[1]) THEN r.kids[2] ELSE r.kids[1]
\* The sign with which its other operand counts in r; the constant's is the opposite in
\* y - c only.
Opposite(op) == IF op = "Add" THEN "Sub" ELSE "Add"
SignOfOther(r) == IF r.op = "Sub" /\ IsConst(r.kids[1]) THEN "Sub" ELSE "Add"
ConstantOf(r) == IF r.op = "Sub" /\ ~IsConst(r.kids[1]) THEN Neg(r.kids[2]) ELSE ConstantIn(r)

\* Mutant: (x - y) - z is taken for x - (y - z).
MoveRightFlat(b, op, l, r) == build(b, l.op, l.kids[1], build(b, op, l.kids[2], r))

\* (x + y) op z is x + (y op z); (x - y) + z is x + (z - y), (x - y) - z is x - (y + z).
MoveRight(b, op, l, r) ==
  IF l.op = "Add" THEN build(b, "Add", l.kids[1], build(b, op, l.kids[2], r))
  ELSE IF op = "Add" THEN build(b, "Add", l.kids[1], build(b, "Sub", r, l.kids[2]))
  ELSE build(b, "Sub", l.kids[1], build(b, "Add", l.kids[2], r))

\* Otherwise the constant of the right operand is moved to the left.
SumOrDifference(b, op, l, r) ==
  IF l.op \in {"Add", "Sub"} THEN MoveRight(b, op, l, r)
  ELSE IF HasConstant(r) THEN
    LET sign == IF op = "Add" THEN SignOfOther(r) ELSE Opposite(SignOfOther(r))
        c == IF op = "Add" THEN ConstantOf(r) ELSE Neg(ConstantOf(r))
    IN build(b, "Add", c, build(b, sign, l, OtherIn(r)))
  ELSE build(b - 1, op, l, r)

EqConstant(b, c, r) ==
  IF c.width # Bool THEN build(b - 1, "Eq", c, r)
  ELSE IF Is(c, 1) THEN r ELSE buildNot(b - 1, r)

\* The rules for a constant c and an r that is none, in either order.
FoldCommutative(b, op, c, r) ==
  CASE op = "Add" -> AddConstant(b, c, r)
    [] op = "Mul" -> IF Is(c, 0) THEN c ELSE IF Is(c, 1) THEN r ELSE build(b - 1, op, c, r)
    [] op = "And" -> IF Is(c, 0) THEN c ELSE IF Is(c, AllOnes(c.width)) THEN r
                     ELSE build(b - 1, op, c, r)
    [] op = "Or" -> IF Is(c, 0) THEN r ELSE IF Is(c, AllOnes(c.width)) THEN c
                    ELSE build(b - 1, op, c, r)
    [] op = "Xor" -> IF Is(c, 0) THEN r ELSE build(b - 1, op, c, r)
    [] op = "Eq" -> EqConstant(b, c, r)

fold(b, op, l, r) ==
  CASE op \in {"Add", "Mul", "And", "Or", "Xor", "Eq"} /\ IsConst(l) -> FoldCommutative(b, op, l, r)
    [] op \in {"Add", "Mul", "And", "Or", "Xor", "Eq"} /\ IsConst(r) -> FoldCommutative(b, op, r, l)
    [] op = "Sub" /\ IsConst(l) -> SubFromConstant(b, l, r)
    [] op = "Sub" /\ IsConst(r) -> AddConstant(b, Neg(r), l)
    [] op \in {"Add", "Sub"} /\ ~IsConst(l) /\ ~IsConst(r) -> SumOrDifference(b, op, l, r)
    [] OTHER -> build(b - 1, op, l, r)

\* The comparison that op, applied the other way round, is.
Swapped == [Ugt |-> "Ult", Uge |-> "Ule", Sgt |-> "Slt", Sge |-> "Sle"]
simplify(b, op, l, r) ==
  CASE op = "Eq" /\ IsConst(l) -> EqConstant(b, l, r)
    [] op = "Eq" /\ IsConst(r) -> EqConstant(b, r, l)
    [] op = "Eq" /\ l = r -> Const(1, Bool)
    [] op = "Ne" -> buildNot(b, build(b, "Eq", l, r))
    [] op \in DOMAIN Swapped -> build(b, Swapped[op], r, l)
    [] OTHER -> build(b - 1, op, l, r)

build(b, op, l, r) ==
  CASE b = Default -> alloc(op, l, r)
    [] b # Default /\ IsConst(l) /\ IsConst(r) -> Fold(op, l, r)
    [] b = ConstantFolding /\ ~(IsConst(l) /\ IsConst(r)) -> fold(b, op, l, r)
    [] b = Simplifying /\ ~(IsConst(l) /\ IsConst(r)) -> simplify(b, op, l, r)

\* The simplifying builder moves a negation into a disjunction.
buildNot(b, e) ==
  IF b = Default THEN Node("Not", e.width, <<e>>, <<>>)
  ELSE IF e.op = "Not" THEN e.kids[1]
  ELSE IF IsConst(e) THEN createNot(e)
  ELSE IF b = Simplifying /\ e.op = "Or"
       THEN build(b, "And", buildNot(b, e.kids[1]), buildNot(b, e.kids[2]))
  ELSE buildNot(b - 1, e)

\* Updates that are not at the index are left out.
FromFirst(updates, open) ==
  IF open = {} THEN <<>>
  ELSE SubSeq(updates, CHOOSE n \in open : \A m \in open : n <= m, Len(updates))
buildRead(b, root, updates, index) ==
  LET mayBeAt(n) == b = Default \/ ~Is(build(b, "Eq", index, updates[n].index), 0)
  IN Node("Read", Int8, <<index>>,
          <<root, FromFirst(updates, {n \in 1..Len(updates) : mayBeAt(n)})>>)

buildSelect(b, c, t, f) ==
  IF b # Default /\ IsConst(c) THEN (IF Is(c, 1) THEN t ELSE f)
  ELSE Node("Select", t.width, <<c, t, f>>, <<>>)
buildExtract(b, e, off, w) ==
  IF b # Default /\ IsConst(e) THEN Const(Value(e) \div 2^off, w)
  ELSE Node("Extract", w, <<e>>, <<off>>)
buildCast(b, op, e, w) ==
  IF b # Default /\ IsConst(e)
  THEN Const(IF op = "SExt" THEN Signed(Value(e), e.width) ELSE Value(e), w)
  ELSE Node(op, w, <<e>>, <<>>)
=============================================================================
