------------------------------ MODULE FastCex ------------------------------
(***************************************************************************)
(* FastCexSolver: a query is answered without a solver by propagating the  *)
(* ranges its constraints leave to the bytes of the arrays.  The possible  *)
(* ranges are a guess, whose middle values are tried; the exact ranges     *)
(* are what must hold.  Ranges of expressions are those of                 *)
(* ExprRangeEvaluator.                                                     *)
(***************************************************************************)
EXTENDS Expressions, SequencesExt

Int64 == 8 \* bound: the width of the bounds of a range, above that of all expressions

Range2(lo, hi) == [min |-> lo, max |-> hi]
Fixed(n) == Range2(n, n)
Empty == Range2(1, 0)
UpTo(w) == Range2(0, AllOnes(w))

Least(x, y) == IF x < y THEN x ELSE y
Largest(x, y) == IF x < y THEN y ELSE x

isEmpty(r) == r.min > r.max
isFixed(r) == r.min = r.max
set_intersection(r, s) == Range2(Largest(r.min, s.min), Least(r.max, s.max))
\* (The union with the empty range is not the other range.)
set_union(r, s) == Range2(Least(r.min, s.min), Largest(r.max, s.max))
set_difference(r, s) ==
  IF isEmpty(s) \/ isEmpty(set_intersection(r, s)) THEN r
  ELSE IF s.min <= r.min /\ s.max >= r.max THEN Empty
  ELSE IF s.min <= r.min THEN Range2(s.max + 1, r.max)
  ELSE Range2(r.min, s.min - 1)
mustEqual(r, s) == isFixed(r) /\ isFixed(s) /\ r.min = s.min
mayEqual(r, s) == ~isEmpty(set_intersection(r, s))

-----------------------------------------------------------------------------
(* The least and the largest disjunction and conjunction of a number of     *)
(* a..b and one of c..d, bit by bit from the highest.  Adjusted raises a    *)
(* to the next multiple of m with that bit set; Lowered clears the bit of b *)
(* and sets all below.                                                      *)

HasBit(n, m) == (n \div m) % 2 = 1
Adjusted(n, m) == ((n \div m) + (IF HasBit(n, m) THEN 0 ELSE 1)) * m
Lowered(n, m) == ((n - m) \div m) * m + m - 1

RECURSIVE minORFrom(_, _, _, _, _), maxORFrom(_, _, _, _, _), minANDFrom(_, _, _, _, _),
          maxANDFrom(_, _, _, _, _)
minORFrom(a, b, c, d, m) ==
  IF m = 0 THEN a | c
  ELSE IF ~HasBit(a, m) /\ HasBit(c, m) /\ Adjusted(a, m) <= b THEN Adjusted(a, m) | c
  ELSE IF HasBit(a, m) /\ ~HasBit(c, m) /\ Adjusted(c, m) <= d THEN a | Adjusted(c, m)
  ELSE minORFrom(a, b, c, d, m \div 2)
maxORFrom(a, b, c, d, m) ==
  IF m = 0 THEN b | d
  ELSE IF HasBit(b, m) /\ HasBit(d, m) /\ Lowered(b, m) >= a THEN Lowered(b, m) | d
  ELSE IF HasBit(b, m) /\ HasBit(d, m) /\ Lowered(d, m) >= c THEN b | Lowered(d, m)
  ELSE maxORFrom(a, b, c, d, m \div 2)
minANDFrom(a, b, c, d, m) ==
  IF m = 0 THEN a & c
  ELSE IF ~HasBit(a, m) /\ ~HasBit(c, m) /\ Adjusted(a, m) <= b THEN Adjusted(a, m) & c
  ELSE IF ~HasBit(a, m) /\ ~HasBit(c, m) /\ Adjusted(c, m) <= d THEN a & Adjusted(c, m)
  ELSE minANDFrom(a, b, c, d, m \div 2)
maxANDFrom(a, b, c, d, m) ==
  IF m = 0 THEN b & d
  ELSE IF HasBit(b, m) /\ ~HasBit(d, m) /\ Lowered(b, m) >= a THEN Lowered(b, m) & d
  ELSE IF ~HasBit(b, m) /\ HasBit(d, m) /\ Lowered(d, m) >= c THEN b & Lowered(d, m)
  ELSE maxANDFrom(a, b, c, d, m \div 2)

HighestBit == 2^(Int64 - 1)
minOR(r, s) == minORFrom(r.min, r.max, s.min, s.max, HighestBit)
maxOR(r, s) == maxORFrom(r.min, r.max, s.min, s.max, HighestBit)
minAND(r, s) == minANDFrom(r.min, r.max, s.min, s.max, HighestBit)
maxAND(r, s) == maxANDFrom(r.min, r.max, s.min, s.max, HighestBit)

binaryAnd(r, s) ==
  IF isFixed(r) /\ isFixed(s) THEN Fixed(r.min & s.min) ELSE Range2(minAND(r, s), maxAND(r, s))
binaryOr(r, s) ==
  IF isFixed(r) /\ isFixed(s) THEN Fixed(r.min | s.min) ELSE Range2(minOR(r, s), maxOR(r, s))
binaryXor(r, s) ==
  IF isFixed(r) /\ isFixed(s) THEN Fixed(r.min ^^ s.min)
  ELSE UpTo(CHOOSE n \in 1..Int64 : LET t == r.max | s.max IN 2^(n - 1) <= t /\ t < 2^n)
binaryShiftLeft(r, n) == Range2(r.min * 2^n, r.max * 2^n)
binaryShiftRight(r, n) == Range2(r.min \div 2^n, r.max \div 2^n)
rangeConcat(r, s, n) == binaryOr(binaryShiftLeft(r, n), s)
rangeExtract(r, low, w) == binaryAnd(binaryShiftRight(r, low), Fixed(AllOnes(w)))

minSigned(r, w) == IF r.max >= 2^(w - 1) THEN -(2^(w - 1)) ELSE r.min
maxSigned(r, w) ==
  IF r.min < 2^(w - 1) /\ r.max >= 2^(w - 1) THEN 2^(w - 1) - 1 ELSE Signed(r.max, w)

-----------------------------------------------------------------------------
(* ExprRangeEvaluator *)

RECURSIVE evalRange(_), evalRangeRead(_, _, _, _)

getInitialReadRange(root, index) ==
  IF isFixed(index) /\ index.min < Len(root[2]) THEN Fixed(root[2][index.min + 1]) ELSE UpTo(Int8)

\* ui is the range of the index of the first write, more what it adds to the result.
evalRangeWrite(root, updates, index, res, ui, more) ==
  IF mustEqual(ui, index) \/ (mayEqual(ui, index) /\ more = UpTo(Int8)) THEN more
  ELSE evalRangeRead(root, Tail(updates), index, IF mayEqual(ui, index) THEN more ELSE res)
evalRangeRead(root, updates, index, res) ==
  IF updates = <<>> THEN set_union(res, getInitialReadRange(root, index))
  ELSE evalRangeWrite(root, updates, index, res, evalRange(updates[1].index),
                      set_union(res, evalRange(updates[1].value)))

\* The range of a comparison that holds, does not hold, or may do either.
Decided(holds, fails) == IF holds THEN Fixed(1) ELSE IF fails THEN Fixed(0) ELSE UpTo(Bool)
evalComparison(e, l, r) ==
  LET w == e.kids[1].width IN
  CASE e.op = "Eq" -> Decided(mustEqual(l, r), ~mayEqual(l, r))
    [] e.op = "Ult" -> Decided(l.max < r.min, l.min >= r.max)
    [] e.op = "Ule" -> Decided(l.max <= r.min, l.min > r.max)
    [] e.op = "Slt" -> Decided(maxSigned(l, w) < minSigned(r, w), minSigned(l, w) >= maxSigned(r, w))
    [] e.op = "Sle" -> Decided(maxSigned(l, w) <= minSigned(r, w), minSigned(l, w) > maxSigned(r, w))

\* An operand of a concatenation is moved by a byte, whatever its width.
evalRangeOf(e, kids) ==
  CASE e.op = "Constant" -> Fixed(Value(e))
    [] e.op = "Read" -> evalRangeRead(e.data[1], e.data[2], kids[1], Empty)
    [] e.op = "Select" -> IF isFixed(kids[1]) THEN (IF kids[1].min = 1 THEN kids[2] ELSE kids[3])
                          ELSE set_union(kids[2], kids[3])
    [] e.op = "Concat" -> rangeConcat(rangeConcat(Fixed(0), kids[1], Int8), kids[2], Int8)
    [] e.op = "And" -> binaryAnd(kids[1], kids[2])
    [] e.op = "Or" -> binaryOr(kids[1], kids[2])
    [] e.op = "Xor" -> binaryXor(kids[1], kids[2])
    [] e.op \in Comparisons -> evalComparison(e, kids[1], kids[2])
    [] OTHER -> UpTo(e.width)
evalRange(e) == evalRangeOf(e, [i \in 1..Len(e.kids) |-> evalRange(e.kids[i])])

-----------------------------------------------------------------------------
(* CexData: the possible and the exact range of every byte.  failed is set  *)
(* where an assertion fails.                                                *)

NoData(sizes) ==
  LET full == [name \in DOMAIN sizes |-> [i \in 0..(sizes[name] - 1) |-> UpTo(Int8)]]
  IN [possible |-> full, exact |-> full, failed |-> FALSE]

IsByte(cd, root, i) == root[1] \in DOMAIN cd.possible /\ i \in DOMAIN cd.possible[root[1]]

\* A fixed value replaces the range; another one narrows it, if something is left.
setPossible(cd, root, i, range) ==
  IF ~IsByte(cd, root, i) THEN cd
  ELSE LET both == set_intersection(cd.possible[root[1]][i], range) IN
       IF isFixed(range) THEN [cd EXCEPT !.possible[root[1]][i] = Fixed(range.min % 2^Int8)]
       ELSE IF isEmpty(both) THEN cd ELSE [cd EXCEPT !.possible[root[1]][i] = both]

setExact(cd, root, i, range) ==
  LET cvd == cd.exact[root[1]][i] IN
  IF isEmpty(set_intersection(cvd, range)) THEN [cd EXCEPT !.failed = TRUE]
  ELSE [cd EXCEPT !.exact[root[1]][i] = set_intersection(cvd, range)]

RECURSIVE propogatePossibleValues(_, _, _), propogateExactValues(_, _, _)
propogatePossibleValue(cd, e, n) == propogatePossibleValues(cd, e, Fixed(n))

\* Numbers wrap around below zero.
Below(n) == IF n = 0 THEN AllOnes(Int64) ELSE n - 1

\* An operand of a conjunction that has to be false or of a disjunction that has to be
\* true is forced, and then the other one.
possibleOfBools(cd, e, l, r, goal, forced) ==
  LET left == propogatePossibleValue(cd, e.kids[1], goal) IN
  IF goal = forced THEN
    IF Fixed(goal) \in {l, r} THEN cd
    ELSE IF l = Fixed(1) THEN left ELSE propogatePossibleValue(left, e.kids[2], goal)
  ELSE LET first == IF l = Fixed(goal) THEN cd ELSE left
       IN IF r = Fixed(goal) THEN first ELSE propogatePossibleValue(first, e.kids[2], goal)

possibleOfEq(cd, e, goal) ==
  LET n == Value(e.kids[1])  r == e.kids[2] IN
  IF ~IsConst(e.kids[1]) THEN cd
  ELSE IF goal # 0 THEN propogatePossibleValue(cd, r, n)
  ELSE propogatePossibleValues(cd, r, IF n = 0 THEN Range2(1, AllOnes(r.width)) ELSE Range2(0, n - 1))

possibleOfOrder(cd, e, l, r, goal) ==
  LET top == AllOnes(e.kids[2].width)
      strict == IF e.op = "Ult" THEN 1 ELSE 0
  IN
  IF isFixed(l) THEN
    propogatePossibleValues(cd, e.kids[2],
      IF goal # 0 THEN Range2(l.min + strict, top)
      ELSE Range2(0, IF e.op = "Ult" THEN l.min ELSE Below(l.min)))
  ELSE IF isFixed(r) THEN
    propogatePossibleValues(cd, e.kids[1],
      IF goal # 0 THEN Range2(0, IF e.op = "Ult" THEN Below(r.min) ELSE r.min)
      ELSE Range2(r.min + 1 - strict, top))
  ELSE cd

\* (The first operand is taken to be as wide as the second.)
possibleOfConcat(cd, e, range) ==
  LET w == e.kids[2].width IN
  IF isEmpty(binaryShiftRight(range, w)) \/ isEmpty(range) THEN [cd EXCEPT !.failed = TRUE]
  ELSE propogatePossibleValues(
         propogatePossibleValues(cd, e.kids[1], rangeExtract(range, w, w)),
         e.kids[2], rangeExtract(range, 0, w))

possibleOfCast(cd, e, range) ==
  LET w == e.kids[1].width
      output == set_difference(range, Range2(2^(w - 1), AllOnes(e.width) - AllOnes(w - 1) - 1))
  IN
  IF e.op = "ZExt" THEN propogatePossibleValues(cd, e.kids[1], set_intersection(range, UpTo(w)))
  ELSE IF isEmpty(output) THEN [cd EXCEPT !.failed = TRUE]
  ELSE propogatePossibleValues(cd, e.kids[1], binaryAnd(output, Fixed(AllOnes(w))))

possibleOfAdd(cd, e, range) ==
  LET moved(n) == (n - Value(e.kids[1])) % 2^(e.width)
      nrange == Range2(moved(range.min), moved(range.max))
  IN IF ~IsConst(e.kids[1]) \/ isEmpty(range) \/ isEmpty(nrange) THEN cd
     ELSE propogatePossibleValues(cd, e.kids[2], nrange)

possibleOfSelect(cd, e, c, range) ==
  IF isFixed(c) THEN propogatePossibleValues(cd, IF c.min # 0 THEN e.kids[2] ELSE e.kids[3], range)
  ELSE propogatePossibleValues(propogatePossibleValues(cd, e.kids[2], range), e.kids[3], range)

\* Writes to the array are not looked at.
possibleOf(cd, e, kids, range) ==
  CASE e.op = "Read" -> IF IsConst(e.kids[1]) THEN setPossible(cd, e.data[1], Value(e.kids[1]), range)
                        ELSE cd
    [] e.op = "Select" -> possibleOfSelect(cd, e, kids[1], range)
    [] e.op = "Concat" -> possibleOfConcat(cd, e, range)
    [] e.op \in {"ZExt", "SExt"} -> possibleOfCast(cd, e, range)
    [] e.op = "Add" -> possibleOfAdd(cd, e, range)
    [] e.op = "And" /\ e.width = Bool /\ isFixed(range) ->
         possibleOfBools(cd, e, kids[1], kids[2], range.min, 0)
    [] e.op = "Or" /\ e.width = Bool /\ isFixed(range) ->
         possibleOfBools(cd, e, kids[1], kids[2], range.min, 1)
    [] e.op = "Eq" /\ isFixed(range) -> possibleOfEq(cd, e, range.min)
    [] e.op = "Not" /\ e.width = Bool /\ isFixed(range) ->
         propogatePossibleValue(cd, e.kids[1], 1 - range.min)
    [] e.op \in {"Ult", "Ule"} /\ isFixed(range) -> possibleOfOrder(cd, e, kids[1], kids[2], range.min)
    [] OTHER -> cd
propogatePossibleValues(cd, e, range) ==
  possibleOf(cd, e, [i \in 1..Len(e.kids) |-> evalRange(e.kids[i])], range)

\* Mutant: a write that may be to the byte that is read does not count.
exactOfReadMust(cd, e, index, range) ==
  IF ~isFixed(index) \/ ~IsByte(cd, e.data[1], index.min) THEN cd
  ELSE setExact(cd, e.data[1], index.min, range)

\* Past the writes that are elsewhere, to the one that is here, or to the initial byte.
exactOfRead(cd, e, index, range) ==
  LET near == SelectSeq(e.data[2], LAMBDA u : mayEqual(evalRange(u.index), index))
  IN
  IF near # <<>> THEN
    IF mustEqual(evalRange(near[1].index), index) \/ near[1].index = e.kids[1]
    THEN propogateExactValues(cd, near[1].value, range) ELSE cd
  ELSE IF ~isFixed(index) \/ ~IsByte(cd, e.data[1], index.min) THEN cd
  ELSE setExact(cd, e.data[1], index.min, range)

propogateExactValues(cd, e, range) ==
  CASE e.op = "Read" -> exactOfRead(cd, e, evalRange(e.kids[1]), range)
    [] e.op = "Eq" /\ isFixed(range) /\ IsConst(e.kids[1]) /\ range.min # 0 ->
         propogateExactValues(cd, e.kids[2], Fixed(Value(e.kids[1])))
    [] e.op = "Eq" /\ isFixed(range) /\ IsConst(e.kids[1]) /\ range.min = 0 /\ e.kids[2].width = Bool ->
         propogateExactValues(cd, e.kids[2], Fixed(1 - Value(e.kids[1])))
    [] e.op = "Not" /\ e.width = Bool /\ isFixed(range) ->
         propogateExactValues(cd, e.kids[1], Fixed(1 - range.min))
    [] OTHER -> cd

-----------------------------------------------------------------------------
(* Queries *)

\* The middle of every possible range, and the exact ranges that are one value.
possibleBytes(cd) ==
  [name \in DOMAIN cd.possible |->
     [i \in DOMAIN cd.possible[name] |->
        LET r == cd.possible[name][i] IN r.min + (r.max - r.min) \div 2]]
exactBytes(cd) ==
  [name \in DOMAIN cd.exact |->
     [i \in {j \in DOMAIN cd.exact[name] : isFixed(cd.exact[name][j])} |-> cd.exact[name][i].min]]
evaluatePossible(cd, e) == Evaluate(e, possibleBytes(cd))
evaluateExact(cd, e) == Evaluate(e, exactBytes(cd))

thenExact(cd, e, n) == IF cd.failed THEN cd ELSE propogateExactValues(cd, e, Fixed(n))
propogated(cd, e, n) == thenExact(propogatePossibleValue(cd, e, n), e, n)

\* Constraints hold and, if it is to be checked, the expression does not.
propogatedData(constraints, e, checkExpr, sizes) ==
  FoldLeft(LAMBDA cd, goal : propogated(cd, goal[1], goal[2]), NoData(sizes),
           [i \in 1..Len(constraints) |-> <<constraints[i], 1>>]
             \o IF checkExpr THEN <<<<e, 0>>>> ELSE <<>>)

propogateValues(cd, constraints, e, checkExpr) ==
  LET True == Const(1, Bool)  False == Const(0, Bool)
      known == ToSet(constraints)
  IN
  CASE cd.failed -> "failed"
    [] ~cd.failed /\ (\/ checkExpr /\ evaluateExact(cd, e) = True
                      \/ \E c \in known : evaluateExact(cd, c) = False) -> "valid"
    [] OTHER -> IF /\ checkExpr => evaluatePossible(cd, e) = False
                   /\ \A c \in known : evaluatePossible(cd, c) = True
                THEN "satisfied" ELSE "unknown"

\* What is answered, the bytes of a solution, and the value under bytes that satisfy the
\* constraints, if there are any.
NoValue == Node("none", 0, <<>>, <<>>)
computeTruth(cd, constraints, e) == propogateValues(cd, constraints, e, TRUE)
computeInitialValues(cd) == possibleBytes(cd)
computeValue(cd, constraints, e) ==
  IF propogateValues(cd, constraints, e, FALSE) = "satisfied" /\ IsConst(evaluatePossible(cd, e))
  THEN evaluatePossible(cd, e) ELSE NoValue
=============================================================================
