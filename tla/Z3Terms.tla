------------------------------ MODULE Z3Terms -------------------------------
(***************************************************************************)
(* What Z3Builder tells Z3 of an expression.  The bytes of a constant      *)
(* array are no part of its term: Z3Solver asserts them for the arrays     *)
(* that ConstantArrayFinder finds in the query, and the builder keeps the  *)
(* assertions from the first time it sees the array.                       *)
(***************************************************************************)
EXTENDS SolverTheory

getTrue == boolTerm(TRUE)
getFalse == boolTerm(FALSE)
bvConst32(w, n) == bvTerm(w, n)
bvConst64(w, n) == bvTerm(w, n)

RECURSIVE bvZExtConst(_, _)
bvZExtConst(w, n) ==
  IF w <= Int64 THEN bvConst64(w, n)
  ELSE concat(bvZExtConst(w - Int64, 0), bvConst64(Int64, n))
\* The high word of a negative number is all ones.
bvSExtConst(w, n) ==
  IF w <= Int64 THEN bvConst64(w, n)
  ELSE concat(bvTerm(w - Int64, IF n < 0 THEN -1 ELSE 0), bvConst64(Int64, n))
bvOne(w) == bvZExtConst(w, 1)
bvZero(w) == bvZExtConst(w, 0)
bvMinusOne(w) == bvSExtConst(w, -1)

bvExtract(s, top, bottom) == extract(top, bottom, s)
bvBoolExtract(s, bit) == bvOp("Eq", bvExtract(s, bit, bit), bvOne(1))
eqExpr(s, t) == bvOp("Eq", s, t)
iffExpr(s, t) == boolOp("Eq", s, t)
bvSignExtend(s, w) == signExtend(s, w)

bvRightShift(s, n) ==
  IF n = 0 THEN s ELSE IF n >= s.width THEN bvZero(s.width)
  ELSE concat(bvZero(n), bvExtract(s, s.width - 1, n))
bvLeftShift(s, n) ==
  IF n = 0 THEN s ELSE IF n >= s.width THEN bvZero(s.width)
  ELSE concat(bvExtract(s, s.width - n - 1, 0), bvZero(n))
constructAShrByConstant(s, n, isSigned) ==
  IF n = 0 THEN s ELSE IF n >= s.width THEN bvZero(s.width)
  ELSE ite(isSigned, concat(bvMinusOne(n), bvExtract(s, s.width - 1, n)), bvRightShift(s, n))

\* One case for each amount that is no overshift.
RECURSIVE leftCases(_, _, _), rightCases(_, _, _), signedCases(_, _, _, _)
leftCases(s, amount, n) ==
  IF n = s.width THEN bvZero(s.width)
  ELSE ite(eqExpr(amount, bvConst32(s.width, n)), bvLeftShift(s, n), leftCases(s, amount, n + 1))
rightCases(s, amount, n) ==
  IF n = s.width THEN bvZero(s.width)
  ELSE ite(eqExpr(amount, bvConst32(s.width, n)), bvRightShift(s, n), rightCases(s, amount, n + 1))
signedCases(s, amount, isSigned, n) ==
  LET shifted == constructAShrByConstant(s, n, isSigned) IN
  IF n = s.width - 1 THEN shifted
  ELSE ite(eqExpr(amount, bvConst32(s.width, n)), shifted, signedCases(s, amount, isSigned, n + 1))
inRange(amount, w) == bvOp("Ult", amount, bvConst32(amount.width, w))
bvVarLeftShift(s, amount) ==
  ite(inRange(amount, s.width), leftCases(s, amount, 0), bvZero(s.width))
bvVarRightShift(s, amount) ==
  ite(inRange(amount, s.width), rightCases(s, amount, 0), bvZero(s.width))
bvVarArithRightShift(s, amount) ==
  ite(inRange(amount, s.width),
      signedCases(s, amount, bvBoolExtract(s, s.width - 1), 0), bvZero(s.width))

-----------------------------------------------------------------------------

RECURSIVE wideConstant(_, _)
wideConstant(w, n) ==
  IF w <= Int64 THEN bvConst64(w, n)
  ELSE concat(wideConstant(w - Int64, n \div 2^Int64), bvConst64(Int64, n))
constant(e) ==
  IF e.width = Bool THEN (IF Is(e, 1) THEN getTrue ELSE getFalse)
  ELSE wideConstant(e.width, Value(e))

RECURSIVE construct(_, _), getArrayForUpdate(_, _, _)

getInitialArray(root, a) == freeArray(root[1], a)
getArrayForUpdate(root, updates, a) ==
  IF updates = <<>> THEN getInitialArray(root, a)
  ELSE store(getArrayForUpdate(root, Tail(updates), a),
             construct(updates[1].index, a), construct(updates[1].value, a))

powerOfTwo(e) == IsConst(e) /\ e.width <= Int64 /\ isPowerOfTwo(Value(e))
constructUDiv(left, d, a) ==
  IF powerOfTwo(d) THEN bvRightShift(left, indexOfSingleBit(Value(d)))
  ELSE bvOp("UDiv", left, construct(d, a))
constructURem(left, d, a) ==
  IF powerOfTwo(d) THEN
    LET bits == indexOfSingleBit(Value(d)) IN
    IF bits = 0 THEN bvZero(left.width)
    ELSE concat(bvZero(left.width - bits), bvExtract(left, bits - 1, 0))
  ELSE bvOp("URem", left, construct(d, a))

constructShift(op, left, amount, a) ==
  LET n == Value(amount) IN
  CASE op = "Shl" -> IF IsConst(amount) THEN bvLeftShift(left, n)
                     ELSE bvVarLeftShift(left, construct(amount, a))
    [] op = "LShr" -> IF IsConst(amount) THEN bvRightShift(left, n)
                      ELSE bvVarRightShift(left, construct(amount, a))
    [] op = "AShr" -> IF IsConst(amount)
                      THEN constructAShrByConstant(left, n, bvBoolExtract(left, left.width - 1))
                      ELSE bvVarArithRightShift(left, construct(amount, a))

constructLogic(e, left, right) ==
  IF e.op = "Xor" THEN ite(left, boolNot(right), right) ELSE boolOp(e.op, left, right)
constructComparison(e, left, right) ==
  IF ~IsBool(right) THEN bvOp(e.op, left, right)
  ELSE IF ~IsConst(e.kids[1]) THEN iffExpr(left, right)
  ELSE IF Is(e.kids[1], 1) THEN right ELSE boolNot(right)

\* Mutant: a bit is taken for a number.
constructCastOfBit(e, s) ==
  IF e.op = "SExt" THEN bvSignExtend(s, e.width) ELSE concat(bvZero(e.width - s.width), s)
constructCast(e, s) ==
  IF s.sort = "Bool"
  THEN ite(s, IF e.op = "SExt" THEN bvMinusOne(e.width) ELSE bvOne(e.width), bvZero(e.width))
  ELSE IF e.op = "SExt" THEN bvSignExtend(s, e.width) ELSE concat(bvZero(e.width - s.width), s)

construct(e, a) ==
  LET left == construct(e.kids[1], a)
      right == construct(e.kids[2], a)
  IN
  CASE e.op = "Constant" -> constant(e)
    [] e.op = "Read" -> select(getArrayForUpdate(e.data[1], e.data[2], a), left)
    [] e.op = "Select" -> ite(left, right, construct(e.kids[3], a))
    [] e.op = "Concat" -> concat(left, right)
    [] e.op = "Extract" -> IF e.width = Bool THEN bvBoolExtract(left, e.data[1])
                           ELSE bvExtract(left, e.data[1] + e.width - 1, e.data[1])
    [] e.op \in {"ZExt", "SExt"} -> constructCast(e, left)
    [] e.op = "Not" -> IF e.width = Bool THEN boolNot(left) ELSE bvNot(left)
    [] e.op = "UDiv" -> constructUDiv(left, e.kids[2], a)
    [] e.op = "URem" -> constructURem(left, e.kids[2], a)
    [] e.op \in {"Shl", "LShr", "AShr"} -> constructShift(e.op, left, e.kids[2], a)
    [] e.op \in {"And", "Or", "Xor"} /\ IsBool(right) -> constructLogic(e, left, right)
    [] e.op \in Comparisons \cup Derived -> constructComparison(e, left, right)
    [] OTHER -> bvOp(e.op, left, right)

-----------------------------------------------------------------------------

\* ConstantArrayFinder, which looks into the updates of a read as well.
RECURSIVE constantArrays(_)
constantArrays(e) ==
  UNION {constantArrays(e.kids[i]) : i \in DOMAIN e.kids} \cup
  (IF e.op # "Read" THEN {}
   ELSE {r \in {e.data[1]} : r[2] # <<>>} \cup
        UNION {constantArrays(e.data[2][i].index) \cup constantArrays(e.data[2][i].value) :
                 i \in DOMAIN e.data[2]})

\* constant_array_assertions: bytes of the arrays that satisfy what is asserted of the
\* arrays in the query.  The other arrays are those of a.
asserted(e, a) ==
  LET tables == constantArrays(e)
      names == {r[1] : r \in tables}
      contents(name) == (CHOOSE r \in tables : r[1] = name)[2]
  IN [name \in DOMAIN a \cup names |->
        IF name \in names
        THEN [i \in 0..(Len(contents(name)) - 1) |-> contents(name)[i + 1]]
        ELSE a[name]]
query(e, a) == construct(e, asserted(e, a))
=============================================================================
