------------------------------ MODULE STPTerms ------------------------------
(***************************************************************************)
(* What STPBuilder tells STP of an expression: construct, with the shifts  *)
(* it spells out bit by bit and the multiplications and divisions by       *)
(* constants it replaces.                                                  *)
(***************************************************************************)
EXTENDS SolverTheory

CONSTANT OptimizeDivides \* command line option

getTrue == boolTerm(TRUE)
getFalse == boolTerm(FALSE)
bvConst32(w, n) == bvTerm(w, n)
bvConst64(w, n) == bvTerm(w, n)

\* A wide constant is put together from words of 64 bits.
RECURSIVE bvZExtConst(_, _)
bvZExtConst(w, n) ==
  IF w <= Int64 THEN bvConst64(w, n)
  ELSE concat(bvZExtConst(w - Int64, 0), bvConst64(Int64, n))
bvSExtConst(w, n) == IF w <= Int64 THEN bvConst64(w, n) ELSE signExtend(bvConst64(Int64, n), w)
bvOne(w) == bvZExtConst(w, 1)
bvZero(w) == bvZExtConst(w, 0)
bvMinusOne(w) == bvSExtConst(w, -1)

bvExtract(s, top, bottom) == extract(top, bottom, s)
bvBoolExtract(s, bit) == bvOp("Eq", bvExtract(s, bit, bit), bvOne(1))
eqExpr(s, t) == bvOp("Eq", s, t)

\* Shifts by a constant.
bvRightShift(s, n) ==
  IF n = 0 THEN s ELSE IF n >= s.width THEN bvZero(s.width)
  ELSE concat(bvZero(n), bvExtract(s, s.width - 1, n))
bvLeftShift(s, n) ==
  IF n = 0 THEN s ELSE IF n >= s.width THEN bvZero(s.width)
  ELSE concat(bvExtract(s, s.width - n - 1, 0), bvZero(n))
constructAShrByConstant(s, n, isSigned) ==
  IF n = 0 THEN s ELSE IF n >= s.width THEN bvZero(s.width)
  ELSE ite(isSigned, concat(bvMinusOne(n), bvExtract(s, s.width - 1, n)), bvRightShift(s, n))

\* One case for each amount up to n, which only the low bits of the amount decide.
activeBits(w) == CHOOSE n \in 1..w : 2^(n - 1) <= w /\ w < 2^n
extractPartialShiftValue(amount, w) == extract(activeBits(w) - 1, 0, amount)
RECURSIVE leftCases(_, _, _), rightCases(_, _, _), signedCases(_, _, _, _)
leftCases(s, low, n) ==
  IF n = s.width THEN bvZero(s.width)
  ELSE ite(eqExpr(low, bvConst32(low.width, n)), bvLeftShift(s, n), leftCases(s, low, n + 1))
rightCases(s, low, n) ==
  IF n = s.width THEN bvZero(s.width)
  ELSE ite(eqExpr(low, bvConst32(low.width, n)), bvRightShift(s, n), rightCases(s, low, n + 1))
signedCases(s, low, isSigned, n) ==
  LET shifted == constructAShrByConstant(s, n, isSigned) IN
  IF n = s.width - 1 THEN shifted
  ELSE ite(eqExpr(low, bvConst32(low.width, n)), shifted, signedCases(s, low, isSigned, n + 1))

inRange(amount, w) == bvOp("Ult", amount, bvConst32(amount.width, w))
bvVarLeftShift(s, amount) ==
  ite(inRange(amount, s.width),
      leftCases(s, extractPartialShiftValue(amount, s.width), 0), bvZero(s.width))
bvVarRightShift(s, amount) ==
  ite(inRange(amount, s.width),
      rightCases(s, extractPartialShiftValue(amount, s.width), 0), bvZero(s.width))
bvVarArithRightShift(s, amount) ==
  ite(inRange(amount, s.width),
      signedCases(s, extractPartialShiftValue(amount, s.width),
                  bvBoolExtract(s, s.width - 1), 0),
      bvZero(s.width))

\* The sum of the shifts of s by the bits of add, less those by the bits of sub, from the
\* highest bit down; zero when there are none.
RECURSIVE sumOfShifts(_, _, _, _, _)
sumOfShifts(s, add, sub, n, sum) ==
  IF n < 0 THEN IF sum = <<>> THEN bvZero(s.width) ELSE sum[1]
  ELSE LET shifted == bvLeftShift(s, n)
           more == IF (add & 2^n) # 0
                   THEN <<IF sum = <<>> THEN shifted ELSE bvOp("Add", sum[1], shifted)>>
                   ELSE IF (sub & 2^n) # 0
                   THEN <<IF sum = <<>> THEN bvMinus(shifted) ELSE bvOp("Sub", sum[1], shifted)>>
                   ELSE sum
       IN sumOfShifts(s, add, sub, n - 1, more)
constructMulByConstant(s, w, x) ==
  LET c == ComputeMultConstants64(x)
  IN sumOfShifts(s, c.add % 2^w, c.sub % 2^w, Int64 - 1, <<>>)

constructUDivByConstant(n, d) ==
  LET c == ComputeUDivConstants32(d)
      t1 == extract(Int64 - 1, Int32,
                    constructMulByConstant(concat(bvZero(Int32), n), Int64, c.mprime))
      half == bvVarRightShift(bvOp("Sub", n, t1), bvConst32(Int32, c.sh1))
  IN bvVarRightShift(bvOp("Add", half, t1), bvConst32(Int32, c.sh2))

constructSDivByConstant(n, d) ==
  LET c == ComputeSDivConstants32(d)
      dsign == bvConst32(Int32, c.dsign)
      mulsh == extract(Int64 - 1, Int32,
                 constructMulByConstant(signExtend(n, Int64), Int64, c.mprime % 2^Int64))
      shifted == extract(Int32 - 1, 0,
                   bvVarRightShift(signExtend(bvOp("Add", n, mulsh), Int64),
                                   bvConst32(Int32, c.shpost)))
      xsign == ite(bvBoolExtract(n, Int32 - 1), bvMinusOne(Int32), bvZero(Int32))
      q0 == bvOp("Sub", shifted, xsign)
  IN bvOp("Sub", bvOp("Xor", q0, dsign), dsign)

-----------------------------------------------------------------------------
(* Expressions.  (What was constructed before is looked up in a table,      *)
(* which changes nothing.)                                                  *)

\* A wide constant, of words from the lowest up.
RECURSIVE wideConstant(_, _)
wideConstant(w, n) ==
  IF w <= Int64 THEN bvConst64(w, n)
  ELSE concat(wideConstant(w - Int64, n \div 2^Int64), bvConst64(Int64, n))
constant(e) ==
  IF e.width = Bool THEN (IF Is(e, 1) THEN getTrue ELSE getFalse)
  ELSE wideConstant(e.width, Value(e))

RECURSIVE constructActual(_, _), getArrayForUpdate(_, _, _)

\* The constant bytes of an array are stored into it.
getInitialArray(root, a) ==
  LET f[n \in 0..Len(root[2])] ==
        IF n = 0 THEN freeArray(root[1], a)
        ELSE store(f[n - 1], bvConst32(Int32, n - 1), bvConst32(Int8, root[2][n]))
  IN f[Len(root[2])]
getArrayForUpdate(root, updates, a) ==
  IF updates = <<>> THEN getInitialArray(root, a)
  ELSE store(getArrayForUpdate(root, Tail(updates), a),
             constructActual(updates[1].index, a), constructActual(updates[1].value, a))

smallConstant(e) == IsConst(e) /\ e.width <= Int64
optimized(s, d) == OptimizeDivides /\ IsConst(d) /\ s.width = Int32

constructMul(e, a) ==
  LET right == constructActual(e.kids[2], a) IN
  IF smallConstant(e.kids[1])
  THEN constructMulByConstant(right, right.width, Value(e.kids[1]))
  ELSE bvOp("Mul", constructActual(e.kids[1], a), right)

constructUDiv(left, d, a) ==
  IF smallConstant(d) /\ isPowerOfTwo(Value(d)) THEN bvRightShift(left, indexOfSingleBit(Value(d)))
  ELSE IF optimized(left, d) THEN constructUDivByConstant(left, Value(d))
  ELSE bvOp("UDiv", left, constructActual(d, a))

constructSDiv(left, d, a) ==
  IF optimized(left, d) /\ Value(d) \notin {1, AllOnes(d.width)}
  THEN constructSDivByConstant(left, Value(d))
  ELSE bvOp("SDiv", left, constructActual(d, a))

constructURem(left, d, a) ==
  IF smallConstant(d) /\ isPowerOfTwo(Value(d)) THEN
    LET bits == indexOfSingleBit(Value(d)) IN
    IF bits = 0 THEN bvZero(left.width)
    ELSE concat(bvZero(left.width - bits), bvExtract(left, bits - 1, 0))
  ELSE IF optimized(left, d)
  THEN bvOp("Sub", left,
            constructMulByConstant(constructUDivByConstant(left, Value(d)), left.width, Value(d)))
  ELSE bvOp("URem", left, constructActual(d, a))

\* The amount of a constant shift is cut off at the largest word.
constructShift(op, left, amount, a) ==
  LET n == Value(amount) IN
  CASE op = "Shl" -> IF IsConst(amount) THEN bvLeftShift(left, n)
                     ELSE bvVarLeftShift(left, constructActual(amount, a))
    [] op = "LShr" -> IF IsConst(amount) THEN bvRightShift(left, n)
                      ELSE bvVarRightShift(left, constructActual(amount, a))
    [] op = "AShr" -> IF IsConst(amount)
                      THEN constructAShrByConstant(left, n, bvBoolExtract(left, left.width - 1))
                      ELSE bvVarArithRightShift(left, constructActual(amount, a))

\* Formulas stand for expressions of one bit.
constructLogic(e, left, right) ==
  IF e.op = "Xor" THEN ite(left, boolNot(right), right) ELSE boolOp(e.op, left, right)
constructComparison(e, left, right) ==
  IF ~IsBool(right) THEN bvOp(e.op, left, right)
  ELSE IF ~IsConst(e.kids[1]) THEN boolOp(e.op, left, right)
  ELSE IF Is(e.kids[1], 1) THEN right ELSE boolNot(right)

constructCast(e, s) ==
  IF s.sort = "Bool"
  THEN ite(s, IF e.op = "SExt" THEN bvMinusOne(e.width) ELSE bvOne(e.width), bvZero(e.width))
  ELSE IF e.op = "SExt" THEN signExtend(s, e.width) ELSE concat(bvZero(e.width - s.width), s)

constructActual(e, a) ==
  LET left == constructActual(e.kids[1], a)
      right == constructActual(e.kids[2], a)
  IN
  CASE e.op = "Constant" -> constant(e)
    [] e.op = "Read" -> select(getArrayForUpdate(e.data[1], e.data[2], a), left)
    [] e.op = "Select" -> ite(left, right, constructActual(e.kids[3], a))
    [] e.op = "Concat" -> concat(left, right)
    [] e.op = "Extract" -> IF e.width = Bool THEN bvBoolExtract(left, e.data[1])
                           ELSE bvExtract(left, e.data[1] + e.width - 1, e.data[1])
    [] e.op \in {"ZExt", "SExt"} -> constructCast(e, left)
    [] e.op = "Not" -> IF e.width = Bool THEN boolNot(left) ELSE bvNot(left)
    [] e.op = "Mul" -> constructMul(e, a)
    [] e.op = "UDiv" -> constructUDiv(left, e.kids[2], a)
    [] e.op = "SDiv" -> constructSDiv(left, e.kids[2], a)
    [] e.op = "URem" -> constructURem(left, e.kids[2], a)
    [] e.op \in {"Shl", "LShr", "AShr"} -> constructShift(e.op, left, e.kids[2], a)
    [] e.op \in {"And", "Or", "Xor"} /\ IsBool(right) -> constructLogic(e, left, right)
    [] e.op \in Comparisons \cup Derived -> constructComparison(e, left, right)
    [] OTHER -> bvOp(e.op, left, right)

\* The entry; it clears the table.
construct(e, a) == constructActual(e, a)
=============================================================================
