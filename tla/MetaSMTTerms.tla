---------------------------- MODULE MetaSMTTerms ----------------------------
(***************************************************************************)
(* What MetaSMTBuilder tells the solvers behind metaSMT of an expression.  *)
(* Shifts by a variable amount are left to the solver, which is only asked *)
(* about an overshift; the other optimizations are those of STPBuilder.    *)
(***************************************************************************)
EXTENDS SolverTheory

CONSTANT OptimizeDivides \* command line option

getTrue == boolTerm(TRUE)
getFalse == boolTerm(FALSE)
bvConst32(w, n) == bvTerm(w, n)
bvConst64(w, n) == bvTerm(w, n)

RECURSIVE bvZExtConst(_, _)
bvZExtConst(w, n) ==
  IF w <= Int64 THEN bvConst64(w, n)
  ELSE concat(bvZExtConst(w - Int64, 0), bvConst64(Int64, n))
\* sign_extend and zero_extend take the number of bits to add.
moreSigns(n, s) == signExtend(s, s.width + n)
moreZeros(n, s) == IF IsBv(s) THEN bvTerm(s.width + n, s.value) ELSE IllSorted
bvSExtConst(w, n) ==
  IF w <= Int64 THEN bvConst64(w, n) ELSE moreSigns(w - Int64, bvConst64(Int64, n))
bvOne(w) == bvZExtConst(w, 1)
bvZero(w) == bvZExtConst(w, 0)
bvMinusOne(w) == bvSExtConst(w, -1)

bvExtract(s, top, bottom) == extract(top, bottom, s)
bvBoolExtract(s, bit) == bvOp("Eq", bvExtract(s, bit, bit), bvOne(1))

bvLeftShift(s, w, n) ==
  IF n = 0 THEN s ELSE IF n >= w THEN bvZero(w)
  ELSE concat(bvExtract(s, w - n - 1, 0), bvZero(n))
bvRightShift(s, w, n) ==
  IF n = 0 THEN s ELSE IF n >= w THEN bvZero(w)
  ELSE concat(bvZero(n), bvExtract(s, w - 1, n))
constructAShrByConstant(s, w, n, isSigned) ==
  IF n = 0 THEN s ELSE IF n >= w THEN bvZero(w)
  ELSE ite(isSigned, concat(bvMinusOne(n), bvExtract(s, w - 1, n)), bvRightShift(s, w, n))

\* An assert wants amounts as wide as what is shifted.
varShift(op, s, amount, w) ==
  IF s.width # w \/ amount.width # w THEN IllSorted
  ELSE ite(bvOp("Ult", amount, bvConst32(w, w)), bvOp(op, s, amount), bvZero(w))
bvVarLeftShift(s, amount, w) == varShift("Shl", s, amount, w)
bvVarRightShift(s, amount, w) == varShift("LShr", s, amount, w)
bvVarArithRightShift(s, amount, w) == varShift("AShr", s, amount, w)

\* Where the first bit is one to subtract, it is subtracted from zero.
RECURSIVE sumOfShifts(_, _, _, _, _, _)
sumOfShifts(s, w, add, sub, n, sum) ==
  IF n < 0 THEN IF sum = <<>> THEN bvZero(w) ELSE sum[1]
  ELSE LET shifted == bvLeftShift(s, w, n)
           more == IF (add & 2^n) # 0
                   THEN <<IF sum = <<>> THEN shifted ELSE bvOp("Add", sum[1], shifted)>>
                   ELSE IF (sub & 2^n) # 0
                   THEN <<bvOp("Sub", IF sum = <<>> THEN bvZero(w) ELSE sum[1], shifted)>>
                   ELSE sum
       IN sumOfShifts(s, w, add, sub, n - 1, more)
constructMulByConstant(s, w, x) ==
  LET c == ComputeMultConstants64(x)
  IN sumOfShifts(s, w, c.add % 2^w, c.sub % 2^w, Int64 - 1, <<>>)

constructUDivByConstant(n, d) ==
  LET c == ComputeUDivConstants32(d)
      t1 == extract(Int64 - 1, Int32,
                    constructMulByConstant(concat(bvZero(Int32), n), Int64, c.mprime))
      half == bvVarRightShift(bvOp("Sub", n, t1), bvConst32(Int32, c.sh1), Int32)
  IN bvVarRightShift(bvOp("Add", half, t1), bvConst32(Int32, c.sh2), Int32)

constructSDivByConstant(n, d) ==
  LET c == ComputeSDivConstants32(d)
      dsign == bvConst32(Int32, c.dsign)
      mulsh == extract(Int64 - 1, Int32,
                 constructMulByConstant(moreSigns(Int32, n), Int64, c.mprime % 2^Int64))
      shifted == extract(Int32 - 1, 0,
                   bvVarRightShift(moreSigns(Int32, bvOp("Add", n, mulsh)),
                                   bvConst32(Int64, c.shpost), Int64))
      xsign == ite(bvBoolExtract(n, Int32 - 1), bvMinusOne(Int32), bvZero(Int32))
      q0 == bvOp("Sub", shifted, xsign)
  IN bvOp("Sub", bvOp("Xor", q0, dsign), dsign)

-----------------------------------------------------------------------------

RECURSIVE wideConstant(_, _)
wideConstant(w, n) ==
  IF w <= Int64 THEN bvConst64(w, n)
  ELSE concat(wideConstant(w - Int64, n \div 2^Int64), bvConst64(Int64, n))
constant(e) ==
  IF e.width = Bool THEN (IF Is(e, 1) THEN getTrue ELSE getFalse)
  ELSE wideConstant(e.width, Value(e))

RECURSIVE constructActual(_, _), getArrayForUpdate(_, _, _)

getInitialArray(root, a) ==
  LET f[n \in 0..Len(root[2])] ==
        IF n = 0 THEN freeArray(root[1], a)
        ELSE store(f[n - 1], bvConst32(Int32, n - 1), bvConst32(Int8, root[2][n]))
  IN f[Len(root[2])]
getArrayForUpdate(root, updates, a) ==
  IF updates = <<>> THEN getInitialArray(root, a)
  ELSE store(getArrayForUpdate(root, Tail(updates), a),
             constructActual(updates[1].index, a), constructActual(updates[1].value, a))

smallConstant(e) == IsConst(e) /\ e.width <= Int64
optimized(w, d) == OptimizeDivides /\ IsConst(d) /\ w = Int32

constructMul(e, a) ==
  LET right == constructActual(e.kids[2], a) IN
  IF smallConstant(e.kids[1]) THEN constructMulByConstant(right, e.width, Value(e.kids[1]))
  ELSE bvOp("Mul", constructActual(e.kids[1], a), right)

constructUDiv(left, w, d, a) ==
  IF smallConstant(d) /\ isPowerOfTwo(Value(d)) THEN bvRightShift(left, w, indexOfSingleBit(Value(d)))
  ELSE IF optimized(w, d) THEN constructUDivByConstant(left, Value(d))
  ELSE bvOp("UDiv", left, constructActual(d, a))

constructSDiv(left, w, d, a) ==
  IF optimized(w, d) /\ Value(d) \notin {1, AllOnes(d.width)}
  THEN constructSDivByConstant(left, Value(d))
  ELSE bvOp("SDiv", left, constructActual(d, a))

\* The optimization replaces the term of a power of two as well.
constructURem(left, w, d, a) ==
  IF optimized(w, d)
  THEN bvOp("Sub", left,
            constructMulByConstant(constructUDivByConstant(left, Value(d)), w, Value(d)))
  ELSE IF smallConstant(d) /\ isPowerOfTwo(Value(d)) THEN
    LET bits == indexOfSingleBit(Value(d)) IN
    IF bits = 0 THEN bvZero(w) ELSE concat(bvZero(w - bits), bvExtract(left, bits - 1, 0))
  ELSE bvOp("URem", left, constructActual(d, a))

constructShift(op, left, w, amount, a) ==
  LET n == Value(amount) IN
  CASE op = "Shl" -> IF IsConst(amount) THEN bvLeftShift(left, w, n)
                     ELSE bvVarLeftShift(left, constructActual(amount, a), w)
    [] op = "LShr" -> IF IsConst(amount) THEN bvRightShift(left, w, n)
                      ELSE bvVarRightShift(left, constructActual(amount, a), w)
    [] op = "AShr" -> IF IsConst(amount)
                      THEN constructAShrByConstant(left, w, n, bvBoolExtract(left, w - 1))
                      ELSE bvVarArithRightShift(left, constructActual(amount, a), w)

constructLogic(e, left, right, w) ==
  IF w = Bool THEN boolOp(e.op, left, right) ELSE bvOp(e.op, left, right)
constructComparison(e, left, right, w) ==
  IF e.op # "Eq" \/ w # Bool THEN bvOp(e.op, left, right)
  ELSE IF ~IsConst(e.kids[1]) THEN boolOp(e.op, left, right)
  ELSE IF Is(e.kids[1], 1) THEN right ELSE boolNot(right)

constructCast(e, s, w) ==
  IF w = Bool
  THEN ite(s, IF e.op = "SExt" THEN bvMinusOne(e.width) ELSE bvOne(e.width), bvZero(e.width))
  ELSE IF e.op = "SExt" THEN moreSigns(e.width - w, s) ELSE moreZeros(e.width - w, s)

constructActual(e, a) ==
  LET left == constructActual(e.kids[1], a)
      right == constructActual(e.kids[2], a)
      w == e.kids[1].width
  IN
  CASE e.op = "Constant" -> constant(e)
    [] e.op = "Read" -> select(getArrayForUpdate(e.data[1], e.data[2], a), left)
    [] e.op = "Select" -> ite(left, right, constructActual(e.kids[3], a))
    [] e.op = "Concat" -> concat(left, right)
    [] e.op = "Extract" -> IF e.width = Bool THEN bvBoolExtract(left, e.data[1])
                           ELSE extract(e.data[1] + e.width - 1, e.data[1], left)
    [] e.op \in {"ZExt", "SExt"} -> constructCast(e, left, w)
    [] e.op = "Not" -> IF w = Bool THEN boolNot(left) ELSE bvNot(left)
    [] e.op = "Mul" -> constructMul(e, a)
    [] e.op = "UDiv" -> constructUDiv(left, w, e.kids[2], a)
    [] e.op = "SDiv" -> constructSDiv(left, w, e.kids[2], a)
    [] e.op = "URem" -> constructURem(left, w, e.kids[2], a)
    [] e.op \in {"Shl", "LShr", "AShr"} -> constructShift(e.op, left, w, e.kids[2], a)
    [] e.op \in {"And", "Or", "Xor"} -> constructLogic(e, left, right, w)
    [] e.op \in Comparisons \cup Derived -> constructComparison(e, left, right, w)
    [] OTHER -> bvOp(e.op, left, right)

\* The entry; it clears the table.
construct(e, a) == constructActual(e, a)
=============================================================================
