---------------------------- MODULE SolverTheory ----------------------------
(***************************************************************************)
(* The theory of bit vectors and arrays, as the libraries of STP, Z3 and   *)
(* metaSMT and the SMT-LIB format offer it.  A term is represented by its  *)
(* sort and its value under an assignment of the symbolic bytes; a         *)
(* function applied to terms of sorts it is not defined for is IllSorted.  *)
(***************************************************************************)
EXTENDS Expressions, FiniteSets

boolTerm(b) == [sort |-> "Bool", width |-> Bool, value |-> BitOf(b)]
bvTerm(w, n) == [sort |-> "BitVec", width |-> w, value |-> n % 2^w]
arrayTerm(contents) == [sort |-> "Array", width |-> Int8, value |-> contents]
IllSorted == [sort |-> "none", width |-> 0, value |-> 0]

IsBv(s) == s.sort = "BitVec"
IsBool(s) == s.sort = "Bool"
SameBv(s, t) == IsBv(s) /\ IsBv(t) /\ s.width = t.width

\* Division is total.
TotalApply(op, w, x, y) ==
  IF op \in Divisions /\ y = 0
  THEN CASE op = "UDiv" -> AllOnes(w)
         [] op = "SDiv" -> IF Signed(x, w) < 0 THEN 1 ELSE AllOnes(w)
         [] OTHER -> x
  ELSE Apply(op, w, x, y)

bvOp(op, s, t) ==
  IF ~SameBv(s, t) THEN IllSorted
  ELSE IF op \in Comparisons \cup Derived
       THEN boolTerm(TotalApply(op, s.width, s.value, t.value) = 1)
       ELSE bvTerm(s.width, TotalApply(op, s.width, s.value, t.value))
bvNot(s) == IF IsBv(s) THEN bvTerm(s.width, AllOnes(s.width) - s.value) ELSE IllSorted
bvMinus(s) == IF IsBv(s) THEN bvTerm(s.width, -s.value) ELSE IllSorted

\* And, Or, Xor and Eq (iff) of formulas.
boolOp(op, s, t) ==
  IF IsBool(s) /\ IsBool(t) THEN boolTerm(Apply(op, Bool, s.value, t.value) = 1) ELSE IllSorted
boolNot(s) == IF IsBool(s) THEN boolTerm(s.value = 0) ELSE IllSorted

ite(c, s, t) ==
  IF IsBool(c) /\ s.sort = t.sort /\ s.width = t.width
  THEN (IF c.value = 1 THEN s ELSE t) ELSE IllSorted
extract(top, bottom, s) ==
  IF IsBv(s) /\ bottom >= 0 /\ bottom <= top /\ top < s.width
  THEN bvTerm(top - bottom + 1, s.value \div 2^bottom) ELSE IllSorted
concat(s, t) ==
  IF IsBv(s) /\ IsBv(t) THEN bvTerm(s.width + t.width, s.value * 2^(t.width) + t.value)
  ELSE IllSorted
signExtend(s, w) ==
  IF IsBv(s) /\ w >= s.width THEN bvTerm(w, Signed(s.value, s.width)) ELSE IllSorted

Indices == 0..(2^Int32 - 1)
IsElement(array, i) == array.sort = "Array" /\ IsBv(i) /\ i.width = Int32
select(array, i) == IF IsElement(array, i) THEN bvTerm(Int8, array.value[i.value]) ELSE IllSorted
store(array, i, v) ==
  IF IsElement(array, i) /\ IsBv(v) /\ v.width = Int8
  THEN arrayTerm([array.value EXCEPT ![i.value] = v.value]) ELSE IllSorted
\* An array is defined for every index; no bytes are past the end of what it stands for.
freeArray(name, a) ==
  arrayTerm([i \in Indices |-> IF name \in DOMAIN a /\ i \in DOMAIN a[name] THEN a[name][i] ELSE 0])

-----------------------------------------------------------------------------
(* The constants that turn a multiplication or division by a constant into *)
(* shifts, additions and a multiplication of twice the width (Hacker's     *)
(* Delight), for words of Int32 bits.                                      *)

Int64 == 2 * Int32
Smaller(x, y) == IF x < y THEN x ELSE y
Greater(x, y) == IF x > y THEN x ELSE y

indexOfRightmostBit(x) == CHOOSE n \in 0..Int64 : x % 2^(n + 1) = 2^n
isPowerOfTwo(x) == \E n \in 0..Int64 : x = 2^n
indexOfSingleBit(x) == CHOOSE n \in 0..Int64 : x = 2^n

\* ComputeMultConstants64: numbers add and sub with add - sub = x that have few bits, from
\* the runs of ones in x; where adding the bit below a run is due, it is subtracted instead.
RECURSIVE MultConstants(_, _, _)
MultConstants(x, add, sub) ==
  IF x = 0 THEN [add |-> add, sub |-> sub]
  ELSE LET low == indexOfRightmostBit(x)
           p == (x + 2^low) % 2^Int64
           high == IF p = 0 THEN Int64 ELSE indexOfRightmostBit(p)
           rest == IF p = 0 THEN 0 ELSE p - 2^high
           top == IF high = Int64 THEN 0 ELSE 2^high
           below == low > 0 /\ (add & 2^(low - 1)) # 0
       IN IF high = low + 1 THEN MultConstants(rest, add + 2^low, sub)
          ELSE IF below
               THEN MultConstants(rest, (add - 2^(low - 1)) + top, sub + 2^(low - 1))
               ELSE MultConstants(rest, add + top, sub + 2^low)
ComputeMultConstants64(x) == MultConstants(x, 0, 0)

\* ldz: the leading zeros of a word; exp_base_2: zero for what is no index of a bit.
ldz(x) == Cardinality({n \in 0..(Int32 - 1) : x < 2^n})
exp_base_2(n) == IF n \in 0..(Int32 - 1) THEN 2^n ELSE 0
log2Ceil(x) == Int32 - ldz((x - 1) % 2^Int32)

ComputeUDivConstants32(d) ==
  LET l == log2Ceil(d)
      mid == (exp_base_2(l) - d) % 2^Int32
  IN [mprime |-> ((2^Int32 * mid) \div d + 1) % 2^Int32,
      sh1 |-> Smaller(l, 1), sh2 |-> Greater(l - 1, 0)]

\* Mutant: the smallest number is no special case.
ComputeSDivConstants32Wrong(d) ==
  LET abs_d == AbsoluteOf(Signed(d, Int32))
      l == Greater(1, log2Ceil(abs_d))
      m == (2^Int32 * exp_base_2(l)) \div abs_d + 1
  IN [mprime |-> Signed((m - 2^Int32) % 2^Int32, Int32),
      dsign |-> IF Signed(d, Int32) < 0 THEN -1 ELSE 0, shpost |-> l - 1]
ComputeSDivConstants32(d) ==
  LET abs_d == AbsoluteOf(Signed(d, Int32))
      l == IF abs_d = 2^(Int32 - 1) THEN Int32 - 1 ELSE Greater(1, log2Ceil(abs_d))
      m == (2^Int32 * exp_base_2(l - 1)) \div abs_d + 1
  IN [mprime |-> Signed((m - 2^Int32) % 2^Int32, Int32),
      dsign |-> IF Signed(d, Int32) < 0 THEN -1 ELSE 0, shpost |-> l - 1]
=============================================================================
