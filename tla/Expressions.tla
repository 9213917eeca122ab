---------------------------- MODULE Expressions ----------------------------
(***************************************************************************)
(* The symbolic values of the program: expressions over the bytes of       *)
(* symbolic arrays, the create functions every one of them is built with,  *)
(* which fold constants and rewrite as they build, and the visitors that   *)
(* replace parts of an expression or evaluate it.                          *)
(*                                                                         *)
(* Eval is what an expression means; it is no part of the program but what *)
(* its results are compared with.  The bit width of a byte and of an array *)
(* index are constants.                                                    *)
(***************************************************************************)
EXTENDS Integers, Sequences, Bitwise

CONSTANTS
  Int8, Int32, \* the widths of a byte and of an index
  ConstArrayOpt \* command line option

ASSUME ExpressionsAssumption == Int8 \in Nat \ {0} /\ Int32 \in Nat \ {0} /\ ConstArrayOpt \in BOOLEAN

Bool == 1

-----------------------------------------------------------------------------
(* Nodes: the kind, the width, the operands, and what else there is: the    *)
(* value of a constant, the offset of an extract, root and updates of a     *)
(* read.                                                                    *)

Node(op, w, kids, data) == [op |-> op, width |-> w, kids |-> kids, data |-> data]

Const(n, w) == Node("Constant", w, <<>>, <<n % 2^w>>)
IsConst(e) == e.op = "Constant"
Value(e) == e.data[1]
Is(e, n) == IsConst(e) /\ Value(e) = n
AllOnes(w) == 2^w - 1

\* An array is its name and its constant values, none for a symbolic array; the
\* updates of a read are pairs of expressions, the newest first.
SymbolicArray(name) == <<name, <<>>>>
Update(i, v) == [index |-> i, value |-> v]

Signed(n, w) == IF n < 2^(w-1) THEN n ELSE n - 2^w
AbsoluteOf(n) == IF n < 0 THEN -n ELSE n
\* Division rounds to zero.
Quotient(x, y) == LET q == AbsoluteOf(x) \div AbsoluteOf(y) IN IF (x < 0) = (y < 0) THEN q ELSE -q

Divisions == {"UDiv", "SDiv", "URem", "SRem"}
Shifts == {"Shl", "LShr", "AShr"}
Comparisons == {"Eq", "Ult", "Ule", "Slt", "Sle"}
\* The comparisons that are built from others.
Derived == {"Ne", "Ugt", "Uge", "Sgt", "Sge"}
Binary == {"Add", "Sub", "Mul", "And", "Or", "Xor", "Shl", "LShr", "AShr"}
            \cup Divisions \cup Comparisons \cup Derived

BitOf(b) == IF b THEN 1 ELSE 0

\* What an operation on numbers of w bits yields, Undefined for a division by zero.
Undefined == -1
Apply(op, w, x, y) ==
  LET sx == Signed(x, w)  sy == Signed(y, w) IN
  CASE x = Undefined \/ y = Undefined -> Undefined
    [] op \in Divisions /\ y = 0 -> Undefined
    [] op = "Add" -> (x + y) % 2^w
    [] op = "Sub" -> (x - y) % 2^w
    [] op = "Mul" -> (x * y) % 2^w
    [] op = "UDiv" /\ y # 0 -> x \div y
    [] op = "URem" /\ y # 0 -> x % y
    [] op = "SDiv" /\ y # 0 -> Quotient(sx, sy) % 2^w
    [] op = "SRem" /\ y # 0 -> (sx - sy * Quotient(sx, sy)) % 2^w
    [] op = "And" -> x & y
    [] op = "Or" -> x | y
    [] op = "Xor" -> x ^^ y
    [] op = "Shl" -> IF y >= w THEN 0 ELSE (x * 2^y) % 2^w
    [] op = "LShr" -> IF y >= w THEN 0 ELSE x \div 2^y
    [] op = "AShr" -> (IF y >= w THEN (IF sx < 0 THEN -1 ELSE 0) ELSE sx \div 2^y) % 2^w
    [] op = "Eq" -> BitOf(x = y) [] op = "Ne" -> BitOf(x # y)
    [] op = "Ult" -> BitOf(x < y) [] op = "Ule" -> BitOf(x <= y)
    [] op = "Ugt" -> BitOf(x > y) [] op = "Uge" -> BitOf(x >= y)
    [] op = "Slt" -> BitOf(sx < sy) [] op = "Sle" -> BitOf(sx <= sy)
    [] op = "Sgt" -> BitOf(sx > sy) [] op = "Sge" -> BitOf(sx >= sy)

WidthOf(op, w) == IF op \in Comparisons \cup Derived THEN Bool ELSE w

\* The value of an expression when the bytes of the symbolic arrays are a[name][index].
RECURSIVE Eval(_, _), EvalRead(_, _, _, _)
EvalRead(root, updates, i, a) ==
  CASE updates # <<>> /\ Eval(updates[1].index, a) = i -> Eval(updates[1].value, a)
    [] updates # <<>> /\ Eval(updates[1].index, a) # i -> EvalRead(root, Tail(updates), i, a)
    [] updates = <<>> /\ root[2] # <<>> -> IF i < Len(root[2]) THEN root[2][i + 1] ELSE Undefined
    [] OTHER -> IF i \in DOMAIN a[root[1]] THEN a[root[1]][i] ELSE Undefined
Eval(e, a) ==
  LET kid(i) == Eval(e.kids[i], a) IN
  CASE e.op = "Constant" -> Value(e)
    [] e.op = "Read" -> EvalRead(e.data[1], e.data[2], kid(1), a)
    [] e.op = "Select" -> IF kid(1) = 1 THEN kid(2) ELSE kid(3)
    [] e.op = "Concat" -> IF kid(1) = Undefined \/ kid(2) = Undefined THEN Undefined
                          ELSE kid(1) * 2^(e.kids[2].width) + kid(2)
    [] e.op = "Extract" -> IF kid(1) = Undefined THEN Undefined
                           ELSE (kid(1) \div 2^(e.data[1])) % 2^(e.width)
    [] e.op = "ZExt" -> kid(1)
    [] e.op = "Not" -> IF kid(1) = Undefined THEN Undefined ELSE AllOnes(e.width) - kid(1)
    [] e.op = "SExt" -> IF kid(1) = Undefined THEN Undefined
                        ELSE Signed(kid(1), e.kids[1].width) % 2^(e.width)
    [] OTHER -> Apply(e.op, e.kids[1].width, kid(1), kid(2))

-----------------------------------------------------------------------------
(* The create functions *)

RECURSIVE create(_, _, _)

\* ConstantExpr::Add and its like.
Fold(op, l, r) == Const(Apply(op, l.width, Value(l), Value(r)), WidthOf(op, l.width))
alloc(op, l, r) == Node(op, WidthOf(op, l.width), <<l, r>>, <<>>)

\* e is k + b or k - b for a constant k.
ConstLeft(e, op) == e.op = op /\ IsConst(e.kids[1])
createIsZero(e) == create("Eq", e, Const(0, e.width))

\* ConstantExpr::Extract, ZExt and SExt, and the create functions.
RECURSIVE Extract(_, _, _)
Concat(l, r) ==
  LET w == l.width + r.width IN
  IF IsConst(l) /\ IsConst(r) THEN Const(Value(l) * 2^(r.width) + Value(r), w)
  ELSE IF /\ l.op = "Extract" /\ r.op = "Extract" /\ l.kids = r.kids
          /\ r.data[1] + r.width = l.data[1]
       THEN Extract(l.kids[1], r.data[1], w)
  ELSE Node("Concat", w, <<l, r>>, <<>>)

Extract(e, off, w) ==
  IF w = e.width THEN e
  ELSE IF IsConst(e) THEN Const(Value(e) \div 2^off, w)
  ELSE IF e.op = "Concat" THEN
    LET l == e.kids[1]  r == e.kids[2] IN
    IF off >= r.width THEN Extract(l, off - r.width, w)
    ELSE IF off + w <= r.width THEN Extract(r, off, w)
    ELSE Concat(Extract(l, 0, w - r.width + off), Extract(r, off, r.width - off))
  ELSE Node("Extract", w, <<e>>, <<off>>)

ZExt(e, w) ==
  IF w <= e.width THEN Extract(e, 0, w)
  ELSE IF IsConst(e) THEN Const(Value(e), w)
  ELSE Node("ZExt", w, <<e>>, <<>>)

SExt(e, w) ==
  IF w <= e.width THEN Extract(e, 0, w)
  ELSE IF IsConst(e) THEN Const(Signed(Value(e), e.width), w)
  ELSE Node("SExt", w, <<e>>, <<>>)

Select(c, t, f) ==
  IF IsConst(c) THEN (IF Is(c, 1) THEN t ELSE f)
  ELSE IF t = f THEN t
  ELSE IF t.width = Bool /\ (IsConst(t) \/ IsConst(f)) THEN
    create(IF Is(t, 1) \/ (~IsConst(t) /\ Is(f, 1)) THEN "Or" ELSE "And",
           IF Is(t, 0) \/ (~IsConst(t) /\ Is(f, 1)) THEN createIsZero(c) ELSE c,
           IF IsConst(t) THEN f ELSE t)
  ELSE Node("Select", t.width, <<c, t, f>>, <<>>)

\* NotExpr::create, which only the builders of the parser and a rebuilt node call.
createNot(e) == IF IsConst(e) THEN Const(AllOnes(e.width) - Value(e), e.width)
                ELSE Node("Not", e.width, <<e>>, <<>>)

\* The update that a read sees, given whether each one is at its index: its place, 0
\* for the array, or Len(conds) + 1 when an update may or may not be there.
Visible(conds) ==
  LET open == {n \in DOMAIN conds : ~Is(conds[n], 0)} IN
  IF open = {} THEN 0
  ELSE LET n == CHOOSE n \in open : \A m \in open : n <= m
       IN IF IsConst(conds[n]) THEN n ELSE Len(conds) + 1

ReadVisible(root, updates, index, n) ==
  IF n \in 1..Len(updates) THEN updates[n].value
  ELSE IF n = 0 /\ IsConst(index) /\ Value(index) < Len(root[2])
       THEN Const(root[2][Value(index) + 1], Int8)
  ELSE Node("Read", Int8, <<index>>, <<root, updates>>)

\* ReadExpr::create.
Read(root, updates, index) ==
  ReadVisible(root, updates, index,
    Visible([n \in 1..Len(updates) |-> create("Eq", index, updates[n].index)]))

-----------------------------------------------------------------------------

AndConst(c, r) ==
  IF Is(c, AllOnes(c.width)) THEN r ELSE IF Is(c, 0) THEN c ELSE alloc("And", r, c)
OrConst(c, r) ==
  IF Is(c, AllOnes(c.width)) THEN c ELSE IF Is(c, 0) THEN r ELSE alloc("Or", r, c)
XorConst(c, r) ==
  IF Is(c, 0) THEN r
  ELSE IF c.width = Bool THEN create("Eq", Const(0, Bool), r)
  ELSE alloc("Xor", c, r)
MulConst(c, r) ==
  IF c.width = Bool THEN AndConst(c, r)
  ELSE IF Is(c, 1) THEN r ELSE IF Is(c, 0) THEN c ELSE alloc("Mul", c, r)

\* AddExpr_createPartialR: c + (k+b) = (c+k) + b, c + (k-b) = (c+k) - b.
AddConst(c, r) ==
  IF c.width = Bool THEN XorConst(c, r)
  ELSE IF Is(c, 0) THEN r
  ELSE IF ConstLeft(r, "Add") THEN create("Add", create("Add", c, r.kids[1]), r.kids[2])
  ELSE IF ConstLeft(r, "Sub") THEN create("Sub", create("Add", c, r.kids[1]), r.kids[2])
  ELSE alloc("Add", c, r)

\* (k+a)+b = k+(a+b), (k-a)+b = k+(b-a), a+(k+b) = k+(a+b), a+(k-b) = k+(a-b).
AddBoth(l, r) ==
  IF l.width = Bool THEN alloc("Xor", l, r)
  ELSE IF ConstLeft(l, "Add") THEN create("Add", l.kids[1], create("Add", l.kids[2], r))
  ELSE IF ConstLeft(l, "Sub") THEN create("Add", l.kids[1], create("Sub", r, l.kids[2]))
  ELSE IF ConstLeft(r, "Add") THEN create("Add", r.kids[1], create("Add", l, r.kids[2]))
  ELSE IF ConstLeft(r, "Sub") THEN create("Add", r.kids[1], create("Sub", l, r.kids[2]))
  ELSE alloc("Add", l, r)

\* SubExpr_createPartialR: c - (k+b) = (c-k) - b, c - (k-b) = (c-k) + b.
SubConst(c, r) ==
  IF c.width = Bool THEN XorConst(c, r)
  ELSE IF ConstLeft(r, "Add") THEN create("Sub", create("Sub", c, r.kids[1]), r.kids[2])
  ELSE IF ConstLeft(r, "Sub") THEN create("Add", create("Sub", c, r.kids[1]), r.kids[2])
  ELSE alloc("Sub", c, r)

\* Mutant: a - (k-b) = (a-b) - k.
SubOfSubKeepsSign(l, k, b) == create("Sub", create("Sub", l, b), k)
\* a - (k-b) = (a+b) - k.
SubOfSub(l, k, b) == create("Sub", create("Add", l, b), k)

\* (k+a)-b = k+(a-b), (k-a)-b = k-(a+b), a-(k+b) = (a-b)-k.
SubBoth(l, r) ==
  IF l.width = Bool THEN alloc("Xor", l, r)
  ELSE IF l = r THEN Const(0, l.width)
  ELSE IF ConstLeft(l, "Add") THEN create("Add", l.kids[1], create("Sub", l.kids[2], r))
  ELSE IF ConstLeft(l, "Sub") THEN create("Sub", l.kids[1], create("Add", l.kids[2], r))
  ELSE IF ConstLeft(r, "Add") THEN create("Sub", create("Sub", l, r.kids[2]), r.kids[1])
  ELSE IF ConstLeft(r, "Sub") THEN SubOfSub(l, r.kids[1], r.kids[2])
  ELSE alloc("Sub", l, r)

EqBoth(l, r) == IF l = r THEN Const(1, Bool) ELSE alloc("Eq", l, r)

\* TryConstArrayOpt: one disjunct for each index that holds the constant.
RECURSIVE ConstArrayEq(_, _, _)
ConstArrayEq(c, rd, n) ==
  IF n = 0 THEN Const(0, Bool)
  ELSE LET rest == ConstArrayEq(c, rd, n - 1)
           contents == rd.data[1][2]
       IN IF contents[n] # Value(c) THEN rest
          ELSE create("Or", rest,
                      create("Eq", rd.kids[1], Const(n - 1, rd.kids[1].width)))

\* ext(a) = c, for an extension of a: a = c when c is an extended value.
EqExtended(c, r) ==
  LET src == r.kids[1]
      trunc == ZExt(c, src.width)
      back == IF r.op = "SExt" THEN SExt(trunc, c.width) ELSE ZExt(trunc, c.width)
  IN IF c = back THEN create("Eq", src, trunc) ELSE Const(0, Bool)

\* EqExpr_createPartialR, of a constant and an expression that is none.
RECURSIVE EqConst(_, _)
EqConst(c, r) ==
  IF c.width = Bool THEN
    IF Is(c, 1) THEN r
    ELSE IF ConstLeft(r, "Eq") /\ r.kids[1] = Const(0, Bool) THEN r.kids[2]
    ELSE IF r.op = "Or"
         THEN create("And", createIsZero(r.kids[1]), createIsZero(r.kids[2]))
    ELSE EqBoth(c, r)
  ELSE IF r.op \in {"SExt", "ZExt"} THEN EqExtended(c, r)
  ELSE IF ConstLeft(r, "Add") THEN EqConst(create("Sub", c, r.kids[1]), r.kids[2])
  ELSE IF ConstLeft(r, "Sub") THEN EqConst(create("Sub", r.kids[1], c), r.kids[2])
  ELSE IF /\ r.op = "Read" /\ ConstArrayOpt
          /\ r.data[1][2] # <<>> /\ r.data[2] = <<>>
       THEN ConstArrayEq(c, r, Len(r.data[1][2]))
  ELSE EqBoth(c, r)

\* One operand is a constant.
OneConst(op, c, r) ==
  CASE op = "Add" -> AddConst(c, r) [] op = "Sub" -> SubConst(c, r)
    [] op = "Mul" -> MulConst(c, r) [] op = "And" -> AndConst(c, r)
    [] op = "Or" -> OrConst(c, r) [] op = "Xor" -> XorConst(c, r)
    [] op = "Eq" -> EqConst(c, r)

\* What operations on one bit are.
CreateBool(op, l, r) ==
  CASE op \in {"UDiv", "SDiv", "AShr"} -> l
    [] op \in {"URem", "SRem"} -> Const(0, Bool)
    [] op \in {"Shl", "LShr", "Slt"} -> create("And", l, createIsZero(r))
    [] op = "Ult" -> create("And", createIsZero(l), r)
    [] op = "Ule" -> create("Or", createIsZero(l), r)
    [] op = "Sle" -> create("Or", l, createIsZero(r))
    [] op = "Mul" -> alloc("And", l, r)
    [] OTHER -> alloc(op, l, r)

create(op, l, r) ==
  CASE op = "Ne" -> create("Eq", Const(0, Bool), create("Eq", l, r))
    [] op = "Ugt" -> create("Ult", r, l) [] op = "Uge" -> create("Ule", r, l)
    [] op = "Sgt" -> create("Slt", r, l) [] op = "Sge" -> create("Sle", r, l)
    [] OTHER ->
         IF IsConst(l) /\ IsConst(r) THEN Fold(op, l, r)
         ELSE IF op \in {"Add", "Sub", "Mul", "And", "Or", "Xor", "Eq"} THEN
           IF IsConst(l) THEN OneConst(op, l, r)
           ELSE IF IsConst(r) THEN
             (IF op = "Sub" THEN AddConst(Fold("Sub", Const(0, r.width), r), l)
              ELSE OneConst(op, r, l))
           ELSE CASE op = "Add" -> AddBoth(l, r) [] op = "Sub" -> SubBoth(l, r)
                  [] op = "Eq" -> EqBoth(l, r)
                  [] OTHER -> IF l.width = Bool THEN CreateBool(op, l, r) ELSE alloc(op, l, r)
         ELSE IF l.width = Bool THEN CreateBool(op, l, r) ELSE alloc(op, l, r)

-----------------------------------------------------------------------------
(* The visitors *)

\* The node again, over other operands.
rebuildCast(e, kid) == IF e.op = "SExt" THEN SExt(kid, e.width) ELSE ZExt(kid, e.width)

rebuild(e, kids) ==
  CASE e.op = "Read" -> Read(e.data[1], e.data[2], kids[1])
    [] e.op = "Select" -> Select(kids[1], kids[2], kids[3])
    [] e.op = "Concat" -> Concat(kids[1], kids[2])
    [] e.op = "Extract" -> Extract(kids[1], e.data[1], e.width)
    [] e.op \in {"ZExt", "SExt"} -> rebuildCast(e, kids[1])
    [] e.op = "Not" -> createNot(kids[1])
    [] OTHER -> create(e.op, kids[1], kids[2])

\* ExprReplaceVisitor.
visitKids(e, kids) == IF kids = e.kids THEN e ELSE rebuild(e, kids)
visitPost(e, src, dst) == IF ~IsConst(e) /\ e = src THEN dst ELSE e

RECURSIVE Replace(_, _, _)
Replace(e, src, dst) ==
  IF IsConst(e) THEN e
  ELSE IF e = src THEN dst
  ELSE visitPost(visitKids(e, [i \in 1..Len(e.kids) |-> Replace(e.kids[i], src, dst)]),
                 src, dst)

\* ExprReplaceVisitor2: the recursive visitor that replaces what the function
\* replacements is defined of, from the leaves up.
RECURSIVE ReplaceKnown(_, _)
replaceOne(e, replacements) ==
  IF ~IsConst(e) /\ e \in DOMAIN replacements THEN replacements[e] ELSE e
replaceKids(e, kids, replacements) ==
  IF kids = e.kids THEN e ELSE ReplaceKnown(rebuild(e, kids), replacements)
ReplaceKnown(e, replacements) ==
  IF IsConst(e) THEN e
  ELSE replaceOne(
         replaceKids(e, [i \in 1..Len(e.kids) |-> ReplaceKnown(e.kids[i], replacements)],
                     replacements),
         replacements)

\* ExprEvaluator for an assignment of all bytes, or of some: the others stay reads.
RECURSIVE Evaluate(_, _), evalRead(_, _, _, _)
getInitialValue(root, i, a) ==
  IF root[1] \in DOMAIN a /\ i \in DOMAIN a[root[1]] THEN Const(a[root[1]][i], Int8)
  ELSE Read(root, <<>>, Const(i, Int32))
evalRead(root, updates, i, a) ==
  IF updates = <<>> THEN
    IF i < Len(root[2]) THEN Const(root[2][i + 1], Int8) ELSE getInitialValue(root, i, a)
  ELSE LET at == Evaluate(updates[1].index, a) IN
    IF ~IsConst(at) THEN Read(root, updates, Const(i, Int32))
    ELSE IF Is(at, i) THEN Evaluate(updates[1].value, a)
    ELSE evalRead(root, Tail(updates), i, a)

\* protectedDivOperation: a divisor that turns out to be zero stays what it was.
Divisor(e, kid) == IF e.op \in Divisions /\ Is(kid, 0) THEN e.kids[2] ELSE kid

evaluateNode(e, kids, a) ==
  IF e.op = "Read" /\ IsConst(kids[1])
  THEN evalRead(e.data[1], e.data[2], Value(kids[1]), a)
  ELSE rebuild(e, [i \in 1..Len(kids) |-> IF i = 2 THEN Divisor(e, kids[2]) ELSE kids[i]])

Evaluate(e, a) ==
  IF IsConst(e) THEN e
  ELSE evaluateNode(e, [i \in 1..Len(e.kids) |-> Evaluate(e.kids[i], a)], a)
=============================================================================
