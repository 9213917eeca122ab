--------------------------- MODULE SMTLIBPrinter ---------------------------
(***************************************************************************)
(* What ExprSMTLIBPrinter writes for a query, as the term an SMT-LIB       *)
(* solver reads: the casts between bit vectors and formulas, the           *)
(* expressions that occur more than once and are bound by nested lets, and *)
(* the declarations of the arrays that a scan of the query finds.          *)
(***************************************************************************)
EXTENDS SolverTheory, SequencesExt

Bitvector == "BitVec"
Formula == "Bool"

-----------------------------------------------------------------------------
(* The scan *)

RECURSIVE scan(_, _)
scanUpdates(found, updates) ==
  FoldLeft(LAMBDA f, u : scan(scan(f, u.index), u.value), found, updates)

\* What was seen before is bound.  The updates of a read are scanned if its array is new.
scan(found, e) ==
  IF IsConst(e) THEN found
  ELSE IF e \in found.seen THEN [found EXCEPT !.bound = @ \cup {e}]
  ELSE LET here == [found EXCEPT !.seen = @ \cup {e}]
           first == e.op = "Read" /\ e.data[1] \notin found.arrays
           read == IF first
                   THEN scanUpdates([here EXCEPT !.arrays = @ \cup {e.data[1]}], e.data[2])
                   ELSE here
       IN FoldLeft(scan, read, e.kids)

scanAll(query) ==
  FoldLeft(scan, [seen |-> {}, bound |-> {}, arrays |-> {}], Append(query.constraints, query.expr))

\* The bound expressions that e uses; those that only occur in updates do not count.
RECURSIVE usesSubExpr(_, _)
usesSubExpr(e, bound) ==
  UNION {LET kid == e.kids[i] IN
         IF IsConst(kid) THEN {} ELSE IF kid \in bound THEN {kid} ELSE usesSubExpr(kid, bound)
         : i \in DOMAIN e.kids}

\* The expressions of a level use those of the levels before.
orderedBindings(bound) ==
  LET level[n \in 1..Cardinality(bound)] ==
        {e \in bound : usesSubExpr(e, bound) \subseteq UNION {level[m] : m \in 1..(n - 1)}}
          \ UNION {level[m] : m \in 1..(n - 1)}
  IN SelectSeq([n \in 1..Cardinality(bound) |-> level[n]], LAMBDA es : es # {})

-----------------------------------------------------------------------------
(* Expressions.  let holds the terms of the bound expressions that are in   *)
(* scope, arrays what was declared.                                         *)

getSort(e) ==
  IF \/ e.op \in Comparisons \cup Derived
     \/ e.op \in {"Constant", "And", "Not", "Or", "Xor"} /\ e.width = Bool
  THEN Formula ELSE Bitvector

RECURSIVE printExpression(_, _, _)

\* A decimal constant carries its width.
printConstant(e) == IF e.width = Bool THEN boolTerm(Is(e, 1)) ELSE bvTerm(e.width, Value(e))

printCastToSort(e, sort, c) ==
  IF sort = Bitvector THEN ite(printExpression(e, Formula, c), bvTerm(1, 1), bvTerm(1, 0))
  ELSE bvOp("Ugt", printExpression(e, Bitvector, c), bvTerm(e.width, 0))

RECURSIVE printUpdatesAndArray(_, _, _)
printUpdatesAndArray(root, updates, c) ==
  IF updates # <<>> THEN
    store(printUpdatesAndArray(root, Tail(updates), c),
          printExpression(updates[1].index, Bitvector, c),
          printExpression(updates[1].value, Bitvector, c))
  ELSE IF root \notin c.arrays THEN IllSorted
  \* The values of a constant array are asserted.
  ELSE freeArray(root[1], IF root[2] = <<>> THEN c.bytes
                          ELSE [name \in {root[1]} |->
                                  [i \in 0..(Len(root[2]) - 1) |-> root[2][i + 1]]])

\* The shift of a negative number is no overshift.
printAShrExpr(e, c) ==
  LET x == printExpression(e.kids[1], Bitvector, c)
      amount == printExpression(e.kids[2], Bitvector, c)
  IN ite(bvOp("Uge", amount, printConstant(Const(e.width, e.width))),
         printConstant(Const(0, e.width)), bvOp("AShr", x, amount))

printCastExpr(e, c) ==
  LET src == printExpression(e.kids[1], Bitvector, c)
      numExtraBits == e.width - e.kids[1].width
  IN IF e.op = "SExt" THEN signExtend(src, src.width + numExtraBits)
     ELSE concat(bvTerm(numExtraBits, 0), src)

printSortArgsExpr(e, sort, c) ==
  LET s == printExpression(e.kids[1], sort, c)
      t == printExpression(e.kids[2], sort, c)
  IN CASE e.op = "Concat" -> concat(s, t)
       [] e.op = "Eq" /\ sort = Formula -> boolOp("Eq", s, t)
       [] OTHER -> bvOp(e.op, s, t)

printLogicalOrBitVectorExpr(e, sort, c) ==
  LET s == printExpression(e.kids[1], sort, c) IN
  IF e.op = "Not" THEN IF sort = Bitvector THEN bvNot(s) ELSE boolNot(s)
  ELSE IF sort = Bitvector THEN bvOp(e.op, s, printExpression(e.kids[2], sort, c))
  ELSE boolOp(e.op, s, printExpression(e.kids[2], sort, c))

printFullExpression(e, sort, c) ==
  CASE e.op = "Constant" -> printConstant(e)
    [] e.op = "Read" -> select(printUpdatesAndArray(e.data[1], e.data[2], c),
                               printExpression(e.kids[1], Bitvector, c))
    [] e.op = "Extract" -> extract(e.data[1] + e.width - 1, e.data[1],
                                   printExpression(e.kids[1], Bitvector, c))
    [] e.op \in {"SExt", "ZExt"} -> printCastExpr(e, c)
    [] e.op = "Select" -> ite(printExpression(e.kids[1], Formula, c),
                              printExpression(e.kids[2], sort, c),
                              printExpression(e.kids[3], sort, c))
    \* The second operand is printed at the sort of the first.
    [] e.op = "Eq" -> printSortArgsExpr(e, getSort(e.kids[1]), c)
    [] e.op \in {"And", "Or", "Xor", "Not"} -> printLogicalOrBitVectorExpr(e, sort, c)
    [] e.op = "AShr" -> printAShrExpr(e, c)
    [] OTHER -> printSortArgsExpr(e, Bitvector, c)

\* Mutant: a bound expression is cast before it is bound only.
printBoundFirst(e, sort, c) ==
  IF e \in DOMAIN c.let THEN c.let[e]
  ELSE IF getSort(e) # sort THEN printCastToSort(e, sort, c)
  ELSE printFullExpression(e, sort, c)

printExpression(e, sort, c) ==
  IF getSort(e) # sort THEN printCastToSort(e, sort, c)
  ELSE IF e \in DOMAIN c.let THEN c.let[e]
  ELSE printFullExpression(e, sort, c)

-----------------------------------------------------------------------------
(* The query *)

\* One let for each level, in the scope of those before.
RECURSIVE printLets(_, _)
printLets(levels, c) ==
  IF levels = <<>> THEN c
  ELSE printLets(Tail(levels),
         [c EXCEPT !.let = [e \in levels[1] |-> printExpression(e, getSort(e), c)] @@ @])

printAssert(e, found, a) ==
  printExpression(e, Formula,
    printLets(orderedBindings(found.bound),
              [let |-> <<>>, arrays |-> found.arrays, bytes |-> a]))

\* Validity is that the negation cannot be satisfied.
printQueryInSingleAssert(query, a) ==
  printAssert(FoldLeft(LAMBDA e, c : create("And", e, c), createIsZero(query.expr), query.constraints),
              scanAll(query), a)
=============================================================================
