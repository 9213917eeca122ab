---------------------------- MODULE Constraints ----------------------------
(***************************************************************************)
(* The path condition of a state: the ConstraintManager, which simplifies  *)
(* a condition by what is known, splits conjunctions, and replaces an      *)
(* expression by the constant it has to equal everywhere; and the values a *)
(* state computes before it branches on them.                              *)
(*                                                                         *)
(* Next to what the program keeps stand two histories: meaning, what the   *)
(* computed value is under each assignment of the symbolic bytes, and      *)
(* path, the assignments that take the path.                               *)
(***************************************************************************)
EXTENDS FastCex

CONSTANTS
  Leaves,        \* the expressions a computation starts from
  Conditions,    \* the expressions a program branches on
  Assignments,   \* of the bytes of the symbolic arrays
  Widths,        \* that a value is cast to
  MaxOperations, \* bound: operations of a computed value
  MaxConstraints, \* bound: branches on a path
  RewriteEqualities \* command line option

ASSUME ConstraintsAssumption ==
  /\ MaxOperations \in Nat /\ MaxConstraints \in Nat
  /\ \A c \in Conditions : c.width = Bool
  /\ RewriteEqualities \in BOOLEAN

VARIABLES
  value,       \* of an instruction, in a register
  operations,  \* that it took
  meaning,     \* history: of value
  constraints, \* ConstraintManager::constraints
  path         \* history: the assignments that satisfy every added condition

vars == <<value, operations, meaning, constraints, path>>

MeaningOf(e) == [a \in Assignments |-> Eval(e, a)]

Init ==
  /\ value \in Leaves
  /\ operations = 0
  /\ meaning = MeaningOf(value)
  /\ constraints = <<>>
  /\ path = Assignments

-----------------------------------------------------------------------------
(* ConstraintManager *)

True == Const(1, Bool)
False == Const(0, Bool)

RECURSIVE addConstraintInternal(_, _)

\* Mutant: a constraint that changes is dropped.
RewriteDrops(cs, src, dst) == SelectSeq(cs, LAMBDA c : Replace(c, src, dst) = c)

\* rewriteConstraints: what a replacement changes is added anew, to those before it.
rewriteConstraints(cs, src, dst) ==
  FoldLeft(LAMBDA done, c : LET e == Replace(c, src, dst)
                            IN IF e = c THEN Append(done, c) ELSE addConstraintInternal(done, e),
           <<>>, cs)

\* A constant that is false fails an assert: it is kept here, and no assignment
\* satisfies it.
addConstraintInternal(cs, e) ==
  CASE e = True -> cs
    [] e.op = "And" -> addConstraintInternal(addConstraintInternal(cs, e.kids[1]), e.kids[2])
    [] ConstLeft(e, "Eq") /\ RewriteEqualities ->
         Append(rewriteConstraints(cs, e.kids[2], e.kids[1]), e)
    [] OTHER -> Append(cs, e)

\* What a constraint says of an expression: what to replace, and by what.
Known(c) == IF ConstLeft(c, "Eq") THEN <<c.kids[2], c.kids[1]>> ELSE <<c, True>>

\* The first constraint about an expression counts.
Equalities(cs) ==
  LET known == [i \in 1..Len(cs) |-> Known(cs[i])]
  IN [e \in {known[i][1] : i \in 1..Len(cs)} |->
        known[CHOOSE i \in 1..Len(cs) :
                known[i][1] = e /\ \A j \in 1..(i - 1) : known[j][1] # e][2]]

simplifyExpr(cs, e) == ReplaceKnown(e, Equalities(cs))
addConstraint(cs, e) == addConstraintInternal(cs, simplifyExpr(cs, e))

-----------------------------------------------------------------------------

\* An instruction computes from the value and a leaf.  (The value and the constraints do
\* not depend on each other: it is computed before there are any, and they are added to
\* one value that is not computed.)
MayCompute == constraints = <<>> /\ operations < MaxOperations
Computed(e, m) ==
  /\ value' = e /\ operations' = operations + 1
  /\ meaning' = m
  /\ UNCHANGED <<constraints, path>>

\* klee_div_zero_check ends a state that divides by zero, klee_overshift_check one that
\* shifts by too much: where they would, the value means nothing.
MeantBy(e, a) == IF e = value THEN meaning[a] ELSE Eval(e, a)
Checked(op, w, x, y) ==
  IF op \in Shifts /\ y >= w THEN Undefined ELSE Apply(op, w, x, y)
Operate(op, l, r) ==
  /\ MayCompute
  /\ l.width = r.width
  /\ op \in Divisions => ~Is(r, 0)
  /\ Computed(create(op, l, r),
              [a \in Assignments |-> Checked(op, l.width, MeantBy(l, a), MeantBy(r, a))])

Cast(op, w) ==
  /\ MayCompute
  /\ w # value.width
  /\ Computed(IF op = "SExt" THEN SExt(value, w) ELSE ZExt(value, w),
              [a \in Assignments |->
                 CASE meaning[a] = Undefined -> Undefined
                   [] op = "SExt" -> Signed(meaning[a], value.width) % 2^w
                   [] OTHER -> meaning[a] % 2^w])

Choose(t, f) ==
  /\ MayCompute
  /\ value.width = Bool /\ t.width = f.width
  /\ Computed(Select(value, t, f),
              [a \in Assignments |-> CASE meaning[a] = Undefined -> Undefined
                                       [] meaning[a] = 1 -> Eval(t, a)
                                       [] meaning[a] = 0 -> Eval(f, a)])

\* The bytes of a stored value, and a value loaded from bytes.
Byte(i) ==
  /\ MayCompute
  /\ (i + 1) * Int8 <= value.width
  /\ Computed(Extract(value, i * Int8, Int8),
              [a \in Assignments |-> IF meaning[a] = Undefined THEN Undefined
                                     ELSE (meaning[a] \div 2^(i * Int8)) % 2^Int8])

Load(e) ==
  /\ MayCompute
  /\ e.width = Int8 /\ value.width = Int8
  /\ Computed(Concat(value, e),
              [a \in Assignments |-> IF meaning[a] = Undefined THEN Undefined
                                     ELSE meaning[a] * 2^Int8 + Eval(e, a)])

\* A branch adds the condition or its negation, if the solver says that it can hold.
Branch(c) ==
  /\ operations = 0 /\ value = CHOOSE e \in Leaves : TRUE
  /\ Len(constraints) < MaxConstraints
  /\ \E cond \in {c, createIsZero(c)} :
       /\ \E a \in path : Eval(cond, a) = 1
       /\ constraints' = addConstraint(constraints, cond)
       /\ path' = {a \in path : Eval(cond, a) = 1}
  /\ UNCHANGED <<value, operations, meaning>>

Next ==
  \/ \E op \in Binary, e \in Leaves : Operate(op, value, e) \/ Operate(op, e, value)
  \/ \E op \in {"SExt", "ZExt"}, w \in Widths : Cast(op, w)
  \/ \E t, f \in Leaves : Choose(t, f)
  \/ \E i \in 0..1 : Byte(i)
  \/ \E e \in Leaves : Load(e)
  \/ \E c \in Conditions : Branch(c)

Spec == Init /\ [][Next]_vars

-----------------------------------------------------------------------------

\* However create folds, cancels and reorders, the expression is worth what the
\* operations it was asked for are worth, unless one of them divided by zero; and under
\* an assignment the evaluator comes to that constant (the assert of the counterexample
\* cache).
ValueMeansTheOperations ==
  \A a \in Assignments :
    meaning[a] # Undefined =>
      /\ Eval(value, a) = meaning[a]
      /\ Evaluate(value, a) = Const(meaning[a], value.width)

\* Rewritten, split and dropped, the constraints allow the assignments of the path, no
\* more and no less, and none of them is constant.  What simplifyExpr makes of a condition
\* has the same value wherever the path is taken.
ConstraintsMeanThePath ==
  operations = 0 =>
    /\ path = {a \in Assignments : \A i \in 1..Len(constraints) : Eval(constraints[i], a) = 1}
    /\ \A i \in 1..Len(constraints) : ~IsConst(constraints[i])
    /\ \A c \in Conditions : LET s == simplifyExpr(constraints, c)
                             IN \A a \in path : Eval(s, a) = Eval(c, a)

\* The sizes of the symbolic arrays.
Sizes == LET a == CHOOSE x \in Assignments : TRUE
         IN [name \in DOMAIN a |-> Cardinality(DOMAIN a[name])]

\* What FastCexSolver answers by propagating ranges is right: a condition it proves holds
\* on the whole path, and the bytes and the value it finds are those of an input that
\* takes the path.  None of its assertions fails.
AnswersAreRight(e, tested, reached, bytes, truth, n) ==
  /\ ~tested.failed /\ ~reached.failed
  /\ truth = "valid" => \A a \in path : Eval(e, a) = 1
  /\ truth = "satisfied" => bytes \in path /\ Eval(e, bytes) = 0
  /\ n # NoValue => \E a \in path : Eval(e, a) = Value(n)
FastAnswersAreRight ==
  operations = 0 => \A c \in Conditions :
    LET e == simplifyExpr(constraints, c)
        tested == propogatedData(constraints, e, TRUE, Sizes)
        reached == propogatedData(constraints, e, FALSE, Sizes)
    IN ~IsConst(e) =>
         AnswersAreRight(e, tested, reached, computeInitialValues(tested),
                         computeTruth(tested, constraints, e), computeValue(reached, constraints, e))
=============================================================================
