------------------------------- MODULE Terms --------------------------------
(***************************************************************************)
(* The languages an expression is put into: the terms of the three solver  *)
(* libraries, and the text of a query for other solvers.  Each has to mean *)
(* what the expression means.                                              *)
(***************************************************************************)
EXTENDS Constraints

CONSTANT OptimizeDivides \* command line option

STP == INSTANCE STPTerms
Z3 == INSTANCE Z3Terms
MetaSMT == INSTANCE MetaSMTTerms
SMTLIB == INSTANCE SMTLIBPrinter
Text == INSTANCE KQuery

\* What the program computed, as a term: a formula for a bit.
Meant(a) ==
  IF value.width = Bool THEN STP!boolTerm(meaning[a] = 1) ELSE STP!bvTerm(value.width, meaning[a])

\* Every builder constructs a term of the right sort, and with the right value wherever no
\* division by zero and no overshift ended the path: multiplications and divisions by a
\* constant spelled out as shifts, shifts as cases, one bit as a formula.
TermsMeanTheExpression ==
  \A a \in Assignments :
    meaning[a] # Undefined =>
      /\ STP!construct(value, a) = Meant(a)
      /\ Z3!query(value, a) = Meant(a)
      /\ MetaSMT!construct(value, a) = Meant(a)

-----------------------------------------------------------------------------
(* Queries *)

Query(c, e) == [constraints |-> <<c>>, expr |-> e]
Queries ==
  {Query(c, IF value.width = Bool THEN value ELSE create("Eq", value, Const(1, value.width)))
     : c \in Conditions}

RECURSIVE ArraysOf(_)
ArraysOf(e) ==
  UNION ({ArraysOf(e.kids[i]) : i \in DOMAIN e.kids}
         \cup (IF e.op # "Read" THEN {}
               ELSE {{e.data[1]}} \cup UNION {{ArraysOf(e.data[2][i].index), ArraysOf(e.data[2][i].value)}
                                               : i \in DOMAIN e.data[2]}))

\* The formula of a query, if every array it is about is declared, is true of the
\* assignments that satisfy the constraints and refute the expression.
PrintedQueryMeansTheSame ==
  \A query \in Queries, a \in Assignments :
    /\ meaning[a] # Undefined
    /\ ArraysOf(query.expr) \subseteq SMTLIB!scanAll(query).arrays
    => SMTLIB!printQueryInSingleAssert(query, a) =
         STP!boolTerm(Eval(query.constraints[1], a) = 1 /\ Eval(query.expr, a) = 0)

\* The expressions that e consists of.
RECURSIVE PartsOf(_)
PartsOf(e) ==
  {e} \cup UNION ({PartsOf(e.kids[i]) : i \in DOMAIN e.kids}
                  \cup (IF e.op # "Read" THEN {}
                        ELSE {PartsOf(e.data[2][i].index) : i \in DOMAIN e.data[2]}
                             \cup {PartsOf(e.data[2][i].value) : i \in DOMAIN e.data[2]}))

\* The parser needs the width of a constant that begins a concatenation, which is not
\* printed; and reads of different arrays are not to be printed as one.
ReadsOf(e) == {part.data : part \in {p \in PartsOf(e) : p.op = "Read"}}
IsPrintable(e) ==
  \A part \in PartsOf(e) :
    part.op = "Concat" =>
      /\ ~IsConst(part.kids[1])
      /\ \A stride \in {-1, 1} :
           Text!hasOrderedReads(part, stride) # Text!NoRead => Cardinality(ReadsOf(part)) = 1

\* The value, and expressions of it that nobody simplified: of sums and differences, again
\* sums and differences.
Handwritten ==
  {value} \cup
  (IF operations = 0 THEN {alloc(op, Const(1, value.width), value) : op \in Binary}
   ELSE IF value.op \in {"Add", "Sub"}
   THEN {alloc(op, e, value) : op \in {"Add", "Sub"}, e \in {Const(1, value.width), value.kids[1]}}
          \cup {alloc(op, value, value.kids[2]) : op \in {"Add", "Sub"}}
   ELSE {})
AsCondition(e) == IF e.width = Bool THEN e ELSE alloc("Eq", Const(1, e.width), e)

MeansTheSame(parsed, e) ==
  /\ parsed # Text!Invalid
  /\ \A a \in Assignments : Eval(e, a) # Undefined => Eval(parsed, a) = Eval(e, a)
AllMeanTheSame(parsed, es) == \A i \in DOMAIN es : MeansTheSame(parsed[i], es[i])
Reparsed(builder, es) == Text!ParseQueryCommand(builder, Text!printQuery(Front(es), Last(es)))

\* What is printed of a query can be parsed, and whatever the builder it is built with
\* again, it means what it meant.
ParsedQueryMeansTheSame ==
  \A e \in Handwritten, c \in Conditions,
     builder \in {Text!Default, Text!ConstantFolding, Text!Simplifying} :
    ~IsConst(value) /\ IsPrintable(e) =>
      AllMeanTheSame(Reparsed(builder, <<c, AsCondition(e)>>), <<c, AsCondition(e)>>)
=============================================================================
