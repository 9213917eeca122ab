---------------------------- MODULE SolverChain ----------------------------
(***************************************************************************)
(* How a query of an execution state is answered: constraints that have    *)
(* nothing to do with it are left out (IndependentSolver), answers and     *)
(* counterexamples of earlier queries are reused (CachingSolver,           *)
(* CexCachingSolver), and what is left goes to the SMT solver, which may   *)
(* fail or time out.                                                       *)
(*                                                                         *)
(* An expression is a Boolean expression that is no constant; what it says *)
(* of the bytes of the symbolic arrays is Holds.  The SMT solver is        *)
(* external: what it answers is right, when it answers.                    *)
(***************************************************************************)
EXTENDS Naturals, FiniteSets

CONSTANTS
  Exprs,        \* Boolean expressions
  Bytes,        \* the bytes of all symbolic arrays
  Values, Zero, \* of a byte; Zero is the one of a byte that is not bound
  Array(_),     \* the array of a byte
  Reads(_),     \* the bytes an expression reads, all of an array's for a symbolic index
  Holds(_, _),  \* Holds(e, a): e is true under the assignment a
  Neg(_),       \* Expr::createIsZero
  Paths,        \* the sets of constraints that states have when they ask
  Canonical,    \* of an expression and its negation, the smaller one
  CexCacheTryAll, CexCacheSuperSet, \* command line options
  Failed, Unsat, None,
  MaxCached     \* bound: entries of the two caches

Assignments == [Bytes -> Values]
Satisfies(a, cs) == \A e \in cs : Holds(e, a)
Satisfiable(cs) == \E a \in Assignments : Satisfies(a, cs)
Valid(cs, e) == \A a \in Assignments : Satisfies(a, cs) => Holds(e, a)

ASSUME SolverChainAssumption ==
  /\ Zero \in Values
  /\ \A e \in Exprs : Reads(e) \subseteq Bytes /\ Reads(e) # {}
  /\ \A e \in Exprs, a, b \in Assignments :
       (\A i \in Reads(e) : a[i] = b[i]) => Holds(e, a) = Holds(e, b)
  /\ \A e \in Exprs : Neg(e) \in Exprs /\ Neg(Neg(e)) = e /\ Reads(Neg(e)) = Reads(e)
  /\ \A e \in Exprs, a \in Assignments : Holds(e, a) \in BOOLEAN /\ Holds(Neg(e), a) = ~Holds(e, a)
  /\ \A e \in Exprs : e \in Canonical <=> Neg(e) \notin Canonical
  /\ Paths \subseteq {cs \in SUBSET Exprs : Satisfiable(cs)}
  /\ Unsat \notin Assignments /\ Failed \notin Assignments /\ Failed # Unsat
  /\ Failed \notin {"True", "False", "Unknown"}
  /\ CexCacheTryAll \in BOOLEAN /\ CexCacheSuperSet \in BOOLEAN

VARIABLES
  cache,   \* CachingSolver::cache: a PartialValidity for constraints and expression
  cexCache, \* CexCachingSolver::cache: an assignment or Unsat for a set of expressions
  assignmentsTable, \* the assignments in cexCache
  asking,  \* computeInitialValues in progress: the query, the factors left, retMap
  answer   \* the last answer, and what was asked

vars == <<cache, cexCache, assignmentsTable, asking, answer>>

NoAnswer == [kind |-> "none"]

Init ==
  /\ cache = {} /\ cexCache = {} /\ assignmentsTable = {}
  /\ asking = None
  /\ answer = NoAnswer

ReadsOf(cs) == UNION {Reads(e) : e \in cs}
Arrays(B) == {Array(i) : i \in B}

-----------------------------------------------------------------------------
(* CexCachingSolver; FastCexSolver, off by default, is not modelled. *)

\* A cache and what was learned: cexCache and assignmentsTable.
Cex(c, t) == [cache |-> c, table |-> t]

\* findSuperset with NonNullAssignment.
Supersets(c, key) == {x \in c : key \subseteq x.key /\ x.binding # Unsat}

\* findSubset with NullAssignment, or with NullOrSatisfyingAssignment.
UnsatSubsets(c, key) == {x \in c : x.key \subseteq key /\ x.binding = Unsat}
SatisfyingSubsets(c, key) ==
  {x \in c : x.key \subseteq key /\ x.binding # Unsat /\ Satisfies(x.binding, key)}

Bindings(entries) == {x.binding : x \in entries}

\* searchForAssignment: what it may find.
Found(cex, key) ==
  LET exact == {x \in cex.cache : x.key = key}
      larger == IF CexCacheSuperSet THEN Supersets(cex.cache, key) ELSE {}
      smaller == UnsatSubsets(cex.cache, key) \cup
                   (IF CexCacheTryAll THEN {} ELSE SatisfyingSubsets(cex.cache, key))
  IN IF exact # {} THEN Bindings(exact)
     ELSE IF larger # {} THEN Bindings(larger)
     ELSE IF smaller # {} THEN Bindings(smaller)
     ELSE IF CexCacheTryAll THEN {a \in cex.table : Satisfies(a, key)}
     ELSE {}

\* The SMT solver is asked for the arrays the key reads.
Solutions(key) ==
  {a \in Assignments : /\ Satisfies(a, key)
                       /\ \A i \in Bytes : Array(i) \notin Arrays(ReadsOf(key)) => a[i] = Zero}

\* getAssignment: results and the cache afterwards.
Known(a, cex) == [binding |-> a, cex |-> cex]
Learned(key, a, cex) ==
  Known(a, Cex(cex.cache \cup {[key |-> key, binding |-> a]},
               IF a = Unsat THEN cex.table ELSE cex.table \cup {a}))

Unanswered(key, cex) == Known(Failed, cex)

getAssignment(cex, key) ==
  IF Found(cex, key) # {} THEN {Known(a, cex) : a \in Found(cex, key)}
  ELSE {Unanswered(key, cex)} \cup
       {Learned(key, a, cex) : a \in IF Solutions(key) = {} THEN {Unsat} ELSE Solutions(key)}

\* computeTruth.
CexTruth(cex, cs, e) ==
  {[answer |-> CASE r.binding = Failed -> Failed
                 [] r.binding = Unsat -> "True"
                 [] OTHER -> "Unknown",
    cex |-> r.cex] : r \in getAssignment(cex, cs \cup {Neg(e)})}

\* computeValidity: an assignment of the constraints tells which side to refute.
Refute(e, a) == IF Holds(e, a) THEN Neg(e) ELSE e

\* The assert that there is an assignment ends the program when it fails.
CexValidity(cex, cs, e) ==
  UNION {CASE r.binding = Failed -> {[answer |-> Failed, cex |-> r.cex]}
           [] r.binding = Unsat -> {}
           [] OTHER ->
                {[answer |-> CASE q.binding = Failed -> Failed
                               [] q.binding = Unsat ->
                                    IF Holds(e, r.binding) THEN "True" ELSE "False"
                               [] OTHER -> "Unknown",
                  cex |-> q.cex] : q \in getAssignment(r.cex, cs \cup {Refute(e, r.binding)})}
         : r \in getAssignment(cex, cs)}

\* What an assignment was learned from may change the caches of the next question.
Update(cex) == cexCache' = cex.cache /\ assignmentsTable' = cex.table
Now == Cex(cexCache, assignmentsTable)

-----------------------------------------------------------------------------
(* CachingSolver *)

\* negatePartialValidity.
Mirror(pv) ==
  CASE pv = "MustBeTrue" -> "MustBeFalse" [] pv = "MustBeFalse" -> "MustBeTrue"
    [] pv = "MayBeTrue" -> "MayBeFalse" [] pv = "MayBeFalse" -> "MayBeTrue"
    [] OTHER -> pv

Query(e) == IF e \in Canonical THEN e ELSE Neg(e)
AsAsked(e, pv) == IF e \in Canonical THEN pv ELSE Mirror(pv)

\* cacheLookup: none or one.
Cached(cs, e) ==
  {AsAsked(e, x.validity) : x \in {y \in cache : y.constraints = cs /\ y.query = Query(e)}}

\* Insert keeps the entry there is.
cacheInsert(cs, e, pv) ==
  cache' = IF Cached(cs, e) # {} THEN cache
           ELSE cache \cup {[constraints |-> cs, query |-> Query(e), validity |-> AsAsked(e, pv)]}

Definite == {"MustBeTrue", "MustBeFalse", "TrueOrFalse"}
\* The Validity a PartialValidity stands for, and the other way round.
Verdict(pv) == CASE pv = "MustBeTrue" -> "True" [] pv = "MustBeFalse" -> "False"
                 [] OTHER -> "Unknown"
Partial(v) == CASE v = "True" -> "MustBeTrue" [] v = "False" -> "MustBeFalse"
                [] OTHER -> "TrueOrFalse"

\* cs, e is answered r.
computeValidity(cs, e, r) ==
  \/ \E pv \in Cached(cs, e) \cap Definite :
       r = Verdict(pv) /\ UNCHANGED <<cache, cexCache, assignmentsTable>>
  \/ /\ "MayBeTrue" \in Cached(cs, e)
     /\ \E q \in CexTruth(Now, cs, e) :
          /\ Update(q.cex)
          /\ r = q.answer
          /\ IF r = Failed THEN UNCHANGED cache ELSE cacheInsert(cs, e, Partial(r))
  \/ /\ "MayBeFalse" \in Cached(cs, e)
     /\ \E q \in CexTruth(Now, cs, Neg(e)) :
          /\ Update(q.cex)
          /\ r = IF q.answer = "True" THEN "False" ELSE q.answer
          /\ IF r = Failed THEN UNCHANGED cache ELSE cacheInsert(cs, e, Partial(r))
  \/ /\ Cached(cs, e) = {}
     /\ \E q \in CexValidity(Now, cs, e) :
          /\ Update(q.cex)
          /\ r = q.answer
          /\ IF r = Failed THEN UNCHANGED cache ELSE cacheInsert(cs, e, Partial(r))

NotValid(cs, e) == IF "MayBeTrue" \in Cached(cs, e) THEN "TrueOrFalse" ELSE "MayBeFalse"

\* r: "True" if e is valid, "Unknown" if not.
computeTruth(cs, e, r) ==
  \/ \E pv \in Cached(cs, e) \ {"MayBeTrue"} :
       /\ r = IF pv = "MustBeTrue" THEN "True" ELSE "Unknown"
       /\ UNCHANGED <<cache, cexCache, assignmentsTable>>
  \/ /\ Cached(cs, e) \subseteq {"MayBeTrue"}
     /\ \E q \in CexTruth(Now, cs, e) :
          /\ Update(q.cex)
          /\ r = q.answer
          /\ CASE r = Failed -> UNCHANGED cache
               [] r = "True" -> cacheInsert(cs, e, "MustBeTrue")
               [] OTHER -> cacheInsert(cs, e, NotValid(cs, e))

-----------------------------------------------------------------------------
(* IndependentSolver *)

\* The constraints connected to the bytes B, through other ones if need be.
Connected(cs, B) ==
  {c \in cs : \A R \in SUBSET cs :
     (\A d \in cs : Reads(d) \cap (B \cup ReadsOf(R)) # {} => d \in R) => c \in R}

\* Mutant: one round of getIndependentConstraints.
RequiredOnce(cs, e) == {c \in cs : Reads(c) \cap Reads(e) # {}}

\* getIndependentConstraints, and getAllIndependentConstraintsSets.
Required(cs, e) == Connected(cs, Reads(e))
Factors(cs) == {Connected(cs, Reads(e)) : e \in cs}

\* Mutant: the answer for a factor replaces the arrays it touches.
PlacedAll(f, a, touched, values) ==
  [i \in Bytes |-> IF Array(i) \in Arrays(ReadsOf(f)) THEN a[i] ELSE values[i]]

\* What retMap is after a factor: of an array that others touched, its own bytes.
Placed(f, a, touched, values) ==
  [i \in Bytes |-> IF \/ i \in ReadsOf(f)
                      \/ Array(i) \in Arrays(ReadsOf(f)) \ touched
                   THEN a[i] ELSE values[i]]

-----------------------------------------------------------------------------
(* What a state asks *)

MayAsk == asking = None /\ Cardinality(cache) + Cardinality(cexCache) < MaxCached

Answered(kind, cs, e, r) ==
  /\ answer' = [kind |-> kind, constraints |-> cs, expr |-> e, result |-> r]
  /\ asking' = None

evaluate(cs, e) ==
  /\ MayAsk
  /\ \E r \in {"True", "False", "Unknown", Failed} :
       computeValidity(Required(cs, e), e, r) /\ Answered("evaluate", cs, e, r)

mustBeTrue(cs, e) ==
  /\ MayAsk
  /\ \E r \in {"True", "Unknown", Failed} :
       computeTruth(Required(cs, e), e, r) /\ Answered("mustBeTrue", cs, e, r)

\* mayBeTrue: the expression is not false for certain.
mayBeTrue(cs, e) ==
  /\ MayAsk
  /\ \E r \in {"True", "Unknown", Failed} :
       computeTruth(Required(cs, e), Neg(e), r) /\ Answered("mayBeTrue", cs, e, r)

\* A value the expression can have; the assert that there is one may end the program.
getValue(cs, e) ==
  /\ MayAsk
  /\ \E q \in getAssignment(Now, Required(cs, e)) :
       /\ q.binding # Unsat
       /\ Update(q.cex)
       /\ Answered("getValue", cs, e, IF q.binding = Failed THEN Failed
                                       ELSE IF Holds(e, q.binding) THEN "True" ELSE "False")
  /\ UNCHANGED cache

\* getInitialValues of all arrays: one factor of the constraints after the other.
getInitialValues(cs) ==
  /\ MayAsk
  /\ asking' = [constraints |-> cs, factors |-> Factors(cs), touched |-> {},
                values |-> [i \in Bytes |-> Zero]]
  /\ UNCHANGED <<cache, cexCache, assignmentsTable, answer>>

solveFactor(f) ==
  /\ asking # None /\ f \in asking.factors
  /\ \E q \in getAssignment(Now, f) :
       /\ Update(q.cex)
       /\ \/ /\ q.binding \in {Failed, Unsat}
             /\ Answered("getInitialValues", asking.constraints, None, q.binding)
          \/ /\ q.binding \notin {Failed, Unsat}
             /\ asking' = [asking EXCEPT !.factors = @ \ {f},
                            !.touched = @ \cup Arrays(ReadsOf(f)),
                            !.values = Placed(f, q.binding, asking.touched, @)]
             /\ UNCHANGED answer
  /\ UNCHANGED cache

allSolved ==
  /\ asking # None /\ asking.factors = {}
  /\ Answered("getInitialValues", asking.constraints, None, asking.values)
  /\ UNCHANGED <<cache, cexCache, assignmentsTable>>

Next ==
  \/ \E cs \in Paths :
       \/ \E e \in Exprs : evaluate(cs, e) \/ mustBeTrue(cs, e) \/ mayBeTrue(cs, e) \/ getValue(cs, e)
       \/ getInitialValues(cs)
  \/ asking # None /\ \E f \in asking.factors : solveFactor(f)
  \/ allSolved

Spec == Init /\ [][Next]_vars

-----------------------------------------------------------------------------

\* Whatever was cached before and whatever constraints were left out, an answer is
\* right for the constraints of the state that asked.
Right(q) ==
  CASE q.kind = "evaluate" ->
         /\ q.result = "True" => Valid(q.constraints, q.expr)
         /\ q.result = "False" => Valid(q.constraints, Neg(q.expr))
         /\ q.result = "Unknown" => /\ ~Valid(q.constraints, q.expr)
                                    /\ ~Valid(q.constraints, Neg(q.expr))
    [] q.kind = "mustBeTrue" -> q.result # Failed =>
         (q.result = "True" <=> Valid(q.constraints, q.expr))
    [] q.kind = "mayBeTrue" -> q.result # Failed =>
         (q.result = "True" <=> Valid(q.constraints, Neg(q.expr)))
    [] q.kind = "getValue" -> q.result # Failed =>
         \E a \in Assignments : /\ Satisfies(a, q.constraints)
                                /\ Holds(q.expr, a) = (q.result = "True")
    [] OTHER -> TRUE

AnswersAreRight == Right(answer)

\* The assert of computeInitialValues: the values of the factors, put together, satisfy
\* the constraints; and constraints that have a solution are not called unsatisfiable.
InitialValuesSatisfy ==
  answer.kind = "getInitialValues" /\ answer.result # Failed =>
    answer.result # Unsat /\ Satisfies(answer.result, answer.constraints)
=============================================================================
