------------------------- MODULE SolverChainProofs -------------------------
(***************************************************************************)
(* Theorems about SolverChain, for any expressions, any number of bytes    *)
(* with any values, any constraints, and both search orders of the caches. *)
(***************************************************************************)
EXTENDS SolverChain, TLAPS

-----------------------------------------------------------------------------
(* The inductive invariant, by concern *)

\* An entry of the counterexample cache tells the truth about its key, and so
\* does every assignment that searchForAssignment may try.
CexIsRight(cex) ==
  /\ \A x \in cex.cache :
       /\ x.key \in SUBSET Exprs
       /\ IF x.binding = Unsat THEN ~Satisfiable(x.key)
          ELSE x.binding \in Assignments /\ Satisfies(x.binding, x.key)
  /\ cex.table \subseteq Assignments

\* What a partial validity says of an expression under constraints.
Says(pv, cs, e) ==
  /\ pv \in Definite \cup {"MayBeTrue", "MayBeFalse"}
  /\ pv = "MustBeTrue" => Valid(cs, e)
  /\ pv = "MustBeFalse" => Valid(cs, Neg(e))
  /\ pv \in {"TrueOrFalse", "MayBeTrue"} => ~Valid(cs, Neg(e))
  /\ pv \in {"TrueOrFalse", "MayBeFalse"} => ~Valid(cs, e)

\* An entry of the validity cache is true, for the constraints in its key.
CacheIsRight ==
  \A x \in cache : /\ x.constraints \in SUBSET Exprs /\ x.query \in Exprs
                   /\ Says(x.validity, x.constraints, x.query)

\* computeInitialValues: the factors answered are satisfied together, and their
\* arrays are touched.
AskingIsRight ==
  asking # None =>
    /\ asking \in [constraints : Paths, factors : SUBSET Factors(asking.constraints),
                    touched : SUBSET Arrays(Bytes), values : Assignments]
    /\ \A f \in Factors(asking.constraints) \ asking.factors :
         Satisfies(asking.values, f) /\ Arrays(ReadsOf(f)) \subseteq asking.touched

IInv == CexIsRight(Now) /\ CacheIsRight /\ AskingIsRight /\ AnswersAreRight /\ InitialValuesSatisfy

-----------------------------------------------------------------------------
(* Assignments and the bytes that are read *)

\* Two assignments are put together: an expression that reads only bytes of one
\* of them means what it means there.
LEMMA Together ==
  ASSUME NEW a \in Assignments, NEW b \in Assignments, NEW B
  PROVE  \E c \in Assignments :
           /\ \A i \in Bytes : c[i] = IF i \in B THEN a[i] ELSE b[i]
           /\ \A e \in Exprs : Reads(e) \subseteq B => (Holds(e, c) <=> Holds(e, a))
           /\ \A e \in Exprs : Reads(e) \cap B = {} => (Holds(e, c) <=> Holds(e, b))
<1> DEFINE c == [i \in Bytes |-> IF i \in B THEN a[i] ELSE b[i]]
<1>1. c \in Assignments /\ \A i \in Bytes : c[i] = IF i \in B THEN a[i] ELSE b[i]
  BY DEF Assignments
<1> HIDE DEF c
<1>2. \A e \in Exprs : Reads(e) \subseteq Bytes
  BY SolverChainAssumption
<1>3. \A e \in Exprs : Reads(e) \subseteq B => Holds(e, c) = Holds(e, a)
  <2> SUFFICES ASSUME NEW e \in Exprs, Reads(e) \subseteq B  PROVE Holds(e, c) = Holds(e, a)
    OBVIOUS
  <2>1. \A i \in Reads(e) : c[i] = a[i]
    BY <1>1, <1>2
  <2>2. QED  BY <2>1, <1>1, SolverChainAssumption
<1>4. \A e \in Exprs : Reads(e) \cap B = {} => Holds(e, c) = Holds(e, b)
  <2> SUFFICES ASSUME NEW e \in Exprs, Reads(e) \cap B = {}  PROVE Holds(e, c) = Holds(e, b)
    OBVIOUS
  <2>1. \A i \in Reads(e) : c[i] = b[i]
    BY <1>1, <1>2
  <2>2. QED  BY <2>1, <1>1, SolverChainAssumption
<1>5. QED
  BY <1>1, <1>3, <1>4

LEMMA NegFacts ==
  ASSUME NEW e \in Exprs
  PROVE  /\ Neg(e) \in Exprs /\ Neg(Neg(e)) = e /\ Reads(Neg(e)) = Reads(e)
         /\ \A a \in Assignments : Holds(Neg(e), a) <=> ~Holds(e, a)
BY SolverChainAssumption

\* Refuting the negation.
LEMMA ValidIsUnsat ==
  ASSUME NEW cs, NEW e \in Exprs
  PROVE  Valid(cs, e) <=> ~Satisfiable(cs \cup {Neg(e)})
<1>1. \A a \in Assignments : Satisfies(a, cs \cup {Neg(e)}) <=> Satisfies(a, cs) /\ ~Holds(e, a)
  BY NegFacts DEF Satisfies
<1>2. QED
  BY <1>1 DEF Valid, Satisfiable

-----------------------------------------------------------------------------
(* IndependentSolver: what may be left out *)

LEMMA ConnectedClosed ==
  ASSUME NEW cs, NEW B
  PROVE  /\ Connected(cs, B) \subseteq cs
         /\ \A d \in cs : Reads(d) \cap (B \cup ReadsOf(Connected(cs, B))) # {} => d \in Connected(cs, B)
<1> DEFINE C == Connected(cs, B)
<1>1. C \subseteq cs
  BY DEF Connected
<1>2. ASSUME NEW d \in cs, Reads(d) \cap (B \cup ReadsOf(C)) # {},
             NEW R \in SUBSET cs, \A x \in cs : Reads(x) \cap (B \cup ReadsOf(R)) # {} => x \in R
      PROVE  d \in R
  <2>1. C \subseteq R
    BY <1>2 DEF Connected
  <2>2. ReadsOf(C) \subseteq ReadsOf(R)
    BY <2>1 DEF ReadsOf
  <2>3. QED  BY <1>2, <2>2
<1>3. \A d \in cs : Reads(d) \cap (B \cup ReadsOf(C)) # {} => d \in C
  BY <1>2 DEF Connected
<1>4. QED
  BY <1>1, <1>3

\* It is the least set of constraints that is closed under sharing bytes.
LEMMA ConnectedLeast ==
  ASSUME NEW cs, NEW B, NEW R \in SUBSET cs,
         \A d \in cs : Reads(d) \cap (B \cup ReadsOf(R)) # {} => d \in R
  PROVE  Connected(cs, B) \subseteq R
BY DEF Connected

\* An assignment that satisfies what is required for e can be changed, without a
\* difference to e, so that it satisfies all constraints.
LEMMA RequiredSuffices ==
  ASSUME NEW cs \in SUBSET Exprs, Satisfiable(cs), NEW e \in Exprs,
         NEW a \in Assignments, Satisfies(a, Required(cs, e))
  PROVE  \E c \in Assignments : Satisfies(c, cs) /\ (Holds(e, c) <=> Holds(e, a))
<1> DEFINE R == Required(cs, e)
           B == Reads(e) \cup ReadsOf(R)
<1>1. PICK b \in Assignments : Satisfies(b, cs)
  BY DEF Satisfiable
<1>2. R \subseteq cs /\ \A d \in cs : Reads(d) \cap B # {} => d \in R
  BY ConnectedClosed DEF Required
<1>3. Satisfies(a, R)
  OBVIOUS
<1>4. \A d \in R : Reads(d) \subseteq B
  BY DEF ReadsOf
<1> HIDE DEF R, B
<1>5. PICK c \in Assignments :
        /\ \A i \in Bytes : c[i] = IF i \in B THEN a[i] ELSE b[i]
        /\ \A x \in Exprs : Reads(x) \subseteq B => (Holds(x, c) <=> Holds(x, a))
        /\ \A x \in Exprs : Reads(x) \cap B = {} => (Holds(x, c) <=> Holds(x, b))
  BY Together
<1>6. ASSUME NEW d \in cs  PROVE Holds(d, c)
  <2>1. CASE d \in R
    BY <2>1, <1>3, <1>4, <1>5 DEF Satisfies
  <2>2. CASE d \notin R
    BY <2>2, <1>1, <1>2, <1>5 DEF Satisfies
  <2>3. QED  BY <2>1, <2>2
<1>7. Holds(e, c) <=> Holds(e, a)
  BY <1>5 DEF B
<1>8. QED
  BY <1>6, <1>7 DEF Satisfies

LEMMA SubsetSatisfied ==
  ASSUME NEW cs, NEW R \in SUBSET cs
  PROVE  /\ \A a : Satisfies(a, cs) => Satisfies(a, R)
         /\ Satisfiable(cs) => Satisfiable(R)
BY DEF Satisfies, Satisfiable

\* Leaving out what is not required changes no verdict.
LEMMA RequiredDecides ==
  ASSUME NEW cs \in SUBSET Exprs, Satisfiable(cs), NEW e \in Exprs
  PROVE  /\ Required(cs, e) \in SUBSET Exprs /\ Satisfiable(Required(cs, e))
         /\ Valid(Required(cs, e), e) <=> Valid(cs, e)
         /\ Valid(Required(cs, e), Neg(e)) <=> Valid(cs, Neg(e))
<1>1. Required(cs, e) \subseteq cs
  BY DEF Required, Connected
<1>2. Satisfiable(Required(cs, e))
  BY <1>1, SubsetSatisfied
<1>3. Valid(Required(cs, e), e) <=> Valid(cs, e)
  BY <1>1, SubsetSatisfied, RequiredSuffices DEF Valid
<1>4. Valid(Required(cs, e), Neg(e)) <=> Valid(cs, Neg(e))
  <2>1. \A c \in Assignments : Holds(Neg(e), c) <=> ~Holds(e, c)
    BY NegFacts
  <2>2. \A a \in Assignments : Satisfies(a, Required(cs, e)) =>
          \E c \in Assignments : Satisfies(c, cs) /\ (Holds(e, c) <=> Holds(e, a))
    BY RequiredSuffices
  <2>3. \A a \in Assignments : Satisfies(a, cs) => Satisfies(a, Required(cs, e))
    BY <1>1, SubsetSatisfied
  <2>4. ASSUME Valid(cs, Neg(e)), NEW a \in Assignments, Satisfies(a, Required(cs, e))
        PROVE  Holds(Neg(e), a)
    <3>1. PICK c \in Assignments : Satisfies(c, cs) /\ (Holds(e, c) <=> Holds(e, a))
      BY <2>2, <2>4
    <3>2. Holds(Neg(e), c)
      BY <2>4, <3>1 DEF Valid
    <3>3. QED  BY <2>1, <3>1, <3>2
  <2>5. QED  BY <2>3, <2>4 DEF Valid
<1>5. QED
  BY <1>1, <1>2, <1>3, <1>4

\* A constraint connected to e is connected to what e is connected to.
LEMMA ConnectedSymmetric ==
  ASSUME NEW cs \in SUBSET Exprs, NEW e \in cs, NEW y \in Connected(cs, Reads(e))
  PROVE  Connected(cs, Reads(y)) = Connected(cs, Reads(e))
<1> DEFINE C(x) == Connected(cs, Reads(x))
<1>1. ASSUME NEW x \in cs, NEW z \in C(x)  PROVE C(z) \subseteq C(x)
  <2>1. C(x) \in SUBSET cs /\ \A d \in cs : Reads(d) \cap (Reads(x) \cup ReadsOf(C(x))) # {} => d \in C(x)
    BY ConnectedClosed
  <2>2. Reads(z) \subseteq ReadsOf(C(x))
    BY DEF ReadsOf
  <2>3. \A d \in cs : Reads(d) \cap (Reads(z) \cup ReadsOf(C(x))) # {} => d \in C(x)
    BY <2>1, <2>2
  <2>4. QED  BY <2>1, <2>3, ConnectedLeast
<1>2. y \in cs
  BY DEF Connected
<1>3. e \in C(y)
  <2> SUFFICES ASSUME e \notin C(y)  PROVE FALSE
    OBVIOUS
  <2> DEFINE R == C(e) \ C(y)
  <2>1. \A d \in cs : Reads(d) \cap (Reads(e) \cup ReadsOf(C(e))) # {} => d \in C(e)
    BY ConnectedClosed
  <2>2. \A d \in cs : Reads(d) \cap (Reads(y) \cup ReadsOf(C(y))) # {} => d \in C(y)
    BY ConnectedClosed
  <2>3. ASSUME NEW d \in cs, Reads(d) \cap (Reads(e) \cup ReadsOf(R)) # {}  PROVE d \in R
    <3>1. d \in C(e)
      BY <2>1, <2>3 DEF ReadsOf
    <3>2. d \notin C(y)
      <4> SUFFICES ASSUME d \in C(y)  PROVE FALSE
        OBVIOUS
      <4>1. PICK x \in {e} \cup R : Reads(d) \cap Reads(x) # {}
        BY <2>3 DEF ReadsOf
      <4>2. x \in cs /\ x \notin C(y)
        BY <4>1, ConnectedClosed
      <4>3. Reads(x) \cap ReadsOf(C(y)) # {}
        BY <4>1 DEF ReadsOf
      <4>4. QED  BY <4>2, <4>3, <2>2
    <3>3. QED  BY <3>1, <3>2
  <2>4. R \in SUBSET cs
    BY ConnectedClosed
  <2>5. C(e) \subseteq R
    <3> HIDE DEF R
    <3>1. QED  BY <2>3, <2>4, ConnectedLeast
  <2>6. y \in C(y)
    <3>1. Reads(y) # {}
      BY <1>2, SolverChainAssumption
    <3>2. QED  BY <3>1, <1>2, <2>2
  <2>7. QED  BY <2>5, <2>6
<1>4. C(y) \subseteq C(e) /\ C(e) \subseteq C(y)
  BY <1>1, <1>2, <1>3
<1>5. QED
  BY <1>4

\* getAllIndependentConstraintsSets: factors share no bytes, and nothing is left out.
LEMMA FactorsPartition ==
  ASSUME NEW cs \in SUBSET Exprs
  PROVE  /\ \A f \in Factors(cs) : f \subseteq cs
         /\ \A f, g \in Factors(cs) : f # g => ReadsOf(f) \cap ReadsOf(g) = {}
         /\ \A e \in cs : \E f \in Factors(cs) : e \in f
<1>1. \A f \in Factors(cs) : f \subseteq cs
  BY DEF Factors, Connected
<1>2. ASSUME NEW f \in Factors(cs), NEW g \in Factors(cs), ReadsOf(f) \cap ReadsOf(g) # {}
      PROVE  f = g
  <2>1. PICK e \in cs : f = Connected(cs, Reads(e))
    BY DEF Factors
  <2>2. PICK d \in cs : g = Connected(cs, Reads(d))
    BY DEF Factors
  <2>3. PICK x \in f, y \in g : Reads(x) \cap Reads(y) # {}
    BY <1>2 DEF ReadsOf
  <2>4. y \in f
    <3>1. \A z \in cs : Reads(z) \cap (Reads(e) \cup ReadsOf(f)) # {} => z \in f
      BY <2>1, ConnectedClosed
    <3>2. Reads(y) \cap ReadsOf(f) # {}
      BY <2>3 DEF ReadsOf
    <3>3. QED  BY <1>1, <3>1, <3>2
  <2>5. QED  BY <2>1, <2>2, <2>4, ConnectedSymmetric
<1>3. ASSUME NEW e \in cs  PROVE e \in Connected(cs, Reads(e))
  <2>1. Reads(e) # {}
    BY SolverChainAssumption
  <2>2. QED  BY <2>1, ConnectedClosed
<1>4. QED
  BY <1>1, <1>2, <1>3 DEF Factors

-----------------------------------------------------------------------------
(* CexCachingSolver *)

\* What a set of expressions is answered.
Tells(binding, key) ==
  IF binding = Unsat THEN ~Satisfiable(key)
  ELSE binding \in Assignments /\ Satisfies(binding, key)

\* searchForAssignment.
LEMMA FoundIsRight ==
  ASSUME NEW cex, CexIsRight(cex), NEW key \in SUBSET Exprs, NEW a \in Found(cex, key)
  PROVE  Tells(a, key)
<1> DEFINE larger == IF CexCacheSuperSet THEN Supersets(cex.cache, key) ELSE {}
           smaller == UnsatSubsets(cex.cache, key) \cup
                        (IF CexCacheTryAll THEN {} ELSE SatisfyingSubsets(cex.cache, key))
<1>1. \/ \E x \in cex.cache : x.key = key /\ a = x.binding
      \/ \E x \in Supersets(cex.cache, key) : a = x.binding
      \/ \E x \in UnsatSubsets(cex.cache, key) : a = x.binding
      \/ \E x \in SatisfyingSubsets(cex.cache, key) : a = x.binding
      \/ a \in cex.table /\ Satisfies(a, key)
  BY DEF Found, Bindings
<1>2. \A x \in cex.cache : x.key \in SUBSET Exprs /\ Tells(x.binding, x.key)
  BY DEF CexIsRight, Tells
<1>3. CASE \E x \in cex.cache : x.key = key /\ a = x.binding
  BY <1>2, <1>3
<1>4. CASE \E x \in Supersets(cex.cache, key) : a = x.binding
  BY <1>2, <1>4, SubsetSatisfied DEF Supersets, Tells
<1>5. CASE \E x \in UnsatSubsets(cex.cache, key) : a = x.binding
  BY <1>2, <1>5, SubsetSatisfied DEF UnsatSubsets, Tells
<1>6. CASE \E x \in SatisfyingSubsets(cex.cache, key) : a = x.binding
  BY <1>2, <1>6 DEF SatisfyingSubsets, Tells
<1>7. CASE a \in cex.table /\ Satisfies(a, key)
  BY <1>7, SolverChainAssumption DEF CexIsRight, Tells
<1>8. QED
  BY <1>1, <1>3, <1>4, <1>5, <1>6, <1>7

\* The solver is asked for the arrays the key reads only: that loses no solution.
LEMMA NoSolutionIsUnsat ==
  ASSUME NEW key \in SUBSET Exprs, Solutions(key) = {}
  PROVE  ~Satisfiable(key)
<1> SUFFICES ASSUME NEW a \in Assignments, Satisfies(a, key)  PROVE FALSE
  BY DEF Satisfiable
<1> DEFINE B == {i \in Bytes : Array(i) \in Arrays(ReadsOf(key))}
           z == [i \in Bytes |-> Zero]
<1>1. z \in Assignments /\ \A i \in Bytes : z[i] = Zero
  BY SolverChainAssumption DEF Assignments
<1>2. \A e \in key : Reads(e) \subseteq B
  <2>1. \A e \in key : Reads(e) \subseteq Bytes /\ Reads(e) \subseteq ReadsOf(key)
    BY SolverChainAssumption DEF ReadsOf
  <2>2. QED  BY <2>1 DEF Arrays
<1>3. \A i \in Bytes : Array(i) \notin Arrays(ReadsOf(key)) => i \notin B
  OBVIOUS
<1> HIDE DEF B, z
<1>4. PICK c \in Assignments :
        /\ \A i \in Bytes : c[i] = IF i \in B THEN a[i] ELSE z[i]
        /\ \A x \in Exprs : Reads(x) \subseteq B => (Holds(x, c) <=> Holds(x, a))
        /\ \A x \in Exprs : Reads(x) \cap B = {} => (Holds(x, c) <=> Holds(x, z))
  BY <1>1, Together
<1>5. Satisfies(c, key)
  BY <1>2, <1>4 DEF Satisfies
<1>6. \A i \in Bytes : Array(i) \notin Arrays(ReadsOf(key)) => c[i] = Zero
  BY <1>1, <1>3, <1>4
<1>7. QED
  BY <1>5, <1>6 DEF Solutions

\* An answer is right, and so is what is cached with it.
LEMMA AssignmentIsRight ==
  ASSUME NEW cex, CexIsRight(cex), NEW key \in SUBSET Exprs, NEW r \in getAssignment(cex, key)
  PROVE  CexIsRight(r.cex) /\ (r.binding # Failed => Tells(r.binding, key))
<1>1. CASE Found(cex, key) # {}
  <2>1. PICK a \in Found(cex, key) : r = Known(a, cex)
    BY <1>1 DEF getAssignment
  <2>2. QED  BY <2>1, FoundIsRight DEF Known
<1>2. CASE Found(cex, key) = {} /\ r = Unanswered(key, cex)
  BY <1>2 DEF Unanswered, Known
<1>3. CASE Found(cex, key) = {} /\ r # Unanswered(key, cex)
  <2>1. PICK a \in IF Solutions(key) = {} THEN {Unsat} ELSE Solutions(key) : r = Learned(key, a, cex)
    BY <1>3 DEF getAssignment
  <2>2. Tells(a, key)
    BY NoSolutionIsUnsat, SolverChainAssumption DEF Tells, Solutions
  <2>3. /\ r.binding = a
        /\ r.cex.cache = cex.cache \cup {[key |-> key, binding |-> a]}
        /\ r.cex.table = IF a = Unsat THEN cex.table ELSE cex.table \cup {a}
    BY <2>1 DEF Learned, Known, Cex
  <2>4. CexIsRight(r.cex)
    BY <2>2, <2>3 DEF CexIsRight, Tells
  <2>5. QED  BY <2>2, <2>3, <2>4
<1>4. QED
  BY <1>1, <1>2, <1>3

\* computeTruth of CexCachingSolver.
LEMMA CexTruthIsRight ==
  ASSUME NEW cex, CexIsRight(cex), NEW cs \in SUBSET Exprs, NEW e \in Exprs,
         NEW q \in CexTruth(cex, cs, e)
  PROVE  /\ CexIsRight(q.cex) /\ q.answer \in {Failed, "True", "Unknown"}
         /\ q.answer = "True" => Valid(cs, e)
         /\ q.answer = "Unknown" => ~Valid(cs, e)
<1> DEFINE key == cs \cup {Neg(e)}
<1>1. key \in SUBSET Exprs
  BY NegFacts
<1>2. PICK r \in getAssignment(cex, key) :
        q = [answer |-> CASE r.binding = Failed -> Failed
                          [] r.binding = Unsat -> "True"
                          [] OTHER -> "Unknown",
             cex |-> r.cex]
  BY DEF CexTruth
<1>3. CexIsRight(r.cex) /\ (r.binding # Failed => Tells(r.binding, key))
  BY <1>1, AssignmentIsRight
<1>4. Tells(r.binding, key) => (r.binding = Unsat <=> Valid(cs, e))
  BY ValidIsUnsat DEF Tells, Satisfiable
<1>5. Failed # Unsat /\ Failed \notin {"True", "False", "Unknown"}
  BY SolverChainAssumption
<1>6. QED
  BY <1>2, <1>3, <1>4, <1>5

\* computeValidity of CexCachingSolver.
LEMMA CexValidityIsRight ==
  ASSUME NEW cex, CexIsRight(cex), NEW cs \in SUBSET Exprs, NEW e \in Exprs,
         NEW q \in CexValidity(cex, cs, e)
  PROVE  /\ CexIsRight(q.cex) /\ q.answer \in {Failed, "True", "False", "Unknown"}
         /\ q.answer = "True" => Valid(cs, e)
         /\ q.answer = "False" => Valid(cs, Neg(e))
         /\ q.answer = "Unknown" => ~Valid(cs, e) /\ ~Valid(cs, Neg(e))
<1>1. Failed # Unsat /\ Failed \notin {"True", "False", "Unknown"}
  BY SolverChainAssumption
<1>2. PICK r \in getAssignment(cex, cs) :
        \/ r.binding = Failed /\ q = [answer |-> Failed, cex |-> r.cex]
        \/ /\ r.binding # Failed /\ r.binding # Unsat
           /\ \E p \in getAssignment(r.cex, cs \cup {Refute(e, r.binding)}) :
                q = [answer |-> CASE p.binding = Failed -> Failed
                                  [] p.binding = Unsat ->
                                       IF Holds(e, r.binding) THEN "True" ELSE "False"
                                  [] OTHER -> "Unknown",
                     cex |-> p.cex]
  BY DEF CexValidity
<1>3. CexIsRight(r.cex) /\ (r.binding # Failed => Tells(r.binding, cs))
  BY AssignmentIsRight
<1>4. CASE r.binding = Failed
  BY <1>1, <1>2, <1>3, <1>4
<1>5. CASE r.binding # Failed
  <2> DEFINE a == r.binding
             x == IF Holds(e, a) THEN e ELSE Neg(e)
  <2>1. a \in Assignments /\ Satisfies(a, cs)
    BY <1>2, <1>3, <1>5 DEF Tells
  <2>2. /\ x \in Exprs /\ Neg(x) = Refute(e, a) /\ Holds(x, a)
        /\ Neg(e) \in Exprs /\ (Holds(e, a) => Neg(x) = Neg(e)) /\ (~Holds(e, a) => Neg(x) = e)
    BY <2>1, NegFacts DEF Refute
  <2>3. PICK p \in getAssignment(r.cex, cs \cup {Neg(x)}) :
          q = [answer |-> CASE p.binding = Failed -> Failed
                            [] p.binding = Unsat -> IF Holds(e, a) THEN "True" ELSE "False"
                            [] OTHER -> "Unknown",
               cex |-> p.cex]
    BY <1>2, <1>5, <2>2
  <2>4. cs \cup {Neg(x)} \in SUBSET Exprs
    BY <2>2, NegFacts
  <2>5. CexIsRight(p.cex) /\ (p.binding # Failed => Tells(p.binding, cs \cup {Neg(x)}))
    BY <1>3, <2>4, AssignmentIsRight
  <2>6. p.binding # Failed => (p.binding = Unsat <=> Valid(cs, x))
    BY <2>2, <2>5, ValidIsUnsat DEF Tells, Satisfiable
  <2>7. ~Valid(cs, Neg(x))
    BY <2>1, <2>2, NegFacts DEF Valid
  <2>8. CASE Holds(e, a)
    <3>1. x = e
      BY <2>8
    <3>2. QED  BY <1>1, <2>3, <2>5, <2>6, <2>7, <2>8, <3>1
  <2>9. CASE ~Holds(e, a)
    <3>1. x = Neg(e) /\ Neg(x) = e
      BY <2>2, <2>9
    <3>2. QED  BY <1>1, <2>3, <2>5, <2>6, <2>7, <2>9, <3>1
  <2>10. QED  BY <2>8, <2>9
<1>6. QED
  BY <1>4, <1>5

-----------------------------------------------------------------------------
(* CachingSolver *)

LEMMA MirrorSays ==
  ASSUME NEW cs, NEW e \in Exprs, NEW pv, Says(pv, cs, e)
  PROVE  Says(Mirror(pv), cs, Neg(e))
<1>1. Neg(Neg(e)) = e
  BY NegFacts
<1>2. pv \in {"MustBeTrue", "MustBeFalse", "TrueOrFalse", "MayBeTrue", "MayBeFalse"}
  BY DEF Says, Definite
<1>3. QED
  BY <1>1, <1>2 DEF Says, Mirror, Definite

\* An expression and its negation share an entry.
LEMMA CachedIsRight ==
  ASSUME CacheIsRight, NEW cs, NEW e \in Exprs, NEW pv \in Cached(cs, e)
  PROVE  Says(pv, cs, e)
<1>1. PICK x \in cache : x.constraints = cs /\ x.query = Query(e) /\ pv = AsAsked(e, x.validity)
  BY DEF Cached
<1>2. Says(x.validity, cs, Query(e))
  BY <1>1 DEF CacheIsRight
<1>3. Neg(e) \in Exprs /\ Neg(Neg(e)) = e
  BY NegFacts
<1>4. CASE e \in Canonical
  BY <1>1, <1>2, <1>4 DEF Query, AsAsked
<1>5. CASE e \notin Canonical
  BY <1>1, <1>2, <1>3, <1>5, MirrorSays DEF Query, AsAsked
<1>6. QED
  BY <1>4, <1>5

LEMMA InsertIsRight ==
  ASSUME CacheIsRight, NEW cs \in SUBSET Exprs, NEW e \in Exprs, NEW pv, Says(pv, cs, e),
         cacheInsert(cs, e, pv)
  PROVE  CacheIsRight'
<1>1. Query(e) \in Exprs /\ Says(AsAsked(e, pv), cs, Query(e))
  BY NegFacts, MirrorSays DEF Query, AsAsked
<1>2. cache' \subseteq cache \cup {[constraints |-> cs, query |-> Query(e), validity |-> AsAsked(e, pv)]}
  BY DEF cacheInsert
<1>3. QED
  BY <1>1, <1>2 DEF CacheIsRight

\* What a full answer says, for the cache.
LEMMA PartialSays ==
  ASSUME NEW cs, NEW e \in Exprs, NEW r \in {"True", "False", "Unknown"},
         r = "True" => Valid(cs, e),
         r = "False" => Valid(cs, Neg(e)),
         r = "Unknown" => ~Valid(cs, e) /\ ~Valid(cs, Neg(e))
  PROVE  Says(Partial(r), cs, e)
BY DEF Says, Partial, Definite

\* computeValidity, the two caches together.
LEMMA ValidityIsRight ==
  ASSUME CexIsRight(Now), CacheIsRight, NEW cs \in SUBSET Exprs, NEW e \in Exprs,
         NEW r \in {"True", "False", "Unknown", Failed}, computeValidity(cs, e, r)
  PROVE  /\ CexIsRight(Now)' /\ CacheIsRight'
         /\ r = "True" => Valid(cs, e)
         /\ r = "False" => Valid(cs, Neg(e))
         /\ r = "Unknown" => ~Valid(cs, e) /\ ~Valid(cs, Neg(e))
<1> DEFINE says == /\ r = "True" => Valid(cs, e)
                   /\ r = "False" => Valid(cs, Neg(e))
                   /\ r = "Unknown" => ~Valid(cs, e) /\ ~Valid(cs, Neg(e))
<1>1. Failed \notin {"True", "False", "Unknown"}
  BY SolverChainAssumption
<1>2. ASSUME NEW pv \in Cached(cs, e) \cap Definite, r = Verdict(pv),
             UNCHANGED <<cache, cexCache, assignmentsTable>>
      PROVE  CexIsRight(Now)' /\ CacheIsRight' /\ says
  <2>1. Says(pv, cs, e)
    BY CachedIsRight
  <2>2. pv \in {"MustBeTrue", "MustBeFalse", "TrueOrFalse"}
    BY DEF Definite
  <2>3. says
    BY <1>2, <2>1, <2>2 DEF Says, Verdict
  <2>4. CexIsRight(Now)' /\ CacheIsRight'
    BY <1>2 DEF Now, Cex, CexIsRight, CacheIsRight
  <2>5. QED  BY <2>3, <2>4
<1>3. ASSUME NEW q, CexIsRight(q.cex), Update(q.cex), says,
             IF r = Failed THEN UNCHANGED cache ELSE cacheInsert(cs, e, Partial(r))
      PROVE  CexIsRight(Now)' /\ CacheIsRight' /\ says
  <2>1. CexIsRight(Now)'
    BY <1>3 DEF Update, Now, Cex, CexIsRight
  <2>2. CASE r = Failed
    BY <1>3, <2>1, <2>2 DEF CacheIsRight
  <2>3. CASE r # Failed
    <3>1. Says(Partial(r), cs, e)
      BY <1>3, <2>3, PartialSays
    <3>2. QED  BY <1>3, <2>1, <2>3, <3>1, InsertIsRight
  <2>4. QED  BY <2>2, <2>3
<1>4. CASE "MayBeTrue" \in Cached(cs, e) /\ \E q \in CexTruth(Now, cs, e) :
             /\ Update(q.cex) /\ r = q.answer
             /\ IF r = Failed THEN UNCHANGED cache ELSE cacheInsert(cs, e, Partial(r))
  <2>1. PICK q \in CexTruth(Now, cs, e) :
             /\ Update(q.cex) /\ r = q.answer
             /\ IF r = Failed THEN UNCHANGED cache ELSE cacheInsert(cs, e, Partial(r))
    BY <1>4
  <2>2. Says("MayBeTrue", cs, e)
    BY <1>4, CachedIsRight
  <2>3. CexIsRight(q.cex) /\ says
    BY <1>1, <2>1, <2>2, CexTruthIsRight DEF Says
  <2>4. QED  BY <1>3, <2>1, <2>3
<1>5. CASE "MayBeFalse" \in Cached(cs, e) /\ \E q \in CexTruth(Now, cs, Neg(e)) :
             /\ Update(q.cex) /\ r = IF q.answer = "True" THEN "False" ELSE q.answer
             /\ IF r = Failed THEN UNCHANGED cache ELSE cacheInsert(cs, e, Partial(r))
  <2>1. PICK q \in CexTruth(Now, cs, Neg(e)) :
             /\ Update(q.cex) /\ r = IF q.answer = "True" THEN "False" ELSE q.answer
             /\ IF r = Failed THEN UNCHANGED cache ELSE cacheInsert(cs, e, Partial(r))
    BY <1>5
  <2>2. Says("MayBeFalse", cs, e)
    BY <1>5, CachedIsRight
  <2>3. CexIsRight(q.cex) /\ says
    BY <1>1, <2>1, <2>2, CexTruthIsRight, NegFacts DEF Says
  <2>4. QED  BY <1>3, <2>1, <2>3
<1>6. CASE \E q \in CexValidity(Now, cs, e) :
             /\ Update(q.cex) /\ r = q.answer
             /\ IF r = Failed THEN UNCHANGED cache ELSE cacheInsert(cs, e, Partial(r))
  <2>1. PICK q \in CexValidity(Now, cs, e) :
             /\ Update(q.cex) /\ r = q.answer
             /\ IF r = Failed THEN UNCHANGED cache ELSE cacheInsert(cs, e, Partial(r))
    BY <1>6
  <2>2. CexIsRight(q.cex) /\ says
    BY <1>1, <2>1, CexValidityIsRight
  <2>3. QED  BY <1>3, <2>1, <2>2
<1>7. QED
  BY <1>2, <1>4, <1>5, <1>6 DEF computeValidity

\* computeTruth, the two caches together; the constraints of a state are satisfiable.
LEMMA TruthIsRight ==
  ASSUME CexIsRight(Now), CacheIsRight, NEW cs \in SUBSET Exprs, Satisfiable(cs), NEW e \in Exprs,
         NEW r \in {"True", "Unknown", Failed}, computeTruth(cs, e, r)
  PROVE  /\ CexIsRight(Now)' /\ CacheIsRight'
         /\ r # Failed => (r = "True" <=> Valid(cs, e))
<1>1. Failed \notin {"True", "False", "Unknown"}
  BY SolverChainAssumption
<1>2. ASSUME NEW pv \in Cached(cs, e) \ {"MayBeTrue"},
             r = IF pv = "MustBeTrue" THEN "True" ELSE "Unknown",
             UNCHANGED <<cache, cexCache, assignmentsTable>>
      PROVE  CexIsRight(Now)' /\ CacheIsRight' /\ (r = "True" <=> Valid(cs, e))
  <2>1. Says(pv, cs, e)
    BY CachedIsRight
  <2>2. ~(Valid(cs, e) /\ Valid(cs, Neg(e)))
    BY NegFacts DEF Satisfiable, Valid
  <2>3. r = "True" <=> Valid(cs, e)
    BY <1>2, <2>1, <2>2 DEF Says, Definite
  <2>4. CexIsRight(Now)' /\ CacheIsRight'
    BY <1>2 DEF Now, Cex, CexIsRight, CacheIsRight
  <2>5. QED  BY <2>3, <2>4
<1>3. ASSUME NEW q \in CexTruth(Now, cs, e), Update(q.cex), r = q.answer,
             CASE r = Failed -> UNCHANGED cache
               [] r = "True" -> cacheInsert(cs, e, "MustBeTrue")
               [] OTHER -> cacheInsert(cs, e, NotValid(cs, e))
      PROVE  CexIsRight(Now)' /\ CacheIsRight' /\ (r # Failed => (r = "True" <=> Valid(cs, e)))
  <2>1. /\ CexIsRight(q.cex)
        /\ r = "True" => Valid(cs, e)
        /\ r = "Unknown" => ~Valid(cs, e)
    BY <1>3, CexTruthIsRight
  <2>2. CexIsRight(Now)'
    BY <1>3, <2>1 DEF Update, Now, Cex, CexIsRight
  <2>3. CASE r = Failed
    <3>1. UNCHANGED cache
      BY <1>1, <1>3, <2>3
    <3>2. QED  BY <2>2, <2>3, <3>1 DEF CacheIsRight
  <2>4. CASE r = "True"
    <3>1. Says("MustBeTrue", cs, e)
      BY <2>1, <2>4 DEF Says, Definite
    <3>2. cacheInsert(cs, e, "MustBeTrue")
      BY <1>1, <1>3, <2>4
    <3>3. CacheIsRight'
      BY <3>1, <3>2, InsertIsRight
    <3>4. QED  BY <2>1, <2>2, <2>4, <3>3
  <2>5. CASE r = "Unknown"
    <3>1. "MayBeTrue" \in Cached(cs, e) => ~Valid(cs, Neg(e))
      BY CachedIsRight DEF Says
    <3>2. Says(NotValid(cs, e), cs, e)
      BY <2>1, <2>5, <3>1 DEF Says, NotValid, Definite
    <3>3. cacheInsert(cs, e, NotValid(cs, e))
      BY <1>1, <1>3, <2>5
    <3>4. CacheIsRight'
      BY <3>2, <3>3, InsertIsRight
    <3>5. QED  BY <2>1, <2>2, <2>5, <3>4
  <2>6. QED  BY <2>3, <2>4, <2>5
<1>4. QED
  BY <1>2, <1>3 DEF computeTruth

-----------------------------------------------------------------------------
(* computeInitialValues *)

\* A factor of what a state asks about is satisfiable, and no other factor reads its bytes.
LEMMA FactorFacts ==
  ASSUME NEW cs \in Paths
  PROVE  /\ cs \in SUBSET Exprs /\ Satisfiable(cs)
         /\ \A f \in Factors(cs) : f \in SUBSET Exprs /\ Satisfiable(f)
<1>1. cs \in SUBSET Exprs /\ Satisfiable(cs)
  BY SolverChainAssumption
<1>2. ASSUME NEW f \in Factors(cs)  PROVE f \in SUBSET Exprs /\ Satisfiable(f)
  BY <1>1, <1>2, FactorsPartition, SubsetSatisfied
<1>3. QED
  BY <1>1, <1>2

\* The values of a factor are put in without a change to what the factors before read.
LEMMA PlacedSatisfies ==
  ASSUME NEW f \in SUBSET Exprs, NEW a \in Assignments, Satisfies(a, f), NEW v \in Assignments,
         NEW touched
  PROVE  /\ Placed(f, a, touched, v) \in Assignments
         /\ Satisfies(Placed(f, a, touched, v), f)
         /\ \A g \in SUBSET Exprs :
              /\ Satisfies(v, g)
              /\ ReadsOf(f) \cap ReadsOf(g) = {} /\ Arrays(ReadsOf(g)) \subseteq touched
              => Satisfies(Placed(f, a, touched, v), g)
<1> DEFINE p == Placed(f, a, touched, v)
<1>1. /\ p \in Assignments
      /\ \A i \in Bytes : p[i] = IF i \in ReadsOf(f) \/ Array(i) \in Arrays(ReadsOf(f)) \ touched
                                 THEN a[i] ELSE v[i]
  BY DEF Placed, Assignments
<1> HIDE DEF p
<1>2. ASSUME NEW e \in Exprs, NEW b \in Assignments, \A i \in Reads(e) : p[i] = b[i], Holds(e, b)
      PROVE  Holds(e, p)
  BY <1>1, <1>2, SolverChainAssumption
<1>3. \A e \in Exprs : Reads(e) \subseteq Bytes
  BY SolverChainAssumption
<1>4. ASSUME NEW e \in f  PROVE Holds(e, p)
  <2>1. Reads(e) \subseteq ReadsOf(f) /\ Holds(e, a)
    BY DEF ReadsOf, Satisfies
  <2>2. QED  BY <1>1, <1>2, <1>3, <2>1
<1>5. ASSUME NEW g \in SUBSET Exprs, Satisfies(v, g), ReadsOf(f) \cap ReadsOf(g) = {},
             Arrays(ReadsOf(g)) \subseteq touched, NEW e \in g
      PROVE  Holds(e, p)
  <2>1. Reads(e) \subseteq ReadsOf(g) /\ Holds(e, v)
    BY <1>5 DEF ReadsOf, Satisfies
  <2>2. \A i \in Reads(e) : i \notin ReadsOf(f) /\ Array(i) \in touched
    BY <1>5, <2>1 DEF Arrays
  <2>3. \A i \in Reads(e) : p[i] = v[i]
    BY <1>1, <1>3, <2>2
  <2>4. QED  BY <1>2, <2>1, <2>3
<1>6. Satisfies(p, f)
  BY <1>4 DEF Satisfies
<1>7. \A g \in SUBSET Exprs :
        /\ Satisfies(v, g)
        /\ ReadsOf(f) \cap ReadsOf(g) = {} /\ Arrays(ReadsOf(g)) \subseteq touched
        => Satisfies(p, g)
  BY <1>5 DEF Satisfies
<1>8. QED
  BY <1>1, <1>6, <1>7 DEF p

-----------------------------------------------------------------------------
(* The steps *)

LEMMA InitIInv == Init => IInv
<1> SUFFICES ASSUME Init  PROVE IInv
  OBVIOUS
<1>1. CexIsRight(Now) /\ CacheIsRight /\ AskingIsRight
  BY DEF Init, CexIsRight, Now, Cex, CacheIsRight, AskingIsRight
<1>2. answer.kind = "none"
  BY DEF Init, NoAnswer
<1>3. AnswersAreRight /\ InitialValuesSatisfy
  BY <1>2 DEF AnswersAreRight, Right, InitialValuesSatisfy
<1>4. QED
  BY <1>1, <1>3 DEF IInv

\* An answer ends what was asked.
LEMMA AnsweredFacts ==
  ASSUME NEW kind, NEW cs, NEW e, NEW r, Answered(kind, cs, e, r)
  PROVE  /\ AskingIsRight'
         /\ answer'.kind = kind /\ answer'.constraints = cs
         /\ answer'.expr = e /\ answer'.result = r
BY DEF Answered, AskingIsRight

LEMMA EvaluateIInv ==
  ASSUME IInv, NEW cs \in Paths, NEW e \in Exprs, evaluate(cs, e)
  PROVE  IInv'
<1>1. PICK r \in {"True", "False", "Unknown", Failed} :
        computeValidity(Required(cs, e), e, r) /\ Answered("evaluate", cs, e, r)
  BY DEF evaluate
<1>2. /\ Required(cs, e) \in SUBSET Exprs
      /\ Valid(Required(cs, e), e) <=> Valid(cs, e)
      /\ Valid(Required(cs, e), Neg(e)) <=> Valid(cs, Neg(e))
  BY FactorFacts, RequiredDecides
<1>3. /\ CexIsRight(Now)' /\ CacheIsRight'
      /\ r = "True" => Valid(cs, e)
      /\ r = "False" => Valid(cs, Neg(e))
      /\ r = "Unknown" => ~Valid(cs, e) /\ ~Valid(cs, Neg(e))
  BY <1>1, <1>2, ValidityIsRight DEF IInv
<1>4. /\ AskingIsRight'
      /\ answer'.kind = "evaluate" /\ answer'.constraints = cs
      /\ answer'.expr = e /\ answer'.result = r
  BY <1>1, AnsweredFacts
<1>5. AnswersAreRight' /\ InitialValuesSatisfy'
  BY <1>3, <1>4 DEF AnswersAreRight, Right, InitialValuesSatisfy
<1>6. QED
  BY <1>3, <1>4, <1>5 DEF IInv

LEMMA MustBeTrueIInv ==
  ASSUME IInv, NEW cs \in Paths, NEW e \in Exprs, mustBeTrue(cs, e)
  PROVE  IInv'
<1>1. PICK r \in {"True", "Unknown", Failed} :
        computeTruth(Required(cs, e), e, r) /\ Answered("mustBeTrue", cs, e, r)
  BY DEF mustBeTrue
<1>2. /\ Required(cs, e) \in SUBSET Exprs /\ Satisfiable(Required(cs, e))
      /\ Valid(Required(cs, e), e) <=> Valid(cs, e)
  BY FactorFacts, RequiredDecides
<1>3. /\ CexIsRight(Now)' /\ CacheIsRight'
      /\ r # Failed => (r = "True" <=> Valid(cs, e))
  BY <1>1, <1>2, TruthIsRight DEF IInv
<1>4. /\ AskingIsRight'
      /\ answer'.kind = "mustBeTrue" /\ answer'.constraints = cs
      /\ answer'.expr = e /\ answer'.result = r
  BY <1>1, AnsweredFacts
<1>5. AnswersAreRight' /\ InitialValuesSatisfy'
  BY <1>3, <1>4 DEF AnswersAreRight, Right, InitialValuesSatisfy
<1>6. QED
  BY <1>3, <1>4, <1>5 DEF IInv

\* What is required for an expression is required for its negation.
LEMMA MayBeTrueIInv ==
  ASSUME IInv, NEW cs \in Paths, NEW e \in Exprs, mayBeTrue(cs, e)
  PROVE  IInv'
<1>1. PICK r \in {"True", "Unknown", Failed} :
        computeTruth(Required(cs, e), Neg(e), r) /\ Answered("mayBeTrue", cs, e, r)
  BY DEF mayBeTrue
<1>2. /\ Required(cs, e) \in SUBSET Exprs /\ Satisfiable(Required(cs, e))
      /\ Neg(e) \in Exprs
      /\ Valid(Required(cs, e), Neg(e)) <=> Valid(cs, Neg(e))
  BY FactorFacts, RequiredDecides, NegFacts
<1>3. /\ CexIsRight(Now)' /\ CacheIsRight'
      /\ r # Failed => (r = "True" <=> Valid(cs, Neg(e)))
  BY <1>1, <1>2, TruthIsRight DEF IInv
<1>4. /\ AskingIsRight'
      /\ answer'.kind = "mayBeTrue" /\ answer'.constraints = cs
      /\ answer'.expr = e /\ answer'.result = r
  BY <1>1, AnsweredFacts
<1>5. AnswersAreRight' /\ InitialValuesSatisfy'
  BY <1>3, <1>4 DEF AnswersAreRight, Right, InitialValuesSatisfy
<1>6. QED
  BY <1>3, <1>4, <1>5 DEF IInv

LEMMA GetValueIInv ==
  ASSUME IInv, NEW cs \in Paths, NEW e \in Exprs, getValue(cs, e)
  PROVE  IInv'
<1> DEFINE result(q) == IF q.binding = Failed THEN Failed
                        ELSE IF Holds(e, q.binding) THEN "True" ELSE "False"
<1>1. PICK q \in getAssignment(Now, Required(cs, e)) :
        q.binding # Unsat /\ Update(q.cex) /\ Answered("getValue", cs, e, result(q))
  BY DEF getValue
<1>2. cs \in SUBSET Exprs /\ Satisfiable(cs) /\ Required(cs, e) \in SUBSET Exprs
  BY FactorFacts, RequiredDecides
<1>3. CexIsRight(q.cex) /\ (q.binding # Failed => Tells(q.binding, Required(cs, e)))
  BY <1>2, AssignmentIsRight DEF IInv
<1>4. CexIsRight(Now)' /\ CacheIsRight'
  BY <1>1, <1>3 DEF getValue, Update, Now, Cex, CexIsRight, CacheIsRight, IInv
<1>5. /\ AskingIsRight'
      /\ answer'.kind = "getValue" /\ answer'.constraints = cs
      /\ answer'.expr = e /\ answer'.result = result(q)
  BY <1>1, AnsweredFacts
<1>6. CASE q.binding = Failed
  BY <1>4, <1>5, <1>6 DEF AnswersAreRight, Right, InitialValuesSatisfy, IInv
<1>7. CASE q.binding # Failed
  <2>1. q.binding \in Assignments /\ Satisfies(q.binding, Required(cs, e))
    BY <1>1, <1>3, <1>7 DEF Tells
  <2>2. PICK c \in Assignments : Satisfies(c, cs) /\ (Holds(e, c) <=> Holds(e, q.binding))
    BY <1>2, <2>1, RequiredSuffices
  <2>3. Holds(e, c) \in BOOLEAN
    BY SolverChainAssumption
  <2>4. Holds(e, c) = (result(q) = "True")
    BY <1>7, <2>2, <2>3
  <2>5. AnswersAreRight' /\ InitialValuesSatisfy'
    BY <1>5, <2>2, <2>4 DEF AnswersAreRight, Right, InitialValuesSatisfy
  <2>6. QED  BY <1>4, <1>5, <2>5 DEF IInv
<1>8. QED
  BY <1>6, <1>7

LEMMA GetInitialValuesIInv ==
  ASSUME IInv, NEW cs \in Paths, getInitialValues(cs)
  PROVE  IInv'
<1>1. asking' = [constraints |-> cs, factors |-> Factors(cs), touched |-> {},
                 values |-> [i \in Bytes |-> Zero]]
      /\ [i \in Bytes |-> Zero] \in Assignments
  BY SolverChainAssumption DEF getInitialValues, Assignments
<1>2. AskingIsRight'
  BY <1>1 DEF AskingIsRight
<1>3. QED
  BY <1>2 DEF getInitialValues, IInv, CexIsRight, Now, Cex, CacheIsRight, AnswersAreRight,
              Right, InitialValuesSatisfy

LEMMA SolveFactorIInv ==
  ASSUME IInv, asking # None, NEW f \in asking.factors, solveFactor(f)
  PROVE  IInv'
<1> DEFINE cs == asking.constraints
           right(q) == q.binding \in Assignments /\ Satisfies(q.binding, f)
<1>1. /\ cs \in Paths /\ asking.factors \subseteq Factors(cs) /\ asking.values \in Assignments
      /\ asking \in [constraints : Paths, factors : SUBSET Factors(cs),
                      touched : SUBSET Arrays(Bytes), values : Assignments]
      /\ \A g \in Factors(cs) \ asking.factors :
           Satisfies(asking.values, g) /\ Arrays(ReadsOf(g)) \subseteq asking.touched
  BY DEF IInv, AskingIsRight
<1>2. f \in SUBSET Exprs /\ Satisfiable(f)
  BY <1>1, FactorFacts
<1>3. PICK q \in getAssignment(Now, f) :
        /\ Update(q.cex)
        /\ \/ /\ q.binding \in {Failed, Unsat}
              /\ Answered("getInitialValues", cs, None, q.binding)
           \/ /\ q.binding \notin {Failed, Unsat}
              /\ asking' = [asking EXCEPT !.factors = @ \ {f},
                             !.touched = @ \cup Arrays(ReadsOf(f)),
                             !.values = Placed(f, q.binding, asking.touched, @)]
              /\ UNCHANGED answer
  BY DEF solveFactor
<1>4. CexIsRight(q.cex) /\ (q.binding # Failed => Tells(q.binding, f))
  BY <1>2, AssignmentIsRight DEF IInv
<1>5. q.binding # Failed => right(q) /\ q.binding # Unsat
  BY <1>2, <1>4, SolverChainAssumption DEF Tells
<1>6. CexIsRight(Now)' /\ CacheIsRight'
  BY <1>3, <1>4 DEF solveFactor, Update, Now, Cex, CexIsRight, CacheIsRight, IInv
<1>7. CASE q.binding = Failed
  <2>1. /\ AskingIsRight'
        /\ answer'.kind = "getInitialValues" /\ answer'.result = Failed
    BY <1>3, <1>7, AnsweredFacts
  <2>2. AnswersAreRight' /\ InitialValuesSatisfy'
    BY <2>1 DEF AnswersAreRight, Right, InitialValuesSatisfy
  <2>3. QED  BY <1>6, <2>1, <2>2 DEF IInv
<1>8. CASE q.binding # Failed
  <2>1. UNCHANGED answer
    BY <1>3, <1>5, <1>8
  <2>2. asking' = [asking EXCEPT !.factors = @ \ {f},
                     !.touched = @ \cup Arrays(ReadsOf(f)),
                     !.values = Placed(f, q.binding, asking.touched, @)]
    BY <1>3, <1>5, <1>8
  <2> DEFINE v == Placed(f, q.binding, asking.touched, asking.values)
  <2>3. AskingIsRight'
    <3>1. ReadsOf(f) \subseteq Bytes
      BY <1>2, SolverChainAssumption DEF ReadsOf
    <3>2. /\ v \in Assignments /\ Satisfies(v, f)
          /\ \A g \in SUBSET Exprs :
               /\ Satisfies(asking.values, g)
               /\ ReadsOf(f) \cap ReadsOf(g) = {} /\ Arrays(ReadsOf(g)) \subseteq asking.touched
               => Satisfies(v, g)
      BY <1>1, <1>2, <1>5, <1>8, PlacedSatisfies
    <3> HIDE DEF v
    <3>3. asking' \in [constraints : Paths, factors : SUBSET Factors(cs),
                       touched : SUBSET Arrays(Bytes), values : Assignments]
          /\ asking'.constraints = cs /\ asking'.factors = asking.factors \ {f}
          /\ asking'.touched = asking.touched \cup Arrays(ReadsOf(f)) /\ asking'.values = v
      BY <1>1, <2>2, <3>1, <3>2 DEF v, Arrays
    <3>4. ASSUME NEW g \in Factors(cs) \ asking'.factors
          PROVE  Satisfies(v, g) /\ Arrays(ReadsOf(g)) \subseteq asking'.touched
      <4>1. CASE g = f
        BY <3>2, <3>3, <4>1
      <4>2. CASE g # f
        <5>1. g \in SUBSET Exprs /\ cs \in SUBSET Exprs /\ f \in Factors(cs)
          BY <1>1, FactorFacts
        <5>2. ReadsOf(f) \cap ReadsOf(g) = {}
          BY <4>2, <5>1, FactorsPartition
        <5>3. Satisfies(asking.values, g) /\ Arrays(ReadsOf(g)) \subseteq asking.touched
          BY <1>1, <3>3, <4>2
        <5>4. QED  BY <3>2, <3>3, <5>1, <5>2, <5>3
      <4>3. QED  BY <4>1, <4>2
    <3>5. QED  BY <3>3, <3>4 DEF AskingIsRight
  <2>4. AnswersAreRight' /\ InitialValuesSatisfy'
    BY <2>1 DEF IInv, AnswersAreRight, Right, InitialValuesSatisfy
  <2>5. QED  BY <1>6, <2>3, <2>4 DEF IInv
<1>9. QED
  BY <1>7, <1>8

LEMMA AllSolvedIInv ==
  ASSUME IInv, allSolved
  PROVE  IInv'
<1> DEFINE cs == asking.constraints
<1>1. /\ cs \in Paths
      /\ \A g \in Factors(cs) : Satisfies(asking.values, g)
      /\ asking.values \in Assignments
  BY DEF IInv, AskingIsRight, allSolved
<1>2. Satisfies(asking.values, cs)
  BY <1>1, FactorFacts, FactorsPartition DEF Satisfies
<1>3. asking.values # Unsat
  BY <1>1, SolverChainAssumption
<1>4. /\ AskingIsRight'
      /\ answer'.kind = "getInitialValues" /\ answer'.constraints = cs
      /\ answer'.result = asking.values
  BY AnsweredFacts DEF allSolved
<1>5. AnswersAreRight' /\ InitialValuesSatisfy'
  BY <1>2, <1>3, <1>4 DEF AnswersAreRight, Right, InitialValuesSatisfy
<1>6. CexIsRight(Now)' /\ CacheIsRight'
  BY DEF allSolved, Now, Cex, CexIsRight, CacheIsRight, IInv
<1>7. QED
  BY <1>4, <1>5, <1>6 DEF IInv

LEMMA StepIInv == IInv /\ [Next]_vars => IInv'
<1> SUFFICES ASSUME IInv, [Next]_vars  PROVE IInv'
  OBVIOUS
<1>1. ASSUME NEW cs \in Paths, NEW e \in Exprs,
             evaluate(cs, e) \/ mustBeTrue(cs, e) \/ mayBeTrue(cs, e) \/ getValue(cs, e)
      PROVE  IInv'
  BY <1>1, EvaluateIInv, MustBeTrueIInv, MayBeTrueIInv, GetValueIInv
<1>2. ASSUME NEW cs \in Paths, getInitialValues(cs)  PROVE IInv'
  BY <1>2, GetInitialValuesIInv
<1>3. ASSUME asking # None, NEW f \in asking.factors, solveFactor(f)  PROVE IInv'
  BY <1>3, SolveFactorIInv
<1>4. CASE allSolved
  BY <1>4, AllSolvedIInv
<1>5. CASE UNCHANGED vars
  BY <1>5 DEF vars, IInv, CexIsRight, Now, Cex, CacheIsRight, AskingIsRight, AnswersAreRight,
              Right, InitialValuesSatisfy
<1>6. QED
  BY <1>1, <1>2, <1>3, <1>4, <1>5 DEF Next

-----------------------------------------------------------------------------
(* Theorems *)

\* The caches never hold an untruth, whatever the queries before, and a composition of
\* initial values in progress satisfies the factors that are done.
THEOREM Invariance == Spec => []IInv
BY InitIInv, StepIInv, PTL DEF Spec

\* Whatever was asked before and whatever constraints are left out, the verdict of
\* evaluate, mustBeTrue and mayBeTrue and the value of getValue are right for the
\* constraints of the state that asked.
THEOREM QueriesAreAnsweredRight == Spec => []AnswersAreRight
BY Invariance, PTL DEF IInv

\* The assert of IndependentSolver::computeInitialValues: the values of the factors,
\* put together array by array, satisfy all constraints.
THEOREM FactorsCompose == Spec => []InitialValuesSatisfy
BY Invariance, PTL DEF IInv

=============================================================================
