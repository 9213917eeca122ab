------------------------------ MODULE Regions ------------------------------
(***************************************************************************)
(* What the timing analysis takes for secret: the regions of memory and of *)
(* symbols that are marked high or low, how declarations, pointers to new  *)
(* objects and calls of modelled functions mark them, and how the          *)
(* condition of a branch is searched for marked bytes and projected onto   *)
(* them.                                                                   *)
(*                                                                         *)
(* Regions are offsets and sizes in bits.  The marks of memory are kept by *)
(* the address of a state, those of symbols once for all states.  declared *)
(* and secretBits are no part of the program: they say what was declared   *)
(* last, and on which secret bits a state has branched.                    *)
(***************************************************************************)
EXTENDS Expressions, RegionMarks, FiniteSets, SequencesExt

CONSTANTS
  Values,          \* the values that functions are called with
  infoFlowRules,   \* from regions of the argument to regions of the result
  Conditions,      \* of branches
  Assignments      \* of the bytes of the symbols

VARIABLES
  states           \* what is known of the state at an address

vars == <<states, marks>>

\* In bytes.
Size == [o \in Objects |-> SizeInBits[o] \div Int8]

-----------------------------------------------------------------------------
(* Searching an expression *)

intersect(r, s) ==
  LET min == Greater(r.offset, s.offset)
      max == Lesser(last(r), last(s))
  IN IF min > max THEN <<>> ELSE <<region(min, max - min + 1)>>
intersectAll(r, rs) == FlattenSeq([i \in DOMAIN rs |-> intersect(r, rs[i])])

Sized(r) == IF r.size > 0 THEN <<r>> ELSE <<>>
shiftLeft(r, n, width) ==
  Sized(region(r.offset + n, IF (r.offset + n + r.size) % UInt > width THEN width - (r.offset + n) ELSE r.size))
\* An offset below zero is a large one.
shiftRight(r, n) == Sized(region(r.offset - n, r.size))

canCoalesce(r, s) ==
  \/ r.offset + r.size = s.offset \/ s.offset + s.size = r.offset
  \/ rangesIntersect(r.offset, last(r), s.offset, last(s))
coalesce(r, s) ==
  LET offset == Lesser(r.offset, s.offset)
      from == IF last(r) > last(s) THEN r ELSE s
  IN region(offset, from.offset + from.size - offset)
mergeOne(rs, r) ==
  IF \E i \in DOMAIN rs : canCoalesce(r, rs[i])
  THEN [i \in DOMAIN rs |-> IF canCoalesce(r, rs[i]) THEN coalesce(r, rs[i]) ELSE rs[i]]
  ELSE Append(rs, r)
mergeAndCoalesce(rs1, rs2) == FoldLeft(mergeOne, rs2, rs1)

\* Constraints are conditions and what they evaluate to.
Models(constraints) == {a \in Assignments : \A c \in constraints : Eval(c[1], a) = c[2]}

\* A search: the marks of one level, and the constraints of the state.
Search(s, level) == [marks |-> symRegions[level], constraints |-> states[s].constraints]

\* A symbolic index is in a region when it must be.
InRegion(r, byte, width) == rangesIntersect(r.offset, last(r), byte * Int8, byte * Int8 + width - 1)
isInRegion(constraints, rs, index, width) ==
  \E i \in DOMAIN rs :
    IF IsConst(index) THEN InRegion(rs[i], Value(index), width)
    ELSE \A a \in Models(constraints) : InRegion(rs[i], Eval(index, a), width)
isInSymRegion(x, name, index) ==
  name \in DOMAIN x.marks /\ isInRegion(x.constraints, x.marks[name], index, Int8)

\* Mutant: the index of a read is not searched.
Found(rs, n) == [regions |-> rs, numsym |-> n]
readWithoutIndex(x, e, range, seen, indexed) ==
  LET n == IF isInSymRegion(x, e.data[1][1], e.kids[1]) THEN 1 ELSE 0
  IN Found(IF n = 0 THEN <<>>
           ELSE IF ~IsConst(e.kids[1]) THEN <<range>>
           ELSE <<region(IF seen THEN Value(e.kids[1]) * Int8 ELSE 0, Int8)>>, n)

\* A read is marked by its root or by its index.
readRegion(x, e, range, seen, indexed) ==
  LET n == (IF isInSymRegion(x, e.data[1][1], e.kids[1]) THEN 1 ELSE 0) + (IF indexed THEN 1 ELSE 0)
  IN Found(IF n = 0 THEN <<>>
           ELSE IF ~IsConst(e.kids[1]) THEN <<range>>
           ELSE <<region(IF seen THEN Value(e.kids[1]) * Int8 ELSE 0, Int8)>>, n)

RECURSIVE extractRegion(_, _, _, _, _)
extractRegion(x, e, range, seen, top) ==
  LET kid(i, concat) == extractRegion(x, e.kids[i], range, concat, FALSE)
      Unless(rs, n) == Found(IF top /\ n = 0 THEN <<>> ELSE rs, n)
  IN CASE e.op = "Constant" -> Found(<<>>, 0)
       [] e.op = "Read" ->
            readRegion(x, e, range, seen,
                       extractRegion(x, e.kids[1], range, FALSE, TRUE).regions # <<>>)
       [] e.op = "Concat" ->
            LET l == kid(1, TRUE)  r == kid(2, TRUE)
            IN Unless(IF l.regions = <<>> THEN r.regions ELSE IF r.regions = <<>> THEN l.regions
                      ELSE mergeAndCoalesce(l.regions, r.regions), l.numsym + r.numsym)
       [] e.op = "Extract" ->
            LET k == kid(1, seen)
            IN Unless(intersectAll(region(e.data[1], e.width), k.regions), k.numsym)
       [] e.op \in {"Shl", "LShr", "AShr"} ->
            LET k == kid(1, seen)  n == e.kids[2]
                moved(r) == IF e.op = "Shl" THEN shiftLeft(r, Value(n), e.width) ELSE shiftRight(r, Value(n))
            IN Unless(IF k.regions = <<>> THEN <<>> ELSE IF ~IsConst(n) THEN <<range>>
                      ELSE FlattenSeq([i \in DOMAIN k.regions |-> moved(k.regions[i])]), k.numsym)
       [] e.op \in {"ZExt", "SExt"} -> LET k == kid(1, seen) IN Unless(k.regions, k.numsym)
       [] OTHER ->
            LET kids == [i \in DOMAIN e.kids |-> kid(i, seen)]
                first == [regions |-> kids[1].regions, numsym |-> kids[1].numsym]
                all == FoldLeft(LAMBDA k, l : Found(mergeAndCoalesce(k.regions, l.regions), k.numsym + l.numsym),
                                first, Tail(kids))
            IN Unless(all.regions, all.numsym)

Everywhere == region(0, 8 * Int8)
exprHasSymRegion(x, e) ==
  \E r \in Range(extractRegion(x, e, Everywhere, FALSE, TRUE).regions) : r.size > 0

-----------------------------------------------------------------------------
(* Projection: of a conjunction, disjunction or sum of conditions what is   *)
(* marked.  The code takes those of wider values for conditions too, unless *)
(* they are below an operation on wider values.                             *)

NoProjection == Const(0, Bool + 1)

Below(e, bitwise) == bitwise \/ e.op # "Eq"
Junction(e, bitwise) == e.op \in {"And", "Or", "Xor"} /\ ~bitwise

\* The node with what is left of its operands; NoProjection when an assertion fails, where
\* the program stops.
Rejoined(e, kids) ==
  IF kids = <<>> \/ NoProjection \in Range(kids) THEN NoProjection
  ELSE IF Len(kids) < Len(e.kids) THEN kids[1] ELSE rebuild(e, kids)

RECURSIVE getProjectionOnRegion(_, _, _)
getProjectionOnRegion(x, e, bitwise) ==
  IF e.op \in {"Constant", "Read"} THEN e
  ELSE Rejoined(e, LET kept == SelectSeq(e.kids, LAMBDA k : Junction(e, bitwise) => exprHasSymRegion(x, k))
                   IN [i \in DOMAIN kept |->
                        getProjectionOnRegion(x, kept[i], Below(e, bitwise) /\ ~Junction(e, bitwise))])

-----------------------------------------------------------------------------
(* What an expression depends on: bits whose change changes its value. *)

SymbolBits == UNION {{o} \X (0..(Size[o] * Int8 - 1)) : o \in Objects}
Flipped(a, b) ==
  LET k == 2^(b[2] % Int8)
  IN [a EXCEPT ![b[1]][b[2] \div Int8] = IF (@ \div k) % 2 = 1 THEN @ - k ELSE @ + k]
RECURSIVE Reads(_)
Reads(e) == (IF e.op = "Read" THEN {e} ELSE {}) \cup UNION {Reads(e.kids[i]) : i \in DOMAIN e.kids}
Symbols(e) == {r.data[1][1] : r \in Reads(e)}

DependsOn(e) ==
  {b \in {b \in SymbolBits : b[1] \in Symbols(e)} :
     \E a \in Assignments : Eval(e, a) # Eval(e, Flipped(a, b))}

\* What is secret for a state: declared so there, and not declared otherwise elsewhere.
Secret(s, o) == declared.memory[s][o].high \cap declared.sym[o].high
SecretBits(s) == UNION {{o} \X Secret(s, o) : o \in objects[s]}

-----------------------------------------------------------------------------
(* Declarations *)

Unbranched ==
  [constraints |-> {}, secretDescendant |-> FALSE,
   HC |-> Const(1, Bool), LC |-> {}, projected |-> <<>>, secretBits |-> {}]
Init == MarksInit /\ states = (First :> Unbranched)

LabelObject == Label /\ UNCHANGED states

\* The object of an argument as one value.
Byte(o, i) == Node("Read", Int8, <<Const(i, Int32)>>, <<SymbolicArray(o), <<>>>>)
RECURSIVE Contents(_, _)
Contents(o, n) ==
  IF n = 1 THEN Byte(o, 0)
  ELSE Node("Concat", n * Int8, <<Byte(o, n - 1), Contents(o, n - 1)>>, <<>>)

\* symbolizeAndMarkSensitiveArgumentsOnCall: what is known to be sensitive is left alone.
CallSensitive ==
  /\ Counted
  /\ \E s \in Live, arg \in Sensitive : \E o \in objects[s] :
       /\ ~(arg.level \in Levels /\ exprHasSymRegion(Search(s, arg.level), Contents(o, Size[o])))
       /\ MarkArgument(s, o, arg)
  /\ UNCHANGED states

FollowPointer ==
  /\ Counted
  /\ \E s \in Live, o \in Objects : \E c \in objects[s] : \E at \in 0 .. (Size[c] - 1) :
       LazyInit(s, c, o, at * Int8)
  /\ UNCHANGED states

-----------------------------------------------------------------------------
(* Functions with rules for the flow of information *)

\* The regions of the result that are high because regions of the argument are.
getHighInfoFlowRegions(s, arg) ==
  LET flow(rule) ==
        LET found == intersectAll(rule.from, extractRegion(Search(s, "high"), arg, rule.from, FALSE, TRUE).regions)
        IN [i \in DOMAIN found |-> region(found[i].offset + rule.to.offset - rule.from.offset, found[i].size)]
  IN FoldLeft(LAMBDA rs, rule : IF flow(rule) = <<>> THEN rs ELSE IF rs = <<>> THEN flow(rule)
                                ELSE mergeAndCoalesce(flow(rule), rs),
              <<>>, infoFlowRules)

\* The regions of a value are its positions: it is a byte, or an object from its first
\* byte, or bits of such.
RECURSIVE Aligned(_)
Aligned(e) ==
  \/ e.op = "Constant"
  \/ e.op = "Read" /\ IsConst(e.kids[1])
  \/ e.op = "Concat" /\ \E o \in Objects, n \in 1..Size[CHOOSE o \in Symbols(e) : TRUE] : e = Contents(o, n)
  \/ e.op \in {"ZExt", "And", "Or", "Xor"} /\ \A i \in DOMAIN e.kids : Aligned(e.kids[i])

\* The bits of the result that rules reach from bits that depend on a secret.
FlowsTo(s, arg) ==
  UNION {{b + rule.to.offset - rule.from.offset :
            b \in {b \in Bits(<<rule.from>>) \cap 0..(arg.width - 1) :
                   DependsOn(Extract(arg, b, Bool)) \cap SecretBits(s) # {}}} : rule \in Range(infoFlowRules)}

\* checkAndUpdateInfoFlow, for the symbolic result of a function.
Flow ==
  /\ Counted
  /\ \E s \in Live, o \in Objects, arg \in Values :
       /\ Symbols(arg) \subseteq objects[s]
       /\ \E rs \in {getHighInfoFlowRegions(s, arg)}, bits \in {FlowsTo(s, arg)} :
            LET d == [high |-> bits, low |-> {}, wide |-> IF Bits(rs) = bits THEN {} ELSE {"high"}]
            IN Results(s, o, rs, IF Aligned(arg) THEN d ELSE AnyMarks)
  /\ UNCHANGED states

-----------------------------------------------------------------------------
(* Branches *)

\* The search finds every secret that the expression depends on: bits are cut off aligned
\* values only, shifts are by constants, no byte was written at a symbolic index, and an
\* object that is read at one has no marks, or is marked as a whole.
RECURSIVE Searchable(_, _, _)
Searchable(x, e, seen) ==
  CASE e.op = "Read" ->
         /\ e.data[2] = <<>>
         /\ \/ IsConst(e.kids[1])
            \/ /\ At(x.marks, e.data[1][1]) \in {<<>>, <<Whole(e.data[1][1])>>}
               /\ Searchable(x, e.kids[1], FALSE)
    [] e.op = "Extract" -> ~seen /\ Aligned(e.kids[1])
    [] e.op = "Shl" -> ~seen /\ Aligned(e.kids[1]) /\ IsConst(e.kids[2])
    [] e.op \in {"LShr", "AShr"} -> Searchable(x, e.kids[1], seen) /\ IsConst(e.kids[2])
    [] OTHER -> \A i \in DOMAIN e.kids : Searchable(x, e.kids[i], seen \/ e.op = "Concat")

\* The secret bits that a condition depends on, for conditions the search is made for.
Dependences == [c \in Conditions |-> DependsOn(c)]
Claims(s, cond) ==
  IF Searchable(Search(s, "high"), cond, FALSE) THEN Dependences[cond] \cap SecretBits(s) ELSE {}

\* What the loop of run makes of the condition of a branch, for each side.  Of one with
\* both high and low symbols, the low part is recorded.
Branched(s, cond, constraints, has, proj, deps, feasible) ==
  [states[s] EXCEPT
     !.constraints = constraints,
     !.secretDescendant = @ \/ has.high,
     !.HC = IF has.high /\ ~has.low /\ feasible THEN proj ELSE @,
     !.LC = IF ~feasible THEN @
            ELSE IF has.low THEN @ \cup {proj} ELSE IF has.high THEN {} ELSE @,
     !.projected = IF has.high /\ ~has.low THEN <<cond, proj, deps>> ELSE <<>>,
     !.secretBits = @ \cup deps]

\* A branch on a condition that may be both: the state goes on with it, a copy with its
\* negation, and with the marks of memory.
Branch ==
  /\ Counted
  /\ \E s \in Live, t \in Addresses \ Live, cond \in Conditions :
       /\ Symbols(cond) \subseteq objects[s]
       /\ \E sides \in {{states[s].constraints \cup {<<cond, v>>} : v \in {0, 1}}} :
            /\ \A side \in sides : Models(side) # {}
            /\ \E has \in {[level \in Levels |-> exprHasSymRegion(Search(s, level), cond)]} :
               \E proj \in {IF has.high \/ has.low
                           THEN getProjectionOnRegion(Search(s, IF has.low THEN "low" ELSE "high"), cond, FALSE)
                           ELSE NoProjection} :
               \E next \in {[side \in sides |->
                            Branched(s, cond, side, has, proj, Claims(s, cond),
                                     proj # NoProjection /\ \E a \in Models(side) : Eval(proj, a) = 1)]} :
                 states' = [a \in Live \cup {t} |->
                   IF a = s THEN next[CHOOSE side \in sides : <<cond, 1>> \in side]
                   ELSE IF a = t THEN next[CHOOSE side \in sides : <<cond, 0>> \in side] ELSE states[a]]
       /\ Copied(s, t)

Terminate ==
  \E s \in Live :
    /\ Forgotten(s)
    /\ states' = [t \in Live \ {s} |-> states[t]]

Next == LabelObject \/ CallSensitive \/ FollowPointer \/ Flow \/ Branch \/ Terminate
Spec == Init /\ [][Next]_vars
-----------------------------------------------------------------------------
(* Properties *)

\* Junctions are of conditions, and only negated.
RECURSIVE OfConditions(_, _)
OfConditions(e, bitwise) ==
  /\ Junction(e, bitwise) => e.width = Bool
  /\ e.op = "Eq" /\ ~IsConst(e.kids[1]) => \A i \in 1..2 : ~Junction(e.kids[i], bitwise)
  /\ \A i \in DOMAIN e.kids : OfConditions(e.kids[i], ~Junction(e, bitwise) /\ Below(e, bitwise))

\* A state that branched on a condition that depends on a secret is a secret descendant,
\* and when its condition is projected, no assertion fails and the projection depends on
\* the same secrets.
SecretBranchesAreKnown ==
  \A s \in Live :
    /\ states[s].secretBits # {} => states[s].secretDescendant
    /\ states[s].projected # <<>> =>
         \E cond \in {states[s].projected[1]}, proj \in {states[s].projected[2]} :
           OfConditions(cond, FALSE) =>
             /\ proj # NoProjection
             /\ states[s].projected[3] \subseteq DependsOn(proj)
=============================================================================
