---------------------------- MODULE RegionMarks ----------------------------
(***************************************************************************)
(* The regions of memory and of symbols that are marked high or low: how   *)
(* declarations, pointers to new objects and the results of functions mark *)
(* and clear them.                                                         *)
(*                                                                         *)
(* Regions are offsets and sizes in bits.  The marks of memory are kept by *)
(* the address of a state, those of symbols once for all states.  declared *)
(* is no part of the program: it says what was declared last.  What an     *)
(* argument is found to be, and which regions of a result a function       *)
(* marks, is decided by searching expressions: here it is any of them, in  *)
(* Regions what the search finds.                                          *)
(***************************************************************************)
EXTENDS Integers, Sequences, Functions

CONSTANTS
  Addresses,       \* of the states
  First,           \* the address of the first state
  Objects,         \* of memory, each with a symbol of its name
  FirstObject,     \* the one the first state has
  SizeInBits, ObjectType, \* of an object, and the type a pointer to it is to
  UInt,            \* offsets are computed modulo this
  TypeRegions,     \* the regions of types that are high or low
  Sensitive,       \* the arguments of functions that are declared sensitive
  PointerWidth,
  MaxOperations

\* A region has a bit, and neither its end nor its size wraps around.
RegionSet == {r \in [offset : Nat, size : Nat \ {0}] : r.size < UInt /\ r.offset + r.size <= UInt}

ASSUME StatesAssumption ==
  First \in Addresses /\ FirstObject \in Objects /\ MaxOperations \in Nat
ASSUME SizesAssumption ==
  /\ UInt \in Nat \ {0} /\ PointerWidth \in Nat \ {0}
  /\ SizeInBits \in [Objects -> Nat \ {0}] /\ \A o \in Objects : SizeInBits[o] < UInt
\* The sizes that are declared fit in UInt wherever they begin.
ASSUME DeclarationsAssumption ==
  /\ \A level \in {"high", "low"} : \A type \in DOMAIN TypeRegions[level] :
       TypeRegions[level][type] \in Seq(RegionSet)
  /\ Sensitive \subseteq [level : {"high", "low", "mixed"}, type : STRING, offset : Nat,
                           bits : Nat \ {0}, pointer : BOOLEAN]
  /\ \A arg \in Sensitive :
       /\ arg.bits < UInt /\ arg.offset + arg.bits <= UInt
       /\ \A o \in Objects : arg.offset + SizeInBits[o] <= UInt

VARIABLES
  objects,         \* the objects of the state at an address
  memoryRegions,   \* highMemoryRegions and lowMemoryRegions
  symRegions,      \* highSymRegions and lowSymRegions
  named,           \* the objects whose names are in use
  declared, operations

marks == <<objects, memoryRegions, symRegions, named, declared, operations>>

Live == DOMAIN objects
Levels == {"high", "low"}
Other(level) == IF level = "high" THEN "low" ELSE "high"
region(offset, size) == [offset |-> offset % UInt, size |-> size % UInt]
last(r) == (r.offset + r.size - 1) % UInt
Whole(o) == region(0, SizeInBits[o])
BitsOf(r) == r.offset .. (r.offset + r.size - 1)
Bits(rs) == UNION {BitsOf(r) : r \in Range(rs)}

Lesser(m, n) == IF m < n THEN m ELSE n
Greater(m, n) == IF m < n THEN n ELSE m
Apart(m, n) == Greater(m, n) - Lesser(m, n)
rangesIntersect(min1, max1, min2, max2) == min1 <= max2 /\ min2 <= max1

-----------------------------------------------------------------------------
(* Clearing.  What is left of a region is what is in one of the two and not *)
(* in the other.                                                            *)

\* Mutant: the part above is forgotten.
BelowOnly(r, s) == <<region(Lesser(r.offset, s.offset), Apart(r.offset, s.offset))>>

BelowAndAbove(r, s) ==
  <<region(Lesser(r.offset, s.offset), Apart(r.offset, s.offset)),
    region(Lesser(last(r), last(s)) + 1, Apart(last(r), last(s)))>>

Left(r, s) ==
  CASE r = s -> <<>>
    [] r # s /\ ~rangesIntersect(r.offset, last(r), s.offset, last(s)) -> <<s>>
    [] OTHER ->
         IF r.offset + r.size = s.offset + s.size
         THEN <<region(Lesser(r.offset, s.offset), Apart(r.size, s.size))>>
         ELSE IF r.offset = s.offset
         THEN <<region(r.offset + Lesser(r.size, s.size), Apart(r.size, s.size))>>
         ELSE BelowAndAbove(r, s)

\* The loops over the regions to be cleared from, and over those to be cleared.
clear(r, source) ==
  LET temp[i \in 0 .. Len(source)] == IF i = 0 THEN <<>> ELSE temp[i - 1] \o Left(r, source[i])
  IN temp[Len(source)]
clearRegion(rs, source) ==
  LET temp[i \in 0 .. Len(rs)] == IF i = 0 THEN source ELSE clear(rs[i], temp[i - 1])
  IN temp[Len(rs)]

At(m, k) == IF k \in DOMAIN m THEN m[k] ELSE <<>>

\* A base address without regions is forgotten, a symbol is kept without regions.
clearMemoryRegion(m, a, rs) ==
  IF a \notin DOMAIN m THEN m
  ELSE LET rest == clearRegion(rs, m[a])
       IN [k \in DOMAIN m \ (IF rest = <<>> THEN {a} ELSE {}) |-> IF k = a THEN rest ELSE m[k]]
clearSymRegion(m, name, rs) ==
  IF name \notin DOMAIN m THEN m ELSE [m EXCEPT ![name] = clearRegion(rs, @)]

-----------------------------------------------------------------------------
(* Marking *)

\* What declarations say: the last one says all that is of its level.  Clearing more
\* than a region, or the same bits twice, marks what it was to clear.
NothingDeclared == [high |-> {}, low |-> {}, wide |-> {}]
Straddles(rs, source) ==
  \/ \E r \in Range(rs), s \in Range(source) :
       BitsOf(r) \cap BitsOf(s) # {} /\ ~(BitsOf(r) \subseteq BitsOf(s))
  \/ \E i, j \in DOMAIN rs : i # j /\ BitsOf(rs[i]) \cap BitsOf(rs[j]) # {}
Declare(d, level, rs, other) ==
  [high |-> IF level = "high" THEN Bits(rs) ELSE d.high \ Bits(rs),
   low |-> IF level = "low" THEN Bits(rs) ELSE d.low \ Bits(rs),
   wide |-> (d.wide \ {level}) \cup (IF Straddles(rs, other) THEN {Other(level)} ELSE {})]
AnyMarks == [NothingDeclared EXCEPT !.wide = {"high", "low"}]

With(f, k, v) == [x \in DOMAIN f \cup {k} |-> IF x = k THEN v ELSE f[x]]
setMemoryRegion(m, level, s, a, rs) ==
  [m EXCEPT ![level][s] = With(@, a, rs), ![Other(level)][s] = clearMemoryRegion(@, a, rs)]
setSymRegion(m, level, name, rs) ==
  [m EXCEPT ![level] = With(@, name, rs), ![Other(level)] = clearSymRegion(@, name, rs)]

Marks == [memory |-> memoryRegions, sym |-> symRegions, declared |-> declared]

\* The code marks an object of a state and its symbol together.
setRegion(m, level, s, o, rs) ==
  [memory |-> setMemoryRegion(m.memory, level, s, o, rs),
   sym |-> setSymRegion(m.sym, level, o, rs),
   declared |-> [m.declared EXCEPT
     !.memory[s][o] = Declare(@, level, rs, At(m.memory[Other(level)][s], o)),
     !.sym[o] = Declare(@, level, rs, At(m.sym[Other(level)], o))]]

Claiming(m, s, o, d) == [m EXCEPT !.declared = [@ EXCEPT !.memory[s][o] = d, !.sym[o] = d]]
Unclaimed(m, s, o) == Claiming(m, s, o, AnyMarks)

-----------------------------------------------------------------------------
(* Declarations *)

Counted == operations < MaxOperations /\ operations' = operations + 1

BecomesMarked(s, o, m) ==
  /\ objects' = [objects EXCEPT ![s] = @ \cup {o}]
  /\ named' = named \cup {o}
  /\ memoryRegions' = m.memory
  /\ symRegions' = m.sym
  /\ declared' = m.declared

\* klee_make_symbolic_and_label.
Label ==
  /\ Counted
  /\ \E s \in Live, level \in Levels : \E o \in objects[s] :
       BecomesMarked(s, o, setRegion(Marks, level, s, o, <<Whole(o)>>))

\* The regions of a type, or all of the argument from where it is in its object.
RegionsFor(arg, level, o) ==
  IF arg.type \in DOMAIN TypeRegions[level] THEN TypeRegions[level][arg.type]
  ELSE <<region(arg.offset, IF arg.pointer THEN SizeInBits[o] ELSE arg.bits)>>

\* The marks of the type of an argument with both levels.
ofType(m, level, s, o, type) ==
  IF type \in DOMAIN TypeRegions[level] THEN setRegion(m, level, s, o, TypeRegions[level][type]) ELSE m
setSymRegionSensitive(m, s, o, arg) ==
  IF arg.level \in Levels THEN setRegion(m, arg.level, s, o, RegionsFor(arg, arg.level, o))
  ELSE ofType(ofType(m, "low", s, o, arg.type), "high", s, o, arg.type)

NoMarks ==
  [memory |-> [level \in Levels |-> [s \in {First} |-> <<>>]], sym |-> [level \in Levels |-> <<>>],
   declared |-> [memory |-> [s \in Addresses |-> [o \in Objects |-> NothingDeclared]],
                 sym |-> [o \in Objects |-> NothingDeclared]]]
AsWhole(arg) == [arg EXCEPT !.offset = 0, !.pointer = TRUE]

\* initHighLowRegions, and the sensitive argument of the entry function, if there is one.
MarksInit ==
  /\ named = {FirstObject}
  /\ objects = [s \in {First} |-> named]
  /\ \E m \in {NoMarks} \cup {setSymRegionSensitive(NoMarks, First, FirstObject, AsWhole(arg)) : arg \in Sensitive} :
       memoryRegions = m.memory /\ symRegions = m.sym /\ declared = m.declared
  /\ operations = 0

\* symbolizeAndMarkSensitiveArgumentsOnCall, of an argument that is not known to be sensitive.
MarkArgument(s, o, arg) == BecomesMarked(s, o, setSymRegionSensitive(Marks, s, o, arg))

RegionsOf(level, o) ==
  IF ObjectType[o] \in DOMAIN TypeRegions[level] THEN TypeRegions[level][ObjectType[o]] ELSE <<Whole(o)>>

\* Names are unique.
Fresh(o) == o \notin named

\* Lazy initialization of a pointer at a place in an object: the object pointed to is
\* marked as the pointer is.
Follows(m, level, s, c, o, at) ==
  IF \E r \in Range(At(memoryRegions[level][s], c)) :
       rangesIntersect(r.offset, last(r), at, at + PointerWidth - 1)
  THEN setRegion(m, level, s, o, RegionsOf(level, o)) ELSE m
\* What is declared of the place says the same of each level.
AsDeclared(s, c, at) ==
  \A level \in Levels :
    (\E r \in Range(At(memoryRegions[level][s], c)) :
       rangesIntersect(r.offset, last(r), at, at + PointerWidth - 1))
    <=> (at .. at + PointerWidth - 1) \cap declared.memory[s][c][level] # {}
LazyInit(s, c, o, at) ==
  /\ Fresh(o)
  /\ at + PointerWidth <= SizeInBits[c]
  /\ \E m \in {Follows(Follows(Marks, "high", s, c, o, at), "low", s, c, o, at)} :
       BecomesMarked(s, o, IF AsDeclared(s, c, at) THEN m ELSE Unclaimed(m, s, o))

\* checkAndUpdateInfoFlow, for the symbolic result of a function: some of its regions are
\* high.  What is known of them is d.
Results(s, o, rs, d) ==
  /\ Fresh(o)
  /\ BecomesMarked(s, o, Claiming(IF rs = <<>> THEN Marks ELSE setRegion(Marks, "high", s, o, rs), s, o, d))
Known(rs, d) == d = AnyMarks \/ \E bits \in SUBSET Bits(rs) :
                  d = [high |-> bits, low |-> {}, wide |-> IF bits = Bits(rs) THEN {} ELSE {"high"}]

\* A copy of a state has the marks of its memory.
Copied(s, t) ==
  /\ objects' = With(objects, t, objects[s])
  /\ memoryRegions' = [level \in Levels |-> With(memoryRegions[level], t, memoryRegions[level][s])]
  /\ declared' = [declared EXCEPT !.memory[t] = declared.memory[s]]
  /\ UNCHANGED <<symRegions, named>>

\* The marks of a terminated state stay at its address.
Forgotten(s) ==
  /\ objects' = [t \in Live \ {s} |-> objects[t]]
  /\ UNCHANGED <<memoryRegions, symRegions, named, declared, operations>>

MarksNext ==
  \/ Label
  \/ Counted /\ \E s \in Live, arg \in Sensitive : \E o \in objects[s] : MarkArgument(s, o, arg)
  \/ Counted /\ \E s \in Live, o \in Objects, at \in Nat : \E c \in objects[s] : LazyInit(s, c, o, at)
  \/ Counted /\ \E s \in Live, o \in Objects, rs \in Seq(RegionSet) :
       \E d \in {d \in [high : SUBSET Nat, low : SUBSET Nat, wide : SUBSET Levels] : Known(rs, d)} :
         Results(s, o, rs, d)
  \/ Counted /\ \E s \in Live, t \in Addresses \ Live : Copied(s, t)
  \/ \E s \in Live : Forgotten(s)
MarksSpec == MarksInit /\ [][MarksNext]_marks
-----------------------------------------------------------------------------
(* Properties *)

Matches(rs, d, level) ==
  /\ rs \in Seq(RegionSet)
  /\ IF level \in d.wide THEN d[level] \subseteq Bits(rs) ELSE Bits(rs) = d[level]

\* The marks of the memory of every state, and of every symbol, are what was declared
\* last: no secret is forgotten, whatever is cleared, at whatever address a state is, and
\* whatever other states declare, and nothing else is marked, unless more than a marked
\* region was cleared or a rule marks the bytes of a bit.  No region is empty or wraps.
MarksAreTheDeclarations ==
  \A o \in named, level \in Levels :
    /\ Matches(At(symRegions[level], o), declared.sym[o], level)
    /\ \A s \in Live : o \in objects[s] =>
         Matches(At(memoryRegions[level][s], o), declared.memory[s][o], level)
=============================================================================
