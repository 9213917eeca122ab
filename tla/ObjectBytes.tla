---------------------------- MODULE ObjectBytes ----------------------------
(***************************************************************************)
(* ObjectState: the contents of a memory object in a state.  A byte has up *)
(* to three copies - the concrete store, the expression last stored at its *)
(* offset, and the list of updates that accesses at symbolic offsets go    *)
(* through - and masks say which of them counts.                           *)
(***************************************************************************)
EXTENDS Expressions, SequencesExt

CONSTANTS
  Size,              \* of the object
  Stores, Loads,     \* pairs of an offset and a value, and of an offset and a width
  Assignments,       \* of the symbolic bytes
  UseConstantArrays, \* command line option
  None,
  MaxSteps           \* bound

Offsets == 0..(Size - 1)
AllBytes == 0..(2^Int8 - 1)

ASSUME ObjectBytesAssumption ==
  /\ Size \in 1..(2^Int32) /\ MaxSteps \in Nat /\ UseConstantArrays \in BOOLEAN
  /\ \A s \in Stores, a \in Assignments :
       Eval(s[1], a) + (IF s[2].width = Bool THEN 1 ELSE s[2].width \div Int8) <= Size

VARIABLES
  object,   \* the ObjectState
  contents, \* history: the bytes that were written, under each assignment
  stale,    \* history: an external function wrote a byte that the updates hold
  steps

vars == <<object, contents, stale, steps>>

-----------------------------------------------------------------------------
(* An ObjectState: concreteStore, the offsets that the masks call concrete  *)
(* and flushed, knownSymbolics, and the root and the list of its updates.   *)

Object(store, concrete, flushes, root) ==
  [store |-> store, concrete |-> concrete, flushed |-> flushes,
   known |-> [i \in Offsets |-> None], root |-> root, updates |-> <<>>]

Zeros == [i \in Offsets |-> 0]
Garbage == [i \in Offsets |-> 171 % 2^Int8]  \* 0xAB
Temporary == IF UseConstantArrays THEN None ELSE SymbolicArray("tmp_arr")

isByteConcrete(os, i) == i \in os.concrete
isByteFlushed(os, i) == i \in os.flushed
isByteKnownSymbolic(os, i) == os.known[i] # None

\* The constructors, makeSymbolic, initializeToZero and initializeToRandom.
NewObjects ==
  {Object(Zeros, Offsets, {}, Temporary), Object(Garbage, Offsets, {}, Temporary),
   Object(Zeros, {}, Offsets, SymbolicArray("arr"))}

\* getUpdates: the first read makes the writes it can into a constant array.
Constants(os) ==
  LET writes == Reverse(os.updates)
      plain(k) == IsConst(writes[k].index) /\ IsConst(writes[k].value)
  IN CHOOSE n \in 0..Len(writes) :
       /\ \A k \in 1..n : plain(k)
       /\ n < Len(writes) => ~plain(n + 1)

getUpdates(os) ==
  IF os.root # None THEN os
  ELSE LET writes == Reverse(os.updates)
           n == Constants(os)
           values == FoldLeft(LAMBDA c, u : [c EXCEPT ![Value(u.index) + 1] = Value(u.value)],
                              [i \in 1..Size |-> 0], SubSeq(writes, 1, n))
       IN [os EXCEPT !.root = <<"const_arr", values>>,
                     !.updates = Reverse(SubSeq(writes, n + 1, Len(writes)))]

\* The update that flushes a byte.
FlushOf(os, i) ==
  Update(Const(i, Int32),
         IF isByteConcrete(os, i) THEN Const(os.store[i], Int8) ELSE os.known[i])

\* The bytes in ascending order, each one in front of the updates.
Flushes(os) ==
  LET unflushed == SelectSeq([k \in 1..Size |-> k - 1], LAMBDA i : ~isByteFlushed(os, i))
  IN Reverse([k \in 1..Len(unflushed) |-> FlushOf(os, unflushed[k])]) \o os.updates

flushRangeForRead(os) == [os EXCEPT !.updates = Flushes(os), !.flushed = Offsets]

\* Mutant: a byte that was flushed before keeps its value.
flushOnlyUnflushed(os) ==
  [os EXCEPT !.updates = Flushes(os), !.flushed = Offsets,
             !.concrete = @ \cap os.flushed,
             !.known = [i \in Offsets |-> IF isByteFlushed(os, i) THEN os.known[i] ELSE None]]

flushRangeForWrite(os) ==
  [os EXCEPT !.updates = Flushes(os), !.flushed = Offsets,
             !.concrete = {}, !.known = [i \in Offsets |-> None]]

\* A read gives the expression and the object, that the read may have flushed.
read8Const(os, i) ==
  IF isByteConcrete(os, i) THEN [expr |-> Const(os.store[i], Int8), object |-> os]
  ELSE IF isByteKnownSymbolic(os, i) THEN [expr |-> os.known[i], object |-> os]
  ELSE LET os1 == getUpdates(os)
       IN [expr |-> Read(os1.root, os1.updates, Const(i, Int32)), object |-> os1]

read8Symbolic(os, off) ==
  LET os1 == getUpdates(flushRangeForRead(os))
  IN [expr |-> Read(os1.root, os1.updates, ZExt(off, Int32)), object |-> os1]

read8(os, off) == IF IsConst(off) THEN read8Const(os, Value(off)) ELSE read8Symbolic(os, off)

\* Mutant: a constant that is stored stays in the updates.
write8KeepsFlushed(os, i, v) ==
  IF IsConst(v) THEN [os EXCEPT !.store[i] = Value(v), !.known[i] = None, !.concrete = @ \cup {i}]
  ELSE [os EXCEPT !.known[i] = v, !.concrete = @ \ {i}]

write8Const(os, i, v) ==
  IF IsConst(v) THEN [os EXCEPT !.store[i] = Value(v), !.known[i] = None,
                                !.concrete = @ \cup {i}, !.flushed = @ \ {i}]
  ELSE [os EXCEPT !.known[i] = v, !.concrete = @ \ {i}, !.flushed = @ \ {i}]

write8(os, off, v) ==
  IF IsConst(off) THEN write8Const(os, Value(off), v)
  ELSE LET os1 == flushRangeForWrite(os)
       IN [os1 EXCEPT !.updates = <<Update(ZExt(off, Int32), v)>> \o @]

-----------------------------------------------------------------------------
(* Values of one bit and of several bytes, the lowest first *)

At(off, n) == create("Add", off, Const(n, Int32))

read(os, offset, w) ==
  LET off == ZExt(offset, Int32) IN
  IF w = Bool THEN LET r == read8(os, off) IN [r EXCEPT !.expr = Extract(@, 0, Bool)]
  ELSE FoldLeft(LAMBDA r, n : LET byte == read8(r.object, At(off, n))
                              IN [byte EXCEPT !.expr = Concat(@, r.expr)],
                read8(os, off), [n \in 1..(w \div Int8 - 1) |-> n])

write(os, offset, value) ==
  LET off == ZExt(offset, Int32) IN
  IF value.width = Bool THEN write8(os, off, ZExt(value, Int8))
  ELSE FoldLeft(LAMBDA o, n : write8(o, At(off, n - 1), Extract(value, (n - 1) * Int8, Int8)),
                os, [n \in 1..(value.width \div Int8) |-> n])

-----------------------------------------------------------------------------

ByteAt(os, i, a) == Eval(read8Const(os, i).expr, a)

Init ==
  /\ object \in NewObjects
  /\ contents = [a \in Assignments |-> [i \in Offsets |-> ByteAt(object, i, a)]]
  /\ stale = FALSE /\ steps = 0

\* What a store writes under an assignment.
Written(s, a) ==
  LET at == Eval(s[1], a)  n == Eval(s[2], a) IN
  [i \in at..(at + (IF s[2].width = Bool THEN 0 ELSE s[2].width \div Int8 - 1)) |->
     (n \div 2^((i - at) * Int8)) % 2^Int8]

Step == steps < MaxSteps /\ steps' = steps + 1

Store(s) ==
  /\ Step
  /\ object' = write(object, s[1], s[2])
  /\ contents' = [a \in Assignments |-> Written(s, a) @@ contents[a]]
  /\ UNCHANGED stale

Load(l) ==
  /\ Step
  /\ object' = read(object, l[1], l[2]).object
  /\ UNCHANGED <<contents, stale>>

\* Before an external call: every byte with a known expression gets a value the solver
\* picks for it, or keeps what it has when the solver fails.
Picks(i) == {Eval(object.known[i], a) : a \in Assignments}
flushToConcreteStore ==
  /\ Step
  /\ \E store \in [Offsets -> AllBytes], failed \in SUBSET Offsets :
       /\ \A i \in Offsets :
            IF isByteKnownSymbolic(object, i) /\ i \notin failed THEN store[i] \in Picks(i)
            ELSE store[i] = object.store[i]
       /\ failed \subseteq {i \in Offsets : isByteKnownSymbolic(object, i)}
       /\ object' = [object EXCEPT !.store = store]
  /\ UNCHANGED <<contents, stale>>

\* After an external call that wrote n at offset i: a symbolic byte stays what it is.
copyInConcrete(i, n) ==
  /\ Step
  /\ n # object.store[i]
  /\ object' = [object EXCEPT !.store[i] = n]
  /\ contents' = IF isByteConcrete(object, i) THEN [a \in Assignments |-> [contents[a] EXCEPT ![i] = n]]
                 ELSE contents
  /\ stale' = (stale \/ isByteFlushed(object, i))

Next ==
  \/ \E s \in Stores : Store(s)
  \/ \E l \in Loads : Load(l)
  \/ flushToConcreteStore
  \/ \E i \in Offsets, n \in AllBytes : copyInConcrete(i, n)

Spec == Init /\ [][Next]_vars

-----------------------------------------------------------------------------

\* Wherever the copies of its bytes are, an object is the array of bytes written to it,
\* by stores or by external functions, unless one of them wrote a flushed byte.
ContentsAreTheBytesWritten ==
  ~stale => \A a \in Assignments, i \in Offsets : ByteAt(object, i, a) = contents[a][i]

\* What a load at l should yield under an assignment.
Expected(l, a) ==
  LET at == Eval(l[1], a)
  IN IF l[2] = Bool THEN contents[a][at] % 2
     ELSE FoldLeft(LAMBDA n, k : n + contents[a][at + k - 1] * 2^((k - 1) * Int8),
                   0, [k \in 1..(l[2] \div Int8) |-> k])

LoadsYieldWhatWasWritten ==
  \A l \in Loads : LET e == read(object, l[1], l[2]).expr
                   IN \A a \in Assignments : Eval(e, a) = Expected(l, a)

\* A load at any offset, symbolic or not, of any width, yields the bytes written.
LoadsYieldTheBytes == ~stale => LoadsYieldWhatWasWritten
=============================================================================
