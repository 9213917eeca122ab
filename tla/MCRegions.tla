----------------------------- MODULE MCRegions -----------------------------
EXTENDS Regions

\* An object of two bytes and one of a byte; bytes of two bits.
ASizeInBits == [o \in Objects |-> IF o = "a" THEN 4 ELSE 2]
AAssignments ==
  {[o \in Objects |-> IF o = "a" THEN a ELSE b] : a \in [0..1 -> 0..3], b \in [{0} -> 0..3]}
AObjectType == [o \in Objects |-> IF o = "a" THEN "pair" ELSE "flag"]

\* A structure with a high byte and a low byte, one with high bits in the
\* middle, and a byte with a high bit.
ATypeRegions ==
  [high |-> [pair |-> <<region(2, 2)>>, bits |-> <<region(1, 2)>>, flag |-> <<region(0, 1)>>],
   low |-> [pair |-> <<region(0, 2)>>]]
Argument(level, type, offset, bits, pointer) ==
  [level |-> level, type |-> type, offset |-> offset, bits |-> bits, pointer |-> pointer]
ASensitive ==
  {Argument("mixed", "pair", 0, 4, TRUE), Argument("high", "bits", 0, 4, TRUE),
   Argument("high", "int", 2, 4, TRUE), Argument("low", "char", 0, 2, FALSE),
   Argument("low", "char", 2, 2, FALSE)}

A(i) == Byte("a", i)
B == Byte("b", 0)
Word == Contents("a", 2)

\* The result has the second byte of the argument, and a bit of the first.
AValues == {Word, Node("Concat", 2 * Int8, <<A(0), A(1)>>, <<>>), A(1)}
ARules == <<[from |-> region(2, 2), to |-> region(0, 2)], [from |-> region(0, 1), to |-> region(1, 1)]>>

Bit(e, i) == Node("Extract", Bool, <<e>>, <<i>>)
Extended(e, w) == Node("ZExt", w, <<e>>, <<>>)
IsZero(e) == alloc("Eq", Const(0, e.width), e)
Number(e, n) == alloc("Eq", Const(n, e.width), e)
AConditions ==
  {Number(Word, 6), Bit(A(0), 1),
   alloc("And", alloc("Ult", A(0), Const(2, Int8)), Number(B, 2)),
   IsZero(alloc("Or", Number(A(1), 1), alloc("Ult", B, A(0)))),
   Number(alloc("Shl", Word, Const(1, 2 * Int8)), 2),
   Number(Node("Extract", 2, <<alloc("And", Word, Extended(B, 2 * Int8))>>, <<1>>), 1),
   Number(Node("Read", Int8, <<Extended(Bit(B, 0), Int32)>>, <<SymbolicArray("a"), <<>>>>), 1),
   alloc("Slt", Node("Select", Int8, <<Bit(A(1), 0), B, Const(1, Int8)>>, <<>>), A(0)),
   alloc("Eq", B, alloc("And", A(1), A(0)))}
=============================================================================
