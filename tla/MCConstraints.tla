--------------------------- MODULE MCConstraints ---------------------------
EXTENDS Constraints

\* Two symbolic arrays of one byte; bytes of two bits.
Read1(name) == Read(SymbolicArray(name), <<>>, Const(0, Int32))
X == Read1("x")
Y == Read1("y")
ABytes == 0..3
AAssignments == [{"x", "y"} -> [{0} -> ABytes]]

\* A byte, an entry of a constant table, a constant, a difference, a bit and a constant
\* of two bytes.
Entry == Read(<<"table", <<1, 2, 1, 3>>>>, <<>>, X)
ALeaves == {X, Entry, Const(1, Int8), create("Sub", Const(1, Int8), Y),
            Extract(X, 0, Bool), Const(14, 2 * Int8)}

\* A byte that was written if the index is that of it.
Written == Read(SymbolicArray("y"), <<Update(X, Const(2, Int8))>>, Const(0, Int32))

AConditions ==
  {create("Ult", Y, X), create("Eq", X, Y), create("Eq", X, Const(2, Int8)),
   create("Eq", Const(1, Int8), create("Add", X, Y)),
   create("And", create("Ult", X, Const(3, Int8)), create("Ule", X, Y)),
   create("Or", create("Ult", Y, X), create("Eq", Y, Const(1, Int8))),
   create("Eq", Const(2, Int8), Written), create("Eq", Const(2, Int8), Y),
   create("Ult", Concat(X, Y), Const(9, 2 * Int8))}
=============================================================================
