--------------------------- MODULE MCObjectBytes ---------------------------
EXTENDS ObjectBytes

\* An object of two bytes of two bits.  Inputs are a byte x, and the bytes of the array
\* that a symbolic object is made of.
X == Read(SymbolicArray("x"), <<>>, Const(0, Int32))
Bit == Extract(X, 0, Bool)
Somewhere == ZExt(Bit, Int32)
AAssignments ==
  {[n \in {"x", "arr", "tmp_arr"} |->
      IF n = "x" THEN [i \in {0} |-> x] ELSE IF n = "arr" THEN [i \in 0..1 |-> IF i = 0 THEN y ELSE 3] ELSE [i \in 0..1 |-> 2]]
   : x \in 0..3, y \in 1..2}
AStores == {<<Const(0, Int32), X>>, <<Const(1, Int32), Bit>>, <<Somewhere, Const(1, Int8)>>,
            <<Const(0, Int32), Const(6, 2 * Int8)>>, <<Somewhere, X>>}
ALoads == {<<Somewhere, Int8>>, <<Const(0, Int32), 2 * Int8>>, <<Const(1, Int32), Bool>>}
=============================================================================
