--------------------------- MODULE MCSolverChain ---------------------------
EXTENDS SolverChain

\* Array a has the bytes a1, a2, array b has b1, of one bit.  "a1" is a byte that is not
\* zero, "a1=b1" compares two bytes.
ABytes == {"a1", "a2", "b1"}
Atoms == {"a1", "a2", "b1", "a1=b1"}
AExprs == Atoms \X BOOLEAN
AArray(i) == IF i = "b1" THEN "b" ELSE "a"
AReads(e) == IF e[1] = "a1=b1" THEN {"a1", "b1"} ELSE {e[1]}
AHolds(e, a) ==
  (CASE e[1] = "a1=b1" -> a["a1"] = a["b1"] [] OTHER -> a[e[1]] = 1) = e[2]
ANeg(e) == <<e[1], ~e[2]>>
ACanonical == {<<x, TRUE>> : x \in {"a1", "a1=b1", "b1"}} \cup {<<"a2", FALSE>>}
\* The first one needs both constraints for a query on a1; the other has two factors
\* that share array a.
APaths == {{<<"b1", TRUE>>, <<"a1=b1", TRUE>>},
           {<<"a1=b1", FALSE>>, <<"a2", TRUE>>}}
Bits == {0, 1}
=============================================================================
