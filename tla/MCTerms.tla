------------------------------ MODULE MCTerms -------------------------------
EXTENDS Terms

\* A symbolic array of two bytes of two bits, and words of two bytes.
X == SymbolicArray("x")
Byte0 == Read(X, <<>>, Const(0, Int32))
Byte1 == Read(X, <<>>, Const(1, Int32))
Word == Concat(Byte1, Byte0)
AAssignments == [{"x"} -> [0..1 -> 0..3]]

\* A read past an update whose value is from a table, at indices only known at run time.
Table == <<"table", <<1, 2, 1, 3>>>>
Entry == Read(Table, <<>>, ZExt(Byte0, Int32))
Written == Read(X, <<Update(ZExt(Extract(Byte1, 0, Bool), Int32), Entry)>>,
                ZExt(Extract(Byte0, 1, Bool), Int32))
Less == create("Ult", Byte0, Byte1)

AVariables == {Byte0, Written, Word, Less, Extract(Word, 1, Bool),
               Select(Less, Byte1, Entry), Node("Not", Bool, <<Less>>, <<>>),
               Node("Not", Int8, <<Entry>>, <<>>), ZExt(Less, 10)}
AConstants == {Const(n, Int32) : n \in 0..15} \cup {Const(n, Int8) : n \in 0..3}
                \cup {Const(0, Bool), Const(1, Bool), Const(714, 10)}
AConditions == {Less, create("Ult", Written, Byte1)}
ALeaves == AVariables \cup AConstants
=============================================================================
