--------------------------- MODULE MCResourceTree ---------------------------
(* Small instances of ResourceTree for TLC. *)
EXTENDS ResourceTree

\* one option at a time, and the two that go with each other
Simple == [obs |-> FALSE, untrusted |-> FALSE, loopBound |-> FALSE]
WithObs == [Simple EXCEPT !.obs = TRUE]
WithUntrusted == [Simple EXCEPT !.untrusted = TRUE]
WithBoth == [WithObs EXCEPT !.untrusted = TRUE]
WithLoopBound == [Simple EXCEPT !.loopBound = TRUE]

EachOption == {Simple, WithObs, WithUntrusted, WithBoth, WithLoopBound}

\* Branches below both outcomes of another one, or two branches with
\* observations below; two branches and a call of an untrusted function; two
\* branches with a loop bound.
NodesFor == [o \in Options |-> IF o = WithLoopBound THEN 5
                               ELSE IF o.untrusted THEN 6 ELSE 7]

\* every action treats secret inputs alike
SecretSymmetry == Permutations(Secrets)
=============================================================================
