-------------------------- MODULE MCExecutorStates --------------------------
(* Small instances of ExecutorStates for TLC. *)
EXTENDS ExecutorStates, TLC

\* every combination, except that not both features that pause states are on
AllOptions == {o \in [checked : BOOLEAN, memcap : BOOLEAN, pause : BOOLEAN,
                      merge : {"off", "on", "incomplete"}] :
                 o.merge = "off" \/ ~o.pause}

\* Init singles out Root; forked states are interchangeable.
ForkedSymmetry == Permutations(Ids \ {Root})
=============================================================================
