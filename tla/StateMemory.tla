---------------------------- MODULE StateMemory ----------------------------
(***************************************************************************)
(* What the execution states may rely on: each has a memory of its own.  A *)
(* fork copies the whole memory; whatever one state writes, binds or frees *)
(* afterwards, no other state sees.                                        *)
(***************************************************************************)
CONSTANTS
  States,    \* execution states, live ones and ones not created yet
  Objects,   \* memory objects
  Bytes,     \* offsets of the bytes of an object
  Values,    \* what a byte may hold, symbolic values included
  Sel(_, _), \* Sel(v, w): the value of a byte that is v or w
  Unbound    \* the object is not in the memory

VARIABLES
  live, \* the states that exist
  mem   \* the memory of each state

vars == <<live, mem>>

Contents == [Bytes -> Values]
Nothing == [m \in Objects |-> Unbound]
BoundIn(s) == {m \in Objects : mem[s][m] # Unbound}

Init ==
  /\ \E s \in States : live = {s}
  /\ mem = [s \in States |-> Nothing]

Fork(s, t) ==
  /\ live' = live \cup {t}
  /\ mem' = [mem EXCEPT ![t] = mem[s]]

Bind(s, m) ==
  /\ \E c \in Contents : mem' = [mem EXCEPT ![s][m] = c]
  /\ UNCHANGED live

Write(s, m) ==
  /\ m \in BoundIn(s)
  /\ \E b \in Bytes, v \in Values : mem' = [mem EXCEPT ![s][m][b] = v]
  /\ UNCHANGED live

Unbind(s, M) ==
  /\ mem' = [mem EXCEPT ![s] = [m \in Objects |-> IF m \in M THEN Unbound ELSE mem[s][m]]]
  /\ UNCHANGED live

\* Object m is replaced by n, which holds the same bytes.
Move(s, m, n) ==
  /\ m \in BoundIn(s)
  /\ mem' = [mem EXCEPT ![s][m] = Unbound, ![s][n] = mem[s][m]]
  /\ UNCHANGED live

\* s takes over what t may hold; t is not touched.
Merge(s, t) ==
  /\ BoundIn(s) = BoundIn(t)
  /\ mem' = [mem EXCEPT ![s] =
       [m \in Objects |-> IF m \in BoundIn(s)
                            THEN [b \in Bytes |-> Sel(mem[s][m][b], mem[t][m][b])]
                            ELSE Unbound]]
  /\ UNCHANGED live

Terminate(s) ==
  /\ live' = live \ {s}
  /\ mem' = [mem EXCEPT ![s] = Nothing]

Next ==
  \E s \in live :
    \/ \E t \in States \ live : Fork(s, t)
    \/ \E m \in Objects : Bind(s, m) \/ Write(s, m)
    \/ \E m, n \in Objects : Move(s, m, n)
    \/ \E M \in SUBSET Objects : Unbind(s, M)
    \/ \E t \in live \ {s} : Merge(s, t)
    \/ Terminate(s)

Spec == Init /\ [][Next]_vars
=============================================================================
