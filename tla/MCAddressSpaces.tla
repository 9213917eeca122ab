-------------------------- MODULE MCAddressSpaces --------------------------
EXTENDS AddressSpaces, TLC

\* Of two different values nothing is known but that it is one of them.
SelValue(v, w) == IF v = w THEN v ELSE "sym"
TwoValues == {"zero", "sym"}

\* One of the free pointers, always the same.
FirstFree(S) == IF S = {} THEN {} ELSE {CHOOSE o \in S : \A p \in S : o <= p}

Names == Permutations(States)

\* States that differ in the names of the pointers only are the same: a pointer is
\* shown as the places it is stored in and what it points to.
Shown(o) == <<{<<s, m>> \in States \X Objects : objects[s][m] = o}, heap[o]>>
Memory == <<live, cowKey, refCount, symbolics, single, aborted,
            {Shown(o) : o \in ObjectStates} \cup {},
            IF access = None THEN None
            ELSE [access EXCEPT !.todo = [i \in DOMAIN @ |-> <<@[i].object, Shown(@[i].state)>>]]>>
=============================================================================
