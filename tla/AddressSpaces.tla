--------------------------- MODULE AddressSpaces ---------------------------
(***************************************************************************)
(* The memory of execution states as the code keeps it: an address space   *)
(* is a map from memory objects to object states, which address spaces     *)
(* share after a fork and copy on write; keys tell which of them own what. *)
(* It implements StateMemory, in which every state has its own memory.     *)
(*                                                                         *)
(* A MemoryObject is named by its address, so a name comes back when the   *)
(* memory is reused; an ObjectState is named by its pointer.               *)
(***************************************************************************)
EXTENDS Integers, Sequences, FiniteSets

CONSTANTS
  States, Objects, Bytes, Values, Sel(_, _), \* see StateMemory
  Locals,       \* the objects that are allocas: isLocal
  ObjectStates, \* pointers to ObjectStates
  Malloc(_),    \* which of the free ones are handed out: any in the proofs
  Zero,         \* value of a byte of a new object
  Symbolic,     \* value of a byte of an object made symbolic
  None,
  MaxKey,       \* bound: forks along a line of states; below 2^32
  MaxSymbolics  \* bound: entries of one object in a state's symbolics

ASSUME AddressSpacesAssumption ==
  /\ {Zero, Symbolic} \subseteq Values
  /\ \A v, w \in Values : Sel(v, w) \in Values
  /\ \A v \in Values : Sel(v, v) = v
  /\ Locals \subseteq Objects
  /\ None \notin States /\ None \notin ObjectStates /\ None \notin Objects
  /\ None \notin [Bytes -> Values]
  /\ None \notin [object : Objects, copyOnWriteOwner : Nat, bytes : [Bytes -> Values]]
  /\ IsFiniteSet(ObjectStates)
  /\ \A S \in SUBSET ObjectStates : Malloc(S) \subseteq S
  /\ MaxKey \in Nat /\ MaxSymbolics \in Nat

VARIABLES
  live,      \* the execution states that exist
  objects,   \* AddressSpace::objects of each
  cowKey,    \* AddressSpace::cowKey of each
  heap,      \* the ObjectStates: the object, copyOnWriteOwner, the bytes
  refCount,  \* MemoryObject::refCount; the object exists while it is positive
  symbolics, \* of each state: how often an object is in its symbolics
  single,    \* of each state: lazyInitSingleInstances, of the one such type
  access,    \* the memory operation in progress: states and resolved pairs
  aborted    \* an assert failed

vars == <<live, objects, cowKey, heap, refCount, symbolics, single,
          access, aborted>>

Contents == [Bytes -> Values]
NoObjects == [m \in Objects |-> None]
Nowhere == [m \in Objects |-> 0]

Init ==
  /\ \E s \in States : live = {s}
  /\ objects = [s \in States |-> NoObjects]
  /\ cowKey = [s \in States |-> 1]
  /\ heap = [o \in ObjectStates |-> None]
  /\ refCount = Nowhere
  /\ symbolics = [s \in States |-> Nowhere]
  /\ single = [s \in States |-> None]
  /\ access = None
  /\ aborted = FALSE

-----------------------------------------------------------------------------
(* Object states and reference counts *)

ObjectState(m, key, c) == [object |-> m, copyOnWriteOwner |-> key, bytes |-> c]

Bound(s) == {m \in Objects : objects[s][m] # None}
Free == {o \in ObjectStates : heap[o] = None}
New == Malloc(Free)
Refs(objs) == {objs[s][m] : s \in States, m \in Objects}
Count(hp, m) == Cardinality({o \in ObjectStates : hp[o] # None /\ hp[o].object = m})

\* ~ObjectHolder: an ObjectState goes with the last map that refers to it.
Held(objs, hp) == [o \in ObjectStates |-> IF o \in Refs(objs) THEN hp[o] ELSE None]

\* The maps become objs, after ObjectStates were created in hp.  Constructor and
\* destructor of ObjectState count the references to its object, as do symbolics:
\* gained more and lost fewer entries of each object.
Rebound(objs, hp, gained, lost) ==
  /\ objects' = objs
  /\ heap' = Held(objs, hp)
  /\ refCount' = [m \in Objects |->
       refCount[m] + (Count(Held(objs, hp), m) - Count(heap, m)) + gained[m] - lost[m]]

\* Mutant: what an older key owns is taken for owned.
OwnsOlder(s, o) == heap[o].copyOnWriteOwner <= cowKey[s]

Owns(s, o) == heap[o].copyOnWriteOwner = cowKey[s]

\* getWriteable, and what is then written.
Overwrite(s, m, o, c) ==
  \/ /\ Owns(s, o)
     /\ Rebound(objects, [heap EXCEPT ![o].bytes = c], Nowhere, Nowhere)
  \/ /\ ~Owns(s, o)
     /\ \E n \in New :
          Rebound([objects EXCEPT ![s][m] = n],
                  [heap EXCEPT ![n] = ObjectState(m, cowKey[s], c)], Nowhere, Nowhere)

OverwriteByte(s, m, o) ==
  \E b \in Bytes, v \in Values : Overwrite(s, m, o, [heap[o].bytes EXCEPT ![b] = v])

\* bindObject: a new ObjectState takes the place of the one there may be.
Bind(s, m, c, gained) ==
  \E n \in New :
    Rebound([objects EXCEPT ![s][m] = n],
            [heap EXCEPT ![n] = ObjectState(m, cowKey[s], c)], gained, Nowhere)

\* unbindObject of each of them.
Unbind(s, M) ==
  Rebound([objects EXCEPT ![s] = [m \in Objects |-> IF m \in M THEN None ELSE objects[s][m]]],
          heap, Nowhere, Nowhere)

One(m) == [Nowhere EXCEPT ![m] = 1]
Unallocated == {m \in Objects : refCount[m] = 0}

-----------------------------------------------------------------------------
(* What a state does with its memory *)

Idle == access = None /\ ~aborted

\* executeAlloc, of an alloca or of heap memory.
executeAlloc(s, m) ==
  /\ Idle
  /\ m \in Unallocated
  /\ Bind(s, m, [b \in Bytes |-> Zero], Nowhere)
  /\ UNCHANGED <<live, cowKey, symbolics, single, access, aborted>>

\* executeAlloc with reallocFrom, which is unbound after its bytes were copied.
realloc(s, m, n) ==
  /\ Idle
  /\ m \in Bound(s) /\ n \in Unallocated \ Locals
  /\ \E o \in New :
       Rebound([objects EXCEPT ![s][m] = None, ![s][n] = o],
               [heap EXCEPT ![o] = ObjectState(n, cowKey[s], heap[objects[s][m]].bytes)],
               Nowhere, Nowhere)
  /\ UNCHANGED <<live, cowKey, symbolics, single, access, aborted>>

\* executeFree; the forks that resolve the address come before it, as fork.
executeFree(s, m) ==
  /\ Idle
  /\ m \in Bound(s) \ Locals
  /\ Unbind(s, {m})
  /\ UNCHANGED <<live, cowKey, symbolics, single, access, aborted>>

\* popFrame; calls are not modelled, a state has one frame with allocas.
popFrame(s) ==
  /\ Idle
  /\ Unbind(s, Locals)
  /\ UNCHANGED <<live, cowKey, symbolics, single, access, aborted>>

executeMakeSymbolic(s, m) ==
  /\ Idle
  /\ m \in Bound(s) /\ symbolics[s][m] < MaxSymbolics
  /\ Bind(s, m, [b \in Bytes |-> Symbolic], One(m))
  /\ symbolics' = [symbolics EXCEPT ![s][m] = @ + 1]
  /\ UNCHANGED <<live, cowKey, single, access, aborted>>

\* executeMemoryOperation, the address is in the bounds of one object.
write(s, m) ==
  /\ Idle
  /\ m \in Bound(s)
  /\ OverwriteByte(s, m, objects[s][m])
  /\ UNCHANGED <<live, cowKey, symbolics, single, access, aborted>>

\* Mutant: the pair that was resolved for the load.
storedInLoaded(s, x) == [object |-> x, state |-> objects[s][x]]

\* The call that stores the pointer resolves its address again.
storedIn(s, x) == [object |-> x, state |-> objects'[s][x]]

\* executeMemoryOperation when a pointer of a single-instance type is loaded from
\* x: the instance is allocated or taken from lazyInitSingleInstances, initialized,
\* and its address stored in x by a call of executeMemoryOperation, see Access.
lazyInit(s, x) ==
  /\ Idle
  /\ x \in Bound(s)
  /\ \/ \E m \in Unallocated \ Locals :
          /\ single[s] = None
          /\ \E c \in Contents : Bind(s, m, c, One(m))
          /\ symbolics' = [symbolics EXCEPT ![s][m] = @ + 1]
          /\ single' = [single EXCEPT ![s] = m]
          /\ UNCHANGED aborted
     \/ /\ single[s] \in Bound(s)
        /\ OverwriteByte(s, single[s], objects[s][single[s]])
        /\ UNCHANGED <<symbolics, single, aborted>>
     \/ /\ single[s] \in Objects \ Bound(s)
        /\ aborted' = TRUE
        /\ UNCHANGED <<objects, heap, refCount, symbolics, single>>
  /\ access' = IF aborted' THEN None
               ELSE [bound |-> s, unbound |-> None,
                     todo |-> <<storedIn(s, x)>>]
  /\ UNCHANGED <<live, cowKey>>

-----------------------------------------------------------------------------
(* States come and go *)

\* Mutants: the copy takes over the key, the original keeps its own; or the copy
\* starts with the key of an empty address space.
forkKeysSame(s, t) == [cowKey EXCEPT ![t] = cowKey[s]]
forkKeysFresh(s, t) == [cowKey EXCEPT ![s] = @ + 1, ![t] = 1]

\* AddressSpace(const AddressSpace &b): cowKey(++b.cowKey).
forkKeys(s, t) == [cowKey EXCEPT ![s] = @ + 1, ![t] = cowKey[s] + 1]

copiedSymbolics(s) == symbolics[s]

branch(s, t) ==
  /\ cowKey[s] < MaxKey
  /\ live' = live \cup {t}
  /\ cowKey' = forkKeys(s, t)
  /\ Rebound([objects EXCEPT ![t] = objects[s]], heap, copiedSymbolics(s), Nowhere)
  /\ symbolics' = [symbolics EXCEPT ![t] = symbolics[s]]
  /\ single' = [single EXCEPT ![t] = single[s]]
  /\ UNCHANGED aborted

fork(s, t) == Idle /\ branch(s, t) /\ UNCHANGED access

\* Mutant: the destructor does not give back what is symbolic.
lostSymbolicsKept(s) == Nowhere

\* ~ExecutionState: the symbolics, then the maps.
lostSymbolics(s) == symbolics[s]

terminate(s) ==
  /\ Idle
  /\ live' = live \ {s}
  /\ Rebound([objects EXCEPT ![s] = NoObjects], heap, Nowhere, lostSymbolics(s))
  /\ symbolics' = [symbolics EXCEPT ![s] = Nowhere]
  /\ single' = [single EXCEPT ![s] = None]
  /\ UNCHANGED <<cowKey, access, aborted>>

\* ExecutionState::merge of s with t.  copies: for the objects that s does not
\* own, where getWriteable puts them.
Mutated(s, t) == {m \in Objects : objects[s][m] # objects[t][m]}
Copied(s, t) == {m \in Mutated(s, t) : ~Owns(s, objects[s][m])}
Merged(s, t, m) ==
  [b \in Bytes |-> Sel(heap[objects[s][m]].bytes[b], heap[objects[t][m]].bytes[b])]

merge(s, t) ==
  /\ Idle
  /\ Bound(s) = Bound(t) /\ symbolics[s] = symbolics[t]
  /\ \E copies \in [Copied(s, t) -> Free] :
       /\ \A m, n \in Copied(s, t) : copies[m] = copies[n] => m = n
       /\ LET objs == [m \in Objects |->
                         IF m \in Copied(s, t) THEN copies[m] ELSE objects[s][m]]
              hp == [o \in ObjectStates |->
                       IF \E m \in Mutated(s, t) : objs[m] = o
                         THEN LET m == CHOOSE m \in Mutated(s, t) : objs[m] = o
                              IN ObjectState(m, cowKey[s], Merged(s, t, m))
                         ELSE heap[o]]
          IN Rebound([objects EXCEPT ![s] = objs], hp, Nowhere, Nowhere)
  /\ UNCHANGED <<live, cowKey, symbolics, single, access, aborted>>

-----------------------------------------------------------------------------
(* executeMemoryOperation when the address resolves to several objects, or not
   for certain: AddressSpace::resolve lists pairs of an object and its state, then
   the state is forked once for each of them and the access made in one half.   *)

\* The resolution lists: some of the bound objects, in the order of the map or
\* from the middle of it.
Resolutions(s) ==
  UNION {{rl \in [1 .. n -> [object : Bound(s), state : Refs(objects)]] :
            /\ \A i \in 1 .. n : rl[i].state = objects[s][rl[i].object]
            /\ \A i, j \in 1 .. n : rl[i] = rl[j] => i = j}
         : n \in 1 .. Cardinality(Bound(s))}

resolve(s) ==
  /\ Idle
  /\ \E rl \in Resolutions(s) :
       access' = [bound |-> None, unbound |-> s, todo |-> rl]
  /\ UNCHANGED <<live, objects, cowKey, heap, refCount, symbolics, single, aborted>>

Resolving == access # None /\ access.bound = None /\ access.unbound # None

\* The address may be in the object and may not: the true state is the old one.
resolveFork(t) ==
  /\ Resolving /\ access.todo # <<>>
  /\ branch(access.unbound, t)
  /\ access' = [access EXCEPT !.bound = access.unbound, !.unbound = t]

resolveOnly ==
  /\ Resolving /\ access.todo # <<>>
  /\ \/ access' = [access EXCEPT !.bound = access.unbound, !.unbound = None]
     \/ access' = [access EXCEPT !.todo = Tail(@)]
  /\ UNCHANGED <<live, objects, cowKey, heap, refCount, symbolics, single, aborted>>

\* A read or a write of the pair in the list, which was looked up before the fork.
Access ==
  /\ access # None /\ access.bound # None
  /\ LET pair == Head(access.todo) IN
       \/ OverwriteByte(access.bound, pair.object, pair.state)
       \/ UNCHANGED <<objects, heap, refCount>>
  /\ access' = IF access.unbound = None THEN None
               ELSE [access EXCEPT !.bound = None, !.todo = Tail(@)]
  /\ UNCHANGED <<live, cowKey, symbolics, single, aborted>>

\* No object is left, or maxForkMulRes is reached; unbound is terminated with an
\* error, and deleted after the instruction.
resolveEnds ==
  /\ Resolving
  /\ access' = None
  /\ UNCHANGED <<live, objects, cowKey, heap, refCount, symbolics, single, aborted>>

Next ==
  \/ \E s \in live :
       \/ \E m \in Objects : \/ executeAlloc(s, m)
                             \/ \E n \in Objects : realloc(s, m, n)
                             \/ executeFree(s, m)
                             \/ executeMakeSymbolic(s, m)
                             \/ write(s, m)
                             \/ lazyInit(s, m)
       \/ popFrame(s)
       \/ \E t \in States \ live : fork(s, t)
       \/ terminate(s)
       \/ \E t \in live \ {s} : merge(s, t)
       \/ resolve(s)
  \/ \E t \in States \ live : resolveFork(t)
  \/ resolveOnly
  \/ Access
  \/ resolveEnds

Spec == Init /\ [][Next]_vars

-----------------------------------------------------------------------------

\* AddressSpace.h: forall o in objects, o->copyOnWriteOwner <= cowKey; and every
\* pointer is to an ObjectState of that object that was not deleted.
BindingsAreSound ==
  \A s \in live : \A m \in Bound(s) :
    LET o == objects[s][m] IN
      heap[o] # None /\ heap[o].object = m /\ heap[o].copyOnWriteOwner <= cowKey[s]

\* No state owns what another one sees.
OwnedIsPrivate ==
  \A s, t \in live : s # t =>
    \A m \in Bound(s) : objects[t][m] = objects[s][m] => ~Owns(s, objects[s][m])

\* The pairs that executeMemoryOperation resolved before it forked are those of
\* the state it uses them in, forks and writes in between notwithstanding.
ResolvedPairsAreBound ==
  access # None =>
    /\ access.bound # None =>
         objects[access.bound][Head(access.todo).object] = Head(access.todo).state
    /\ access.unbound # None =>
         \A i \in DOMAIN access.todo : access.bound = None \/ i > 1 =>
           objects[access.unbound][access.todo[i].object] = access.todo[i].state

\* A MemoryObject, whose address is given back when its count is zero, exists as
\* long as a live state maps it or has it among its symbolics, and no longer.
ObjectsAreCounted ==
  \A m \in Objects :
    refCount[m] > 0 <=> \E s \in live : m \in Bound(s) \/ symbolics[s][m] > 0

-----------------------------------------------------------------------------
(* Refinement *)

memory == [s \in States |-> [m \in Objects |->
             IF objects[s][m] = None THEN None ELSE heap[objects[s][m]].bytes]]

Abstract == INSTANCE StateMemory WITH mem <- memory, Unbound <- None

\* Every state has a memory of its own: what is written, bound, freed or merged in
\* one state is the last value there and is seen in no other state.
EachStateHasItsMemory == Abstract!Spec
=============================================================================
