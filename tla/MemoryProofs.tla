---------------------------- MODULE MemoryProofs ----------------------------
(***************************************************************************)
(* For any number of states, objects and forks: an address space owns only *)
(* what no other one sees, AddressSpaces implements StateMemory, and the   *)
(* reference counts of memory objects are right.                           *)
(***************************************************************************)
EXTENDS AddressSpaces, FiniteSetTheorems, TLAPS

ObjectStateType == [object : Objects, copyOnWriteOwner : Nat, bytes : Contents]
Pair == [object : Objects, state : ObjectStates]

MemoryType ==
  /\ live \subseteq States
  /\ objects \in [States -> [Objects -> ObjectStates \cup {None}]]
  /\ cowKey \in [States -> Nat]
  /\ heap \in [ObjectStates -> ObjectStateType \cup {None}]
  /\ single \in [States -> Objects \cup {None}]

\* Terminated states hold nothing.
DeadHoldNothing == \A s \in States \ live : objects[s] = NoObjects

Sound(s, m, o) == heap[o] # None /\ heap[o].object = m /\ heap[o].copyOnWriteOwner <= cowKey[s]
AllSound == \A s \in States, m \in Objects : objects[s][m] # None => Sound(s, m, objects[s][m])
AllPrivate ==
  \A s, t \in States, m \in Objects :
    s # t /\ objects[s][m] # None /\ objects[t][m] = objects[s][m] => ~Owns(s, objects[s][m])

MemoryInv == MemoryType /\ DeadHoldNothing /\ AllSound /\ AllPrivate

\* The state objs, hp differ from objects, heap by what s did to its own memory.
OwnChange(s, objs, hp) ==
  /\ objs \in [States -> [Objects -> ObjectStates \cup {None}]]
  /\ hp \in [ObjectStates -> ObjectStateType \cup {None}]
  /\ \A t \in States : t # s => objs[t] = objects[t]
  /\ \A m \in Objects : objs[s][m] # None =>
       /\ hp[objs[s][m]] # None
       /\ hp[objs[s][m]].object = m
       /\ hp[objs[s][m]].copyOnWriteOwner <= cowKey[s]
       /\ objs[s][m] \in Free \/ objs[s][m] = objects[s][m]
  /\ \A o \in ObjectStates : hp[o] # heap[o] =>
       o \in Free \/ \E m \in Objects : objects[s][m] = o /\ Owns(s, o)

-----------------------------------------------------------------------------
(* What the destructor leaves *)

\* ObjectStates that are referred to stay, and only those.
LEMMA HeldKeeps ==
  ASSUME NEW objs \in [States -> [Objects -> ObjectStates \cup {None}]],
         NEW hp \in [ObjectStates -> ObjectStateType \cup {None}]
  PROVE  /\ Held(objs, hp) \in [ObjectStates -> ObjectStateType \cup {None}]
         /\ \A s \in States, m \in Objects : objs[s][m] # None =>
              Held(objs, hp)[objs[s][m]] = hp[objs[s][m]]
BY DEF Held, Refs

\* The same of a step that creates none.
LEMMA HeldStays ==
  ASSUME MemoryInv, NEW objs \in [States -> [Objects -> ObjectStates \cup {None}]],
         heap' = Held(objs, heap)
  PROVE  /\ heap' \in [ObjectStates -> ObjectStateType \cup {None}]
         /\ \A s \in States, m \in Objects : objs[s][m] # None =>
              heap'[objs[s][m]] = heap[objs[s][m]]
<1>1. heap \in [ObjectStates -> ObjectStateType \cup {None}]
  BY DEF MemoryInv, MemoryType
<1>2. Held(objs, heap) \in [ObjectStates -> ObjectStateType \cup {None}]
  BY <1>1, HeldKeeps
<1>3. \A s \in States, m \in Objects : objs[s][m] # None =>
        Held(objs, heap)[objs[s][m]] = heap[objs[s][m]]
  BY <1>1, HeldKeeps
<1> QED
  BY <1>2, <1>3

\* What the others refer to is neither new nor owned, so it does not change.
LEMMA OthersUntouched ==
  ASSUME MemoryInv, NEW s \in live, NEW objs, NEW hp, OwnChange(s, objs, hp),
         NEW t \in States, t # s, NEW m \in Objects, objects[t][m] # None
  PROVE  /\ objects[t][m] \in ObjectStates
         /\ hp[objects[t][m]] = heap[objects[t][m]]
         /\ objs[s][m] = objects[t][m] => objects[s][m] = objects[t][m]
<1>1. s \in States
  BY DEF MemoryInv, MemoryType
<1>2. Sound(t, m, objects[t][m]) /\ objects[t][m] \in ObjectStates
  BY DEF MemoryInv, MemoryType, AllSound
<1>3. objects[t][m] \notin Free
  BY <1>2 DEF Sound, Free
<1>4. ASSUME NEW n \in Objects, objects[s][n] = objects[t][m], Owns(s, objects[t][m])
      PROVE  FALSE
  <2>1. n = m
    BY <1>1, <1>2, <1>4 DEF MemoryInv, AllSound, Sound
  <2> QED
    BY <1>1, <1>4, <2>1 DEF MemoryInv, AllPrivate
<1> QED
  BY <1>2, <1>3, <1>4 DEF OwnChange

\* What a state does to its own memory leaves ownership in order.
LEMMA OwnChangeKeeps ==
  ASSUME MemoryInv, NEW s \in live, NEW objs, NEW hp, OwnChange(s, objs, hp),
         objects' = objs, heap' = Held(objs, hp), cowKey' = cowKey, live' = live,
         single' \in [States -> Objects \cup {None}]
  PROVE  MemoryInv'
<1>1. MemoryType'
  BY HeldKeeps DEF MemoryInv, MemoryType, OwnChange
<1>2. DeadHoldNothing'
  BY DEF MemoryInv, MemoryType, DeadHoldNothing, OwnChange, NoObjects
<1>3. \A t \in States, m \in Objects : objs[t][m] # None => heap'[objs[t][m]] = hp[objs[t][m]]
  BY HeldKeeps DEF OwnChange
<1>4. s \in States
  BY DEF MemoryInv, MemoryType
<1>6. AllSound'
  <2> SUFFICES ASSUME NEW t \in States, NEW m \in Objects, objs[t][m] # None
               PROVE  Sound(t, m, objs[t][m])'
    BY DEF AllSound
  <2>1. CASE t = s
    BY <2>1, <1>3 DEF Sound, OwnChange
  <2>2. CASE t # s
    <3>1. objs[t][m] = objects[t][m]
      BY <2>2 DEF OwnChange
    <3> QED
      BY <2>2, <3>1, <1>3, OthersUntouched DEF Sound, MemoryInv, AllSound
  <2> QED
    BY <2>1, <2>2
<1>7. AllPrivate'
  <2> SUFFICES ASSUME NEW t \in States, NEW u \in States, NEW m \in Objects,
                      t # u, objs[t][m] # None, objs[u][m] = objs[t][m]
               PROVE  ~Owns(t, objs[t][m])'
    BY DEF AllPrivate
  <2> DEFINE o == objs[t][m]
  <2>1. heap'[o] = hp[o]
    BY <1>3
  <2>2. o = objects[t][m] /\ o = objects[u][m]
    <3>1. \A v \in States \ {s} : objs[v] = objects[v]
      BY DEF OwnChange
    <3>2. ASSUME NEW v \in States \ {s}, objs[v][m] = o
          PROVE  objects[v][m] = o /\ (objs[s][m] = o => objects[s][m] = o)
      BY <3>1, <3>2, OthersUntouched
    <3> QED
      BY <3>1, <3>2
  <2>3. hp[o] = heap[o]
    <3>1. \E v \in {t, u} : v # s /\ objects[v][m] = o /\ o # None
      BY <2>2
    <3> QED
      BY <3>1, OthersUntouched
  <2>4. ~Owns(t, o)
    BY <2>2 DEF MemoryInv, AllPrivate
  <2> QED
    BY <2>1, <2>3, <2>4 DEF Owns
<1> QED
  BY <1>1, <1>2, <1>6, <1>7 DEF MemoryInv

\* And no other state sees it.
LEMMA OwnChangeIsOwn ==
  ASSUME MemoryInv, NEW s \in live, NEW objs, NEW hp, OwnChange(s, objs, hp),
         objects' = objs, heap' = Held(objs, hp)
  PROVE  memory' = [memory EXCEPT ![s] =
           [m \in Objects |-> IF objs[s][m] = None THEN None ELSE hp[objs[s][m]].bytes]]
<1>1. \A t \in States, m \in Objects : objs[t][m] # None => heap'[objs[t][m]] = hp[objs[t][m]]
  BY HeldKeeps DEF OwnChange
<1>2. s \in States
  BY DEF MemoryInv, MemoryType
<1>4. ASSUME NEW t \in States
      PROVE  memory'[t] = IF t = s
               THEN [m \in Objects |-> IF objs[s][m] = None THEN None ELSE hp[objs[s][m]].bytes]
               ELSE memory[t]
  <2>1. CASE t = s
    BY <2>1, <1>1 DEF memory
  <2>2. CASE t # s
    BY <2>2, <1>1, OthersUntouched DEF memory, OwnChange
  <2> QED
    BY <2>1, <2>2
<1> QED
  BY <1>4 DEF memory

-----------------------------------------------------------------------------
(* The operations a state performs on its memory *)

\* Nothing of the state the memory is computed from changes but the heap.
SameStates == live' = live /\ cowKey' = cowKey

\* A new ObjectState in the place of an old one.
LEMMA NewIsOwnChange ==
  ASSUME MemoryInv, NEW s \in live, NEW m \in Objects, NEW n \in New, NEW c \in Contents
  PROVE  OwnChange(s, [objects EXCEPT ![s][m] = n],
                      [heap EXCEPT ![n] = ObjectState(m, cowKey[s], c)])
<1> DEFINE objs == [objects EXCEPT ![s][m] = n]
           hp == [heap EXCEPT ![n] = ObjectState(m, cowKey[s], c)]
<1> s \in States
  BY DEF MemoryInv, MemoryType
<1>1. n \in Free
  BY AddressSpacesAssumption DEF New, Free
<1>2. n \in ObjectStates /\ heap[n] = None
  BY <1>1 DEF Free
<1>3. ObjectState(m, cowKey[s], c) \in ObjectStateType
  BY DEF ObjectState, ObjectStateType, MemoryInv, MemoryType
<1>4. ObjectState(m, cowKey[s], c) # None
  BY <1>3, AddressSpacesAssumption DEF ObjectStateType, Contents
<1>5. objs \in [States -> [Objects -> ObjectStates \cup {None}]]
  BY <1>2 DEF MemoryInv, MemoryType
<1>6. hp \in [ObjectStates -> ObjectStateType \cup {None}]
  BY <1>2, <1>3 DEF MemoryInv, MemoryType
<1>7. \A t \in States : t # s => objs[t] = objects[t]
  BY DEF MemoryInv, MemoryType
<1>8. ASSUME NEW k \in Objects, objs[s][k] # None
      PROVE  /\ hp[objs[s][k]] # None
             /\ hp[objs[s][k]].object = k
             /\ hp[objs[s][k]].copyOnWriteOwner <= cowKey[s]
             /\ objs[s][k] \in Free \/ objs[s][k] = objects[s][k]
  <2>1. CASE k = m
    BY <2>1, <1>1, <1>2, <1>4 DEF ObjectState, MemoryInv, MemoryType
  <2>2. CASE k # m
    <3>1. objs[s][k] = objects[s][k] /\ Sound(s, k, objects[s][k])
      BY <2>2, <1>8 DEF MemoryInv, MemoryType, AllSound
    <3>2. objects[s][k] # n
      BY <3>1, <1>2 DEF Sound
    <3>3. hp[objs[s][k]] = heap[objects[s][k]]
      BY <3>1, <3>2, <1>8 DEF MemoryInv, MemoryType
    <3> QED
      BY <3>1, <3>3 DEF Sound
  <2> QED
    BY <2>1, <2>2
<1>9. \A o \in ObjectStates : hp[o] # heap[o] => o \in Free
  BY <1>1 DEF MemoryInv, MemoryType
<1> HIDE DEF objs, hp
<1>10. OwnChange(s, objs, hp)
  BY <1>5, <1>6, <1>7, <1>8, <1>9 DEF OwnChange
<1> QED
  BY <1>10 DEF objs, hp

\* The ObjectState that is written belongs to the state.
LEMMA OwnedIsOwnChange ==
  ASSUME MemoryInv, NEW s \in live, NEW m \in Objects, objects[s][m] # None,
         Owns(s, objects[s][m]), NEW c \in Contents
  PROVE  OwnChange(s, objects, [heap EXCEPT ![objects[s][m]].bytes = c])
<1> DEFINE p == objects[s][m]
           hp == [heap EXCEPT ![p].bytes = c]
<1> s \in States
  BY DEF MemoryInv, MemoryType
<1>1. p \in ObjectStates /\ heap[p] \in ObjectStateType /\ Sound(s, m, p)
  BY DEF MemoryInv, MemoryType, AllSound, Sound
<1>2. hp[p] = [heap[p] EXCEPT !.bytes = c]
  BY <1>1 DEF MemoryInv, MemoryType
<1>3. /\ hp[p] \in ObjectStateType
      /\ hp[p].object = heap[p].object
      /\ hp[p].copyOnWriteOwner = heap[p].copyOnWriteOwner
      /\ hp[p].bytes = c
  BY <1>1, <1>2 DEF ObjectStateType
<1>4. hp[p] # None
  BY <1>3, AddressSpacesAssumption DEF ObjectStateType, Contents
<1>5. \A o \in ObjectStates : o # p => hp[o] = heap[o]
  BY DEF MemoryInv, MemoryType
<1>6. hp \in [ObjectStates -> ObjectStateType \cup {None}]
  BY <1>3 DEF MemoryInv, MemoryType
<1>7. ASSUME NEW k \in Objects, objects[s][k] # None
      PROVE  /\ hp[objects[s][k]] # None
             /\ hp[objects[s][k]].object = k
             /\ hp[objects[s][k]].copyOnWriteOwner <= cowKey[s]
  <2>1. Sound(s, k, objects[s][k]) /\ objects[s][k] \in ObjectStates
    BY <1>7 DEF MemoryInv, MemoryType, AllSound
  <2> QED
    BY <2>1, <1>3, <1>4, <1>5 DEF Sound
<1> HIDE DEF hp
<1>8. OwnChange(s, objects, hp)
  BY <1>5, <1>6, <1>7 DEF OwnChange, MemoryInv, MemoryType
<1> QED
  BY <1>8 DEF hp

\* bindObject: the state has a new object or new contents of one.
LEMMA BindStep ==
  ASSUME MemoryInv, NEW s \in live, NEW m \in Objects, NEW c \in Contents, NEW gained,
         Bind(s, m, c, gained), SameStates, single' \in [States -> Objects \cup {None}]
  PROVE  MemoryInv' /\ memory' = [memory EXCEPT ![s][m] = c]
<1> PICK n \in New :
       Rebound([objects EXCEPT ![s][m] = n],
               [heap EXCEPT ![n] = ObjectState(m, cowKey[s], c)], gained, Nowhere)
  BY DEF Bind
<1> DEFINE objs == [objects EXCEPT ![s][m] = n]
           hp == [heap EXCEPT ![n] = ObjectState(m, cowKey[s], c)]
<1>1. OwnChange(s, objs, hp)
  BY NewIsOwnChange
<1>2. objects' = objs /\ heap' = Held(objs, hp)
  BY DEF Rebound
<1>3. s \in States /\ n \in ObjectStates /\ heap[n] = None /\ n # None
  BY AddressSpacesAssumption DEF MemoryInv, MemoryType, New, Free
<1>4. \A k \in Objects : IF k = m THEN objs[s][k] = n ELSE objs[s][k] = objects[s][k]
  BY <1>3 DEF MemoryInv, MemoryType
<1>5. hp[n].bytes = c /\ \A o \in ObjectStates : o # n => hp[o] = heap[o]
  BY <1>3 DEF MemoryInv, MemoryType, ObjectState
<1>6. \A k \in Objects : objects[s][k] # n /\ objects[s][k] \in ObjectStates \cup {None}
  BY <1>3 DEF MemoryInv, MemoryType, AllSound, Sound
<1> HIDE DEF objs, hp
<1>7. MemoryInv'
  BY <1>1, <1>2, OwnChangeKeeps DEF SameStates
<1>8. memory' = [memory EXCEPT ![s] =
        [k \in Objects |-> IF objs[s][k] = None THEN None ELSE hp[objs[s][k]].bytes]]
  BY <1>1, <1>2, OwnChangeIsOwn
<1>9. [k \in Objects |-> IF objs[s][k] = None THEN None ELSE hp[objs[s][k]].bytes]
        = [memory[s] EXCEPT ![m] = c]
  <2>1. memory[s] = [k \in Objects |->
                       IF objects[s][k] = None THEN None ELSE heap[objects[s][k]].bytes]
    BY <1>3 DEF memory
  <2>2. \A k \in Objects : (IF objs[s][k] = None THEN None ELSE hp[objs[s][k]].bytes)
                             = IF k = m THEN c ELSE memory[s][k]
    BY <1>3, <1>4, <1>5, <1>6, <2>1
  <2> QED
    BY <2>1, <2>2
<1> QED
  BY <1>7, <1>8, <1>9

\* getWriteable and the write: the state alone sees it, at the pair's object.
LEMMA OverwriteStep ==
  ASSUME MemoryInv, NEW s \in live, NEW m \in Objects, NEW c \in Contents,
         objects[s][m] # None, Overwrite(s, m, objects[s][m], c), SameStates,
         single' \in [States -> Objects \cup {None}]
  PROVE  /\ MemoryInv'
         /\ memory' = [memory EXCEPT ![s][m] = c]
         /\ \A t \in States : t # s => objects'[t] = objects[t]
<1> s \in States
  BY DEF MemoryInv, MemoryType
<1>1. CASE ~Owns(s, objects[s][m])
  <2>1. Bind(s, m, c, Nowhere)
    BY <1>1 DEF Overwrite, Bind
  <2>2. \A t \in States : t # s => objects'[t] = objects[t]
    BY <2>1 DEF Bind, Rebound, MemoryInv, MemoryType
  <2> QED
    BY <2>1, <2>2, BindStep
<1>2. CASE Owns(s, objects[s][m])
  <2> DEFINE hp == [heap EXCEPT ![objects[s][m]].bytes = c]
  <2>1. objects' = objects /\ heap' = Held(objects, hp)
    BY <1>2 DEF Overwrite, Rebound
  <2>2. OwnChange(s, objects, hp)
    BY <1>2, OwnedIsOwnChange
  <2>3. objects[s][m] \in ObjectStates /\ heap[objects[s][m]] \in ObjectStateType
    BY DEF MemoryInv, MemoryType, AllSound, Sound
  <2>4. hp[objects[s][m]].bytes = c
    BY <2>3 DEF MemoryInv, MemoryType, ObjectStateType
  <2>5. \A k \in Objects : k # m /\ objects[s][k] # None =>
          hp[objects[s][k]].bytes = heap[objects[s][k]].bytes
    BY <2>3 DEF MemoryInv, MemoryType, AllSound, Sound
  <2> HIDE DEF hp
  <2>6. MemoryInv'
    BY <2>1, <2>2, OwnChangeKeeps DEF SameStates
  <2>7. memory' = [memory EXCEPT ![s] =
          [k \in Objects |-> IF objects[s][k] = None THEN None ELSE hp[objects[s][k]].bytes]]
    BY <2>1, <2>2, OwnChangeIsOwn
  <2>8. [k \in Objects |-> IF objects[s][k] = None THEN None ELSE hp[objects[s][k]].bytes]
          = [memory[s] EXCEPT ![m] = c]
    BY <2>4, <2>5 DEF memory
  <2> QED
    BY <2>1, <2>6, <2>7, <2>8
<1> QED
  BY <1>1, <1>2

\* unbindObject of several objects.
LEMMA UnbindStep ==
  ASSUME MemoryInv, NEW s \in live, NEW M \in SUBSET Objects, Unbind(s, M), SameStates,
         UNCHANGED single
  PROVE  /\ MemoryInv'
         /\ memory' = [memory EXCEPT ![s] =
              [m \in Objects |-> IF m \in M THEN None ELSE memory[s][m]]]
<1> DEFINE objs == [objects EXCEPT ![s] =
                     [m \in Objects |-> IF m \in M THEN None ELSE objects[s][m]]]
<1> s \in States
  BY DEF MemoryInv, MemoryType
<1>1. objects' = objs /\ heap' = Held(objs, heap)
  BY DEF Unbind, Rebound
<1>2. objs[s] = [m \in Objects |-> IF m \in M THEN None ELSE objects[s][m]]
  BY DEF MemoryInv, MemoryType
<1>3. OwnChange(s, objs, heap)
  BY <1>2 DEF OwnChange, MemoryInv, MemoryType, AllSound, Sound
<1> HIDE DEF objs
<1>4. MemoryInv'
  BY <1>1, <1>3, OwnChangeKeeps DEF SameStates, MemoryInv, MemoryType
<1>5. memory' = [memory EXCEPT ![s] =
        [m \in Objects |-> IF objs[s][m] = None THEN None ELSE heap[objs[s][m]].bytes]]
  BY <1>1, <1>3, OwnChangeIsOwn
<1> QED
  BY <1>2, <1>4, <1>5 DEF memory

\* The object moves with its bytes.
LEMMA ReallocStep ==
  ASSUME MemoryInv, NEW s \in live, NEW m \in Objects, NEW n \in Objects, realloc(s, m, n)
  PROVE  /\ MemoryInv'
         /\ objects[s][m] # None
         /\ memory' = [memory EXCEPT ![s][m] = None, ![s][n] = memory[s][m]]
<1> PICK o \in New :
      Rebound([objects EXCEPT ![s][m] = None, ![s][n] = o],
              [heap EXCEPT ![o] = ObjectState(n, cowKey[s], heap[objects[s][m]].bytes)],
              Nowhere, Nowhere)
  BY DEF realloc
<1> DEFINE c == heap[objects[s][m]].bytes
           objs == [objects EXCEPT ![s][m] = None, ![s][n] = o]
           hp == [heap EXCEPT ![o] = ObjectState(n, cowKey[s], c)]
<1>1. s \in States /\ o \in ObjectStates /\ heap[o] = None /\ o # None /\ o \in Free
  BY AddressSpacesAssumption DEF MemoryInv, MemoryType, New, Free
<1>2. objects[s][m] # None /\ SameStates /\ UNCHANGED single
  BY DEF realloc, Bound, SameStates
<1>3. c \in Contents
  BY <1>1, <1>2 DEF MemoryInv, MemoryType, AllSound, Sound, ObjectStateType
<1>4. OwnChange(s, [objects EXCEPT ![s][n] = o], hp)
  BY <1>3, NewIsOwnChange
<1>5. objs = [objects EXCEPT ![s] = [k \in Objects |->
                IF k = n THEN o ELSE IF k = m THEN None ELSE objects[s][k]]]
  BY <1>1 DEF MemoryInv, MemoryType
<1>6. \A k \in Objects : objs[s][k] = IF k = n THEN o ELSE IF k = m THEN None ELSE objects[s][k]
  BY <1>1, <1>5 DEF MemoryInv, MemoryType
<1>7. \A k \in Objects : [objects EXCEPT ![s][n] = o][s][k] = IF k = n THEN o ELSE objects[s][k]
  BY <1>1 DEF MemoryInv, MemoryType
<1>8. /\ objs \in [States -> [Objects -> ObjectStates \cup {None}]]
      /\ \A t \in States : t # s => objs[t] = objects[t]
  BY <1>1, <1>5 DEF MemoryInv, MemoryType
<1>9. objects' = objs /\ heap' = Held(objs, hp)
  BY DEF Rebound
<1>10. hp[o].bytes = c /\ \A p \in ObjectStates : p # o => hp[p] = heap[p]
  BY <1>1 DEF MemoryInv, MemoryType, ObjectState
<1>11. \A k \in Objects : objects[s][k] # o /\ objects[s][k] \in ObjectStates \cup {None}
  BY <1>1 DEF MemoryInv, MemoryType, AllSound, Sound
<1> HIDE DEF objs, hp
<1>12. OwnChange(s, objs, hp)
  BY <1>4, <1>6, <1>7, <1>8 DEF OwnChange
<1>13. MemoryInv'
  BY <1>2, <1>9, <1>12, OwnChangeKeeps DEF SameStates, MemoryInv, MemoryType
<1>14. memory' = [memory EXCEPT ![s] =
        [k \in Objects |-> IF objs[s][k] = None THEN None ELSE hp[objs[s][k]].bytes]]
  BY <1>9, <1>12, OwnChangeIsOwn
<1>15. memory[s][m] = c
  BY <1>1, <1>2 DEF memory
<1> HIDE DEF c
<1>16. [k \in Objects |-> IF objs[s][k] = None THEN None ELSE hp[objs[s][k]].bytes]
         = [memory[s] EXCEPT ![m] = None, ![n] = c]
  <2>1. memory[s] = [k \in Objects |->
          IF objects[s][k] = None THEN None ELSE heap[objects[s][k]].bytes]
    BY <1>1 DEF memory
  <2>2. [memory[s] EXCEPT ![m] = None, ![n] = c]
          = [k \in Objects |-> IF k = n THEN c ELSE IF k = m THEN None ELSE memory[s][k]]
    BY <2>1
  <2>3. ASSUME NEW k \in Objects
        PROVE  (IF objs[s][k] = None THEN None ELSE hp[objs[s][k]].bytes)
                 = IF k = n THEN c ELSE IF k = m THEN None ELSE memory[s][k]
    BY <2>1, <1>1, <1>6, <1>10, <1>11
  <2> QED
    BY <2>2, <2>3
<1>17. [memory EXCEPT ![s][m] = None, ![s][n] = c]
         = [memory EXCEPT ![s] = [memory[s] EXCEPT ![m] = None, ![n] = c]]
  BY <1>1 DEF memory
<1> QED
  BY <1>2, <1>13, <1>14, <1>15, <1>16, <1>17

\* After a fork neither state owns what it has: the key of both is a new one.
LEMMA BranchStep ==
  ASSUME MemoryInv, NEW s \in live, NEW t \in States \ live, branch(s, t)
  PROVE  /\ MemoryInv'
         /\ memory' = [memory EXCEPT ![t] = memory[s]]
         /\ objects'[t] = objects[s]
         /\ \A u \in States : u # t => objects'[u] = objects[u]
<1> PICK objs : objs = [objects EXCEPT ![t] = objects[s]]
  OBVIOUS
<1>1. s \in States /\ s # t
  BY DEF MemoryInv, MemoryType
<1>2. /\ objects' = objs /\ heap' = Held(objs, heap) /\ live' = live \cup {t}
      /\ cowKey' = [cowKey EXCEPT ![s] = @ + 1, ![t] = cowKey[s] + 1]
      /\ single' = [single EXCEPT ![t] = single[s]]
  BY DEF branch, Rebound, forkKeys
<1>3. /\ objs \in [States -> [Objects -> ObjectStates \cup {None}]]
      /\ objs[t] = objects[s]
      /\ \A u \in States : u # t => objs[u] = objects[u]
  BY <1>1 DEF MemoryInv, MemoryType
<1>4a. heap' \in [ObjectStates -> ObjectStateType \cup {None}]
  BY <1>2, <1>3, HeldStays
<1>4. \A u \in States, m \in Objects : objs[u][m] # None => heap'[objs[u][m]] = heap[objs[u][m]]
  BY <1>2, <1>3, HeldStays
<1>5. \A u \in States : cowKey'[u] = IF u \in {s, t} THEN cowKey[s] + 1 ELSE cowKey[u]
  BY <1>1, <1>2 DEF MemoryInv, MemoryType
<1>6. MemoryType'
  <2>1. /\ live' \subseteq States /\ cowKey' \in [States -> Nat]
        /\ single' \in [States -> Objects \cup {None}]
    BY <1>1, <1>2 DEF MemoryInv, MemoryType
  <2>2. objects' \in [States -> [Objects -> ObjectStates \cup {None}]]
    BY <1>2, <1>3
  <2> QED
    BY <1>4a, <2>1, <2>2 DEF MemoryType
<1>7. DeadHoldNothing'
  BY <1>2, <1>3 DEF MemoryInv, DeadHoldNothing
<1>8. \A u \in States : cowKey[u] \in Nat /\ cowKey'[u] \in Nat
  BY <1>6 DEF MemoryInv, MemoryType
<1>9. AllSound'
  <2> SUFFICES ASSUME NEW u \in States, NEW m \in Objects, objs[u][m] # None
               PROVE  Sound(u, m, objs[u][m])'
    BY <1>2 DEF AllSound
  <2> DEFINE v == IF u = t THEN s ELSE u
  <2>1. v \in States /\ objs[u][m] = objects[v][m] /\ cowKey[v] <= cowKey'[u]
    BY <1>1, <1>3, <1>5, <1>8
  <2> HIDE DEF v
  <2>2. Sound(v, m, objects[v][m]) /\ objects[v][m] \in ObjectStates
    BY <2>1 DEF MemoryInv, MemoryType, AllSound
  <2>3. heap[objects[v][m]].copyOnWriteOwner \in Nat
    BY <2>2 DEF Sound, MemoryInv, MemoryType, ObjectStateType
  <2> QED
    BY <2>1, <2>2, <2>3, <1>4, <1>8 DEF Sound
<1>10. AllPrivate'
  <2> SUFFICES ASSUME NEW u \in States, NEW v \in States, NEW m \in Objects,
                      u # v, objs[u][m] # None, objs[v][m] = objs[u][m]
               PROVE  ~Owns(u, objs[u][m])'
    BY <1>2 DEF AllPrivate
  <2> DEFINE o == objs[u][m]
  <2>1. heap'[o] = heap[o]
    BY <1>4
  <2>2. CASE u \in {s, t}
    <3>1. o = objects[s][m] /\ Sound(s, m, o) /\ o \in ObjectStates
      BY <2>2, <1>1, <1>3 DEF MemoryInv, MemoryType, AllSound
    <3>2. heap[o].copyOnWriteOwner \in Nat /\ heap[o].copyOnWriteOwner <= cowKey[s]
      BY <3>1 DEF Sound, MemoryInv, MemoryType, ObjectStateType
    <3> QED
      BY <2>1, <2>2, <3>2, <1>5, <1>8, <1>1 DEF Owns
  <2>3. CASE u \notin {s, t}
    <3>1. o = objects[u][m]
      BY <2>3, <1>3
    <3>2. \E w \in States : w # u /\ objects[w][m] = o
      BY <2>3, <1>1, <1>3
    <3>3. ~Owns(u, o)
      BY <3>1, <3>2 DEF MemoryInv, AllPrivate
    <3> QED
      BY <2>1, <2>3, <3>3, <1>5 DEF Owns
  <2> QED
    BY <2>2, <2>3
<1>11. memory' = [memory EXCEPT ![t] = memory[s]]
  <2>1. ASSUME NEW u \in States
        PROVE  memory'[u] = IF u = t THEN memory[s] ELSE memory[u]
    <3>1. memory'[u] = [m \in Objects |-> IF objs[u][m] = None THEN None ELSE heap[objs[u][m]].bytes]
      <4>1. objects' = objs
        BY <1>2
      <4> QED
        BY <4>1, <1>4 DEF memory
    <3> QED
      BY <3>1, <1>1, <1>3 DEF memory
  <2> QED
    BY <2>1 DEF memory
<1> QED
  BY <1>2, <1>3, <1>6, <1>7, <1>9, <1>10, <1>11 DEF MemoryInv

\* What a state held goes with it, the others keep what they share with it.
LEMMA TerminateStep ==
  ASSUME MemoryInv, NEW s \in live, terminate(s)
  PROVE  MemoryInv' /\ memory' = [memory EXCEPT ![s] = [m \in Objects |-> None]]
<1> PICK objs : objs = [objects EXCEPT ![s] = NoObjects]
  OBVIOUS
<1>1. s \in States
  BY DEF MemoryInv, MemoryType
<1>2. /\ objects' = objs /\ heap' = Held(objs, heap) /\ live' = live \ {s}
      /\ cowKey' = cowKey /\ single' = [single EXCEPT ![s] = None]
  BY DEF terminate, Rebound
<1>3. /\ objs \in [States -> [Objects -> ObjectStates \cup {None}]]
      /\ objs[s] = NoObjects
      /\ \A t \in States : t # s => objs[t] = objects[t]
  BY <1>1 DEF MemoryInv, MemoryType, NoObjects
<1>4a. heap' \in [ObjectStates -> ObjectStateType \cup {None}]
  BY <1>2, <1>3, HeldStays
<1>4. \A t \in States, m \in Objects : objs[t][m] # None => heap'[objs[t][m]] = heap[objs[t][m]]
  BY <1>2, <1>3, HeldStays
<1>5. MemoryType'
  <2>1. /\ live' \subseteq States /\ cowKey' \in [States -> Nat]
        /\ single' \in [States -> Objects \cup {None}]
    BY <1>2 DEF MemoryInv, MemoryType
  <2>2. objects' \in [States -> [Objects -> ObjectStates \cup {None}]]
    BY <1>2, <1>3
  <2> QED
    BY <1>4a, <2>1, <2>2 DEF MemoryType
<1>6. DeadHoldNothing'
  BY <1>2, <1>3 DEF MemoryInv, DeadHoldNothing
<1>7. AllSound' /\ AllPrivate'
  <2>1. \A t \in States, m \in Objects : objs[t][m] # None => objs[t][m] = objects[t][m]
    BY <1>3 DEF NoObjects
  <2>2. objects' = objs /\ cowKey' = cowKey
    BY <1>2
  <2>3. AllSound'
    BY <2>1, <2>2, <1>4 DEF MemoryInv, AllSound, Sound
  <2>4. AllPrivate'
    BY <2>1, <2>2, <1>4 DEF MemoryInv, AllPrivate, Owns
  <2> QED
    BY <2>3, <2>4
<1>8. ASSUME NEW t \in States
      PROVE  memory'[t] = IF t = s THEN [m \in Objects |-> None] ELSE memory[t]
  <2>1. memory'[t] = [m \in Objects |-> IF objs[t][m] = None THEN None ELSE heap[objs[t][m]].bytes]
    <3>1. objects' = objs
      BY <1>2
    <3> QED
      BY <3>1, <1>4 DEF memory
  <2> QED
    BY <2>1, <1>3 DEF memory, NoObjects
<1>9. memory' = [memory EXCEPT ![s] = [m \in Objects |-> None]]
  BY <1>8 DEF memory
<1> QED
  BY <1>5, <1>6, <1>7, <1>9 DEF MemoryInv

\* merge writes what differs, where getWriteable puts it.
LEMMA MergeStep ==
  ASSUME MemoryInv, NEW s \in live, NEW t \in live \ {s}, merge(s, t)
  PROVE  /\ MemoryInv'
         /\ Bound(s) = Bound(t)
         /\ memory' = [memory EXCEPT ![s] = [m \in Objects |->
              IF objects[s][m] = None THEN None
              ELSE [b \in Bytes |-> Sel(memory[s][m][b], memory[t][m][b])]]]
<1> DEFINE objsOf(copies) ==
             [m \in Objects |-> IF m \in Copied(s, t) THEN copies[m] ELSE objects[s][m]]
           hpOf(own) ==
             [o \in ObjectStates |->
               IF \E m \in Mutated(s, t) : own[m] = o
                 THEN LET m == CHOOSE m \in Mutated(s, t) : own[m] = o
                      IN ObjectState(m, cowKey[s], Merged(s, t, m))
                 ELSE heap[o]]
<1>1. PICK copies \in [Copied(s, t) -> Free] :
        /\ \A m, n \in Copied(s, t) : copies[m] = copies[n] => m = n
        /\ Rebound([objects EXCEPT ![s] = objsOf(copies)], hpOf(objsOf(copies)), Nowhere, Nowhere)
  BY DEF merge
<1>2. PICK own : own = objsOf(copies)
  OBVIOUS
<1>3. PICK hp : hp = hpOf(own)
  OBVIOUS
<1>4. PICK objs : objs = [objects EXCEPT ![s] = own]
  OBVIOUS
<1>5. objects' = objs /\ heap' = Held(objs, hp)
  BY <1>1, <1>2, <1>3, <1>4 DEF Rebound
<1>6. s \in States /\ t \in States /\ SameStates /\ UNCHANGED single /\ Bound(s) = Bound(t)
  BY DEF MemoryInv, MemoryType, merge, SameStates
<1>7. /\ Copied(s, t) \subseteq Mutated(s, t) /\ Mutated(s, t) \subseteq Objects
      /\ \A m \in Objects : objects[s][m] = None <=> objects[t][m] = None
  BY <1>6 DEF Copied, Mutated, Bound
<1>8. \A m \in Objects : objects[s][m] # None =>
        /\ objects[s][m] \in ObjectStates /\ objects[s][m] \notin Free
        /\ heap[objects[s][m]] \in ObjectStateType
        /\ heap[objects[s][m]].object = m
        /\ heap[objects[s][m]].copyOnWriteOwner <= cowKey[s]
  BY <1>6 DEF MemoryInv, MemoryType, AllSound, Sound, Free
<1>9. \A m \in Objects : objects[t][m] # None => heap[objects[t][m]] \in ObjectStateType
  BY <1>6 DEF MemoryInv, MemoryType, AllSound, Sound
<1>10. \A m \in Objects :
         own[m] = IF m \in Copied(s, t) THEN copies[m] ELSE objects[s][m]
  BY <1>2
<1>11. \A m \in Mutated(s, t) : objects[s][m] # None /\ objects[t][m] # None
  BY <1>7 DEF Mutated
<1>12. \A m \in Mutated(s, t) :
         /\ own[m] \in ObjectStates
         /\ \/ m \in Copied(s, t) /\ own[m] = copies[m] /\ own[m] \in Free
            \/ m \notin Copied(s, t) /\ own[m] = objects[s][m] /\ Owns(s, own[m])
  BY <1>7, <1>8, <1>10, <1>11 DEF Copied, Free
<1>13. \A m, n \in Mutated(s, t) : own[m] = own[n] => m = n
  BY <1>1, <1>7, <1>8, <1>11, <1>12
<1>14. \A m \in Mutated(s, t) :
         hp[own[m]] = ObjectState(m, cowKey[s], Merged(s, t, m))
  <2> SUFFICES ASSUME NEW m \in Mutated(s, t)
               PROVE  hp[own[m]] = ObjectState(m, cowKey[s], Merged(s, t, m))
    OBVIOUS
  <2>1. (CHOOSE n \in Mutated(s, t) : own[n] = own[m]) = m
    BY <1>13
  <2> QED
    BY <2>1, <1>3, <1>12
<1>15. \A o \in ObjectStates : (\A m \in Mutated(s, t) : own[m] # o) => hp[o] = heap[o]
  BY <1>3
<1>16. \A m \in Objects \ Mutated(s, t) :
         /\ own[m] = objects[s][m]
         /\ objects[s][m] # None => hp[objects[s][m]] = heap[objects[s][m]]
  <2> SUFFICES ASSUME NEW m \in Objects \ Mutated(s, t)
               PROVE  /\ own[m] = objects[s][m]
                      /\ objects[s][m] # None => hp[objects[s][m]] = heap[objects[s][m]]
    OBVIOUS
  <2>1. own[m] = objects[s][m]
    BY <1>7, <1>10
  <2>2. ASSUME objects[s][m] # None, NEW n \in Mutated(s, t), own[n] = objects[s][m]
        PROVE  FALSE
    BY <2>2, <1>7, <1>8, <1>11, <1>12
  <2> QED
    BY <2>1, <2>2, <1>8, <1>15
<1>17. \A m \in Mutated(s, t) : Merged(s, t, m) \in Contents
  BY <1>7, <1>8, <1>9, <1>11, AddressSpacesAssumption DEF Merged, Contents, ObjectStateType
<1>18. \A m \in Mutated(s, t) :
         /\ hp[own[m]] \in ObjectStateType /\ hp[own[m]] # None
         /\ hp[own[m]].object = m
         /\ hp[own[m]].copyOnWriteOwner = cowKey[s]
         /\ hp[own[m]].bytes = Merged(s, t, m)
  <2> SUFFICES ASSUME NEW m \in Mutated(s, t)
               PROVE  /\ hp[own[m]] \in ObjectStateType /\ hp[own[m]] # None
                      /\ hp[own[m]].object = m
                      /\ hp[own[m]].copyOnWriteOwner = cowKey[s]
                      /\ hp[own[m]].bytes = Merged(s, t, m)
    OBVIOUS
  <2> DEFINE c == Merged(s, t, m)
  <2>1. m \in Objects /\ cowKey[s] \in Nat /\ c \in Contents
    BY <1>6, <1>7, <1>17 DEF MemoryInv, MemoryType
  <2>2. hp[own[m]] = ObjectState(m, cowKey[s], c)
    BY <1>14
  <2> HIDE DEF c
  <2>3. hp[own[m]] = [object |-> m, copyOnWriteOwner |-> cowKey[s], bytes |-> c]
    BY <2>2 DEF ObjectState
  <2>4. hp[own[m]] \in ObjectStateType
    BY <2>1, <2>3 DEF ObjectStateType
  <2>5. /\ hp[own[m]].object = m
        /\ hp[own[m]].copyOnWriteOwner = cowKey[s]
        /\ hp[own[m]].bytes = c
    BY <2>3
  <2>6. hp[own[m]] # None
    BY <2>4, AddressSpacesAssumption DEF ObjectStateType, Contents
  <2> QED
    BY <2>4, <2>6, <2>5 DEF c
<1>19. OwnChange(s, objs, hp)
  <2>1. own \in [Objects -> ObjectStates \cup {None}]
    <3>1. \A m \in Objects : own[m] \in ObjectStates \cup {None}
      BY <1>8, <1>12, <1>16
    <3> QED
      BY <1>2, <3>1
  <2>2. /\ objs \in [States -> [Objects -> ObjectStates \cup {None}]]
        /\ objs[s] = own
        /\ \A u \in States : u # s => objs[u] = objects[u]
    BY <2>1, <1>4, <1>6 DEF MemoryInv, MemoryType
  <2>3. hp \in [ObjectStates -> ObjectStateType \cup {None}]
    <3>1. \A o \in ObjectStates : hp[o] \in ObjectStateType \cup {None}
      <4>1. \A o \in ObjectStates : heap[o] \in ObjectStateType \cup {None}
        BY DEF MemoryInv, MemoryType
      <4> QED
        BY <4>1, <1>15, <1>18
    <3> QED
      BY <3>1, <1>3
  <2>4. cowKey[s] \in Nat
    BY <1>6 DEF MemoryInv, MemoryType
  <2>5. \A m \in Objects : own[m] # None =>
          /\ hp[own[m]] # None
          /\ hp[own[m]].object = m
          /\ hp[own[m]].copyOnWriteOwner <= cowKey[s]
          /\ own[m] \in Free \/ own[m] = objects[s][m]
    <3> SUFFICES ASSUME NEW m \in Objects, own[m] # None
                 PROVE  /\ hp[own[m]] # None
                        /\ hp[own[m]].object = m
                        /\ hp[own[m]].copyOnWriteOwner <= cowKey[s]
                        /\ own[m] \in Free \/ own[m] = objects[s][m]
      OBVIOUS
    <3>1. CASE m \in Mutated(s, t)
      BY <3>1, <2>4, <1>12, <1>18
    <3>2. CASE m \notin Mutated(s, t)
      <4>1. heap[own[m]] # None
        BY <3>2, <1>16, <1>8 DEF Free
      <4> QED
        BY <3>2, <4>1, <1>8, <1>16
    <3> QED
      BY <3>1, <3>2
  <2>6. \A o \in ObjectStates : hp[o] # heap[o] =>
          o \in Free \/ \E m \in Objects : objects[s][m] = o /\ Owns(s, o)
    BY <1>7, <1>12, <1>15
  <2> QED
    BY <2>2, <2>3, <2>5, <2>6 DEF OwnChange
<1>20. MemoryInv'
  BY <1>5, <1>6, <1>19, OwnChangeKeeps DEF SameStates, MemoryInv, MemoryType
<1>21. memory' = [memory EXCEPT ![s] =
        [m \in Objects |-> IF objs[s][m] = None THEN None ELSE hp[objs[s][m]].bytes]]
  BY <1>5, <1>19, OwnChangeIsOwn
<1>22. ASSUME NEW m \in Objects
       PROVE  (IF objs[s][m] = None THEN None ELSE hp[objs[s][m]].bytes)
                = IF objects[s][m] = None THEN None
                  ELSE [b \in Bytes |-> Sel(memory[s][m][b], memory[t][m][b])]
  <2>1. objs[s][m] = own[m]
    BY <1>4, <1>6 DEF MemoryInv, MemoryType
  <2>2. /\ objects[s][m] # None => memory[s][m] = heap[objects[s][m]].bytes
        /\ objects[t][m] # None => memory[t][m] = heap[objects[t][m]].bytes
    BY <1>6 DEF memory
  <2>3. CASE m \in Mutated(s, t)
    <3>1. own[m] # None
      BY <2>3, <1>12, AddressSpacesAssumption
    <3>2. Merged(s, t, m) = [b \in Bytes |-> Sel(memory[s][m][b], memory[t][m][b])]
      BY <2>2, <2>3, <1>11, <1>7 DEF Merged
    <3> QED
      BY <2>1, <2>3, <3>1, <3>2, <1>11, <1>18
  <2>4. CASE m \notin Mutated(s, t) /\ objects[s][m] # None
    <3>1. objects[t][m] = objects[s][m]
      BY <2>4 DEF Mutated
    <3>2. memory[s][m] \in Contents /\ memory[t][m] = memory[s][m]
      BY <2>2, <2>4, <3>1, <1>8 DEF ObjectStateType
    <3>3. [b \in Bytes |-> Sel(memory[s][m][b], memory[t][m][b])] = memory[s][m]
      BY <3>2, AddressSpacesAssumption DEF Contents
    <3> QED
      BY <2>1, <2>2, <2>4, <3>3, <1>16
  <2>5. CASE m \notin Mutated(s, t) /\ objects[s][m] = None
    BY <2>1, <2>5, <1>16
  <2> QED
    BY <2>3, <2>4, <2>5
<1> QED
  BY <1>6, <1>20, <1>21, <1>22

-----------------------------------------------------------------------------
(* Memory operations in progress *)

PairBound(s, p) == p \in Pair /\ objects[s][p.object] # None /\ objects[s][p.object] = p.state

\* What is known of the memory operation: the pair that is accessed next is bound in
\* bound, those that are left are bound in unbound.
AccessInv ==
  access # None =>
    /\ access \in [bound : live \cup {None}, unbound : live \cup {None}, todo : Seq(Pair)]
    /\ access.bound # access.unbound
    /\ access.bound # None => access.todo # <<>> /\ PairBound(access.bound, Head(access.todo))
    /\ access.unbound # None =>
         \A i \in 1 .. Len(access.todo) : access.bound = None \/ i > 1 =>
           PairBound(access.unbound, access.todo[i])

IInv == MemoryInv /\ AccessInv

\* One state without memory.
LEMMA InitInv == Init => IInv
<1> SUFFICES ASSUME Init PROVE IInv
  OBVIOUS
<1>1. MemoryInv
  <2> USE DEF Init, NoObjects
  <2>1. MemoryType
    BY DEF MemoryType
  <2>2. DeadHoldNothing /\ AllSound /\ AllPrivate
    BY DEF DeadHoldNothing, AllSound, AllPrivate
  <2> QED
    BY <2>1, <2>2 DEF MemoryInv
<1> QED
  BY <1>1 DEF Init, AccessInv, IInv

\* A resolution list consists of pairs that are bound.
LEMMA ResolutionsAreBound ==
  ASSUME MemoryInv, NEW s \in live, NEW rl \in Resolutions(s)
  PROVE  rl \in Seq(Pair) /\ \A i \in 1 .. Len(rl) : PairBound(s, rl[i])
<1>1. s \in States
  BY DEF MemoryInv, MemoryType
<1>2. PICK n \in 1 .. Cardinality(Bound(s)) :
        /\ rl \in [1 .. n -> [object : Bound(s), state : Refs(objects)]]
        /\ \A i \in 1 .. n : rl[i].state = objects[s][rl[i].object]
  BY DEF Resolutions
<1>3. n \in Nat
  OBVIOUS
<1>4. ASSUME NEW i \in 1 .. n
      PROVE  PairBound(s, rl[i])
  <2>1. rl[i] \in [object : Bound(s), state : Refs(objects)]
    BY <1>2
  <2>2. rl[i].object \in Objects /\ objects[s][rl[i].object] # None
    BY <2>1 DEF Bound
  <2>3. rl[i].state = objects[s][rl[i].object]
    BY <1>2
  <2>4. objects[s][rl[i].object] \in ObjectStates
    BY <1>1, <2>2 DEF MemoryInv, MemoryType
  <2>5. rl[i] = [object |-> rl[i].object, state |-> rl[i].state]
    BY <2>1
  <2>6. rl[i] \in Pair
    BY <2>2, <2>3, <2>4, <2>5 DEF Pair
  <2> QED
    BY <2>2, <2>3, <2>6 DEF PairBound
<1>5. rl \in [1 .. n -> Pair]
  BY <1>2, <1>4 DEF PairBound
<1>6. rl \in Seq(Pair) /\ Len(rl) = n
  BY <1>3, <1>5
<1> QED
  BY <1>4, <1>6

\* An object is in the memory of a state if it is bound.
InMemory ==
  \A s \in States, m \in Objects : memory[s][m] = None <=> objects[s][m] = None

LEMMA MemoryBound == MemoryInv => InMemory
BY AddressSpacesAssumption
   DEF InMemory, MemoryInv, MemoryType, AllSound, Sound, memory, ObjectStateType, Contents

AbstractStep == [Abstract!Next]_<<live, memory>>

\* A byte is written by a live state.
LEMMA WriteStep ==
  ASSUME MemoryInv, NEW s \in live, NEW m \in Objects, objects[s][m] # None,
         OverwriteByte(s, m, objects[s][m]), SameStates,
         single' \in [States -> Objects \cup {None}]
  PROVE  /\ MemoryInv' /\ AbstractStep
         /\ \A t \in States : t # s => objects'[t] = objects[t]
         /\ \A k \in Objects : objects[s][k] # None => objects'[s][k] # None
<1> DEFINE o == objects[s][m]
<1>1. PICK b \in Bytes, v \in Values : Overwrite(s, m, o, [heap[o].bytes EXCEPT ![b] = v])
  BY DEF OverwriteByte
<1> DEFINE c == [heap[o].bytes EXCEPT ![b] = v]
<1>2. s \in States
  BY DEF MemoryInv, MemoryType
<1>3. heap[o].bytes \in Contents
  BY <1>2 DEF MemoryInv, MemoryType, AllSound, Sound, ObjectStateType
<1>4. c \in Contents
  BY <1>3 DEF Contents
<1>5. /\ MemoryInv'
      /\ memory' = [memory EXCEPT ![s][m] = c]
      /\ \A t \in States : t # s => objects'[t] = objects[t]
  BY <1>1, <1>4, OverwriteStep
<1>6. memory[s][m] = heap[o].bytes
  BY <1>2 DEF memory
<1>7. memory' = [memory EXCEPT ![s][m][b] = v]
  BY <1>2, <1>5, <1>6 DEF memory
<1>8. Abstract!Write(s, m)
  BY <1>7, <1>2, MemoryBound DEF Abstract!Write, Abstract!BoundIn, SameStates, InMemory
<1>9. Abstract!Next
  BY <1>8 DEF Abstract!Next
<1>10. \A k \in Objects : memory[s][k] # None => memory'[s][k] # None
  <2>1. c # None
    BY <1>4, AddressSpacesAssumption DEF Contents
  <2>2. DOMAIN memory = States /\ DOMAIN memory[s] = Objects
    BY <1>2 DEF memory
  <2>3. memory'[s] = [memory[s] EXCEPT ![m] = c]
    BY <1>2, <1>5, <2>2
  <2>4. \A k \in Objects : memory'[s][k] = IF k = m THEN c ELSE memory[s][k]
    BY <2>2, <2>3
  <2> QED
    BY <2>1, <2>4
<1>11. \A k \in Objects : memory'[s][k] = None <=> objects'[s][k] = None
  <2>1. InMemory'
    BY <1>5, MemoryBound, PTL
  <2> QED
    BY <1>2, <2>1 DEF InMemory
<1> QED
  BY <1>2, <1>5, <1>9, <1>10, <1>11, MemoryBound DEF AbstractStep, InMemory

\* A whole object is bound by a live state.
LEMMA BindingStep ==
  ASSUME MemoryInv, NEW s \in live, NEW m \in Objects, NEW c \in Contents, NEW gained,
         Bind(s, m, c, gained), SameStates, single' \in [States -> Objects \cup {None}]
  PROVE  /\ MemoryInv' /\ AbstractStep
         /\ \A k \in Objects : objects[s][k] # None => objects'[s][k] # None
<1>1. s \in States
  BY DEF MemoryInv, MemoryType
<1>2. MemoryInv' /\ memory' = [memory EXCEPT ![s][m] = c]
  BY BindStep
<1>3. Abstract!Bind(s, m)
  BY <1>2 DEF Abstract!Bind, SameStates, Contents, Abstract!Contents
<1>4. Abstract!Next
  BY <1>3 DEF Abstract!Next
<1>5. \A k \in Objects : memory[s][k] # None => memory'[s][k] # None
  <2>1. c # None
    BY AddressSpacesAssumption DEF Contents
  <2>2. \A k \in Objects : memory'[s][k] = IF k = m THEN c ELSE memory[s][k]
    BY <1>1, <1>2 DEF memory
  <2> QED
    BY <2>1, <2>2
<1>6. \A k \in Objects : memory'[s][k] = None <=> objects'[s][k] = None
  <2>1. InMemory'
    BY <1>2, MemoryBound, PTL
  <2> QED
    BY <1>1, <2>1 DEF InMemory
<1> QED
  BY <1>1, <1>2, <1>4, <1>5, <1>6, MemoryBound DEF AbstractStep, InMemory

\* What a state does between memory operations.
LEMMA IdleStep ==
  ASSUME IInv, NEW s \in live,
         \/ \E m \in Objects : \/ executeAlloc(s, m)
                              \/ \E n \in Objects : realloc(s, m, n)
                              \/ executeFree(s, m)
                              \/ executeMakeSymbolic(s, m)
                              \/ write(s, m)
         \/ popFrame(s)
         \/ \E t \in States \ live : fork(s, t)
         \/ terminate(s)
         \/ \E t \in live \ {s} : merge(s, t)
  PROVE  IInv' /\ AbstractStep
<1> MemoryInv
  BY DEF IInv
<1>1. s \in States /\ Locals \subseteq Objects /\ {Zero, Symbolic} \subseteq Values
      /\ single \in [States -> Objects \cup {None}]
  BY AddressSpacesAssumption DEF MemoryInv, MemoryType
<1>2. access' = None
  BY DEF executeAlloc, realloc, executeFree, executeMakeSymbolic, write, popFrame, fork,
         terminate, merge, Idle
<1>3. AccessInv'
  BY <1>2 DEF AccessInv
<1>4. ASSUME NEW m \in Objects, executeAlloc(s, m) \/ executeMakeSymbolic(s, m)
      PROVE  MemoryInv' /\ AbstractStep
  <2>1. \A v \in Values : [b \in Bytes |-> v] \in Contents
    BY DEF Contents
  <2>2. SameStates /\ UNCHANGED single
    BY <1>4 DEF executeAlloc, executeMakeSymbolic, SameStates
  <2>3. PICK c, gained : c \in Contents /\ Bind(s, m, c, gained)
    BY <1>1, <1>4, <2>1 DEF executeAlloc, executeMakeSymbolic
  <2> QED
    BY <1>1, <2>2, <2>3, BindingStep
<1>5. ASSUME NEW m \in Objects, NEW n \in Objects, realloc(s, m, n)
      PROVE  MemoryInv' /\ AbstractStep
  <2>1. /\ MemoryInv' /\ objects[s][m] # None
        /\ memory' = [memory EXCEPT ![s][m] = None, ![s][n] = memory[s][m]]
    BY <1>5, ReallocStep
  <2>2. Abstract!Move(s, m, n)
    BY <1>1, <1>5, <2>1, MemoryBound DEF Abstract!Move, Abstract!BoundIn, InMemory, realloc
  <2> QED
    BY <2>1, <2>2 DEF Abstract!Next, AbstractStep
<1>6. ASSUME NEW M \in SUBSET Objects, Unbind(s, M), SameStates, UNCHANGED single
      PROVE  MemoryInv' /\ AbstractStep
  <2>1. /\ MemoryInv'
        /\ memory' = [memory EXCEPT ![s] =
             [m \in Objects |-> IF m \in M THEN None ELSE memory[s][m]]]
    BY <1>6, UnbindStep
  <2>2. Abstract!Unbind(s, M)
    BY <1>6, <2>1 DEF Abstract!Unbind, SameStates
  <2> QED
    BY <2>1, <2>2 DEF Abstract!Next, AbstractStep
<1>7. ASSUME NEW m \in Objects, executeFree(s, m)
      PROVE  MemoryInv' /\ AbstractStep
  BY <1>6, <1>7 DEF executeFree, SameStates
<1>8. ASSUME popFrame(s)
      PROVE  MemoryInv' /\ AbstractStep
  BY <1>1, <1>6, <1>8 DEF popFrame, SameStates
<1>9. ASSUME NEW m \in Objects, write(s, m)
      PROVE  MemoryInv' /\ AbstractStep
  <2>1. objects[s][m] # None /\ OverwriteByte(s, m, objects[s][m]) /\ SameStates
        /\ UNCHANGED single
    BY <1>9 DEF write, Bound, SameStates
  <2> QED
    BY <1>1, <2>1, WriteStep
<1>10. ASSUME NEW t \in States \ live, fork(s, t)
       PROVE  MemoryInv' /\ AbstractStep
  <2>1. branch(s, t)
    BY <1>10 DEF fork
  <2>2. MemoryInv' /\ memory' = [memory EXCEPT ![t] = memory[s]]
    BY <2>1, BranchStep
  <2>3. Abstract!Fork(s, t)
    BY <2>1, <2>2 DEF Abstract!Fork, branch
  <2> QED
    BY <2>2, <2>3 DEF Abstract!Next, AbstractStep
<1>11. ASSUME terminate(s)
       PROVE  MemoryInv' /\ AbstractStep
  <2>1. MemoryInv' /\ memory' = [memory EXCEPT ![s] = [m \in Objects |-> None]]
    BY <1>11, TerminateStep
  <2>2. Abstract!Terminate(s)
    BY <1>11, <2>1 DEF Abstract!Terminate, Abstract!Nothing, terminate
  <2> QED
    BY <2>1, <2>2 DEF Abstract!Next, AbstractStep
<1>12. ASSUME NEW t \in live \ {s}, merge(s, t)
       PROVE  MemoryInv' /\ AbstractStep
  <2>1. /\ MemoryInv'
        /\ Bound(s) = Bound(t)
        /\ memory' = [memory EXCEPT ![s] = [m \in Objects |->
             IF objects[s][m] = None THEN None
             ELSE [b \in Bytes |-> Sel(memory[s][m][b], memory[t][m][b])]]]
    BY <1>12, MergeStep
  <2>2. t \in States
    BY DEF MemoryInv, MemoryType
  <2>3. \A m \in Objects :
          /\ m \in Abstract!BoundIn(s) <=> objects[s][m] # None
          /\ m \in Abstract!BoundIn(t) <=> objects[t][m] # None
    BY <1>1, <2>2, MemoryBound DEF InMemory, Abstract!BoundIn
  <2>4. Abstract!BoundIn(s) = Abstract!BoundIn(t)
    BY <2>1, <2>3 DEF Bound, Abstract!BoundIn
  <2>5. memory' = [memory EXCEPT ![s] = [m \in Objects |->
          IF m \in Abstract!BoundIn(s)
            THEN [b \in Bytes |-> Sel(memory[s][m][b], memory[t][m][b])] ELSE None]]
    BY <2>1, <2>3
  <2>6. Abstract!Merge(s, t)
    BY <1>12, <2>4, <2>5 DEF Abstract!Merge, merge
  <2> QED
    BY <2>1, <2>6 DEF Abstract!Next, AbstractStep
<1> QED
  BY <1>3, <1>4, <1>5, <1>7, <1>8, <1>9, <1>10, <1>11, <1>12 DEF IInv

\* The instance is bound, or written; then the container of the pointer is.
LEMMA LazyInitStep ==
  ASSUME IInv, NEW s \in live, NEW x \in Objects, lazyInit(s, x)
  PROVE  IInv' /\ AbstractStep
<1> MemoryInv
  BY DEF IInv
<1>1. s \in States /\ s # None /\ SameStates /\ objects[s][x] # None
      /\ single \in [States -> Objects \cup {None}]
  BY AddressSpacesAssumption DEF MemoryInv, MemoryType, lazyInit, SameStates, Bound
<1>2. CASE aborted'
  <2>1. objects' = objects /\ heap' = heap /\ single' = single /\ access' = None
    BY <1>2 DEF lazyInit, Idle
  <2>2. MemoryInv' /\ memory' = memory
    BY <1>1, <2>1 DEF MemoryInv, MemoryType, DeadHoldNothing, AllSound, AllPrivate, Sound,
       Owns, SameStates, memory
  <2> QED
    BY <1>1, <2>1, <2>2 DEF AbstractStep, IInv, AccessInv, SameStates
<1>3. CASE ~aborted'
  <2>1. /\ MemoryInv' /\ AbstractStep
        /\ \A k \in Objects : objects[s][k] # None => objects'[s][k] # None
    <3>1. ASSUME NEW m \in Objects, NEW c \in Contents, Bind(s, m, c, One(m)),
                 single' = [single EXCEPT ![s] = m]
          PROVE  /\ MemoryInv' /\ AbstractStep
                 /\ \A k \in Objects : objects[s][k] # None => objects'[s][k] # None
      <4>1. single' \in [States -> Objects \cup {None}]
        BY <1>1, <3>1
      <4> QED
        BY <1>1, <3>1, <4>1, BindingStep
    <3>2. ASSUME single[s] \in Bound(s), OverwriteByte(s, single[s], objects[s][single[s]]),
                 single' = single
          PROVE  /\ MemoryInv' /\ AbstractStep
                 /\ \A k \in Objects : objects[s][k] # None => objects'[s][k] # None
      <4>1. single[s] \in Objects /\ objects[s][single[s]] # None
        BY <3>2 DEF Bound
      <4> QED
        BY <1>1, <3>2, <4>1, WriteStep
    <3>3. \/ \E m \in Objects, c \in Contents :
                Bind(s, m, c, One(m)) /\ single' = [single EXCEPT ![s] = m]
          \/ /\ single[s] \in Bound(s) /\ OverwriteByte(s, single[s], objects[s][single[s]])
             /\ single' = single
      BY <1>3 DEF lazyInit, Unallocated
    <3> QED
      BY <3>1, <3>2, <3>3
  <2>2. access' = [bound |-> s, unbound |-> None, todo |-> <<storedIn(s, x)>>]
    BY <1>3 DEF lazyInit
  <2>3. objects'[s][x] # None /\ objects'[s][x] \in ObjectStates
    BY <1>1, <2>1 DEF MemoryInv, MemoryType
  <2>4. storedIn(s, x) = [object |-> x, state |-> objects'[s][x]]
    BY DEF storedIn
  <2>5. PICK p : p = storedIn(s, x)
    OBVIOUS
  <2>6. p \in Pair /\ p.object = x /\ p.state = objects'[s][x]
    BY <2>3, <2>4, <2>5 DEF Pair
  <2>7. PairBound(s, p)'
    BY <2>3, <2>6 DEF PairBound
  <2>8. access' = [bound |-> s, unbound |-> None, todo |-> <<p>>]
    BY <2>2, <2>5
  <2>9. <<p>> \in Seq(Pair) /\ Head(<<p>>) = p /\ <<p>> # <<>>
    BY <2>6
  <2>10. AccessInv'
    BY <1>1, <2>7, <2>8, <2>9 DEF AccessInv, SameStates
  <2> QED
    BY <2>1, <2>10 DEF IInv
<1> QED
  BY <1>2, <1>3

\* The steps of a memory operation that do not access memory.
LEMMA ResolveStep ==
  ASSUME IInv, (\E s \in live : resolve(s)) \/ resolveOnly \/ resolveEnds
  PROVE  IInv' /\ AbstractStep
<1> MemoryInv
  BY DEF IInv
<1>1. UNCHANGED <<live, objects, cowKey, heap, single>>
  BY DEF resolve, resolveOnly, resolveEnds
<1>2. MemoryInv' /\ AbstractStep
  BY <1>1 DEF MemoryInv, MemoryType, DeadHoldNothing, AllSound, AllPrivate, Sound, Owns,
     AbstractStep, memory
<1>3. \A s, p : PairBound(s, p)' <=> PairBound(s, p)
  BY <1>1 DEF PairBound
<1>4. None \notin live
  BY AddressSpacesAssumption DEF MemoryInv, MemoryType
<1>5. ASSUME NEW s \in live, resolve(s)
      PROVE  AccessInv'
  <2>1. PICK rl \in Resolutions(s) : access' = [bound |-> None, unbound |-> s, todo |-> rl]
    BY <1>5 DEF resolve
  <2>2. rl \in Seq(Pair) /\ \A i \in 1 .. Len(rl) : PairBound(s, rl[i])
    BY ResolutionsAreBound
  <2> QED
    BY <1>1, <1>3, <1>4, <2>1, <2>2 DEF AccessInv
<1>6. ASSUME resolveOnly
      PROVE  AccessInv'
  <2> DEFINE u == access.unbound
             rl == access.todo
  <2>1. /\ access \in [bound : live \cup {None}, unbound : live \cup {None}, todo : Seq(Pair)]
        /\ access.bound = None /\ u # None /\ rl # <<>>
        /\ \A i \in 1 .. Len(rl) : PairBound(u, rl[i])
    BY <1>6 DEF IInv, AccessInv, resolveOnly, Resolving
  <2>2. rl \in Seq(Pair) /\ u \in live
    BY <2>1
  <2>3. 1 \in 1 .. Len(rl) /\ Head(rl) = rl[1]
    BY <2>1, <2>2
  <2>4. CASE access' = [access EXCEPT !.bound = u, !.unbound = None]
    <3>1. access' = [bound |-> u, unbound |-> None, todo |-> rl]
      BY <2>1, <2>4
    <3> QED
      BY <1>1, <1>3, <2>1, <2>2, <2>3, <3>1 DEF AccessInv
  <2>5. CASE access' = [access EXCEPT !.todo = Tail(@)]
    <3>1. access' = [bound |-> None, unbound |-> u, todo |-> Tail(rl)]
      BY <2>1, <2>5
    <3>2. /\ Tail(rl) \in Seq(Pair) /\ Len(Tail(rl)) = Len(rl) - 1
          /\ \A i \in 1 .. Len(Tail(rl)) : Tail(rl)[i] = rl[i + 1]
      BY <2>1, <2>2
    <3>3. \A i \in 1 .. Len(Tail(rl)) : PairBound(u, Tail(rl)[i])
      BY <2>1, <2>2, <3>2
    <3> QED
      BY <1>1, <1>3, <2>1, <2>2, <3>1, <3>2, <3>3 DEF AccessInv
  <2> QED
    BY <1>6, <2>4, <2>5 DEF resolveOnly
<1>7. ASSUME resolveEnds
      PROVE  AccessInv'
  BY <1>7 DEF resolveEnds, AccessInv
<1> QED
  BY <1>2, <1>5, <1>6, <1>7 DEF IInv

\* The list stays valid in both halves of a fork: they share what it refers to.
LEMMA ResolveForkStep ==
  ASSUME IInv, NEW t \in States \ live, resolveFork(t)
  PROVE  IInv' /\ AbstractStep
<1> PICK s, rl : s = access.unbound /\ rl = access.todo
  OBVIOUS
<1> MemoryInv
  BY DEF IInv
<1>1. /\ access \in [bound : live \cup {None}, unbound : live \cup {None}, todo : Seq(Pair)]
      /\ access.bound = None /\ s # None /\ rl # <<>>
      /\ \A i \in 1 .. Len(rl) : PairBound(s, rl[i])
  BY DEF IInv, AccessInv, resolveFork, Resolving
<1>2. s \in live /\ s \in States /\ s # t /\ t # None /\ rl \in Seq(Pair)
  BY <1>1, AddressSpacesAssumption DEF MemoryInv, MemoryType
<1>3. branch(s, t) /\ live' = live \cup {t}
  BY DEF resolveFork, branch
<1>4. /\ MemoryInv' /\ memory' = [memory EXCEPT ![t] = memory[s]]
      /\ objects'[t] = objects[s] /\ objects'[s] = objects[s]
  BY <1>2, <1>3, BranchStep
<1>5. Abstract!Fork(s, t)
  BY <1>3, <1>4 DEF Abstract!Fork
<1>6. AbstractStep
  BY <1>2, <1>5 DEF Abstract!Next, AbstractStep
<1>7. access' = [bound |-> s, unbound |-> t, todo |-> rl]
  BY <1>1 DEF resolveFork
<1>8. \A i \in 1 .. Len(rl) : PairBound(s, rl[i])' /\ PairBound(t, rl[i])'
  <2>1. ASSUME NEW q, PairBound(s, q)
        PROVE  PairBound(s, q)' /\ PairBound(t, q)'
    BY <2>1, <1>4 DEF PairBound
  <2>2. \A q : PairBound(s, q) => PairBound(s, q)' /\ PairBound(t, q)'
    BY <2>1
  <2> QED
    BY <1>1, <2>2
<1>9. 1 \in 1 .. Len(rl) /\ Head(rl) = rl[1]
  BY <1>1, <1>2
<1>10. AccessInv'
  BY <1>1, <1>2, <1>3, <1>7, <1>8, <1>9 DEF AccessInv
<1> QED
  BY <1>4, <1>6, <1>10 DEF IInv

\* The access is to the pair of the state that makes it.
LEMMA AccessStep ==
  ASSUME IInv, Access
  PROVE  IInv' /\ AbstractStep
<1> PICK s, u, rl, p : s = access.bound /\ u = access.unbound /\ rl = access.todo /\ p = Head(rl)
  OBVIOUS
<1> MemoryInv
  BY DEF IInv
<1>1. /\ access \in [bound : live \cup {None}, unbound : live \cup {None}, todo : Seq(Pair)]
      /\ s # None /\ s # u /\ rl # <<>> /\ PairBound(s, p)
      /\ u # None => \A i \in 1 .. Len(rl) : i > 1 => PairBound(u, rl[i])
  BY DEF IInv, AccessInv, Access
<1>2. s \in live /\ rl \in Seq(Pair) /\ u \in live \cup {None} /\ SameStates /\ UNCHANGED single
      /\ single \in [States -> Objects \cup {None}] /\ live \subseteq States
  BY <1>1 DEF Access, SameStates, MemoryInv, MemoryType
<1>3. /\ MemoryInv' /\ AbstractStep
      /\ \A t \in States : t # s => objects'[t] = objects[t]
  <2>1. CASE OverwriteByte(s, p.object, p.state)
    <3>1. p.object \in Objects /\ objects[s][p.object] # None /\ p.state = objects[s][p.object]
      BY <1>1 DEF PairBound, Pair
    <3> QED
      BY <1>2, <2>1, <3>1, WriteStep
  <2>2. CASE UNCHANGED <<objects, heap, refCount>>
    BY <1>2, <2>2 DEF MemoryInv, MemoryType, DeadHoldNothing, AllSound, AllPrivate, Sound, Owns,
       AbstractStep, memory, SameStates
  <2> QED
    BY <2>1, <2>2 DEF Access
<1>4. CASE u = None
  <2>1. access' = None
    BY <1>4 DEF Access
  <2> QED
    BY <1>3, <2>1 DEF IInv, AccessInv
<1>5. CASE u # None
  <2>1. access' = [bound |-> None, unbound |-> u, todo |-> Tail(rl)]
    BY <1>1, <1>5 DEF Access
  <2>2. /\ Tail(rl) \in Seq(Pair) /\ Len(Tail(rl)) = Len(rl) - 1 /\ Len(rl) \in Nat
        /\ \A i \in 1 .. Len(Tail(rl)) : Tail(rl)[i] = rl[i + 1]
    BY <1>1, <1>2
  <2>3. \A q : PairBound(u, q) => PairBound(u, q)'
    <3>1. objects'[u] = objects[u]
      BY <1>1, <1>2, <1>3, <1>5
    <3> QED
      BY <3>1 DEF PairBound
  <2>4. \A i \in 1 .. Len(Tail(rl)) : PairBound(u, Tail(rl)[i])'
    <3> SUFFICES ASSUME NEW i \in 1 .. Len(Tail(rl)) PROVE PairBound(u, Tail(rl)[i])'
      OBVIOUS
    <3>1. i + 1 \in 1 .. Len(rl) /\ i + 1 > 1 /\ Tail(rl)[i] = rl[i + 1]
      BY <2>2
    <3>2. PairBound(u, rl[i + 1])
      BY <3>1, <1>1, <1>5
    <3>3. PairBound(u, Tail(rl)[i])
      BY <3>1, <3>2
    <3> QED
      BY <2>3, <3>3
  <2>5. live' = live
    BY <1>2 DEF SameStates
  <2>6. AccessInv'
    BY <1>2, <1>5, <2>1, <2>2, <2>4, <2>5 DEF AccessInv
  <2> QED
    BY <1>3, <2>6 DEF IInv
<1> QED
  BY <1>4, <1>5

\* Every step keeps the invariant, and is a step of StateMemory or changes no memory.
LEMMA NextStep == IInv /\ [Next]_vars => IInv' /\ AbstractStep
<1> SUFFICES ASSUME IInv, [Next]_vars PROVE IInv' /\ AbstractStep
  OBVIOUS
<1>1. CASE UNCHANGED vars
  BY <1>1 DEF vars, IInv, MemoryInv, MemoryType, DeadHoldNothing, AllSound, AllPrivate, Sound,
     Owns, AccessInv, PairBound, AbstractStep, memory
<1>2. CASE Next
  BY <1>2, IdleStep, LazyInitStep, ResolveStep, ResolveForkStep, AccessStep DEF Next
<1> QED
  BY <1>1, <1>2

\* The invariant the theorems follow from.
THEOREM Invariance == Spec => []IInv
<1>1. Init => IInv
  BY InitInv
<1>2. IInv /\ [Next]_vars => IInv'
  BY NextStep
<1> QED
  BY <1>1, <1>2, PTL DEF Spec

\* AddressSpace.h's invariant on the keys; every pointer in a map is to an ObjectState
\* of its object that was not deleted.
THEOREM BindingsStaySound == Spec => []BindingsAreSound
<1>1. IInv => BindingsAreSound
  BY DEF IInv, MemoryInv, MemoryType, AllSound, Sound, BindingsAreSound, Bound
<1> QED
  BY <1>1, Invariance, PTL

\* getWriteable never hands out an ObjectState that another state sees.
THEOREM OwnedStaysPrivate == Spec => []OwnedIsPrivate
<1>1. IInv => OwnedIsPrivate
  BY DEF IInv, MemoryInv, MemoryType, AllPrivate, OwnedIsPrivate, Bound
<1> QED
  BY <1>1, Invariance, PTL

\* A pair that executeMemoryOperation resolved is still bound when it is accessed.
THEOREM PairsStayBound == Spec => []ResolvedPairsAreBound
<1>1. IInv => ResolvedPairsAreBound
  <2> SUFFICES ASSUME IInv, access # None
               PROVE  /\ access.bound # None =>
                           objects[access.bound][Head(access.todo).object] = Head(access.todo).state
                      /\ access.unbound # None =>
                           \A i \in DOMAIN access.todo : access.bound = None \/ i > 1 =>
                             objects[access.unbound][access.todo[i].object] = access.todo[i].state
    BY DEF ResolvedPairsAreBound
  <2>1. access.todo \in Seq(Pair)
    BY DEF IInv, AccessInv
  <2>2. DOMAIN access.todo = 1 .. Len(access.todo)
    BY <2>1
  <2> QED
    BY <2>2 DEF IInv, AccessInv, PairBound
<1> QED
  BY <1>1, Invariance, PTL

\* Copy on write is not seen: the address spaces implement a memory for each state.
THEOREM StatesHaveTheirMemory == Spec => EachStateHasItsMemory
<1>1. Init => Abstract!Init
  BY DEF Init, NoObjects, Abstract!Init, Abstract!Nothing, memory
<1>2. IInv /\ [Next]_vars => [Abstract!Next]_Abstract!vars
  BY NextStep DEF AbstractStep, Abstract!vars
<1> QED
  BY <1>1, <1>2, Invariance, PTL DEF Spec, EachStateHasItsMemory, Abstract!Spec

-----------------------------------------------------------------------------
(* Reference counts.  The sum of the entries in symbolics is the cardinality of
   the set of these entries.                                                 *)

\* Entries numbered by state, for f the number of entries of each.
Entries(f) == {p \in States \X Nat : 1 <= p[2] /\ p[2] <= f[p[1]]}
SymbolicsOf(m) == [s \in States |-> symbolics[s][m]]

RefCountType ==
  /\ symbolics \in [States -> [Objects -> Nat]]
  /\ refCount \in [Objects -> Int]
SymbolicsOfLive == \A s \in States \ live : symbolics[s] = Nowhere
NoneLeaked == \A o \in ObjectStates : heap[o] # None => o \in Refs(objects)
FewSymbolics == \A m \in Objects : IsFiniteSet(Entries(SymbolicsOf(m)))
RefsCounted ==
  \A m \in Objects : refCount[m] = Count(heap, m) + Cardinality(Entries(SymbolicsOf(m)))

CountInv == RefCountType /\ SymbolicsOfLive /\ NoneLeaked /\ FewSymbolics /\ RefsCounted

LEMMA DisjointUnion ==
  ASSUME NEW S, NEW T, IsFiniteSet(S), IsFiniteSet(T), S \cap T = {}
  PROVE  IsFiniteSet(S \cup T) /\ Cardinality(S \cup T) = Cardinality(S) + Cardinality(T)
<1>1. Cardinality(S) \in Nat /\ Cardinality(T) \in Nat /\ Cardinality({}) = 0
  BY FS_CardinalityType, FS_EmptySet
<1>2. /\ IsFiniteSet(S \cup T)
      /\ Cardinality(S \cup T) = Cardinality(S) + Cardinality(T) - Cardinality(S \cap T)
  BY FS_Union
<1>3. Cardinality(S \cap T) = 0
  BY <1>1
<1>4. QED  BY <1>1, <1>2, <1>3

\* The entries change where the numbers do.
LEMMA EntriesChange ==
  ASSUME NEW f \in [States -> Nat], NEW g \in [States -> Nat], NEW t \in States,
         \A s \in States \ {t} : g[s] = f[s], IsFiniteSet(Entries(f))
  PROVE  /\ IsFiniteSet(Entries(g))
         /\ Cardinality(Entries(g)) = Cardinality(Entries(f)) + g[t] - f[t]
<1> DEFINE Rest == {p \in Entries(f) : p[1] # t}
           Of(h) == {t} \X (1 .. h[t])
<1>1. ASSUME NEW h \in [States -> Nat]
      PROVE  IsFiniteSet(Of(h)) /\ Cardinality(Of(h)) = h[t]
  <2>1. IsFiniteSet({t}) /\ Cardinality({t}) = 1
    BY FS_Singleton
  <2>2. h[t] \in Nat
    OBVIOUS
  <2>3. IsFiniteSet(1 .. h[t]) /\ Cardinality(1 .. h[t]) = h[t]
    BY <2>2, FS_Interval
  <2>4. IsFiniteSet({t} \X (1 .. h[t])) /\ Cardinality({t} \X (1 .. h[t])) = 1 * h[t]
    BY <2>1, <2>3, FS_Product
  <2>5. 1 * h[t] = h[t]
    BY <2>2
  <2>6. QED  BY <2>4, <2>5
<1>2. IsFiniteSet(Rest)
  BY FS_Subset
<1>3. Entries(f) = Rest \cup Of(f) /\ Entries(g) = Rest \cup Of(g)
  BY DEF Entries
<1>4. Rest \cap Of(f) = {} /\ Rest \cap Of(g) = {}
  OBVIOUS
<1>5. IsFiniteSet(Of(f)) /\ Cardinality(Of(f)) = f[t] /\ IsFiniteSet(Of(g)) /\ Cardinality(Of(g)) = g[t]
  BY <1>1
<1>6. /\ IsFiniteSet(Rest \cup Of(f)) /\ Cardinality(Rest \cup Of(f)) = Cardinality(Rest) + Cardinality(Of(f))
      /\ IsFiniteSet(Rest \cup Of(g)) /\ Cardinality(Rest \cup Of(g)) = Cardinality(Rest) + Cardinality(Of(g))
  BY <1>2, <1>4, <1>5, DisjointUnion
<1>7. f[t] \in Nat /\ g[t] \in Nat /\ Cardinality(Rest) \in Nat
  BY <1>2, FS_CardinalityType
<1> HIDE DEF Rest, Of
<1>8. QED  BY <1>3, <1>5, <1>6, <1>7

LEMMA CountType == ASSUME NEW hp, NEW m  PROVE Count(hp, m) \in Nat
<1>1. {o \in ObjectStates : hp[o] # None /\ hp[o].object = m} \in SUBSET ObjectStates
  OBVIOUS
<1>2. QED  BY <1>1, FS_Subset, FS_CardinalityType, AddressSpacesAssumption DEF Count

\* Every operation that changes the maps counts what it binds and releases.
LEMMA ReboundCounts ==
  ASSUME CountInv, NEW objs, NEW hp, NEW gained \in [Objects -> Nat], NEW lost \in [Objects -> Nat],
         Rebound(objs, hp, gained, lost),
         symbolics' \in [States -> [Objects -> Nat]], SymbolicsOfLive',
         \A m \in Objects :
           /\ IsFiniteSet(Entries(SymbolicsOf(m)'))
           /\ Cardinality(Entries(SymbolicsOf(m)')) =
                Cardinality(Entries(SymbolicsOf(m))) + gained[m] - lost[m]
  PROVE  CountInv'
<1>1. NoneLeaked'
  BY DEF Rebound, Held, NoneLeaked
<1>2. FewSymbolics'
  BY DEF FewSymbolics, Entries
<1>3. ASSUME NEW m \in Objects
      PROVE  /\ refCount'[m] = refCount[m] + (Count(heap', m) - Count(heap, m)) + gained[m] - lost[m]
             /\ refCount'[m] \in Int
             /\ refCount'[m] = Count(heap', m) + Cardinality(Entries(SymbolicsOf(m)'))
  <2>1. refCount'[m] = refCount[m] + (Count(heap', m) - Count(heap, m)) + gained[m] - lost[m]
    BY DEF Rebound
  <2>2. /\ Count(heap', m) \in Nat /\ Count(heap, m) \in Nat /\ gained[m] \in Nat /\ lost[m] \in Nat
        /\ refCount[m] \in Int
    BY CountType DEF CountInv, RefCountType
  <2>3. Cardinality(Entries(SymbolicsOf(m))) \in Nat
    BY FS_CardinalityType DEF CountInv, FewSymbolics
  <2>4. refCount[m] = Count(heap, m) + Cardinality(Entries(SymbolicsOf(m)))
    BY DEF CountInv, RefsCounted
  <2>5. QED  BY <2>1, <2>2, <2>3, <2>4
<1>4. RefCountType'
  <2>1. refCount' = [m \in Objects |->
                       refCount[m] + (Count(heap', m) - Count(heap, m)) + gained[m] - lost[m]]
    BY DEF Rebound
  <2>2. \A m \in Objects :
          refCount[m] + (Count(heap', m) - Count(heap, m)) + gained[m] - lost[m] \in Int
    BY <1>3
  <2>3. QED  BY <2>1, <2>2 DEF RefCountType
<1>5. RefsCounted'
  BY <1>3 DEF RefsCounted, Count, Entries, SymbolicsOf
<1>6. QED  BY <1>1, <1>2, <1>4, <1>5 DEF CountInv

\* The maps change, no entry of symbolics does.
LEMMA KeepsCounts ==
  ASSUME CountInv, NEW objs, NEW hp, Rebound(objs, hp, Nowhere, Nowhere),
         UNCHANGED <<live, symbolics>>
  PROVE  CountInv'
<1>1. Nowhere \in [Objects -> Nat] /\ \A m \in Objects : Nowhere[m] = 0
  BY DEF Nowhere
<1>2. \A m \in Objects : SymbolicsOf(m)' = SymbolicsOf(m)
  BY DEF SymbolicsOf
<1>3. \A m \in Objects : Cardinality(Entries(SymbolicsOf(m))) \in Nat
  BY FS_CardinalityType DEF CountInv, FewSymbolics
<1>4. \A m \in Objects :
           /\ IsFiniteSet(Entries(SymbolicsOf(m)'))
           /\ Cardinality(Entries(SymbolicsOf(m)')) =
                Cardinality(Entries(SymbolicsOf(m))) + Nowhere[m] - Nowhere[m]
  BY <1>1, <1>2, <1>3 DEF CountInv, FewSymbolics
<1>5. SymbolicsOfLive' /\ symbolics' \in [States -> [Objects -> Nat]]
  BY DEF CountInv, SymbolicsOfLive, RefCountType, Nowhere
<1>6. QED  BY <1>1, <1>4, <1>5, ReboundCounts

\* The symbolics of one state become these.
Recorded(t, entries, gained, lost) ==
  /\ t \in States
  /\ gained \in [Objects -> Nat] /\ lost \in [Objects -> Nat] /\ entries \in [Objects -> Nat]
  /\ symbolics' = [symbolics EXCEPT ![t] = entries]
  /\ \A m \in Objects : entries[m] - symbolics[t][m] = gained[m] - lost[m]
  /\ live' \subseteq States /\ live \ {t} \subseteq live'
  /\ t \in live' \/ entries = Nowhere

\* The maps change, and the symbolics of one state.
LEMMA SymbolicsCount ==
  ASSUME CountInv, NEW objs, NEW hp, NEW gained, NEW lost, Rebound(objs, hp, gained, lost),
         NEW t, NEW entries, Recorded(t, entries, gained, lost)
  PROVE  CountInv'
<1> USE DEF Recorded
<1>1. symbolics \in [States -> [Objects -> Nat]]
  BY DEF CountInv, RefCountType
<1>2. symbolics' \in [States -> [Objects -> Nat]]
  BY <1>1
<1>3. SymbolicsOfLive'
  <2>1. \A s \in States \ live' : s # t => s \in States \ live /\ symbolics'[s] = symbolics[s]
    BY <1>1
  <2>2. t \notin live' => symbolics'[t] = Nowhere
    BY <1>1
  <2>3. Nowhere' = Nowhere
    BY DEF Nowhere
  <2>4. QED  BY <2>1, <2>2, <2>3 DEF CountInv, SymbolicsOfLive
<1>4. ASSUME NEW m \in Objects
      PROVE  /\ IsFiniteSet(Entries(SymbolicsOf(m)'))
             /\ Cardinality(Entries(SymbolicsOf(m)')) =
                  Cardinality(Entries(SymbolicsOf(m))) + gained[m] - lost[m]
  <2>1. SymbolicsOf(m) \in [States -> Nat] /\ SymbolicsOf(m)' \in [States -> Nat]
    BY <1>1, <1>2 DEF SymbolicsOf
  <2>2. \A s \in States \ {t} : SymbolicsOf(m)'[s] = SymbolicsOf(m)[s]
    BY <1>1 DEF SymbolicsOf
  <2>3. SymbolicsOf(m)[t] = symbolics[t][m] /\ SymbolicsOf(m)'[t] = entries[m]
    BY <1>1 DEF SymbolicsOf
  <2>4. IsFiniteSet(Entries(SymbolicsOf(m)))
    BY DEF CountInv, FewSymbolics
  <2>5. PICK f, g : f = SymbolicsOf(m) /\ g = SymbolicsOf(m)'
    OBVIOUS
  <2>6. IsFiniteSet(Entries(g)) /\ Cardinality(Entries(g)) = Cardinality(Entries(f)) + g[t] - f[t]
    BY <2>1, <2>2, <2>4, <2>5, EntriesChange
  <2>7. /\ Cardinality(Entries(f)) \in Nat /\ g[t] \in Nat /\ f[t] \in Nat
        /\ gained[m] \in Nat /\ lost[m] \in Nat
    BY <2>1, <2>4, <2>5, FS_CardinalityType
  <2>8. g[t] - f[t] = gained[m] - lost[m]
    BY <2>3, <2>5
  <2>9. QED  BY <2>5, <2>6, <2>7, <2>8
<1>5. QED  BY <1>2, <1>3, <1>4, ReboundCounts

LEMMA InitCounts == Init => CountInv
<1> SUFFICES ASSUME Init  PROVE CountInv
  OBVIOUS
<1>1. RefCountType /\ SymbolicsOfLive
  BY DEF Init, RefCountType, SymbolicsOfLive, Nowhere
<1>2. NoneLeaked
  BY DEF Init, NoneLeaked
<1>3. ASSUME NEW m \in Objects
      PROVE  /\ IsFiniteSet(Entries(SymbolicsOf(m))) /\ Cardinality(Entries(SymbolicsOf(m))) = 0
             /\ Count(heap, m) = 0 /\ refCount[m] = 0
  <2>1. \A s \in States : SymbolicsOf(m)[s] = 0
    BY DEF Init, SymbolicsOf, Nowhere
  <2>2. Entries(SymbolicsOf(m)) = {}
    BY <2>1 DEF Entries
  <2>3. {o \in ObjectStates : heap[o] # None /\ heap[o].object = m} = {}
    BY DEF Init
  <2>4. refCount[m] = 0
    BY DEF Init, Nowhere
  <2>5. QED  BY <2>2, <2>3, <2>4, FS_EmptySet DEF Count
<1>4. FewSymbolics /\ RefsCounted
  BY <1>3 DEF FewSymbolics, RefsCounted
<1>5. QED  BY <1>1, <1>2, <1>4 DEF CountInv

LEMMA SameCounts ==
  ASSUME CountInv, UNCHANGED <<live, objects, heap, refCount, symbolics>>
  PROVE  CountInv'
BY DEF CountInv, RefCountType, SymbolicsOfLive, NoneLeaked, FewSymbolics, RefsCounted, Count, Refs,
   Entries, SymbolicsOf, Nowhere

LEMMA OverwriteCounts ==
  ASSUME CountInv, NEW s, NEW m, NEW o, OverwriteByte(s, m, o), UNCHANGED <<live, symbolics>>
  PROVE  CountInv'
<1>1. \E objs, hp : Rebound(objs, hp, Nowhere, Nowhere)
  BY DEF OverwriteByte, Overwrite
<1>2. QED  BY <1>1, KeepsCounts

LEMMA BindCounts ==
  ASSUME CountInv, NEW s, NEW m, NEW c, Bind(s, m, c, Nowhere), UNCHANGED <<live, symbolics>>
  PROVE  CountInv'
<1>1. \E objs, hp : Rebound(objs, hp, Nowhere, Nowhere)
  BY DEF Bind
<1>2. QED  BY <1>1, KeepsCounts

LEMMA SymbolicCounts ==
  ASSUME CountInv, live \subseteq States, NEW s \in live, NEW m \in Objects, NEW c,
         Bind(s, m, c, One(m)), symbolics' = [symbolics EXCEPT ![s][m] = @ + 1], live' = live
  PROVE  CountInv'
<1>1. PICK objs, hp : Rebound(objs, hp, One(m), Nowhere)
  BY DEF Bind
<1>2. PICK e : e = [symbolics[s] EXCEPT ![m] = @ + 1]
  OBVIOUS
<1>3. symbolics \in [States -> [Objects -> Nat]] /\ symbolics[s] \in [Objects -> Nat]
  BY DEF CountInv, RefCountType
<1>4. e \in [Objects -> Nat] /\ symbolics' = [symbolics EXCEPT ![s] = e]
  BY <1>2, <1>3
<1>5. One(m) \in [Objects -> Nat] /\ Nowhere \in [Objects -> Nat]
  BY DEF One, Nowhere
<1>6. \A k \in Objects : e[k] - symbolics[s][k] = One(m)[k] - Nowhere[k]
  <2>1. \A k \in Objects : Nowhere[k] = 0 /\ One(m)[k] = IF k = m THEN 1 ELSE 0
    BY DEF One, Nowhere
  <2>2. \A k \in Objects : symbolics[s][k] \in Nat
                           /\ e[k] = IF k = m THEN symbolics[s][k] + 1 ELSE symbolics[s][k]
    BY <1>2, <1>3
  <2>3. QED  BY <2>1, <2>2
<1>7. s \in States /\ s \in live' /\ live' \subseteq States /\ live \ {s} \subseteq live'
  OBVIOUS
<1>8. Recorded(s, e, One(m), Nowhere)
  BY <1>4, <1>5, <1>6, <1>7 DEF Recorded
<1>9. QED  BY <1>1, <1>8, SymbolicsCount

\* The copy constructor of a state counts its symbolics again.
LEMMA BranchCounts ==
  ASSUME CountInv, live \subseteq States, NEW s \in live, NEW t \in States \ live, branch(s, t)
  PROVE  CountInv'
<1>1. /\ Rebound([objects EXCEPT ![t] = objects[s]], heap, symbolics[s], Nowhere)
      /\ symbolics' = [symbolics EXCEPT ![t] = symbolics[s]] /\ live' = live \cup {t}
  BY DEF branch, copiedSymbolics
<1>2. symbolics[s] \in [Objects -> Nat] /\ Nowhere \in [Objects -> Nat]
      /\ \A m \in Objects : symbolics[t][m] = 0 /\ Nowhere[m] = 0
  BY DEF CountInv, RefCountType, SymbolicsOfLive, Nowhere
<1>3. \A m \in Objects : symbolics[s][m] - symbolics[t][m] = symbolics[s][m] - Nowhere[m]
  BY <1>2
<1>4. t \in live' /\ live' \subseteq States /\ live \ {t} \subseteq live'
  BY <1>1
<1>5. Recorded(t, symbolics[s], symbolics[s], Nowhere)
  BY <1>1, <1>2, <1>3, <1>4 DEF Recorded
<1>6. QED  BY <1>1, <1>5, SymbolicsCount

\* The destructor gives them back.
LEMMA TerminateCounts ==
  ASSUME CountInv, live \subseteq States, NEW s \in live, terminate(s)
  PROVE  CountInv'
<1>1. /\ Rebound([objects EXCEPT ![s] = NoObjects], heap, Nowhere, symbolics[s])
      /\ symbolics' = [symbolics EXCEPT ![s] = Nowhere] /\ live' = live \ {s}
  BY DEF terminate, lostSymbolics
<1>2. symbolics[s] \in [Objects -> Nat] /\ Nowhere \in [Objects -> Nat]
  BY DEF CountInv, RefCountType, Nowhere
<1>3. s \in States /\ live' \subseteq States /\ live \ {s} \subseteq live'
  BY <1>1
<1>4. Recorded(s, Nowhere, Nowhere, symbolics[s])
  BY <1>1, <1>2, <1>3 DEF Recorded
<1>5. QED  BY <1>1, <1>4, SymbolicsCount

LEMMA LazyInitCounts ==
  ASSUME CountInv, live \subseteq States, NEW s \in live, NEW x, lazyInit(s, x)
  PROVE  CountInv'
<1>1. live' = live
  BY DEF lazyInit
<1>2. CASE \E m \in Unallocated \ Locals :
             /\ \E c \in Contents : Bind(s, m, c, One(m))
             /\ symbolics' = [symbolics EXCEPT ![s][m] = @ + 1]
  BY <1>1, <1>2, SymbolicCounts DEF Unallocated
<1>3. CASE UNCHANGED symbolics /\ OverwriteByte(s, single[s], objects[s][single[s]])
  BY <1>1, <1>3, OverwriteCounts
<1>4. CASE UNCHANGED <<objects, heap, refCount, symbolics>>
  BY <1>1, <1>4, SameCounts
<1>5. QED  BY <1>2, <1>3, <1>4 DEF lazyInit

LEMMA NextCounts == IInv /\ CountInv /\ [Next]_vars => CountInv'
<1> SUFFICES ASSUME IInv, CountInv, [Next]_vars  PROVE CountInv'
  OBVIOUS
<1>0. live \subseteq States
  BY DEF IInv, MemoryInv, MemoryType
<1>1. ASSUME NEW s \in live, NEW m \in Objects,
             \/ executeAlloc(s, m)
             \/ \E n \in Objects : realloc(s, m, n)
             \/ executeFree(s, m)
             \/ write(s, m)
      PROVE  CountInv'
  <2>1. UNCHANGED <<live, symbolics>>
    BY <1>1 DEF executeAlloc, realloc, executeFree, write
  <2>2. CASE executeAlloc(s, m)
    BY <2>1, <2>2, BindCounts DEF executeAlloc
  <2>3. ASSUME NEW n \in Objects, realloc(s, m, n)  PROVE CountInv'
    <3>1. \E objs, hp : Rebound(objs, hp, Nowhere, Nowhere)
      BY <2>3 DEF realloc
    <3>2. QED  BY <2>1, <3>1, KeepsCounts
  <2>4. CASE executeFree(s, m)
    BY <2>1, <2>4, KeepsCounts DEF executeFree, Unbind
  <2>5. CASE write(s, m)
    BY <2>1, <2>5, OverwriteCounts DEF write
  <2>6. QED  BY <1>1, <2>2, <2>3, <2>4, <2>5
<1>2. ASSUME NEW s \in live, NEW m \in Objects, executeMakeSymbolic(s, m)  PROVE CountInv'
  BY <1>0, <1>2, SymbolicCounts DEF executeMakeSymbolic
<1>3. ASSUME NEW s \in live, NEW m \in Objects, lazyInit(s, m)  PROVE CountInv'
  BY <1>0, <1>3, LazyInitCounts
<1>4. ASSUME NEW s \in live, popFrame(s)  PROVE CountInv'
  BY <1>4, KeepsCounts DEF popFrame, Unbind
<1>5. ASSUME NEW s \in live, NEW t \in States \ live, fork(s, t)  PROVE CountInv'
  BY <1>0, <1>5, BranchCounts DEF fork
<1>6. ASSUME NEW s \in live, terminate(s)  PROVE CountInv'
  BY <1>0, <1>6, TerminateCounts
<1>7. ASSUME NEW s \in live, NEW t \in live \ {s}, merge(s, t)  PROVE CountInv'
  <2>1. \E objs, hp : Rebound(objs, hp, Nowhere, Nowhere)
    BY <1>7 DEF merge
  <2>2. QED  BY <1>7, <2>1, KeepsCounts DEF merge
<1>8. ASSUME NEW t \in States \ live, resolveFork(t)  PROVE CountInv'
  <2>1. access.unbound \in live
    BY <1>8 DEF resolveFork, Resolving, IInv, AccessInv
  <2>2. QED  BY <1>0, <1>8, <2>1, BranchCounts DEF resolveFork
<1>9. CASE \/ \E s \in live : resolve(s)
           \/ resolveOnly \/ resolveEnds \/ UNCHANGED vars
  BY <1>9, SameCounts DEF resolve, resolveOnly, resolveEnds, vars
<1>10. CASE Access
  <2>1. UNCHANGED <<live, symbolics>>
    BY <1>10 DEF Access
  <2>2. QED  BY <1>10, <2>1, SameCounts, OverwriteCounts DEF Access
<1>11. QED
  BY <1>1, <1>2, <1>3, <1>4, <1>5, <1>6, <1>7, <1>8, <1>9, <1>10 DEF Next

\* A count of zero, and no ObjectState nor any entry of symbolics is left of the object.
LEMMA CountsDecide ==
  ASSUME IInv, CountInv
  PROVE  ObjectsAreCounted
<1> SUFFICES ASSUME NEW m \in Objects
             PROVE  refCount[m] > 0 <=> \E s \in live : m \in Bound(s) \/ symbolics[s][m] > 0
  BY DEF ObjectsAreCounted
<1> DEFINE OfM == {o \in ObjectStates : heap[o] # None /\ heap[o].object = m}
<1>1. IsFiniteSet(OfM) /\ Count(heap, m) = Cardinality(OfM)
  <2>1. OfM \in SUBSET ObjectStates
    OBVIOUS
  <2>2. QED  BY <2>1, FS_Subset, AddressSpacesAssumption DEF Count
<1>2. PICK E : E = Entries(SymbolicsOf(m))
  OBVIOUS
<1>3. IsFiniteSet(E)
  BY <1>2 DEF CountInv, FewSymbolics
<1>4. /\ Cardinality(OfM) \in Nat /\ Cardinality(E) \in Nat
      /\ Cardinality(OfM) = 0 <=> OfM = {}
      /\ Cardinality(E) = 0 <=> E = {}
  BY <1>1, <1>3, FS_CardinalityType, FS_EmptySet
<1>5. refCount[m] = Cardinality(OfM) + Cardinality(E)
  BY <1>1, <1>2 DEF CountInv, RefsCounted
<1>6. OfM # {} <=> \E s \in live : m \in Bound(s)
  <2>1. ASSUME NEW o \in OfM  PROVE \E s \in live : m \in Bound(s)
    <3>1. PICK s \in States, k \in Objects : objects[s][k] = o
      BY DEF CountInv, NoneLeaked, Refs
    <3>2. objects[s][k] # None
      BY <3>1, AddressSpacesAssumption
    <3>3. k = m
      BY <3>1, <3>2 DEF IInv, MemoryInv, AllSound, Sound
    <3>4. s \in live
      BY <3>2 DEF IInv, MemoryInv, DeadHoldNothing, NoObjects
    <3>5. QED  BY <3>2, <3>3, <3>4 DEF Bound
  <2>2. ASSUME NEW s \in live, m \in Bound(s)  PROVE OfM # {}
    <3>1. s \in States /\ objects[s][m] # None
      BY <2>2 DEF Bound, IInv, MemoryInv, MemoryType
    <3>2. objects[s][m] \in ObjectStates
      BY <3>1 DEF IInv, MemoryInv, MemoryType
    <3>3. objects[s][m] \in OfM
      BY <3>1, <3>2 DEF IInv, MemoryInv, AllSound, Sound
    <3>4. QED  BY <3>3
  <2>3. QED  BY <2>1, <2>2
<1>7. E # {} <=> \E s \in live : symbolics[s][m] > 0
  <2>1. ASSUME NEW p \in E  PROVE \E s \in live : symbolics[s][m] > 0
    <3>1. p[1] \in States /\ p[2] \in Nat /\ 1 <= p[2] /\ p[2] <= symbolics[p[1]][m]
      BY <1>2 DEF Entries, SymbolicsOf
    <3>2. symbolics[p[1]][m] \in Nat
      BY <3>1 DEF CountInv, RefCountType
    <3>3. symbolics[p[1]][m] > 0
      BY <3>1, <3>2
    <3>4. p[1] \in live
      BY <3>1, <3>3 DEF CountInv, SymbolicsOfLive, Nowhere
    <3>5. QED  BY <3>3, <3>4
  <2>2. ASSUME NEW s \in live, symbolics[s][m] > 0  PROVE E # {}
    <3>1. s \in States
      BY DEF IInv, MemoryInv, MemoryType
    <3>2. symbolics[s][m] \in Nat /\ 1 <= symbolics[s][m]
      BY <2>2, <3>1 DEF CountInv, RefCountType
    <3>3. <<s, 1>> \in Entries(SymbolicsOf(m))
      BY <3>1, <3>2 DEF Entries, SymbolicsOf
    <3>4. QED  BY <1>2, <3>3
  <2>3. QED  BY <2>1, <2>2
<1>8. refCount[m] > 0 <=> OfM # {} \/ E # {}
  BY <1>4, <1>5
<1>9. QED  BY <1>6, <1>7, <1>8

\* The count of a memory object is the number of ObjectStates of it and of entries in
\* the symbolics of all states.
THEOREM CountsAreExact == Spec => []RefsCounted
<1>1. IInv /\ CountInv /\ [Next]_vars => (IInv /\ CountInv)'
  BY NextStep, NextCounts
<1>2. QED
  BY InitInv, InitCounts, <1>1, PTL DEF Spec, CountInv

\* A MemoryObject is freed exactly when no live state maps it or has it among its
\* symbolics: ~ObjectState, ~ExecutionState and the copy constructor balance.
THEOREM MemoryObjectsAreCounted == Spec => []ObjectsAreCounted
<1>1. IInv /\ CountInv /\ [Next]_vars => (IInv /\ CountInv)'
  BY NextStep, NextCounts
<1>2. IInv /\ CountInv => ObjectsAreCounted
  BY CountsDecide
<1>3. QED
  BY InitInv, InitCounts, <1>1, <1>2, PTL DEF Spec
=============================================================================
