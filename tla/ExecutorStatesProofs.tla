------------------------ MODULE ExecutorStatesProofs ------------------------
(***************************************************************************)
(* Theorems about ExecutorStates, for any finite set of execution states   *)
(* and any set of command lines.                                           *)
(***************************************************************************)
EXTENDS ExecutorStates, FiniteSetTheorems, TLAPS

-----------------------------------------------------------------------------
(* The inductive invariant, by concern *)

Stepping == phase \in {"execute", "executed", "memory", "update"}

\* Every pointer in states and addedStates is to an allocated state, no state
\* is in both, and what was born and is not allocated was deleted once.
OwnershipInv ==
  /\ states \subseteq heap /\ addedStates \subseteq heap /\ heap \subseteq born
  /\ states \cap addedStates = {}
  /\ \A s \in Ids : deletes[s] = IF s \in born \ heap THEN 1 ELSE 0

\* addedStates and removedStates are empty between two iterations
BetweenInv ==
  phase \in {"select", "account", "done"} =>
    addedStates = {} /\ removedStates = Empty

\* Without merging: the searcher, pausedStates and continuedStates hold only
\* allocated states; the searcher offers a member of states once, and a fresh
\* copy not yet; nothing paused is in states.
OffersInv ==
  opts.merge = "off" =>
    /\ open = {} /\ closed = {}
    /\ Support(searcher) \subseteq heap
    /\ Support(pausedStates) \subseteq heap \ (states \cup addedStates)
    /\ Support(continuedStates) \subseteq heap \ (states \cup addedStates)
    /\ \A s \in states : searcher[s] <= 1
    /\ \A s \in addedStates : searcher[s] = 0
    /\ Stepping => current \in heap \ addedStates

\* When nothing pauses states there is no difference between what is offered,
\* what is in states and what is allocated.
PlainInv ==
  Plain =>
    /\ pausedStates = Empty /\ continuedStates = Empty
    /\ phase # "done" => searcher = CountOf(states)
    /\ heap = states \cup addedStates
    /\ Support(removedStates) \subseteq states \cup (born \ heap)
    /\ Stepping => current \in states
    /\ phase = "aborted" => opts.checked /\ \E s \in Ids : TerminatedAgain(s)

\* With merging: the states that wait are paused, once; those inside the region
\* and the fresh copies are not; and what is paused is not offered, except the
\* current state until updateStates has told the searcher.
MergeRun == opts.merge # "off" /\ ~opts.pause
MergeInv ==
  (MergeRun /\ phase # "aborted") =>
    /\ continuedStates = Empty
    /\ open \subseteq born /\ closed \subseteq born
    /\ \A s \in Ids : pausedStates[s] <= 1 /\ searcher[s] <= 1
    /\ \A s \in Ids \ born : pausedStates[s] = 0 /\ searcher[s] = 0
    /\ \A s \in addedStates : pausedStates[s] = 0 /\ searcher[s] = 0
    /\ \A s \in closed : pausedStates[s] = 1
    /\ \A s \in open : pausedStates[s] = 0
    /\ \A s \in Ids : pausedStates[s] > 0 /\ searcher[s] > 0 =>
         s = current /\ phase \in {"executed", "memory", "update"}
    /\ Stepping => current \in born \ addedStates
    /\ phase = "execute" => pausedStates[current] = 0

IInv == /\ TypeOK /\ OwnershipInv /\ BetweenInv /\ OffersInv /\ PlainInv
        /\ MergeInv

-----------------------------------------------------------------------------
(* Counting *)

\* Vectors are counting functions, and stay so when states are pushed.
LEMMA CountFacts ==
  /\ Empty \in Count
  /\ \A S : CountOf(S) \in Count
  /\ \A f \in Count : \A S : Plus(f, S) \in Count
BY DEF Empty, Count, CountOf, Plus

\* The vectors that updateStates works on, and what the searcher holds after
\* each of its two updates, are counting functions.
LEMMA UpdateFacts ==
  ASSUME TypeOK
  PROVE  /\ PausedNow \in Count /\ ContinuedNow \in Count
         /\ AddedNow \subseteq addedStates
         /\ SearcherStep1 \in Count /\ SearcherStep2 \in Count
<1>1. \A bag, add, del \in Count : Updated(bag, add, del) \in Count
  BY SMTT(30) DEF Updated, Count
<1>2. PausedNow \in Count /\ ContinuedNow \in Count
  BY CountFacts DEF PausedNow, ContinuedNow, TypeOK, Count
<1>3. AddedNow \subseteq addedStates
  BY DEF AddedNow
<1>4. SearcherStep1 \in Count
  BY <1>1, CountFacts DEF SearcherStep1, TypeOK
<1>5. SearcherStep2 \in Count
  BY <1>1, <1>2, <1>4 DEF SearcherStep2
<1>6. QED  BY <1>2, <1>3, <1>4, <1>5

\* The statistic of secret-dependent states stays a natural number.
LEMMA SensitiveDescIsNat ==
  ASSUME TypeOK, NEW high \in SUBSET Ids, NEW read \in SUBSET Ids
  PROVE  Decreased(sensitiveDesc + Cardinality(addedCopy \cap (secret \cup high)),
                   Cardinality(Occurrences(read))) \in Nat
<1>1. IsFiniteSet(addedCopy \cap (secret \cup high))
  BY FS_Subset, IdsAssumption DEF TypeOK
<1>2. IsFiniteSet(1 .. MaxTerminations + 1)
  BY FS_Interval, IdsAssumption
<1>3. IsFiniteSet(Ids \X (1 .. MaxTerminations + 1))
  BY <1>2, FS_Product, IdsAssumption
<1>4. IsFiniteSet(Occurrences(read))
  BY <1>3, FS_Subset DEF Occurrences
<1>5. QED
  BY <1>1, <1>4, FS_CardinalityType DEF TypeOK, Decreased

-----------------------------------------------------------------------------
(* Type correctness *)

\* The initial execution state has the right types.
LEMMA InitType == Init => TypeOK
<1> SUFFICES ASSUME Init PROVE TypeOK
  OBVIOUS
<1>1. /\ deletes \in Count /\ searcher \in Count /\ removedStates \in Count
      /\ pausedStates \in Count /\ continuedStates \in Count
      /\ removedCopy \in Count
  BY CountFacts DEF Init
<1>2. QED  BY <1>1, IdsAssumption DEF Init, TypeOK

\* pauseState and continueState keep their vectors vectors.
LEMMA ContinueStatesType ==
  ASSUME TypeOK, NEW S, ContinueStates(S)
  PROVE  pausedStates' \in Count /\ continuedStates' \in Count
BY DEF ContinueStates, TypeOK, Count

\* So do pauseState and continueState in one addClosedState.
LEMMA PauseAndReleaseType ==
  ASSUME TypeOK, NEW s \in Ids, NEW S, NEW release, PauseAndRelease(s, S, release)
  PROVE  pausedStates' \in Count /\ continuedStates' \in Count
<1> DEFINE p == IF continuedStates[s] > 0
                  THEN pausedStates ELSE Plus(pausedStates, {s})
           c == IF continuedStates[s] > 0
                  THEN [continuedStates EXCEPT ![s] = @ - 1] ELSE continuedStates
           R == IF release THEN S ELSE {}
<1>1. p \in Count
  BY CountFacts DEF TypeOK
<1>2. c \in Count
  BY DEF TypeOK, Count
<1>3. /\ pausedStates' = [x \in Ids |-> IF x \in R /\ p[x] > 0 THEN p[x] - 1
                                                              ELSE p[x]]
      /\ continuedStates' = [x \in Ids |-> IF x \in R /\ p[x] = 0 THEN c[x] + 1
                                                                 ELSE c[x]]
  BY DEF PauseAndRelease
<1> HIDE DEF p, c, R
<1>4. QED  BY <1>1, <1>2, <1>3 DEF Count

\* What updateStates and doDumpStates leave behind has the right types.
LEMMA MoveStatesType ==
  ASSUME TypeOK, NEW removed \in Count, MoveStates(removed)
  PROVE  /\ heap' \subseteq Ids /\ born' \subseteq Ids /\ deletes' \in Count
         /\ states' \subseteq Ids
         /\ addedStates' \subseteq Ids /\ removedStates' \in Count
         /\ pausedStates' \in Count /\ continuedStates' \in Count
         /\ addedCopy' \subseteq Ids /\ removedCopy' \in Count
         /\ open' \subseteq Ids /\ closed' \subseteq Ids
         /\ UNCHANGED <<opts, halt, secret, sensitiveDesc, succ>>
<1>1. /\ heap' \subseteq Ids /\ born' \subseteq Ids /\ deletes' \in Count
      /\ states' \subseteq Ids
      /\ addedStates' \subseteq Ids /\ removedStates' \in Count
      /\ addedCopy' \subseteq Ids /\ removedCopy' \in Count
      /\ open' \subseteq Ids /\ closed' \subseteq Ids
  BY CountFacts, UpdateFacts DEF MoveStates, TypeOK, DeleteStates, LeaveRegion
<1>2. pausedStates' \in Count /\ continuedStates' \in Count
  <2> DEFINE released == IF open # {} /\ open \subseteq Deleted(removed)
                           THEN closed ELSE {}
  <2>1. /\ pausedStates' = [s \in Ids |-> IF s \in released /\ PausedNow[s] > 0
                             THEN PausedNow[s] - 1 ELSE PausedNow[s]]
        /\ continuedStates' = [s \in Ids |-> IF s \in released /\ PausedNow[s] = 0
                                THEN ContinuedNow[s] + 1 ELSE ContinuedNow[s]]
    BY DEF MoveStates
  <2> HIDE DEF released
  <2>2. QED  BY <2>1, UpdateFacts DEF Count
<1>3. QED  BY <1>1, <1>2 DEF MoveStates

\* Every step of the run keeps the types.
LEMMA NextType == TypeOK /\ [Next]_vars => TypeOK'
<1> SUFFICES ASSUME TypeOK, [Next]_vars PROVE TypeOK'
  OBVIOUS
<1> USE DEF setVars, pauseVars, secretVars, mergeVars
<1>1. CASE selectState
  <2>1. PICK s \in Support(searcher) : StartStep(s)
    BY <1>1 DEF selectState
  <2>2. QED  BY <2>1 DEF StartStep, Support, TypeOK
<1>2. CASE selectPrioritized
  <2>1. PICK s \in open : StartStep(s)
    BY <1>2 DEF selectPrioritized
  <2>2. QED  BY <2>1 DEF StartStep, TypeOK
<1>3. CASE releaseStates
  <2>1. pausedStates' \in Count /\ continuedStates' \in Count
    BY <1>3, ContinueStatesType DEF releaseStates
  <2>2. QED  BY <1>3, <2>1 DEF releaseStates, TypeOK
<1>4. CASE selectFromEmpty
  BY <1>4 DEF selectFromEmpty, TypeOK
<1>5. ASSUME NEW s \in Ids, NEW n \in Ids, fork(s, n) PROVE TypeOK'
  BY <1>5 DEF fork, TypeOK
<1>6. ASSUME NEW s \in Ids, terminateState(s) PROVE TypeOK'
  BY <1>6, CountFacts DEF terminateState, TypeOK
<1>7. ASSUME NEW s \in Ids, terminateAdded(s) PROVE TypeOK'
  <2>1. pausedStates' \in Count /\ continuedStates' \in Count
    BY <1>7, ContinueStatesType DEF terminateAdded, TypeOK
  <2>2. QED
    BY <1>7, <2>1, CountFacts DEF terminateAdded, LeaveRegion, TypeOK
<1>7a. ASSUME NEW s \in Ids, terminateAddedAgain(s) PROVE TypeOK'
  <2>1. pausedStates' \in Count /\ continuedStates' \in Count
    BY <1>7a, ContinueStatesType DEF terminateAddedAgain, TypeOK
  <2>2. QED
    BY <1>7a, <2>1, CountFacts DEF terminateAddedAgain, LeaveRegion, TypeOK
<1>8. CASE handleOpenMerge
  BY <1>8 DEF handleOpenMerge, TypeOK
<1>9. CASE handleCloseMerge
  <2>1. pausedStates' \in Count /\ continuedStates' \in Count
    BY <1>9, ContinueStatesType, PauseAndReleaseType DEF handleCloseMerge, TypeOK
  <2>2. closed' \subseteq Ids /\ removedStates' \in Count
    BY <1>9, CountFacts DEF handleCloseMerge, TypeOK
  <2>3. QED  BY <1>9, <2>1, <2>2 DEF handleCloseMerge, TypeOK
<1>10. ASSUME NEW isBranch \in BOOLEAN, NEW stop \in BOOLEAN, NEW tooSlow \in BOOLEAN,
              processTimers(isBranch, stop, tooSlow)
       PROVE  TypeOK'
  <2>1. removedStates' \in Count
    BY <1>10, CountFacts DEF processTimers, TypeOK
  <2>2. succ' \subseteq Ids
    BY <1>10 DEF processTimers
  <2>3. halt' \in BOOLEAN
    BY <1>10 DEF processTimers, TypeOK
  <2>4. QED  BY <1>10, <2>1, <2>2, <2>3 DEF processTimers, TypeOK
<1>11. ASSUME NEW kill \in SUBSET Ids, checkMemoryUsage(kill) PROVE TypeOK'
  BY <1>11, CountFacts DEF checkMemoryUsage, TypeOK
<1>12. CASE updateStates
  BY <1>12, MoveStatesType, UpdateFacts DEF updateStates, TypeOK
<1>13. CASE updateStatesAsserts
  BY <1>13 DEF updateStatesAsserts, TypeOK
<1>14. ASSUME NEW high \in SUBSET Ids, NEW read \in SUBSET Ids,
              accountSecrets(high, read)
       PROVE  TypeOK'
  <2>1. sensitiveDesc' \in Nat
    BY <1>14, SensitiveDescIsNat DEF accountSecrets
  <2>2. QED  BY <1>14, <2>1, CountFacts DEF accountSecrets, TypeOK
<1>15. CASE doDumpStates
  <2>1. MoveStates(CountOf(states)) /\ CountOf(states) \in Count
    BY <1>15, CountFacts DEF doDumpStates
  <2>2. QED  BY <1>15, <2>1, MoveStatesType, CountFacts DEF doDumpStates, TypeOK
<1>16. CASE runEnds
  BY <1>16, CountFacts DEF runEnds, TypeOK
<1>17. CASE UNCHANGED vars
  BY <1>17 DEF vars, TypeOK
<1>18. QED
  BY <1>1, <1>2, <1>3, <1>4, <1>5, <1>6, <1>7, <1>7a, <1>8, <1>9, <1>10, <1>11,
     <1>12, <1>13, <1>14, <1>15, <1>16, <1>17 DEF Next

\* The run keeps its types: in particular the vectors never hold a state a
\* negative number of times and stats::sensitiveDesc never wraps around.
THEOREM TypeCorrect == Spec => []TypeOK
BY InitType, NextType, PTL DEF Spec

-----------------------------------------------------------------------------
(* Who owns an execution state *)

\* The initial execution state is owned by states.
LEMMA InitOwnership == Init => OwnershipInv
<1> SUFFICES ASSUME Init PROVE OwnershipInv
  OBVIOUS
<1>1. \A s \in Ids : deletes[s] = 0
  BY DEF Init, Empty
<1>2. QED  BY <1>1 DEF Init, OwnershipInv

\* Only fork, terminateState and updateStates move states; the copy is fresh,
\* and only members of states and addedStates, which are allocated, die.
LEMMA OwnershipStep ==
  ASSUME TypeOK, OwnershipInv, [Next]_vars
  PROVE  OwnershipInv'
<1> USE DEF setVars
<1>1. CASE UNCHANGED <<heap, born, deletes, states, addedStates>>
  BY <1>1 DEF OwnershipInv
<1>2. ASSUME NEW s \in Ids, NEW n \in Ids, fork(s, n) PROVE OwnershipInv'
  <2>1. \A x \in Ids : x \in born' \ heap' <=> x \in born \ heap
    BY <1>2 DEF fork, OwnershipInv
  <2>2. \A x \in Ids : deletes'[x] = IF x \in born' \ heap' THEN 1 ELSE 0
    BY <1>2, <2>1 DEF fork, OwnershipInv
  <2>3. QED  BY <1>2, <2>2 DEF fork, OwnershipInv
<1>3. ASSUME NEW s \in Ids, terminateAdded(s) \/ terminateAddedAgain(s)
      PROVE  OwnershipInv'
  <2>1. \A x \in Ids : deletes'[x] = IF x \in born' \ heap' THEN 1 ELSE 0
    BY <1>3 DEF terminateAdded, terminateAddedAgain, Plus, OwnershipInv, TypeOK, Count
  <2>2. QED  BY <1>3, <2>1 DEF terminateAdded, terminateAddedAgain, OwnershipInv
<1>4. ASSUME NEW removed, MoveStates(removed) PROVE OwnershipInv'
  <2> DEFINE D == Deleted(removed)
  <2>1. D \subseteq heap
    BY UpdateFacts DEF Deleted, OwnershipInv
  <2>2. /\ heap' = heap \ D /\ born' = born /\ addedStates' = {}
        /\ states' = (states \cup AddedNow) \ D
        /\ deletes' = Plus(deletes, D)
    BY <1>4 DEF MoveStates, DeleteStates
  <2> HIDE DEF D
  <2>3. \A x \in Ids : deletes'[x] = IF x \in born' \ heap' THEN 1 ELSE 0
    BY <2>1, <2>2 DEF Plus, OwnershipInv, TypeOK, Count
  <2>4. QED  BY <2>1, <2>2, <2>3, UpdateFacts DEF OwnershipInv
<1>5. QED
  <2>1. CASE Next
    BY <2>1, <1>1, <1>2, <1>3, <1>4 DEF Next, selectState, selectPrioritized,
       StartStep, releaseStates, selectFromEmpty, terminateState, handleOpenMerge,
       handleCloseMerge, processTimers, checkMemoryUsage, updateStates,
       updateStatesAsserts, accountSecrets, doDumpStates, runEnds
  <2>2. CASE UNCHANGED vars
    BY <2>2, <1>1 DEF vars
  <2>3. QED  BY <2>1, <2>2

\* No execution state is passed to delete twice, for any command line.
THEOREM NoDoubleDelete == Spec => []DeletedOnce
<1>1. OwnershipInv => DeletedOnce
  BY DEF OwnershipInv, DeletedOnce
<1>2. QED
  BY <1>1, InitType, NextType, InitOwnership, OwnershipStep, PTL DEF Spec

-----------------------------------------------------------------------------
(* Between two iterations *)

\* updateStates empties addedStates and removedStates, and nothing fills them
\* before the next instruction.
LEMMA BetweenStep ==
  ASSUME TypeOK, BetweenInv, [Next]_vars
  PROVE  BetweenInv'
<1> USE DEF BetweenInv, setVars
<1>1. CASE Next
  BY <1>1 DEF Next, selectState, selectPrioritized, StartStep, LoopTop,
     releaseStates, selectFromEmpty, fork, terminateState, terminateAdded,
     terminateAddedAgain, handleOpenMerge, handleCloseMerge, processTimers, checkMemoryUsage,
     updateStates, MoveStates, updateStatesAsserts, accountSecrets, doDumpStates,
     runEnds
<1>2. CASE UNCHANGED vars
  BY <1>2 DEF vars
<1>3. QED  BY <1>1, <1>2

-----------------------------------------------------------------------------
(* What the searcher offers, without merging *)

\* updateStates keeps what is paused or continued apart from what it inserts.
LEMMA PausedApart ==
  ASSUME TypeOK, OwnershipInv, OffersInv, opts.merge = "off"
  PROVE  /\ Support(PausedNow) \subseteq heap \ (states \cup AddedNow)
         /\ Support(ContinuedNow) \subseteq heap \ (states \cup AddedNow)
<1> USE DEF TypeOK, OwnershipInv, OffersInv, Count
<1>1. CASE Pausing
  <2>1. Support(PausedNow) = Support(pausedStates) \cup (addedStates \ secret)
    BY <1>1 DEF PausedNow, Plus, Support
  <2>2. AddedNow = addedStates \ Support(PausedNow)
    BY <1>1 DEF AddedNow
  <2>3. ContinuedNow = continuedStates
    BY <1>1 DEF ContinuedNow, Pausing, Resuming
  <2>4. QED  BY <2>1, <2>2, <2>3
<1>2. CASE Resuming
  <2>1. ~Pausing
    BY <1>2 DEF Pausing, Resuming
  <2>2. PausedNow = Empty /\ AddedNow = addedStates
    BY <1>2, <2>1 DEF PausedNow, AddedNow
  <2>3. Support(PausedNow) = {}
    BY <2>2 DEF Empty, Support
  <2>4. Support(ContinuedNow) = Support(continuedStates) \cup Support(pausedStates)
    BY <1>2 DEF ContinuedNow, Support
  <2>5. QED  BY <2>2, <2>3, <2>4
<1>3. CASE ~Pausing /\ ~Resuming
  BY <1>3 DEF PausedNow, ContinuedNow, AddedNow
<1>4. QED  BY <1>1, <1>2, <1>3

\* What updateStates does to the vectors when there is no merge region.
LEMMA MoveStatesOff ==
  ASSUME TypeOK, OwnershipInv, OffersInv, opts.merge = "off",
         NEW removed \in Count, MoveStates(removed)
  PROVE  /\ open' = {} /\ closed' = {}
         /\ pausedStates' = PausedNow /\ continuedStates' = ContinuedNow
         /\ Support(PausedNow) \subseteq heap' \ states'
         /\ Support(ContinuedNow) \subseteq heap' \ states'
<1>1. open = {} /\ closed = {}
  BY DEF OffersInv
<1>2. open' = {} /\ closed' = {}
  BY <1>1 DEF MoveStates, LeaveRegion
<1>3. pausedStates' = [s \in Ids |-> PausedNow[s]]
  BY <1>1 DEF MoveStates
<1>4. continuedStates' = [s \in Ids |-> ContinuedNow[s]]
  BY <1>1 DEF MoveStates
<1>5. pausedStates' = PausedNow /\ continuedStates' = ContinuedNow
  BY <1>3, <1>4, UpdateFacts DEF Count
<1>6. /\ Deleted(removed) \subseteq states \cup AddedNow
      /\ heap' = heap \ Deleted(removed)
      /\ states' = (states \cup AddedNow) \ Deleted(removed)
  BY DEF MoveStates, Deleted
<1>7. QED  BY <1>2, <1>5, <1>6, PausedApart

\* The searcher after updateStates offers no deleted state, and no member of
\* states twice.
LEMMA SearcherAfterUpdate ==
  ASSUME TypeOK, OwnershipInv, OffersInv, opts.merge = "off",
         NEW s \in Ids
  PROVE  /\ SearcherStep2[s] > 0 => s \in heap \ Deleted(removedStates)
         /\ s \in states \cup AddedNow => SearcherStep2[s] <= 1
<1> DEFINE add == CountOf(AddedNow)
           one == SearcherStep1
<1>1. /\ searcher[s] \in Nat /\ removedStates[s] \in Nat /\ one[s] \in Nat
      /\ PausedNow[s] \in Nat /\ ContinuedNow[s] \in Nat
  BY UpdateFacts DEF TypeOK, Count
<1>2. one[s] = IF opts.checked
                 THEN IF searcher[s] + add[s] >= removedStates[s]
                        THEN searcher[s] + add[s] - removedStates[s] ELSE 0
                 ELSE IF removedStates[s] > 0 THEN 0 ELSE searcher[s] + add[s]
  BY DEF SearcherStep1, Updated
<1>3. SearcherStep2[s] = IF opts.checked
                 THEN IF one[s] + ContinuedNow[s] >= PausedNow[s]
                        THEN one[s] + ContinuedNow[s] - PausedNow[s] ELSE 0
                 ELSE IF PausedNow[s] > 0 THEN 0 ELSE one[s] + ContinuedNow[s]
  BY DEF SearcherStep2, Updated
<1>4. add[s] = IF s \in AddedNow THEN 1 ELSE 0
  BY DEF CountOf
<1>5. CASE s \in states \cup AddedNow
  <2>1. PausedNow[s] = 0 /\ ContinuedNow[s] = 0
    BY <1>1, <1>5, PausedApart DEF Support
  <2>2. searcher[s] + add[s] <= 1
    BY <1>1, <1>4, <1>5, UpdateFacts DEF OffersInv, OwnershipInv
  <2>3. add[s] \in Nat
    BY <1>4
  <2> HIDE DEF add, one
  <2>4. one[s] <= 1 /\ (removedStates[s] > 0 => one[s] = 0)
    BY <1>1, <1>2, <2>2, <2>3
  <2>5. SearcherStep2[s] = one[s]
    BY <1>1, <1>3, <2>1
  <2>6. s \in heap
    BY <1>5, UpdateFacts DEF OwnershipInv
  <2>7. removedStates[s] = 0 => s \notin Deleted(removedStates)
    BY DEF Deleted, Support
  <2>8. QED  BY <1>1, <2>4, <2>5, <2>6, <2>7
<1>6. CASE s \notin states \cup AddedNow
  <2>1. s \notin Deleted(removedStates)
    BY <1>6 DEF Deleted
  <2>2. add[s] = 0
    BY <1>4, <1>6
  <2>3. s \notin heap => searcher[s] = 0 /\ ContinuedNow[s] = 0 /\ PausedNow[s] = 0
    BY <1>1, PausedApart DEF OffersInv, Support
  <2> HIDE DEF add, one
  <2>4. s \notin heap => one[s] = 0
    BY <1>1, <1>2, <2>2, <2>3
  <2>5. s \notin heap => SearcherStep2[s] = 0
    BY <1>1, <1>3, <2>3, <2>4
  <2>6. QED  BY <1>6, <2>1, <2>5
<1>7. QED  BY <1>5, <1>6

\* Every step keeps the searcher and the vectors of paused and continued states
\* free of deleted states, as long as nothing merges.
LEMMA OffersStep ==
  ASSUME TypeOK, OwnershipInv, BetweenInv, OffersInv, [Next]_vars, TypeOK'
  PROVE  OffersInv'
<1> SUFFICES ASSUME opts.merge = "off"
             PROVE  OffersInv'
  <2>1. opts' = opts
    BY DEF Next, vars, selectState, selectPrioritized, StartStep, releaseStates,
       selectFromEmpty, fork, terminateState, terminateAdded, terminateAddedAgain,
       handleOpenMerge, handleCloseMerge, processTimers, checkMemoryUsage, updateStates, MoveStates,
       updateStatesAsserts, accountSecrets, doDumpStates, runEnds
  <2>2. QED  BY <2>1 DEF OffersInv
<1> USE DEF setVars, pauseVars, mergeVars
<1>1. CASE /\ UNCHANGED <<heap, states, addedStates, searcher, pauseVars, mergeVars>>
           /\ Stepping' => Stepping /\ UNCHANGED current
  BY <1>1 DEF OffersInv, Support
<1>2. CASE selectState
  <2>1. addedStates = {}
    BY <1>2 DEF selectState, LoopTop, BetweenInv
  <2>2. current' \in heap
    BY <1>2 DEF selectState, StartStep, OffersInv
  <2>3. QED  BY <1>2, <2>1, <2>2 DEF selectState, StartStep, OffersInv, Support
<1>3. ASSUME NEW s \in Ids, NEW n \in Ids, fork(s, n) PROVE OffersInv'
  <2>1. n \notin heap
    BY <1>3 DEF fork, OwnershipInv
  <2>2. searcher[n] = 0
    BY <2>1 DEF OffersInv, Support, TypeOK, Count
  <2>3. current \in heap \ addedStates
    BY <1>3 DEF fork, OffersInv, Stepping
  <2>4. QED  BY <1>3, <2>1, <2>2, <2>3 DEF fork, OffersInv, Support, Stepping
<1>4. ASSUME NEW s \in Ids, terminateAdded(s) \/ terminateAddedAgain(s)
      PROVE  OffersInv'
  <2>1. /\ UNCHANGED <<pauseVars, searcher, states, current, phase>>
        /\ open' = {} /\ closed' = {}
        /\ heap' = heap \ {s} /\ addedStates' = addedStates \ {s}
    BY <1>4 DEF terminateAdded, terminateAddedAgain, LeaveRegion, OffersInv
  <2>2. s \in addedStates /\ s \notin Support(searcher)
    BY <1>4 DEF terminateAdded, terminateAddedAgain, OffersInv, Support
  <2>3. Support(searcher)' = Support(searcher)
    BY <2>1 DEF Support
  <2>4. QED  BY <2>1, <2>2, <2>3 DEF OffersInv, OwnershipInv, Support, Stepping
<1>5. CASE updateStates
  <2>1. /\ MoveStates(removedStates) /\ removedStates \in Count
        /\ searcher' = SearcherStep2 /\ ~Stepping'
    BY <1>5 DEF updateStates, TypeOK, Stepping
  <2>2. /\ heap' = heap \ Deleted(removedStates) /\ addedStates' = {}
        /\ states' \subseteq states \cup AddedNow
    BY <2>1 DEF MoveStates
  <2>3. Support(searcher') \subseteq heap'
    BY <2>1, <2>2, SearcherAfterUpdate DEF Support
  <2>4. \A s \in states' : searcher'[s] <= 1
    BY <2>1, <2>2, SearcherAfterUpdate DEF TypeOK
  <2>5. QED  BY <2>1, <2>2, <2>3, <2>4, MoveStatesOff DEF OffersInv, Support
<1>6. CASE doDumpStates
  <2>1. /\ MoveStates(CountOf(states)) /\ CountOf(states) \in Count
        /\ searcher' = Empty /\ ~Stepping'
    BY <1>6, CountFacts DEF doDumpStates, Stepping
  <2>2. addedStates' = {}
    BY <2>1 DEF MoveStates
  <2>3. \A s \in Ids : searcher'[s] = 0
    BY <2>1 DEF Empty
  <2>4. QED  BY <2>1, <2>2, <2>3, MoveStatesOff DEF OffersInv, Support, TypeOK
<1>7. CASE runEnds
  <2>1. \A s \in Ids : searcher'[s] = 0
    BY <1>7 DEF runEnds, Empty
  <2>2. UNCHANGED <<heap, states, addedStates, pauseVars, mergeVars>> /\ ~Stepping'
    BY <1>7 DEF runEnds, Stepping
  <2>3. QED  BY <2>1, <2>2 DEF OffersInv, Support, TypeOK
<1>8. ~(selectPrioritized \/ releaseStates \/ handleOpenMerge \/ handleCloseMerge)
  BY DEF selectPrioritized, releaseStates, handleOpenMerge, handleCloseMerge,
     OffersInv
<1>9. QED
  <2>1. CASE Next
    BY <2>1, <1>1, <1>2, <1>3, <1>4, <1>5, <1>6, <1>7, <1>8 DEF Next,
       selectFromEmpty, terminateState, processTimers, checkMemoryUsage,
       updateStatesAsserts, accountSecrets, Stepping
  <2>2. CASE UNCHANGED vars
    BY <2>2, <1>1 DEF vars, Stepping
  <2>3. QED  BY <2>1, <2>2

-----------------------------------------------------------------------------
(* Runs in which nothing pauses states *)

\* The three invariants that a step is shown to keep together with TypeOK.
BaseInv == TypeOK /\ OwnershipInv /\ BetweenInv /\ OffersInv

\* In a plain run updateStates sees the vectors as they are.
LEMMA PlainVectors ==
  ASSUME Plain, PlainInv
  PROVE  PausedNow = Empty /\ ContinuedNow = Empty /\ AddedNow = addedStates
BY DEF Plain, PlainInv, PausedNow, ContinuedNow, AddedNow, Pausing, Resuming

\* A plain searcher asserts only if a state was terminated twice, and only one
\* that checks what it removes.
LEMMA PlainAsserts ==
  ASSUME BaseInv, Plain, PlainInv, phase # "done",
         ~(opts.checked /\ \E s \in Ids : TerminatedAgain(s))
  PROVE  SearcherAssertsHold
<1> USE DEF BaseInv, TypeOK, Count
<1>1. \A s \in Ids : searcher[s] = IF s \in states THEN 1 ELSE 0
  BY DEF PlainInv, CountOf
<1>2. \A s \in Ids : CountOf(AddedNow)[s] = IF s \in addedStates THEN 1 ELSE 0
  BY PlainVectors DEF CountOf
<1>3. opts.checked => \A s \in Ids :
                          removedStates[s] <= searcher[s] + CountOf(AddedNow)[s]
  BY <1>1, <1>2 DEF PlainInv, Support, TerminatedAgain
<1>4. AssertsHold(searcher, CountOf(AddedNow), removedStates)
  BY <1>1, <1>2, <1>3 DEF AssertsHold, OwnershipInv
<1>5. \A s \in Ids : PausedNow[s] = 0 /\ ContinuedNow[s] = 0
  BY PlainVectors DEF Empty
<1>6. \A s \in Ids : SearcherStep1[s] \in Nat
  BY UpdateFacts
<1>7. AssertsHold(SearcherStep1, ContinuedNow, PausedNow)
  BY <1>5, <1>6 DEF AssertsHold
<1>8. QED  BY <1>4, <1>7 DEF SearcherAssertsHold

\* After updateStates a plain searcher offers the new states once each.
LEMMA PlainSearcher ==
  ASSUME BaseInv, Plain, PlainInv, phase = "update", SearcherAssertsHold
  PROVE  SearcherStep2 = CountOf((states \cup AddedNow) \ Deleted(removedStates))
<1> USE DEF BaseInv
<1>1. AddedNow = addedStates
  BY PlainVectors
<1>2. SUFFICES ASSUME NEW s \in Ids
      PROVE SearcherStep2[s] =
        IF s \in (states \cup addedStates) \ Deleted(removedStates) THEN 1 ELSE 0
  BY <1>1, UpdateFacts DEF CountOf, Count
<1>3. /\ searcher[s] = IF s \in states THEN 1 ELSE 0
      /\ CountOf(AddedNow)[s] = IF s \in addedStates THEN 1 ELSE 0
  BY <1>1 DEF PlainInv, CountOf
<1>4. removedStates[s] \in Nat /\ SearcherStep1[s] \in Nat
  BY UpdateFacts DEF TypeOK, Count
<1>5. removedStates[s] > 0 => s \in states \/ s \notin states \cup addedStates
  BY DEF PlainInv, Support
<1>6. opts.checked => searcher[s] + CountOf(AddedNow)[s] >= removedStates[s]
  BY DEF SearcherAssertsHold, AssertsHold
<1>7. SearcherStep1[s] = IF opts.checked
        THEN searcher[s] + CountOf(AddedNow)[s] - removedStates[s]
        ELSE IF removedStates[s] > 0 THEN 0 ELSE searcher[s] + CountOf(AddedNow)[s]
  BY <1>6 DEF SearcherStep1, Updated
<1>8. SearcherStep1[s] =
        IF s \in states \cup addedStates /\ removedStates[s] = 0 THEN 1 ELSE 0
  BY <1>3, <1>4, <1>5, <1>6, <1>7 DEF OwnershipInv
<1>9. SearcherStep2[s] = SearcherStep1[s]
  <2>1. PausedNow[s] = 0 /\ ContinuedNow[s] = 0
    BY PlainVectors DEF Empty
  <2>2. QED  BY <2>1, <1>4 DEF SearcherStep2, Updated
<1>10. s \in Deleted(removedStates) <=>
         s \in states \cup addedStates /\ removedStates[s] > 0
  BY <1>1 DEF Deleted, Support
<1>11. QED  BY <1>4, <1>8, <1>9, <1>10

\* A plain run starts with one state, offered once.
LEMMA InitPlain == Init => PlainInv
<1> SUFFICES ASSUME Init PROVE PlainInv
  OBVIOUS
<1>1. Support(removedStates) = {}
  BY DEF Init, Empty, Support
<1>2. QED  BY <1>1 DEF Init, PlainInv, Stepping

\* Every step of a plain run keeps searcher, states and heap in agreement.
LEMMA PlainStep ==
  ASSUME BaseInv, PlainInv, [Next]_vars
  PROVE  PlainInv'
<1> USE DEF BaseInv
<1>0. SUFFICES ASSUME Plain, opts' = opts
               PROVE  PlainInv'
  <2>1. opts' = opts
    BY DEF Next, vars, selectState, selectPrioritized, StartStep, releaseStates,
       selectFromEmpty, fork, terminateState, terminateAdded, terminateAddedAgain,
       handleOpenMerge, handleCloseMerge, processTimers, checkMemoryUsage, updateStates, MoveStates,
       updateStatesAsserts, accountSecrets, doDumpStates, runEnds
  <2>2. QED  BY <2>1 DEF PlainInv, Plain
<1> USE DEF setVars, pauseVars, mergeVars
<1>1. CASE /\ UNCHANGED <<heap, born, states, addedStates, searcher, pauseVars,
                          removedStates>>
           /\ phase \notin {"done", "aborted"}
           /\ phase' # "aborted"
           /\ Stepping' => Stepping /\ UNCHANGED current
  BY <1>0, <1>1 DEF PlainInv, Support, CountOf
<1>2. CASE selectState
  <2>1. current' \in states
    BY <1>0, <1>2 DEF selectState, StartStep, LoopTop, PlainInv, Support, CountOf
  <2>2. QED
    BY <1>0, <1>2, <2>1 DEF selectState, StartStep, LoopTop, PlainInv, Support, CountOf
<1>3. CASE selectFromEmpty
  <2>1. PICK s \in Ids : s \in states
    BY <1>3 DEF selectFromEmpty, LoopTop, TypeOK
  <2>2. searcher[s] = 1
    BY <1>0, <1>3, <2>1 DEF selectFromEmpty, LoopTop, PlainInv, CountOf
  <2>3. QED  BY <1>3, <2>2 DEF selectFromEmpty, Support
<1>4. ASSUME NEW s \in Ids, NEW n \in Ids, fork(s, n) PROVE PlainInv'
  BY <1>0, <1>4 DEF fork, PlainInv, Support, CountOf, Stepping
<1>5. ASSUME NEW s \in Ids, s = current, Stepping, phase' # "aborted", Stepping',
             removedStates' = Plus(removedStates, {s}),
             UNCHANGED <<current, heap, born, states, addedStates, searcher, pauseVars>>
      PROVE  PlainInv'
  <2>1. \A x \in Ids : removedStates'[x] =
                        IF x = s THEN removedStates[x] + 1 ELSE removedStates[x]
    BY <1>5 DEF Plus
  <2>2. Support(removedStates') \subseteq Support(removedStates) \cup {s}
    BY <1>5, <2>1 DEF Support
  <2>3. QED
    BY <1>0, <1>5, <2>2 DEF PlainInv, CountOf, Stepping, Support
<1>6. ASSUME NEW s \in Ids, terminateAdded(s) \/ terminateAddedAgain(s)
      PROVE  PlainInv'
  <2>1. open = {}
    BY <1>0 DEF OffersInv, Plain
  <2>2. UNCHANGED pauseVars
    BY <1>6, <2>1 DEF terminateAdded, terminateAddedAgain
  <2>3. s \notin states /\ s \in born
    BY <1>6 DEF terminateAdded, terminateAddedAgain, OwnershipInv
  <2>4. Support(removedStates') \subseteq Support(removedStates) \cup {s}
    BY <1>6 DEF terminateAdded, terminateAddedAgain, Plus, Support
  <2>5. /\ UNCHANGED <<born, states, searcher, current, phase>>
        /\ phase = "execute"
        /\ heap' = heap \ {s} /\ addedStates' = addedStates \ {s}
    BY <1>6 DEF terminateAdded, terminateAddedAgain
  <2>6. Support(removedStates') \subseteq states' \cup (born' \ heap')
    BY <1>0, <2>3, <2>4, <2>5 DEF PlainInv
  <2>7. QED
    BY <1>0, <2>2, <2>3, <2>5, <2>6 DEF PlainInv, CountOf, Stepping
<1>7. ASSUME NEW kill \in SUBSET Ids, checkMemoryUsage(kill) PROVE PlainInv'
  <2>1. \A x \in Ids : removedStates'[x] =
                        IF x \in kill THEN removedStates[x] + 1 ELSE removedStates[x]
    BY <1>7 DEF checkMemoryUsage, Plus
  <2>2. Support(removedStates') \subseteq states \cup (born \ heap)
    BY <1>0, <1>7, <2>1 DEF checkMemoryUsage, PlainInv, Support
  <2>3. QED
    BY <1>0, <1>7, <2>2 DEF checkMemoryUsage, PlainInv, CountOf, Stepping, Support
<1>8. CASE updateStates
  <2>1. /\ MoveStates(removedStates) /\ removedStates \in Count
        /\ searcher' = SearcherStep2 /\ ~Stepping' /\ phase' = "account"
    BY <1>8 DEF updateStates, TypeOK, Stepping
  <2>2. /\ heap' = heap \ Deleted(removedStates) /\ addedStates' = {}
        /\ states' = (states \cup AddedNow) \ Deleted(removedStates)
        /\ removedStates' = Empty
    BY <2>1 DEF MoveStates
  <2>3. searcher' = CountOf(states')
    BY <1>0, <1>8, <2>1, <2>2, PlainSearcher DEF updateStates
  <2>4. pausedStates' = Empty /\ continuedStates' = Empty
    BY <1>0, <2>1, PlainVectors, MoveStatesOff DEF Plain
  <2>5. heap' = states' \cup addedStates'
    BY <1>0, <2>2, PlainVectors DEF PlainInv
  <2>6. Support(removedStates') = {}
    BY <2>2 DEF Support, Empty
  <2>7. QED
    BY <1>0, <2>1, <2>2, <2>3, <2>4, <2>5, <2>6 DEF PlainInv, Support, CountOf
<1>9. CASE updateStatesAsserts
  <2>1. opts.checked /\ \E s \in Ids : TerminatedAgain(s)
    BY <1>0, <1>9, PlainAsserts DEF updateStatesAsserts
  <2>2. \A s \in Ids : TerminatedAgain(s)' <=> TerminatedAgain(s)
    BY <1>9 DEF updateStatesAsserts, TerminatedAgain
  <2>3. QED
    BY <1>0, <1>9, <2>1, <2>2 DEF updateStatesAsserts, PlainInv, Support, CountOf,
       Stepping
<1>10. CASE doDumpStates
  <2>1. /\ MoveStates(CountOf(states)) /\ CountOf(states) \in Count
        /\ ~Stepping' /\ phase' = "done"
    BY <1>10, CountFacts DEF doDumpStates, Stepping
  <2>2. /\ heap' = heap \ Deleted(CountOf(states)) /\ addedStates' = {}
        /\ states' = (states \cup AddedNow) \ Deleted(CountOf(states))
        /\ removedStates' = Empty
    BY <2>1 DEF MoveStates
  <2>3. pausedStates' = Empty /\ continuedStates' = Empty
    BY <1>0, <2>1, PlainVectors, MoveStatesOff DEF Plain
  <2>4. heap' = states' \cup addedStates'
    BY <1>0, <2>2, PlainVectors DEF PlainInv
  <2>5. Support(removedStates') = {}
    BY <2>2 DEF Support, Empty
  <2>6. QED
    BY <1>0, <2>1, <2>2, <2>3, <2>4, <2>5 DEF PlainInv, Support
<1>11. CASE runEnds
  BY <1>0, <1>11 DEF runEnds, PlainInv, Support, Stepping
<1>12. ~(selectPrioritized \/ releaseStates \/ handleOpenMerge \/ handleCloseMerge)
  BY <1>0 DEF selectPrioritized, releaseStates, handleOpenMerge, handleCloseMerge,
     OffersInv, Plain
<1>13. ASSUME NEW s \in Ids, terminateState(s) PROVE PlainInv'
  BY <1>5, <1>13 DEF terminateState, Stepping
<1>14. ASSUME NEW isBranch, NEW stop, NEW tooSlow, processTimers(isBranch, stop, tooSlow)
       PROVE  PlainInv'
  <2>1. CASE tooSlow /\ Running(current)
    <3>1. current \in Ids
      BY <1>14 DEF processTimers, TypeOK
    <3>2. QED  BY <1>5, <1>14, <2>1, <3>1 DEF processTimers, Stepping
  <2>2. CASE ~(tooSlow /\ Running(current))
    BY <1>1, <1>14, <2>2 DEF processTimers, Stepping
  <2>3. QED  BY <2>1, <2>2
<1>15. ASSUME NEW high, NEW read, accountSecrets(high, read) PROVE PlainInv'
  BY <1>1, <1>15 DEF accountSecrets, Stepping
<1>16. CASE UNCHANGED vars
  BY <1>0, <1>16 DEF vars, PlainInv, Support, CountOf, Stepping, TerminatedAgain
<1>17. QED
  BY <1>2, <1>3, <1>4, <1>6, <1>7, <1>8, <1>9, <1>10, <1>11, <1>12, <1>13, <1>14,
     <1>15, <1>16 DEF Next

-----------------------------------------------------------------------------
(* Runs that merge *)

\* Everybody who waits is paused once, so releasing them empties their places
\* in pausedStates and puts nobody into continuedStates.
LEMMA ReleaseWaiting ==
  ASSUME TypeOK, continuedStates = Empty, \A s \in closed : pausedStates[s] = 1,
         ContinueStates(closed)
  PROVE  /\ continuedStates' = Empty
         /\ \A s \in Ids : pausedStates'[s] = IF s \in closed THEN 0 ELSE pausedStates[s]
<1>1. \A s \in Ids : continuedStates'[s] = 0
  BY DEF ContinueStates, Empty, TypeOK
<1>2. continuedStates' = [s \in Ids |-> continuedStates'[s]]
  BY DEF ContinueStates
<1>3. continuedStates' = Empty
  BY <1>1, <1>2 DEF Empty
<1>4. QED  BY <1>3 DEF ContinueStates, TypeOK, Count

\* A state that reaches klee_close_merge and merges with nobody is paused, and
\* is released together with those that wait if it was the last one inside.
LEMMA PauseWaiting ==
  ASSUME TypeOK, continuedStates = Empty, \A s \in closed : pausedStates[s] = 1,
         current \in Ids, pausedStates[current] = 0, NEW release \in BOOLEAN,
         PauseAndRelease(current, closed \cup {current}, release)
  PROVE  /\ continuedStates' = Empty
         /\ \A s \in Ids : pausedStates'[s] =
              IF s \in closed \cup {current} THEN IF release THEN 0 ELSE 1
                                             ELSE pausedStates[s]
<1> DEFINE p == Plus(pausedStates, {current})
           R == IF release THEN closed \cup {current} ELSE {}
<1>1. continuedStates[current] = 0
  BY DEF Empty
<1>2. /\ pausedStates' = [x \in Ids |-> IF x \in R /\ p[x] > 0 THEN p[x] - 1
                                                              ELSE p[x]]
      /\ continuedStates' = [x \in Ids |-> IF x \in R /\ p[x] = 0
                               THEN continuedStates[x] + 1 ELSE continuedStates[x]]
  BY <1>1 DEF PauseAndRelease
<1>3. \A x \in Ids : p[x] = IF x \in closed \cup {current} THEN 1 ELSE pausedStates[x]
  BY DEF Plus, TypeOK, Count
<1> HIDE DEF p
<1>4. \A s \in Ids : continuedStates'[s] = 0
  BY <1>2, <1>3 DEF Empty
<1>5. continuedStates' = Empty
  BY <1>2, <1>4 DEF Empty
<1>6. QED  BY <1>2, <1>3, <1>5 DEF TypeOK, Count

\* In a run that merges updateStates takes what is paused out of the searcher
\* and offers each other state at most once.
LEMMA MergeSearcher ==
  ASSUME TypeOK, MergeInv, MergeRun, phase = "update", SearcherAssertsHold,
         addedStates \subseteq born, NEW s \in Ids
  PROVE  /\ PausedNow = pausedStates /\ ContinuedNow = continuedStates
         /\ AddedNow = addedStates
         /\ SearcherStep2[s] <= 1
         /\ pausedStates[s] > 0 \/ s \notin born => SearcherStep2[s] = 0
<1>1. PausedNow = pausedStates /\ ContinuedNow = continuedStates /\ AddedNow = addedStates
  BY DEF PausedNow, ContinuedNow, AddedNow, Pausing, Resuming, MergeRun
<1>2. /\ searcher[s] \in Nat /\ removedStates[s] \in Nat /\ SearcherStep1[s] \in Nat
      /\ pausedStates[s] \in Nat /\ continuedStates[s] = 0
  BY UpdateFacts DEF TypeOK, Count, MergeInv, Empty
<1>3. CountOf(AddedNow)[s] = IF s \in addedStates THEN 1 ELSE 0
  BY <1>1 DEF CountOf
<1>4. searcher[s] + CountOf(AddedNow)[s] <= 1
  BY <1>2, <1>3 DEF MergeInv
<1>5. SearcherStep1[s] <= 1
  BY <1>2, <1>3, <1>4 DEF SearcherStep1, Updated
<1>6. s \notin born => SearcherStep1[s] = 0
  BY <1>2, <1>3 DEF SearcherStep1, Updated, MergeInv
<1>7. SearcherStep2[s] = IF opts.checked
        THEN IF SearcherStep1[s] >= pausedStates[s]
               THEN SearcherStep1[s] - pausedStates[s] ELSE 0
        ELSE IF pausedStates[s] > 0 THEN 0 ELSE SearcherStep1[s]
  BY <1>1, <1>2 DEF SearcherStep2, Updated
<1>8. QED  BY <1>1, <1>2, <1>5, <1>6, <1>7

\* What updateStates and doDumpStates do to the vectors and the region: those
\* who wait are released if nobody is left inside.
LEMMA MergeMoves ==
  ASSUME TypeOK, OwnershipInv, MergeInv, MergeRun, phase # "aborted",
         NEW removed \in Count, MoveStates(removed)
  PROVE  /\ continuedStates' = Empty /\ addedStates' = {}
         /\ open' \subseteq open /\ closed' \subseteq closed /\ born' = born
         /\ \A s \in Ids : pausedStates'[s] <= pausedStates[s]
         /\ \A s \in closed' : pausedStates'[s] = 1
<1> DEFINE release == open # {} /\ open \subseteq Deleted(removed)
           R == IF release THEN closed ELSE {}
<1>1. PausedNow = pausedStates /\ ContinuedNow = continuedStates
  BY DEF PausedNow, ContinuedNow, Pausing, Resuming, MergeRun
<1>2. /\ pausedStates' = [s \in Ids |-> IF s \in R /\ pausedStates[s] > 0
                            THEN pausedStates[s] - 1 ELSE pausedStates[s]]
      /\ continuedStates' = [s \in Ids |-> IF s \in R /\ pausedStates[s] = 0
                            THEN continuedStates[s] + 1 ELSE continuedStates[s]]
      /\ closed' = IF release THEN {} ELSE closed
      /\ open' \subseteq open /\ addedStates' = {} /\ born' = born
  BY <1>1 DEF MoveStates, LeaveRegion
<1>3. R \subseteq closed /\ (release => closed' = {}) /\ (~release => R = {} /\ closed' = closed)
  BY <1>2
<1> HIDE DEF R, release
<1>4. /\ continuedStates = Empty /\ \A s \in closed : pausedStates[s] = 1
      /\ closed \subseteq Ids /\ pausedStates \in Count
  BY DEF MergeInv, TypeOK
<1>5. \A s \in Ids : continuedStates'[s] = 0
  BY <1>2, <1>3, <1>4 DEF Empty
<1>6. continuedStates' = Empty
  BY <1>2, <1>5 DEF Empty
<1>7. \A s \in Ids : pausedStates'[s] <= pausedStates[s]
  BY <1>2, <1>4 DEF Count
<1>8. \A s \in closed' : pausedStates'[s] = 1
  BY <1>2, <1>3, <1>4 DEF Count
<1>9. QED  BY <1>2, <1>3, <1>6, <1>7, <1>8

\* Every step of a run that merges keeps those who wait paused and not offered.
LEMMA MergeStep ==
  ASSUME TypeOK, OwnershipInv, BetweenInv, MergeInv, [Next]_vars, TypeOK'
  PROVE  MergeInv'
<1>0. SUFFICES ASSUME MergeRun, phase' # "aborted", phase # "aborted"
               PROVE  MergeInv'
  <2>1. opts' = opts /\ (phase = "aborted" => phase' = "aborted")
    BY DEF Next, vars, selectState, selectPrioritized, StartStep, releaseStates,
       selectFromEmpty, fork, terminateState, terminateAdded, terminateAddedAgain,
       handleOpenMerge, handleCloseMerge, processTimers, checkMemoryUsage,
       updateStates, MoveStates, updateStatesAsserts, accountSecrets, doDumpStates,
       runEnds, LoopTop
  <2>2. QED  BY <2>1 DEF MergeInv, MergeRun
<1> USE DEF setVars, pauseVars, mergeVars
<1>1. CASE /\ UNCHANGED <<born, addedStates, searcher, pauseVars, mergeVars>>
           /\ Stepping' => Stepping /\ UNCHANGED current
           /\ phase' = "execute" => phase = "execute"
           /\ phase \in {"executed", "memory", "update"} =>
                phase' \in {"executed", "memory", "update"}
  BY <1>0, <1>1 DEF MergeInv, Stepping
<1>2. CASE selectState \/ selectPrioritized
  <2>1. PICK s \in Ids : pausedStates[s] = 0 /\ s \in born /\ StartStep(s)
    BY <1>0, <1>2 DEF selectState, selectPrioritized, LoopTop, MergeInv, Support,
       TypeOK, Count
  <2>2. addedStates = {} /\ phase = "select"
    BY <1>2 DEF selectState, selectPrioritized, LoopTop, BetweenInv
  <2>3. QED  BY <1>0, <2>1, <2>2 DEF StartStep, MergeInv, Stepping
<1>3. CASE releaseStates
  <2>1. /\ continuedStates' = Empty
        /\ \A s \in Ids : pausedStates'[s] = IF s \in closed THEN 0 ELSE pausedStates[s]
    BY <1>0, <1>3, ReleaseWaiting DEF releaseStates, MergeInv
  <2>2. /\ UNCHANGED <<born, addedStates, searcher, open, phase>> /\ closed' = {}
        /\ phase = "select"
    BY <1>3 DEF releaseStates, LoopTop
  <2>3. QED  BY <1>0, <2>1, <2>2 DEF MergeInv, Stepping, TypeOK
<1>4. ASSUME NEW s \in Ids, NEW n \in Ids, fork(s, n) PROVE MergeInv'
  <2>1. /\ n \notin born /\ born' = born \cup {n} /\ addedStates' = addedStates \cup {n}
        /\ open' = (IF s \in open THEN open \cup {n} ELSE open)
        /\ UNCHANGED <<searcher, pauseVars, closed, phase, current>>
        /\ phase = "execute"
    BY <1>4 DEF fork
  <2>2. pausedStates[n] = 0 /\ searcher[n] = 0
    BY <1>0, <2>1 DEF MergeInv
  <2>3. n # current
    BY <1>0, <2>1 DEF MergeInv, Stepping
  <2>4. QED  BY <1>0, <2>1, <2>2, <2>3 DEF MergeInv, Stepping
<1>5. ASSUME NEW s \in Ids, terminateAdded(s) \/ terminateAddedAgain(s)
      PROVE  MergeInv'
  <2>1. /\ addedStates' = addedStates \ {s} /\ open' = open \ {s}
        /\ UNCHANGED <<born, searcher, phase, current>> /\ phase = "execute"
    BY <1>5 DEF terminateAdded, terminateAddedAgain, LeaveRegion
  <2>2. CASE open # {} /\ open \subseteq {s}
    <3>1. ContinueStates(closed) /\ closed' = {}
      BY <1>5, <2>2 DEF terminateAdded, terminateAddedAgain, LeaveRegion
    <3>2. /\ continuedStates' = Empty
          /\ \A x \in Ids : pausedStates'[x] = IF x \in closed THEN 0 ELSE pausedStates[x]
      BY <1>0, <3>1, ReleaseWaiting DEF MergeInv
    <3>3. QED  BY <1>0, <2>1, <3>1, <3>2 DEF MergeInv, Stepping, TypeOK
  <2>3. CASE ~(open # {} /\ open \subseteq {s})
    <3>1. UNCHANGED <<pauseVars, closed>>
      BY <1>5, <2>3 DEF terminateAdded, terminateAddedAgain, LeaveRegion
    <3>2. QED  BY <1>0, <2>1, <3>1 DEF MergeInv, Stepping
  <2>4. QED  BY <2>2, <2>3
<1>6. CASE handleOpenMerge
  <2>1. /\ open' = {current} /\ phase = "execute" /\ phase' = "executed"
        /\ UNCHANGED <<born, addedStates, searcher, pauseVars, closed, current>>
    BY <1>6 DEF handleOpenMerge
  <2>2. current \in Ids /\ current \in born'
    BY <1>0, <2>1 DEF TypeOK, MergeInv, Stepping
  <2>3. QED  BY <1>0, <2>1, <2>2 DEF MergeInv, Stepping
<1>7. CASE handleCloseMerge
  <2>1. /\ current \in open /\ open' = open \ {current}
        /\ phase = "execute" /\ phase' = "executed"
        /\ UNCHANGED <<born, addedStates, searcher, current>>
    BY <1>7 DEF handleCloseMerge
  <2>2. current \in Ids /\ pausedStates[current] = 0 /\ current \in born
    BY <1>0, <2>1 DEF MergeInv, TypeOK
  <2>3. CASE /\ PauseAndRelease(current, closed \cup {current}, open' = {})
             /\ closed' = IF open' = {} THEN {} ELSE closed \cup {current}
    <3>1. (open' = {}) \in BOOLEAN
      OBVIOUS
    <3>2. /\ continuedStates' = Empty
          /\ \A s \in Ids : pausedStates'[s] =
               IF s \in closed \cup {current} THEN IF open' = {} THEN 0 ELSE 1
                                              ELSE pausedStates[s]
      BY <1>0, <2>2, <2>3, <3>1, PauseWaiting DEF MergeInv
    <3>3. QED  BY <1>0, <2>1, <2>2, <2>3, <3>2 DEF MergeInv, Stepping, TypeOK
  <2>4. CASE /\ open' = {} /\ ContinueStates(closed) /\ closed' = {}
    <3>1. /\ continuedStates' = Empty
          /\ \A s \in Ids : pausedStates'[s] = IF s \in closed THEN 0 ELSE pausedStates[s]
      BY <1>0, <2>4, ReleaseWaiting DEF MergeInv
    <3>2. QED  BY <1>0, <2>1, <2>2, <2>4, <3>1 DEF MergeInv, Stepping, TypeOK
  <2>5. CASE UNCHANGED <<pauseVars, closed>>
    BY <1>0, <2>1, <2>2, <2>5 DEF MergeInv, Stepping
  <2>6. QED  BY <1>7, <2>3, <2>4, <2>5 DEF handleCloseMerge
<1>8. CASE updateStates
  <2>1. /\ MoveStates(removedStates) /\ removedStates \in Count
        /\ searcher' = SearcherStep2 /\ SearcherAssertsHold
        /\ phase = "update" /\ phase' = "account"
    BY <1>8 DEF updateStates, TypeOK
  <2>2. /\ continuedStates' = Empty /\ addedStates' = {}
        /\ open' \subseteq open /\ closed' \subseteq closed /\ born' = born
        /\ \A s \in Ids : pausedStates'[s] <= pausedStates[s]
        /\ \A s \in closed' : pausedStates'[s] = 1
    BY <1>0, <2>1, MergeMoves
  <2>3. \A s \in Ids : /\ searcher'[s] <= 1
                       /\ pausedStates[s] > 0 \/ s \notin born => searcher'[s] = 0
    BY <1>0, <2>1, MergeSearcher DEF OwnershipInv
  <2>4. ~Stepping' /\ phase' # "execute"
    BY <2>1 DEF Stepping
  <2>5. ASSUME NEW s \in Ids
        PROVE  /\ pausedStates'[s] <= 1 /\ ~(pausedStates'[s] > 0 /\ searcher'[s] > 0)
               /\ s \in open' \/ s \notin born' => pausedStates'[s] = 0
               /\ s \notin born' => searcher'[s] = 0
    <3>1. /\ pausedStates[s] \in Nat /\ pausedStates'[s] \in Nat
          /\ searcher'[s] \in Nat
      BY DEF TypeOK, Count
    <3>2. /\ pausedStates[s] <= 1
          /\ s \in open \/ s \notin born => pausedStates[s] = 0
      BY <1>0 DEF MergeInv
    <3>3. /\ pausedStates'[s] <= pausedStates[s]
          /\ s \in open' => s \in open
          /\ born' = born
      BY <2>2
    <3>4. pausedStates[s] > 0 \/ s \notin born => searcher'[s] = 0
      BY <2>3
    <3>5. QED  BY <3>1, <3>2, <3>3, <3>4
  <2>6. open' \subseteq born' /\ closed' \subseteq born' /\ open' \subseteq Ids
    BY <1>0, <2>2 DEF MergeInv, TypeOK
  <2>7. QED
    BY <2>2, <2>3, <2>4, <2>5, <2>6 DEF MergeInv
<1>9. CASE doDumpStates
  <2>1. /\ MoveStates(CountOf(states)) /\ CountOf(states) \in Count
        /\ searcher' = Empty /\ phase' = "done"
    BY <1>9, CountFacts DEF doDumpStates
  <2>2. /\ continuedStates' = Empty /\ addedStates' = {}
        /\ open' \subseteq open /\ closed' \subseteq closed /\ born' = born
        /\ \A s \in Ids : pausedStates'[s] <= pausedStates[s]
        /\ \A s \in closed' : pausedStates'[s] = 1
    BY <1>0, <2>1, MergeMoves
  <2>3. \A s \in Ids : searcher'[s] = 0
    BY <2>1 DEF Empty
  <2>4. QED  BY <1>0, <2>1, <2>2, <2>3 DEF MergeInv, Stepping, TypeOK, Count
<1>10. CASE runEnds
  <2>1. \A s \in Ids : searcher'[s] = 0
    BY <1>10 DEF runEnds, Empty
  <2>2. UNCHANGED <<born, addedStates, pauseVars, mergeVars>> /\ phase' = "done"
    BY <1>10 DEF runEnds
  <2>3. ~Stepping' /\ phase' # "execute" /\ addedStates' \subseteq Ids
    BY <2>2 DEF Stepping, TypeOK
  <2>4. \A s \in Ids : searcher'[s] <= 1 /\ ~(searcher'[s] > 0)
    BY <2>1
  <2>5. QED  BY <1>0, <2>1, <2>2, <2>3, <2>4 DEF MergeInv
<1>11. QED
  <2>1. CASE Next
    BY <2>1, <1>0, <1>1, <1>2, <1>3, <1>4, <1>5, <1>6, <1>7, <1>8, <1>9, <1>10
       DEF Next, selectFromEmpty, terminateState, processTimers, checkMemoryUsage,
       updateStatesAsserts, accountSecrets, Stepping
  <2>2. CASE UNCHANGED vars
    BY <2>2, <1>1 DEF vars, Stepping
  <2>3. QED  BY <2>1, <2>2

-----------------------------------------------------------------------------
(* The theorems *)

\* The whole inductive invariant.
THEOREM Invariant == Spec => []IInv
<1>1. Init => BetweenInv /\ MergeInv
  <2> SUFFICES ASSUME Init PROVE BetweenInv /\ MergeInv
    OBVIOUS
  <2>1. \A s \in Ids : pausedStates[s] = 0 /\ searcher[s] \in {0, 1}
                       /\ (s \notin born => searcher[s] = 0)
    BY DEF Init, Empty, CountOf
  <2>2. QED  BY <2>1 DEF Init, BetweenInv, MergeInv, Stepping
<1>2. Init => OffersInv
  <2> SUFFICES ASSUME Init PROVE OffersInv
    OBVIOUS
  <2>1. /\ Support(searcher) = {Root} /\ Support(pausedStates) = {}
        /\ Support(continuedStates) = {} /\ searcher[Root] = 1
    BY IdsAssumption DEF Init, Support, CountOf, Empty
  <2>2. QED  BY <2>1 DEF Init, OffersInv, Stepping
<1>3. IInv /\ [Next]_vars => IInv'
  BY NextType, OwnershipStep, BetweenStep, OffersStep, PlainStep, MergeStep
     DEF IInv, BaseInv
<1>4. Init => IInv
  BY <1>1, <1>2, InitType, InitOwnership, InitPlain DEF IInv
<1>5. QED  BY <1>3, <1>4, PTL DEF Spec

\* At the top of the loop of a plain run the searcher offers exactly the
\* members of Executor::states, and they are exactly what is allocated.
THEOREM PlainRunsAreExact == Spec => [](SearcherOffersStates /\ StatesAreAllocated)
<1>1. IInv => SearcherOffersStates /\ StatesAreAllocated
  BY DEF IInv, BetweenInv, PlainInv, SearcherOffersStates, StatesAreAllocated
<1>2. QED  BY <1>1, Invariant, PTL

\* Without merging no instruction of a deleted state is executed, paused and
\* resumed states included.
THEOREM NoUseAfterDelete == Spec => []CurrentIsAllocated
<1>1. IInv => CurrentIsAllocated
  BY DEF IInv, OffersInv, CurrentIsAllocated, Stepping
<1>2. QED  BY <1>1, Invariant, PTL

\* In plain runs the searchers' asserts fail for nothing but a state that was
\* terminated twice by one instruction, or after it by the memory cap.
THEOREM PlainRunsAbortForTwice == Spec => []OnlyTerminatedTwiceAsserts
<1>1. IInv => OnlyTerminatedTwiceAsserts
  BY DEF IInv, PlainInv, OnlyTerminatedTwiceAsserts
<1>2. QED  BY <1>1, Invariant, PTL

\* No state is executed while it waits at the end of a merge region.
THEOREM WaitingStatesAreNotExecuted == Spec => []WaitingStatesRest
<1>1. IInv => WaitingStatesRest
  BY DEF IInv, MergeInv, MergeRun, OffersInv, WaitingStatesRest
<1>2. QED  BY <1>1, Invariant, PTL
=============================================================================
