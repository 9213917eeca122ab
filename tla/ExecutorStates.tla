--------------------------- MODULE ExecutorStates ---------------------------
(***************************************************************************)
(* How Executor::run keeps track of its execution states.  A state is in   *)
(* the set "states", in the searcher, and in the vectors addedStates,      *)
(* removedStates, pausedStates and continuedStates while an instruction    *)
(* is executed; updateStates moves it between them and deletes it.         *)
(*                                                                         *)
(* A vector whose order no property depends on is the function that counts *)
(* how often each state occurs in it.  The searcher is the bag of states   *)
(* it may select from.  Execution states are never reused after deletion,  *)
(* so a use after delete is visible as a state outside "heap".             *)
(***************************************************************************)
EXTENDS Naturals, FiniteSets

CONSTANTS
  Ids,       \* execution states that can be allocated (bound)
  Root,      \* the initial execution state
  NoState,   \* a null ExecutionState pointer
  Options,   \* command lines that are explored, see OptionsAssumption
  MaxOffers, \* bound: how often the searcher may hold one state
  MaxTerminations \* bound: how often one instruction may terminate a state

ASSUME IdsAssumption == /\ IsFiniteSet(Ids)
                        /\ Root \in Ids
                        /\ NoState \notin Ids
                        /\ MaxTerminations \in Nat
                        /\ MaxOffers \in Nat
\* checked: DFS, BFS and random searchers assert that a removed state is there;
\*          otherwise the weighted random searcher, which looks it up first
\* memcap:  --max-memory may kill states
\* pause:   --pause-secret-indep
\* merge:   --use-merge, "incomplete" with --use-incomplete-merge
ASSUME OptionsAssumption ==
  Options \subseteq [checked : BOOLEAN, memcap : BOOLEAN, pause : BOOLEAN,
                     merge : {"off", "on", "incomplete"}]

VARIABLES
  opts,            \* the command line
  phase,           \* where run is in its loop
  heap,            \* execution states that are allocated
  born,            \* execution states that were ever allocated
  deletes,         \* how often each was passed to delete
  states,          \* Executor::states
  searcher,        \* bag of states the searcher selects from
  current,         \* the state that selectState returned
  addedStates,     \* states forked by this instruction
  removedStates,   \* states terminated since the last updateStates
  pausedStates,
  continuedStates,
  halt,            \* haltExecution
  secret,          \* states with secretDescendant set
  sensitiveDesc,   \* stats::sensitiveDesc
  succ,            \* successorsPaths of the current branch instruction
  addedCopy, removedCopy, \* addedStates_copy, removedStates_copy
  open,            \* MergeHandler::openStates of the one merge region
  closed           \* states in its reachedCloseMerge

setVars == <<heap, born, deletes, states, searcher, addedStates, removedStates>>
pauseVars == <<pausedStates, continuedStates>>
secretVars == <<secret, sensitiveDesc, succ, addedCopy, removedCopy>>
mergeVars == <<open, closed>>
vars == <<opts, phase, current, halt, setVars, pauseVars, secretVars, mergeVars>>

Count == [Ids -> Nat]
Empty == [s \in Ids |-> 0]
CountOf(S) == [s \in Ids |-> IF s \in S THEN 1 ELSE 0]
Plus(f, S) == [s \in Ids |-> IF s \in S THEN f[s] + 1 ELSE f[s]]
Support(f) == {s \in Ids : f[s] > 0}

Init ==
  /\ opts \in Options
  /\ phase = "select"
  /\ heap = {Root} /\ born = {Root} /\ deletes = Empty
  /\ states = {Root} /\ searcher = CountOf({Root})
  /\ current = NoState
  /\ addedStates = {} /\ removedStates = Empty
  /\ pausedStates = Empty /\ continuedStates = Empty
  /\ halt = FALSE
  /\ secret = {} /\ sensitiveDesc = 0 /\ succ = {}
  /\ addedCopy = {} /\ removedCopy = Empty
  /\ open = {} /\ closed = {}

-----------------------------------------------------------------------------
(* MergeHandler.cpp: pauseState, continueState and releaseStates *)

\* continueState for every state of S
ContinueStates(S) ==
  /\ pausedStates' = [s \in Ids |-> IF s \in S /\ pausedStates[s] > 0
                                      THEN pausedStates[s] - 1
                                      ELSE pausedStates[s]]
  /\ continuedStates' = [s \in Ids |-> IF s \in S /\ pausedStates[s] = 0
                                         THEN continuedStates[s] + 1
                                         ELSE continuedStates[s]]

\* pauseState(s), then continueState for the states of S if release holds
PauseAndRelease(s, S, release) ==
  LET p == IF continuedStates[s] > 0
             THEN pausedStates ELSE Plus(pausedStates, {s})
      c == IF continuedStates[s] > 0
             THEN [continuedStates EXCEPT ![s] = @ - 1] ELSE continuedStates
      R == IF release THEN S ELSE {}
  IN /\ pausedStates' = [x \in Ids |-> IF x \in R /\ p[x] > 0 THEN p[x] - 1
                                                              ELSE p[x]]
     /\ continuedStates' = [x \in Ids |-> IF x \in R /\ p[x] = 0 THEN c[x] + 1
                                                                 ELSE c[x]]

-----------------------------------------------------------------------------
(* The top of the loop: while (!states.empty() && !haltExecution) *)

LoopTop == phase = "select" /\ states # {} /\ ~halt

StartStep(s) ==
  /\ current' = s
  /\ phase' = "execute"
  /\ UNCHANGED <<opts, halt, setVars, pauseVars, secretVars, mergeVars>>

selectState ==
  /\ LoopTop
  /\ opts.merge = "incomplete" => closed = {}
  /\ \E s \in Support(searcher) : StartStep(s)

\* getPrioritizeState: a state inside the region whose other states wait
selectPrioritized ==
  /\ LoopTop
  /\ opts.merge = "incomplete" /\ closed # {}
  /\ \E s \in open : StartStep(s)

\* MergingSearcher gives up waiting: releaseStates
releaseStates ==
  /\ LoopTop
  /\ opts.merge = "incomplete" /\ closed # {}
  /\ ContinueStates(closed)
  /\ closed' = {}
  /\ UNCHANGED <<opts, phase, current, halt, setVars, secretVars, open>>

\* back() of an empty vector, choose() of an empty tree
selectFromEmpty ==
  /\ LoopTop
  /\ opts.merge = "incomplete" => closed = {}
  /\ Support(searcher) = {}
  /\ phase' = "aborted"
  /\ UNCHANGED <<opts, current, halt, setVars, pauseVars, secretVars, mergeVars>>

-----------------------------------------------------------------------------
(* The instruction of the current state *)

Stepped == {current} \cup addedStates
Running(s) == removedStates[s] = 0

\* fork and branch: a copy of the current state or of an earlier copy.  The
\* handlers of library calls go on with a state they have terminated, so that
\* one may be forked too.
fork(s, n) ==
  /\ phase = "execute"
  /\ s \in Stepped /\ s \in Ids
  /\ n \notin born
  /\ heap' = heap \cup {n} /\ born' = born \cup {n}
  /\ addedStates' = addedStates \cup {n}
  /\ secret' = IF s \in secret THEN secret \cup {n} ELSE secret
  /\ open' = IF s \in open THEN open \cup {n} ELSE open
  /\ UNCHANGED <<opts, phase, current, halt, deletes, states, searcher,
                 removedStates, pauseVars, sensitiveDesc, succ, addedCopy,
                 removedCopy, closed>>

\* ~ExecutionState leaves the merge regions the dead states are in; the last
\* one out destroys the MergeHandler, which releases the waiting states.
LeaveRegion(dead) ==
  /\ open' = open \ dead
  /\ closed' = IF open # {} /\ open \subseteq dead THEN {} ELSE closed

\* terminateState of a state that updateStates knows.  Nothing keeps one
\* instruction from doing it again: __assert_fail with a string that cannot be
\* read, two reference counts that fall below zero, one and then the abort of
\* executePM.
terminateState(s) ==
  /\ phase = "execute"
  /\ s = current /\ removedStates[s] < MaxTerminations
  /\ removedStates' = Plus(removedStates, {s})
  /\ UNCHANGED <<opts, phase, current, halt, heap, born, deletes, states,
                 searcher, addedStates, pauseVars, secretVars, mergeVars>>

\* Mutant of terminateAdded: deleted, and still in addedStates.
terminateAddedKept(s) ==
  /\ phase = "execute"
  /\ s \in addedStates
  /\ heap' = heap \ {s}
  /\ deletes' = Plus(deletes, {s})
  /\ LeaveRegion({s})
  /\ IF open # {} /\ open \subseteq {s} THEN ContinueStates(closed)
                                        ELSE UNCHANGED pauseVars
  /\ UNCHANGED <<opts, phase, current, halt, born, states, searcher,
                 addedStates, removedStates, secretVars>>

\* terminateState of a state forked by this instruction: deleted on the spot
terminateAdded(s) ==
  /\ phase = "execute"
  /\ s \in addedStates
  /\ addedStates' = addedStates \ {s}
  /\ heap' = heap \ {s}
  /\ deletes' = Plus(deletes, {s})
  /\ LeaveRegion({s})
  /\ IF open # {} /\ open \subseteq {s} THEN ContinueStates(closed)
                                        ELSE UNCHANGED pauseVars
  /\ UNCHANGED <<opts, phase, current, halt, born, states, searcher,
                 removedStates, secretVars>>

\* A state forked by this instruction is terminated twice (klee_alias_function,
\* called through a pointer, with two strings that cannot be read): the second
\* time it is deleted already, is not found in addedStates and goes into
\* removedStates.  That the deleted state is read and written is undefined;
\* the run is taken to go on.
terminateAddedAgain(s) ==
  /\ phase = "execute"
  /\ s \in addedStates
  /\ addedStates' = addedStates \ {s}
  /\ removedStates' = Plus(removedStates, {s})
  /\ heap' = heap \ {s}
  /\ deletes' = Plus(deletes, {s})
  /\ LeaveRegion({s})
  /\ IF open # {} /\ open \subseteq {s} THEN ContinueStates(closed)
                                        ELSE UNCHANGED pauseVars
  /\ UNCHANGED <<opts, phase, current, halt, born, states, searcher, secretVars>>

\* klee_open_merge; one region at a time (bound)
handleOpenMerge ==
  /\ phase = "execute"
  /\ opts.merge # "off" /\ Running(current) /\ addedStates = {}
  /\ open = {} /\ closed = {}
  /\ open' = {current}
  /\ phase' = "executed"
  /\ UNCHANGED <<opts, current, halt, setVars, pauseVars, secretVars,
                 closed>>

\* Mutant of handleCloseMerge: the state waits and is not paused.
handleCloseMergeUnpaused ==
  /\ phase = "execute"
  /\ current \in open /\ Running(current) /\ addedStates = {}
  /\ phase' = "executed"
  /\ open' = open \ {current}
  /\ closed' = IF open' = {} THEN {} ELSE closed \cup {current}
  /\ IF open' = {} THEN ContinueStates(closed) ELSE UNCHANGED pauseVars
  /\ UNCHANGED <<opts, current, halt, heap, born, deletes, states,
                 searcher, addedStates, removedStates, secretVars>>

\* klee_close_merge: addClosedState and the pop of the merge stack
handleCloseMerge ==
  /\ phase = "execute"
  /\ current \in open /\ Running(current) /\ addedStates = {}
  /\ phase' = "executed"
  /\ open' = open \ {current}
  /\ \/ \* nothing to merge with, or no merge possible
        LET waiting == closed \cup {current} IN
        /\ PauseAndRelease(current, waiting, open' = {})
        /\ closed' = IF open' = {} THEN {} ELSE waiting
        /\ UNCHANGED removedStates
     \/ \* merged into a waiting state
        /\ closed # {}
        /\ removedStates' = Plus(removedStates, {current})
        /\ IF open' = {} THEN ContinueStates(closed) /\ closed' = {}
                         ELSE UNCHANGED <<pauseVars, closed>>
  /\ UNCHANGED <<opts, current, halt, heap, born, deletes, states,
                 searcher, addedStates, secretVars>>

\* The instruction is done.  For a branch instruction successorsPaths holds
\* the states that go on.  processTimers may stop the run (HaltTimer) and may
\* terminate the current state (--max-instruction-time).
processTimers(isBranch, stop, tooSlow) ==
  /\ phase = "execute" \/ (phase = "executed" /\ ~isBranch)
  /\ succ' = IF isBranch THEN {s \in Stepped \cap Ids : Running(s)} ELSE {}
  /\ halt' = (halt \/ stop)
  /\ removedStates' = IF tooSlow /\ Running(current)
                        THEN Plus(removedStates, {current}) ELSE removedStates
  /\ phase' = "memory"
  /\ UNCHANGED <<opts, current, heap, born, deletes, states, searcher,
                 addedStates, pauseVars, secret, sensitiveDesc, addedCopy,
                 removedCopy, mergeVars>>

\* checkMemoryUsage: random members of states are terminated, whether or not
\* they are in removedStates already
checkMemoryUsage(kill) ==
  /\ phase = "memory"
  /\ kill = {} \/ (opts.memcap /\ kill \subseteq states)
  /\ removedStates' = Plus(removedStates, kill)
  /\ phase' = "update"
  /\ UNCHANGED <<opts, current, halt, heap, born, deletes, states, searcher,
                 addedStates, pauseVars, secretVars, mergeVars>>
-----------------------------------------------------------------------------
(* updateStates *)

\* --pause-secret-indep: what the vectors are after the first part
Pausing == opts.pause /\ sensitiveDesc > 0
Resuming == opts.pause /\ sensitiveDesc = 0
PausedNow == IF Pausing THEN Plus(pausedStates, addedStates \ secret)
             ELSE IF Resuming THEN Empty ELSE pausedStates
ContinuedNow == IF Resuming
                  THEN [s \in Ids |-> continuedStates[s] + pausedStates[s]]
                  ELSE continuedStates
AddedNow == IF Pausing THEN addedStates \ Support(PausedNow) ELSE addedStates

\* Searcher::update(current, add, del): the new bag, and whether its asserts
\* hold ("invalid state removed", "argument(item) already in tree")
Updated(bag, add, del) ==
  [s \in Ids |-> IF opts.checked
                   THEN IF bag[s] + add[s] >= del[s]
                          THEN bag[s] + add[s] - del[s] ELSE 0
                   ELSE IF del[s] > 0 THEN 0 ELSE bag[s] + add[s]]
AssertsHold(bag, add, del) ==
  \A s \in Ids : IF opts.checked THEN bag[s] + add[s] >= del[s]
                                 ELSE add[s] > 0 => bag[s] + add[s] <= 1

\* Mutant of SearcherStep1: forked states do not reach the searcher.
SearcherMissesForks == Updated(searcher, Empty, removedStates)

\* Mutant of SearcherStep1: terminated states stay in the searcher.
SearcherKeepsRemoved == Updated(searcher, CountOf(AddedNow), Empty)

SearcherStep1 == Updated(searcher, CountOf(AddedNow), removedStates)
SearcherStep2 == Updated(SearcherStep1, ContinuedNow, PausedNow)
SearcherAssertsHold ==
  /\ AssertsHold(searcher, CountOf(AddedNow), removedStates)
  /\ AssertsHold(SearcherStep1, ContinuedNow, PausedNow)

\* the states that are found in states, erased and deleted; the guard makes
\* the second occurrence of a state in removedStates harmless
Deleted(removed) == (states \cup AddedNow) \cap Support(removed)

\* Mutant of DeleteStates: no guard, every occurrence is deleted.
DeleteEveryOccurrence(removed) ==
  deletes' = [s \in Ids |-> deletes[s] + removed[s]]

DeleteStates(removed) == deletes' = Plus(deletes, Deleted(removed))

\* the part after the searcher was told; the vectors of paused and continued
\* states are kept
MoveStates(removed) ==
  /\ states' = (states \cup AddedNow) \ Deleted(removed)
  /\ heap' = heap \ Deleted(removed)
  /\ DeleteStates(removed)
  /\ addedStates' = {} /\ removedStates' = Empty
  /\ addedCopy' = AddedNow /\ removedCopy' = removed
  /\ LeaveRegion(Deleted(removed))
  /\ LET released == IF open # {} /\ open \subseteq Deleted(removed)
                       THEN closed ELSE {} IN
       /\ pausedStates' = [s \in Ids |-> IF s \in released /\ PausedNow[s] > 0
                             THEN PausedNow[s] - 1 ELSE PausedNow[s]]
       /\ continuedStates' = [s \in Ids |-> IF s \in released /\ PausedNow[s] = 0
                                THEN ContinuedNow[s] + 1 ELSE ContinuedNow[s]]
  /\ UNCHANGED <<opts, halt, born, secret, sensitiveDesc, succ>>

updateStates ==
  /\ phase = "update"
  /\ SearcherAssertsHold
  /\ \A s \in Ids : SearcherStep2[s] <= MaxOffers
  /\ searcher' = SearcherStep2
  /\ phase' = "account"
  /\ UNCHANGED current
  /\ MoveStates(removedStates)

updateStatesAsserts ==
  /\ phase = "update"
  /\ ~SearcherAssertsHold
  /\ phase' = "aborted"
  /\ UNCHANGED <<opts, current, halt, setVars, pauseVars, secretVars, mergeVars>>

-----------------------------------------------------------------------------
(* The end of the loop body *)

\* Occurrences in removedStates_copy: those of the instruction, and one of
\* checkMemoryUsage
Occurrences(S) ==
  {p \in S \X (1 .. MaxTerminations + 1) : p[2] <= removedCopy[p[1]]}

\* stats::sensitiveDesc goes down by one per --, and never below zero
Decreased(n, m) == IF n > m THEN n - m ELSE 0

\* Successors of a branch on secret data become secret descendants.  Then
\* stats::sensitiveDesc is updated; the terminated states were deleted by
\* updateStates, so what isSecretDescendant reads of them is undefined.
accountSecrets(high, read) ==
  /\ phase = "account"
  /\ high \subseteq succ /\ (high # {} => Cardinality(succ) > 1)
  /\ read \subseteq Support(removedCopy)
  /\ read \cap heap = Support(removedCopy) \cap heap \cap secret
  /\ secret' = secret \cup high
  /\ LET n == sensitiveDesc + Cardinality(addedCopy \cap (secret \cup high))
         m == Cardinality(Occurrences(read))
     IN sensitiveDesc' = Decreased(n, m)
  /\ addedCopy' = {} /\ removedCopy' = Empty /\ succ' = {}
  /\ current' = NoState
  /\ phase' = "select"
  /\ UNCHANGED <<opts, halt, setVars, pauseVars, mergeVars>>

\* The loop ends and the searcher is deleted.  doDumpStates terminates what is
\* left and calls updateStates, which has no searcher to tell.
doDumpStates ==
  /\ phase = "select" /\ states # {} /\ halt
  /\ phase' = "done"
  /\ searcher' = Empty
  /\ UNCHANGED current
  /\ MoveStates(CountOf(states))

runEnds ==
  /\ phase = "select" /\ states = {}
  /\ phase' = "done"
  /\ searcher' = Empty
  /\ UNCHANGED <<opts, current, halt, heap, born, deletes, states, addedStates,
                 removedStates, pauseVars, secretVars, mergeVars>>

Next ==
  \/ selectState
  \/ selectPrioritized
  \/ releaseStates
  \/ selectFromEmpty
  \/ \E s, n \in Ids : fork(s, n)
  \/ \E s \in Ids : terminateState(s)
  \/ \E s \in Ids : terminateAdded(s)
  \/ \E s \in Ids : terminateAddedAgain(s)
  \/ handleOpenMerge
  \/ handleCloseMerge
  \/ \E isBranch, stop, tooSlow \in BOOLEAN : processTimers(isBranch, stop, tooSlow)
  \/ \E kill \in SUBSET Ids : checkMemoryUsage(kill)
  \/ updateStates
  \/ updateStatesAsserts
  \/ \E high, read \in SUBSET Ids : accountSecrets(high, read)
  \/ doDumpStates
  \/ runEnds

Spec == Init /\ [][Next]_vars

-----------------------------------------------------------------------------
(* Properties *)

TypeOK ==
  /\ opts \in Options
  /\ phase \in {"select", "execute", "executed", "memory", "update", "account",
                "done", "aborted"}
  /\ heap \subseteq Ids /\ born \subseteq Ids /\ deletes \in Count
  /\ states \subseteq Ids /\ searcher \in Count
  /\ current \in Ids \cup {NoState}
  /\ (phase \in {"execute", "executed", "memory", "update"} => current \in Ids)
  /\ addedStates \subseteq Ids /\ removedStates \in Count
  /\ pausedStates \in Count /\ continuedStates \in Count
  /\ halt \in BOOLEAN
  /\ secret \subseteq Ids /\ sensitiveDesc \in Nat /\ succ \subseteq Ids
  /\ addedCopy \subseteq Ids /\ removedCopy \in Count
  /\ open \subseteq Ids /\ closed \subseteq Ids

\* Nothing pauses states: neither merging nor --pause-secret-indep.
Plain == ~opts.pause /\ opts.merge = "off"

\* At the top of the loop the searcher offers every state of Executor::states
\* once and nothing else, whatever was forked, terminated on the spot or
\* killed, twice even, in the last iteration.
SearcherOffersStates ==
  (phase = "select" /\ Plain) => searcher = CountOf(states)

\* At the top of the loop the allocated execution states are exactly those in
\* Executor::states: updateStates and terminateState leak no state and keep no
\* pointer to a deleted one.
StatesAreAllocated == (phase = "select" /\ Plain) => heap = states

\* No execution state is deleted twice, although checkMemoryUsage and merging
\* may put a state into removedStates twice: the guard in updateStates.
DeletedOnce == \A s \in Ids : deletes[s] <= 1

\* The instruction executed next belongs to a state that was not deleted, also
\* when paused states are offered again.  (With merging it may not: a state can
\* be killed while its merge region still points to it.)
CurrentIsAllocated ==
  (phase = "execute" /\ opts.merge = "off") => current \in heap

\* terminateState was called for s again, after it was terminated or deleted.
TerminatedAgain(s) ==
  removedStates[s] > 1 \/ (removedStates[s] > 0 /\ s \notin heap)

\* The searchers' asserts ("invalid state removed", "already in tree") hold in
\* runs that pause nothing, whatever is forked, terminated on the spot or
\* killed, unless a state is terminated twice before updateStates: that only
\* the weighted random searcher survives.
OnlyTerminatedTwiceAsserts ==
  (Plain /\ phase = "aborted") =>
    opts.checked /\ \E s \in Ids : TerminatedAgain(s)

\* MergeHandler.h: a state that reached klee_close_merge is paused while it
\* waits for the others: it is not executed, whatever updateStates, which never
\* clears the vectors of paused and continued states, tells the searcher, and
\* whether the others close, merge, fork, terminate or are killed.  (That it is
\* scheduled again once they have left does not hold.)
WaitingStatesRest == (phase = "execute" /\ ~opts.pause) => current \notin closed
=============================================================================
