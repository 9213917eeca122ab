------------------------------ MODULE ApiModel ------------------------------
(***************************************************************************)
(* The programming model of external functions (--prog-model-spec): what   *)
(* an API function does is a block of actions, which the stack of PMFrames *)
(* of an execution state carries out.  A callback suspends its block until *)
(* the function called back returns; a subblock is a frame of its own.     *)
(*                                                                         *)
(* The model follows one path: of the two states of a fork, either one.    *)
(* Functions run in the main thread (tid -1).  executePM is recursive and  *)
(* runs within one instruction; each of its steps is an action here, taken *)
(* in mode "pm" with nothing in between.                                   *)
(***************************************************************************)
EXTENDS Integers, Sequences, FiniteSets

CONSTANTS
  Specs,     \* programming models: [api, block], see SpecAssumption
  Fns,       \* functions of the program that may be called (back)
  Entry,     \* the entry function
  None,      \* no callback, no subblock
  MaxDepth,  \* bound: function frames on the call stack
  MaxFrames, \* bound: no API is called with so many PM frames on the stack
  MaxCalls,  \* bound: API calls on a path
  MinCount   \* bound: how far the reference count falls

Conds == {"zero", "nonzero", "ltzero", "lteqzero", "gtzero", "gteqzero", "true"}
\* sub: the subblock at reference count zero; f: what the callback expression names.
Actions(s) ==
  [op : {"effect", "inc", "terminate"}]
  \cup [op : {"dec"}, sub : {None} \cup DOMAIN s.block]
  \cup [op : {"callback"}, f : Fns \cup DOMAIN s.block]

\* A block: its actions, the return condition, whether an action binds the
\* return value.  plain: the action stands outside of apiblock ... endapiblock.
\* An API has the labels of its actions; a label that is used is defined.
ASSUME SpecAssumption ==
  \A s \in Specs :
    /\ IsFiniteSet(DOMAIN s.block)
    /\ \A api \in DOMAIN s.api : s.api[api] \subseteq DOMAIN s.block
    /\ \A l \in DOMAIN s.block :
         /\ s.block[l].plain \in BOOLEAN /\ s.block[l].assigns \in BOOLEAN
         /\ s.block[l].cond \in Conds
         /\ s.block[l].body \in Seq(Actions(s))
ASSUME FnsAssumption == None \notin Fns \cup {Entry}
ASSUME ApiModelBounds ==
  MaxDepth \in Nat /\ MaxFrames \in Nat /\ MaxCalls \in Nat /\ MinCount \in Int

VARIABLES
  spec,      \* the programming model read by readProgModelSpec
  pmstack,   \* ExecutionState::pmstack, last element on top
  stack,     \* ExecutionState::stack: function and the PM frame it is for
  refcount,  \* refCountModel of the one counted object
  mode,      \* "instr", or "pm" while executePM runs
  status,    \* "running", "terminated" (executePM goes on), "exited", "error",
             \* "assert", "crashed"
  calls,     \* how many API calls the path has made
  history    \* what happened on the path, see NoHistory

vars == <<spec, pmstack, stack, refcount, mode, status, calls, history>>

Block(l) == spec.block[l]
NumActions(l) == Len(Block(l).body)
Top == pmstack[Len(pmstack)]
Below == SubSeq(pmstack, 1, Len(pmstack) - 1)

\* recursed: a function was called that was on the call stack already;
\* lost: frames were on the stack when the copy constructor made the state;
\* deferred: frames were pushed on a copy, which has executed nothing since;
\* repeated, skipped: an action of a block ran twice, or was passed over;
\* early: an action ran while the callback of its block was on the stack.
NoHistory == [recursed |-> FALSE, lost |-> FALSE, deferred |-> FALSE, repeated |-> FALSE,
              skipped |-> FALSE, early |-> FALSE]

PMFrame(l) == [label |-> l, action |-> 1, callback |-> None, ran |-> 0]

Init ==
  /\ spec \in Specs
  /\ pmstack = <<>>
  /\ stack = <<[fn |-> Entry, frame |-> 0]>>
  /\ refcount \in {0, 1, 2}
  /\ mode = "instr"
  /\ status = "running"
  /\ calls = 0
  /\ history = NoHistory

-----------------------------------------------------------------------------
(* executePM and what it calls *)

\* terminateState does not end executePM, nor the block that called it.
Executing == status \in {"running", "terminated"} /\ mode = "pm"

\* Mutant: executePM does not call itself again.
executePMReturnsAtOnce ==
  /\ Executing
  /\ mode' = "instr"
  /\ UNCHANGED <<spec, pmstack, stack, refcount, status, calls, history>>

\* "post: either the stack is emptied or the top frame is waiting".  A state that
\* was terminated meanwhile is deleted at the end of the instruction.
executePMReturns ==
  /\ Executing
  /\ pmstack # <<>> => Top.callback # None
  /\ mode' = "instr"
  /\ status' = IF status = "terminated" THEN "error" ELSE status
  /\ UNCHANGED <<spec, pmstack, stack, refcount, calls, history>>

Ready == Executing /\ pmstack # <<>> /\ Top.callback = None

\* Mutant: the frame of a block that is complete stays.
popPMFrameKeeps(complete) ==
  /\ UNCHANGED pmstack
  /\ history' = [history EXCEPT !.skipped = @ \/ ~complete]

popPMFrame(complete) ==
  /\ pmstack' = Below
  /\ history' = [history EXCEPT !.skipped = @ \/ ~complete]

\* APIBlock::execute after its loop: the block is complete.
BlockCompletes ==
  /\ Ready /\ ~Block(Top.label).plain
  /\ Top.action > NumActions(Top.label)
  /\ popPMFrame(Top.ran = NumActions(Top.label))
  /\ UNCHANGED <<spec, stack, refcount, mode, status, calls>>

Action == Block(Top.label).body[Top.action]

CallbackStillRuns ==
  \E i \in DOMAIN stack : stack[i].frame = Len(pmstack)

Ran ==
  [history EXCEPT !.repeated = @ \/ Top.ran >= Top.action,
                  !.skipped = @ \/ Top.action > Top.ran + 1,
                  !.early = @ \/ CallbackStillRuns]

\* The frame after an action of a block.
AfterAction == [Top EXCEPT !.action = @ + 1, !.ran = Top.action]

\* The frame after an action that is still in progress: in a block the next
\* one is due, an action of its own stays as it is.
InProgress == IF Block(Top.label).plain THEN [Top EXCEPT !.ran = 1] ELSE AfterAction

DoesAction(op) ==
  /\ Ready
  /\ Top.action <= NumActions(Top.label)
  /\ Action.op = op

\* comp is set: the loop goes on with the next action, and a frame of a single
\* action is popped.
ActionCompletes ==
  /\ history' = Ran
  /\ pmstack' = IF Block(Top.label).plain THEN Below ELSE Append(Below, AfterAction)

\* comp is not set.  executePM declares term and comp without a value, and a
\* single action sets neither: its frame is popped or not.  pushed is what the
\* action put on top of the stack; it is the top that is popped.
ActionInProgress(frame, pushed) ==
  /\ history' = Ran
  /\ LET grown == Append(Below, frame) \o pushed IN
       \/ pmstack' = grown
       \/ /\ Block(Top.label).plain
          /\ pmstack' = SubSeq(grown, 1, Len(grown) - 1)

\* Alloc, Free, Return, Ignore, SideEffect, and RefCount with set.
interpretEffect ==
  /\ DoesAction("effect")
  /\ ActionCompletes
  /\ UNCHANGED <<spec, stack, refcount, mode, status, calls>>

\* eval meets a freed object: abort, terminateStateOnError in run.
interpretAborts ==
  /\ Ready
  /\ Top.action <= NumActions(Top.label)
  /\ status' = "error"
  /\ UNCHANGED <<spec, pmstack, stack, refcount, mode, calls, history>>

RefCountInc ==
  /\ DoesAction("inc")
  /\ refcount' = refcount + 1
  /\ ActionCompletes
  /\ UNCHANGED <<spec, stack, mode, status, calls>>

\* comp is set at zero only.  Below zero terminateStateOnError, and the block goes
\* on with the next action of the terminated state.
RefCountDec ==
  /\ DoesAction("dec")
  /\ refcount > MinCount
  /\ refcount' = refcount - 1
  /\ status' = IF refcount' < 0 THEN "terminated" ELSE status
  /\ CASE refcount' # 0 -> ActionInProgress(InProgress, <<>>)
       [] refcount' = 0 /\ Action.sub = None -> ActionCompletes
       [] OTHER -> ActionInProgress(InProgress, <<PMFrame(Action.sub)>>)
  /\ UNCHANGED <<spec, stack, mode, calls>>

Terminate ==
  /\ DoesAction("terminate")
  /\ \/ ActionCompletes
     \/ pmstack' = Below /\ history' = Ran
  /\ UNCHANGED <<spec, stack, refcount, mode, status, calls>>

CallbackSkipped ==
  /\ DoesAction("callback")
  /\ ActionCompletes
  /\ UNCHANGED <<spec, stack, refcount, mode, status, calls>>

CallbackIsSubblock ==
  /\ DoesAction("callback") /\ Action.f \in DOMAIN spec.block
  /\ ActionInProgress(InProgress, <<PMFrame(Action.f)>>)
  /\ UNCHANGED <<spec, stack, refcount, mode, status, calls>>

OnStack(f) == \E i \in DOMAIN stack : stack[i].fn = f

\* Mutant: executeCallback does not note the callback in the frame.
WaitingNot(f) == InProgress

\* setPMCallback: the frame waits for the return of a function of this name.
Waiting(f) == [InProgress EXCEPT !.callback = f]

\* executeCallback calls back a function of the program.
CallsBack ==
  /\ DoesAction("callback") /\ Action.f \in Fns
  /\ Len(stack) < MaxDepth
  /\ stack' = Append(stack, [fn |-> Action.f, frame |-> Len(pmstack)])
  /\ history' = [Ran EXCEPT !.recursed = @ \/ OnStack(Action.f)]
  /\ \/ pmstack' = Append(Below, Waiting(Action.f))
     \/ Block(Top.label).plain /\ pmstack' = Below
  /\ UNCHANGED <<spec, refcount, mode, status, calls>>

executePM ==
  \/ executePMReturns
  \/ BlockCompletes
  \/ interpretEffect
  \/ interpretAborts
  \/ RefCountInc
  \/ RefCountDec
  \/ Terminate
  \/ CallbackSkipped
  \/ CallbackIsSubblock
  \/ CallsBack

-----------------------------------------------------------------------------
(* Instructions of the main thread *)

Runs == status = "running" /\ mode = "instr"

\* Any instruction that leaves this module's state alone; executePM follows.
Step ==
  /\ Runs
  /\ mode' = "pm"
  /\ UNCHANGED <<spec, pmstack, stack, refcount, status, calls, history>>

CallFunction(f) ==
  /\ Runs
  /\ Len(stack) < MaxDepth
  /\ stack' = Append(stack, [fn |-> f, frame |-> 0])
  /\ history' = [history EXCEPT !.recursed = @ \/ OnStack(f)]
  /\ mode' = "pm"
  /\ UNCHANGED <<spec, pmstack, refcount, status, calls>>

\* Mutant: a callback's return ends the block, whatever it has left to do.
CallbackCompletedEndsBlock(fn) ==
  IF pmstack # <<>> /\ Top.callback = fn
    THEN popPMFrame(Top.ran = NumActions(Top.label))
    ELSE UNCHANGED <<pmstack, history>>

checkAndSetPMCallbackCompleted(fn) ==
  IF pmstack # <<>> /\ Top.callback = fn
    THEN IF Top.action > NumActions(Top.label)
           THEN popPMFrame(Top.ran = NumActions(Top.label))
           ELSE /\ pmstack' = Append(Below, [Top EXCEPT !.callback = None])
                /\ UNCHANGED history
    ELSE UNCHANGED <<pmstack, history>>

\* Ret.  The frame of a callback stays in stack until its block is resumed.
Return ==
  /\ Runs
  /\ checkAndSetPMCallbackCompleted(stack[Len(stack)].fn)
  /\ IF Len(stack) > 1
       THEN /\ stack' = SubSeq(stack, 1, Len(stack) - 1)
            /\ mode' = "pm"
            /\ UNCHANGED status
       ELSE status' = "exited" /\ UNCHANGED <<stack, mode>>
  /\ UNCHANGED <<spec, refcount, calls>>

\* A fork, followed into the copy: the copy constructor iterates over its own
\* pmstack, which is empty.
ForkCopy ==
  /\ Runs
  /\ pmstack' = <<>>
  /\ history' = [history EXCEPT !.lost = @ \/ pmstack # <<>>]
  /\ mode' = "pm"
  /\ UNCHANGED <<spec, stack, refcount, status, calls>>

-----------------------------------------------------------------------------
(* APIHandler::handle *)

Labels(api) == spec.api[api]
CondsOf(api) == {Block(l).cond : l \in Labels(api)}
Branching(api) == CondsOf(api) # {"true"} /\ Labels(api) # {}
AssignsReturn(api) == \E l \in Labels(api) : Block(l).assigns

CallsApi(api) ==
  /\ Runs
  /\ Labels(api) # {}
  /\ calls < MaxCalls /\ Len(pmstack) < MaxFrames
  /\ calls' = calls + 1

\* No branching on the return value: one action, carried out at once.
HandlePlain(api) ==
  /\ CallsApi(api)
  /\ ~Branching(api) \/ AssignsReturn(api)
  /\ IF Cardinality(Labels(api)) > 1
       THEN status' = "assert" /\ UNCHANGED <<pmstack, mode>>
       ELSE /\ pmstack' = Append(pmstack, PMFrame(CHOOSE l \in Labels(api) : TRUE))
            /\ mode' = "pm"
            /\ UNCHANGED status
  /\ UNCHANGED <<spec, stack, refcount, history>>

Signs == {-1, 0, 1}
Compared == {"ltzero", "lteqzero", "gtzero", "gteqzero"}
ComparedWithZero(conds) == {"zero", "nonzero"} \cap conds # {}

SplitsInThree(conds) ==
  \/ {"ltzero", "gtzero"} \subseteq conds
  \/ {"lteqzero", "gteqzero"} \subseteq conds
  \/ ComparedWithZero(conds) /\ Compared \cap conds # {}

\* Mutant of Partition: zero is put with the positive values.
PartitionZeroPositive(conds, sign) ==
  IF SplitsInThree(conds)
    THEN IF sign < 0 THEN {"ltzero", "nonzero", "lteqzero"}
                     ELSE {"gtzero", "nonzero", "gteqzero"}
    ELSE {"true"}

\* The partitions that the branch for a return value of this sign is put in.
Partition(conds, sign) ==
  IF SplitsInThree(conds)
    THEN CASE sign = 0 -> {"zero", "lteqzero", "gteqzero"}
           [] sign < 0 -> {"ltzero", "nonzero", "lteqzero"}
           [] sign > 0 -> {"gtzero", "nonzero", "gteqzero"}
  ELSE IF ComparedWithZero(conds)
    THEN IF sign = 0 THEN {"zero"} ELSE {"nonzero"}
  ELSE IF "lteqzero" \in conds
    THEN IF sign <= 0 THEN {"lteqzero"} ELSE {"gtzero"}
  ELSE IF "gteqzero" \in conds
    THEN IF sign >= 0 THEN {"gteqzero"} ELSE {"ltzero"}
  ELSE {"true"}

Forks(conds) ==
  SplitsInThree(conds) \/ ComparedWithZero(conds) \/ {"lteqzero", "gteqzero"} \cap conds # {}

\* Every order of a set: std::set<APIAction*> is ordered by address.
Orders(S) ==
  {o \in [1 .. Cardinality(S) -> S] : \A i, j \in DOMAIN o : o[i] = o[j] => i = j}

\* The path goes on in one of the branches: in the state itself, whose executePM
\* follows, or in a copy, whose frames wait for its next instruction.
HandleBranching(api) ==
  /\ CallsApi(api)
  /\ Branching(api) /\ ~AssignsReturn(api)
  /\ \E sign \in Signs, copy \in BOOLEAN :
       /\ copy => Forks(CondsOf(api))
       /\ LET pushed == {l \in Labels(api) :
                           Block(l).cond \in Partition(CondsOf(api), sign)}
          IN /\ \E order \in Orders(pushed) :
                  pmstack' = (IF copy THEN <<>> ELSE pmstack)
                             \o [i \in DOMAIN order |-> PMFrame(order[i])]
             /\ history' = [history EXCEPT
                              !.lost = @ \/ (copy /\ pmstack # <<>>),
                              !.deferred = @ \/ (copy /\ pushed # {})]
       /\ mode' = IF copy THEN "instr" ELSE "pm"
  /\ UNCHANGED <<spec, stack, refcount, status>>

\* symbolizeReturnValue aborts; or forking is inhibited, fork returns one state,
\* and the split in three dereferences the other one.
HandleFails(api) ==
  /\ CallsApi(api)
  /\ \/ status' = "error"
     \/ /\ Branching(api) /\ ~AssignsReturn(api) /\ SplitsInThree(CondsOf(api))
        /\ status' = "crashed"
  /\ UNCHANGED <<spec, pmstack, stack, refcount, mode, history>>

Next ==
  \/ executePM
  \/ Step
  \/ \E f \in Fns : CallFunction(f)
  \/ Return
  \/ ForkCopy
  \/ \E api \in DOMAIN spec.api :
       HandlePlain(api) \/ HandleBranching(api) \/ HandleFails(api)

Spec == Init /\ [][Next]_vars

\* executePM runs to its end within one instruction.
FairSpec == Spec /\ WF_vars(executePM)

-----------------------------------------------------------------------------
(* What the programming model promises *)

OnlyBlocks == \A l \in DOMAIN spec.block : ~Block(l).plain

\* The actions after a callback see its effects: none runs while the callback is
\* on the call stack.  A frame knows its callback by name, so this takes programs
\* in which no function is called while it runs.
CallbackFinishesFirst ==
  OnlyBlocks /\ ~history.recursed /\ ~history.lost => ~history.early

\* Every action of a block runs once and in order, across callbacks, subblocks
\* and API calls from callbacks.
ActionsRunInOrder == OnlyBlocks => ~history.repeated /\ ~history.skipped

\* A path whose frames no fork has lost or deferred leaves nothing undone.
NothingLeftAtExit ==
  status = "exited" /\ OnlyBlocks /\ ~history.lost /\ ~history.deferred
    => pmstack = <<>>

\* Sign and condition
Holds(cond, sign) ==
  CASE cond = "zero" -> sign = 0
    [] cond = "nonzero" -> sign # 0
    [] cond = "ltzero" -> sign < 0
    [] cond = "lteqzero" -> sign <= 0
    [] cond = "gtzero" -> sign > 0
    [] cond = "gteqzero" -> sign >= 0
    [] cond = "true" -> TRUE

\* One of the conditions holds for each return value.
Exhaustive(conds) == \A sign \in Signs : \E c \in conds : Holds(c, sign)

\* For every set of return conditions and every return value, an action is pushed
\* only when its condition holds, and one is pushed for each value if the
\* conditions, "true" apart, leave none out.  The action for "true" is pushed for
\* every value when nothing else makes the state fork on it, and otherwise for
\* none: partition[TRUE] stays empty, so that an API with actions for "true" and
\* "zero" does nothing for the values that are not zero.
ConditionsDecide ==
  \A api \in DOMAIN spec.api : LET conds == CondsOf(api) IN
    Branching(api) =>
      \A sign \in Signs :
        /\ \A c \in conds : c \in Partition(conds, sign) => Holds(c, sign)
        /\ Exhaustive(conds \ {"true"}) => \E c \in conds : c \in Partition(conds, sign)
        /\ "true" \in Partition(conds, sign) <=> ~Forks(conds)

\* executePM ends: no block, callback or subblock keeps it from returning to the
\* instruction loop, also when the state was terminated on the way.  Only a
\* decrement outside of a block may recur below zero without end, if the flags
\* that nobody sets happen to be clear each time.
executePMEnds ==
  mode = "pm" ~> \/ mode = "instr" \/ status \notin {"running", "terminated"}
                 \/ status = "terminated" /\ ~OnlyBlocks
=============================================================================
