---------------------------- MODULE Interpreter ----------------------------
(***************************************************************************)
(* Executor::executeInstruction, and its copy for the threads of           *)
(* asynchronous functions: what one instruction makes of a state, and into *)
(* which states it splits it.                                              *)
(*                                                                         *)
(* A program has one symbolic input.  A symbolic value is a function of    *)
(* it, the path condition is the set of inputs that satisfy it, and a      *)
(* stack, one of the frames of the main thread or of a thread.  States     *)
(* share nothing that this module speaks of but the counts of the loop     *)
(* bound, so it always steps the state with the smallest input.            *)
(***************************************************************************)
EXTENDS Executions

CONSTANTS
  Programs, \* a sequence of them
  Inputs,
  Limits,   \* what may get in the way of a fork
  DirentHead,
  MaxAlloc, SmallAlloc, \* sizes: that memory is allocated for, and that is not halved
  primArraySize

\* The runtime that is linked with a program, for one input.
Files == INSTANCE PosixFiles

ASSUME InterpreterAssumption ==
  Limits \subseteq {"none", "timeout", "memory", "max_forks", "max_depth"} /\ "none" \in Limits

ASSUME SizesAssumption ==
  /\ MaxAlloc \in Nat /\ SmallAlloc \in Nat
  /\ primArraySize \in 1..MaxAlloc

Numbered == LET programs == Programs IN [n \in DOMAIN programs |-> [number |-> n] @@ programs[n]]

\* Run before, on every program and input.
Runs == [n \in DOMAIN Numbered |-> [x \in Inputs |-> Run(Numbered[n], x)]]

VARIABLES
  program, \* that is executed: one of Programs, with its number
  kmodule, \* what the passes made of it
  states,  \* ExecutionStates
  ended,   \* those that were terminated
  skipped, \* inputs left out by a fork that did not take place, or a value made concrete
  crashed

vars == <<program, kmodule, states, ended, skipped, crashed>>

P == program
KF(fn) == kmodule[fn]

-----------------------------------------------------------------------------
(* ExecutionState and its frames *)

Constant(v) == [x \in Inputs |-> v]

\* The objects of global variables.
Globals ==
  [a \in {GlobalAddress(n) : n \in DOMAIN P.globals} |->
     LET g == P.globals[CHOOSE n \in DOMAIN P.globals : a = GlobalAddress(n)]
     IN Object(g.kind, g.readOnly, [k \in DOMAIN g.cells |-> Constant(g.cells[k])])]

StackFrame(fn, caller) ==
  [fn |-> fn, pc |-> 1, caller |-> caller, allocas |-> {}, locals |-> <<>>]

Init ==
  /\ \E n \in DOMAIN Numbered :
       /\ program = Numbered[n]
       /\ kmodule = prepare(Numbered[n].fns, Width, Numbered[n].lower)
  /\ LET kf == KF(P.entry) IN
       states = {[frames |-> <<[StackFrame(P.entry, 0) EXCEPT
                                 !.locals = kf.params[1] :> [x \in Inputs |-> x]]>>,
                  incomingBBIndex |-> 0, objects |-> Globals, allocated |-> 0,
                  fnAliases |-> <<>>, forkDisabled |-> FALSE, symbolics |-> 0,
                  constraints |-> Inputs, seeds |-> P.seeds, forkFreq |-> <<>>,
                  trace |-> <<<<P.entry, P.fns[P.entry].order[1]>>>>, misled |-> FALSE,
                  runtime |-> Constant(Files!exe_env(P.os)), log |-> Constant(<<>>)]}
  /\ ended = {} /\ skipped = {} /\ crashed = FALSE

Top(s) == Last(s.frames)
\* What is at the pc of a state.
Current(s) == KF(Top(s).fn).instructions[Top(s).pc]
Inst(s) == Current(s).inst

\* The states whose turn it may be: one, if there is any.
stepInstruction(s) == [s EXCEPT !.frames[Len(s.frames)].pc = @ + 1]
Selected ==
  {s \in states : \E x \in s.constraints : \A y \in UNION {t.constraints : t \in states} : x <= y}

\* The operands that an instruction evaluates; a phi evaluates the one of the block the
\* state comes from.
Operands(s, i) ==
  CASE i.op = "phi" -> {i.vals[s.incomingBBIndex]}
    [] i.op \in {"do", "call", "cast", "gep", "fp", "fcmp", "insertvalue", "extractvalue",
                 "insertelement", "extractelement", "runtime"} -> {i.args[k] : k \in DOMAIN i.args}
    [] i.op = "ret" -> {i.vals[k] : k \in DOMAIN i.vals}
    [] i.op \in {"condbr", "switch"} -> {i.cond}
    [] i.op \in {"load", "indirectbr"} -> {i.addr}
    [] i.op = "store" -> {i.addr, i.val}
    [] i.op = "alloca" -> {i.size}
    [] OTHER -> {}

Bound(s, o) == o[1] = "reg" => o[2] \in DOMAIN Top(s).locals
AllBound(s) == \A o \in Operands(s, Inst(s)) : Bound(s, o)

\* An instruction that can be executed: the state before, the state after
\* stepInstruction, and the instruction with its block.
Executes(op) ==
  {[selected |-> s, state |-> stepInstruction(s), inst |-> Inst(s), parent |-> Current(s).parent]
     : s \in {s \in Selected : ~crashed /\ Inst(s).op = op /\ AllBound(s)}}

eval(s, o) == IF o[1] = "reg" THEN Top(s).locals[o[2]] ELSE Constant(o[2])
bindLocal(s, dest, v) == [s EXCEPT !.frames[Len(s.frames)].locals = (dest :> v) @@ @]

\* The blocks a state goes through, those that passes added left out.
Trace(s, fn, l) ==
  IF fn \in DOMAIN P.fns /\ l \in DOMAIN P.fns[fn].block THEN Append(s.trace, <<fn, l>>)
  ELSE s.trace

\* What is no block of the function has the entry 0, where the function starts.
transferToBasicBlock(s, dst, src) ==
  LET kf == KF(Top(s).fn)
      pc == IF dst \in DOMAIN kf.basicBlockEntry THEN kf.basicBlockEntry[dst] ELSE 1
      first == kf.instructions[pc].inst
  IN [s EXCEPT !.frames[Len(s.frames)].pc = pc,
               !.incomingBBIndex = IF IsPhi(first) THEN getBasicBlockIndex(first, src) ELSE @,
               !.trace = Trace(s, Top(s).fn, dst)]

\* A state that is terminated, and how.
terminated(s, how, v) ==
  [trace |-> s.trace, constraints |-> s.constraints, misled |-> s.misled, log |-> s.log,
   how |-> how, result |-> v]
terminateStateEarly(s) == terminated(s, "early", 0)
terminateStateOnError(s, kind) == terminated(s, "error", Constant(kind))
terminateStateOnExit(s, v) == terminated(s, "exit", v)
\* Those of a thread, which is terminated instead of its state.
terminateStateEarlyThread(s) == terminated(s, "early", 0)
terminateStateOnErrorThread(s, kind) == terminated(s, "error", Constant(kind))
terminateStateOnExitThread(s, v) == terminated(s, "exit", v)
\* An error that is not the program's.
terminateUnsupported(s) == terminated(s, "unsupported", 0)

\* A register without a value is a null reference.
ReadsUnbound ==
  /\ ~crashed
  /\ \E s \in Selected : ~AllBound(s)
  /\ crashed' = TRUE
  /\ UNCHANGED <<program, kmodule, states, ended, skipped>>

\* The selected state is gone on in other states, is terminated, or both.
Becomes(e, live, over, lost) ==
  /\ states' = (states \ {e.selected}) \cup live
  /\ ended' = ended \cup over
  /\ skipped' = skipped \cup lost
  /\ UNCHANGED <<program, kmodule, crashed>>

Continues(e, s) == Becomes(e, {s}, {}, {})

Crashes == crashed' = TRUE /\ UNCHANGED <<program, kmodule, states, ended, skipped>>

\* What may become of a state, or of a part of its inputs.
Nothing == [live |-> {}, over |-> {}, lost |-> {}]
Live(s) == [Nothing EXCEPT !.live = {s}]
Over(t) == [Nothing EXCEPT !.over = {t}]
Together(results) ==
  [live |-> UNION {r.live : r \in results}, over |-> UNION {r.over : r \in results},
   lost |-> UNION {r.lost : r \in results}]

Turns(e, results) == \E r \in results : Becomes(e, r.live, r.over, r.lost)

-----------------------------------------------------------------------------
(* fork and branch *)

\* addConstraint; the seeds that satisfy the condition go with it.
addConstraint(s, part) == [s EXCEPT !.constraints = @ \cap part, !.seeds = @ \cap part]

\* What fork, or a chain of forks, makes of conditions that exclude each other and
\* are all feasible: the conditions states go on with, those they are terminated
\* with, and the inputs nobody goes on with.
Outcome(live, over, lost) == [live |-> live, over |-> over, lost |-> lost]

\* A seeded state that must not fork, or only replays its seeds, goes where these go; in
\* a chain what is left without seeds is split no further.
fork(s, parts, limit) ==
  LET seeding == s.seeds # {}
      seeded == {c \in parts : c \cap s.seeds # {}}
      kept == IF seeding /\ (s.forkDisabled \/ P.onlyReplaySeeds) THEN seeded ELSE parts
      inhibited == ~seeding /\ (limit \in {"memory", "max_forks"} \/ s.forkDisabled)
      rest(some) == UNION (parts \ some)
  IN CASE limit = "timeout" -> {Outcome({}, {s.constraints}, {})}
       [] limit # "timeout" /\ inhibited -> {Outcome({c}, {}, rest({c})) : c \in parts}
       [] limit = "max_depth" /\ ~inhibited /\ Cardinality(kept) > 1 -> {Outcome({}, kept, rest(kept))}
       [] limit \in {"memory", "max_forks"} /\ seeding /\ kept # seeded ->
            {Outcome(some, {}, rest(some)) : some \in {some \in SUBSET kept : seeded \subseteq some /\ some # seeded}}
       [] OTHER -> {Outcome(kept, {}, rest(kept))}

branch(s, parts, limit) ==
  {LET dropped == {c \in kept : s.seeds # {} /\ P.onlyReplaySeeds /\ c \cap s.seeds = {}}
   IN Outcome(kept \ dropped, dropped, UNION (parts \ kept))
   : kept \in IF limit = "max_forks" THEN {{c} : c \in parts} ELSE {parts}}

\* The copies for threads: they do not clone what is known of the information flow.
forkThread(s, parts, limit) == fork(s, parts, limit)
branchThread(s, parts, limit) == branch(s, parts, limit)

\* The inputs of a state for which a value is a given one.
Where(s, v, n) == {x \in s.constraints : v[x] = n}
Values(s, v) == {v[x] : x \in s.constraints}
YesNo(s, v) == {c \in {Where(s, v, 0), s.constraints \ Where(s, v, 0)} : c # {}}
Parts(s, v) == {Where(s, v, n) : n \in Values(s, v)}
Holds(s, v, c) == c \cap Where(s, v, 0) = {}

\* A chain of forks, when cases has what may become of the state under each condition.
Shared(s, cases, o, early(_)) ==
  FoldSet(LAMBDA c, results : {Together({r, q}) : r \in results, q \in cases[c]},
          {[Nothing EXCEPT !.over = {early(addConstraint(s, c)) : c \in o.over}, !.lost = o.lost]}, o.live)
Forked(s, cases, limit) ==
  UNION {Shared(s, cases, o, terminateStateEarly) : o \in fork(s, DOMAIN cases, limit)}
ForkedThread(s, cases, limit) ==
  UNION {Shared(s, cases, o, terminateStateEarlyThread) : o \in forkThread(s, DOMAIN cases, limit)}

\* A state goes on with each condition c that is left as goesOn[c].
Splits(e, s, o, goesOn) ==
  Becomes(e,
          {goesOn[c] : c \in o.live},
          {terminateStateEarly(addConstraint(s, c)) : c \in o.over},
          o.lost)

-----------------------------------------------------------------------------
(* The loop bound *)

\* getSouceWithContext: where the branch is, and from where it is reached.
SourceWithContext(s) == [k \in DOMAIN s.frames |-> <<s.frames[k].fn, s.frames[k].pc>>]

getForkFreq(s, key) == IF key \in DOMAIN s.forkFreq THEN s.forkFreq[key] ELSE 0
addForkFreq(s, keys) ==
  [s EXCEPT !.forkFreq = [k \in keys |-> getForkFreq(s, k) + 1] @@ @]

\* Br under the bound.  The state itself counts for both sides, its copy, made before,
\* for none.  When both are over the
\* bound only the state, on the true side, is terminated, and its copy runs on into the
\* instruction that comes next; when the only feasible side is, the other one is taken.
BoundedBr(e, cond, o) ==
  LET s == e.state
      key(side) == <<SourceWithContext(s), side>>
      sides == {Holds(s, cond, c) : c \in o.live}
      counted == addForkFreq(s, {key(side) : side \in sides})
      over(side) == getForkFreq(counted, key(side)) > P.loopBound
      part(side) == CHOOSE c \in o.live : Holds(s, cond, c) = side
      to(t, side) == transferToBasicBlock(t, e.inst.to[IF side THEN 1 ELSE 2], e.parent)
  IN IF Cardinality(o.live) = 2 THEN
       LET t == addConstraint(counted, part(TRUE))
           f == addConstraint(s, part(FALSE))
       IN Becomes(e, (IF over(TRUE) THEN {} ELSE {to(t, TRUE)})
                    \cup (IF over(FALSE) /\ over(TRUE) THEN {[f EXCEPT !.misled = TRUE]}
                          ELSE IF over(FALSE) THEN {} ELSE {to(f, FALSE)}),
                  (IF over(TRUE) THEN {terminateStateEarly(t)} ELSE {})
                    \cup (IF over(FALSE) /\ ~over(TRUE) THEN {terminateStateEarly(f)} ELSE {}),
                  o.lost)
     ELSE Splits(e, counted, o,
            [c \in o.live |->
               LET side == Holds(s, cond, c)
                   t == addConstraint(counted, c)
               IN IF over(side) THEN [to(t, ~side) EXCEPT !.misled = TRUE] ELSE to(t, side)])

-----------------------------------------------------------------------------
(* Control flow.  Each instruction has an action for the main thread, from   *)
(* executeInstruction, and one for the other threads, whose name ends in     *)
(* Thread, from executeInstructionThread.                                    *)

TakesBranch(e, cond, o) ==
  Splits(e, e.state, o, [c \in o.live |->
    transferToBasicBlock(addConstraint(e.state, c),
                         e.inst.to[IF Holds(e.state, cond, c) THEN 1 ELSE 2], e.parent)])

Br ==
  /\ ~P.thread
  /\ \E e \in Executes("br") : Continues(e, transferToBasicBlock(e.state, e.inst.to, e.parent))

CondBr ==
  /\ ~P.thread
  /\ \E e \in Executes("condbr"), limit \in Limits :
     \E cond \in {eval(e.state, e.inst.cond)} :
     \E o \in fork(e.state, YesNo(e.state, cond), limit) :
       IF P.loopBound > 0 THEN BoundedBr(e, cond, o) ELSE TakesBranch(e, cond, o)

BrThread ==
  /\ P.thread
  /\ \/ \E e \in Executes("br") : Continues(e, transferToBasicBlock(e.state, e.inst.to, e.parent))
     \/ \E e \in Executes("condbr"), limit \in Limits :
        \E cond \in {eval(e.state, e.inst.cond)} :
        \E o \in forkThread(e.state, YesNo(e.state, cond), limit) : TakesBranch(e, cond, o)

\* Mutant: of several cases with one target, only the first is in its condition.
CasesFirst(i, l) == {i.cases[SelectInSeq(i.cases, LAMBDA case : case[2] = l)][1]}

\* The cases with one target are one condition.
CasesOf(i, l) == {i.cases[k][1] : k \in {k \in DOMAIN i.cases : i.cases[k][2] = l}}

\* The default is left out when its block is the target of a feasible case.
SwitchTargets(s, i) ==
  LET cond == eval(s, i.cond)
      inputs(l) == UNION {Where(s, cond, n) : n \in CasesOf(i, l)}
      feasible == {l \in {i.cases[k][2] : k \in DOMAIN i.cases} : inputs(l) # {}}
      others == {x \in s.constraints : \A k \in DOMAIN i.cases : cond[x] # i.cases[k][1]}
  IN [l \in feasible \cup (IF others = {} THEN {} ELSE {i.default}) |->
        IF l \in feasible THEN inputs(l) ELSE others]

TakesTarget(e, targets, o) ==
  Splits(e, e.state, o, [c \in o.live |->
    transferToBasicBlock(addConstraint(e.state, c),
                         CHOOSE l \in DOMAIN targets : targets[l] = c, e.parent)])

Switch ==
  /\ ~P.thread
  /\ \E e \in Executes("switch"), limit \in Limits \cap {"none", "max_forks"} :
     \E targets \in {SwitchTargets(e.state, e.inst)} :
     \E o \in branch(e.state, {targets[l] : l \in DOMAIN targets}, limit) : TakesTarget(e, targets, o)

SwitchThread ==
  /\ P.thread
  /\ \E e \in Executes("switch"), limit \in Limits \cap {"none", "max_forks"} :
     \E targets \in {SwitchTargets(e.state, e.inst)} :
     \E o \in branchThread(e.state, {targets[l] : l \in DOMAIN targets}, limit) :
       TakesTarget(e, targets, o)

\* The block of the function an address is that of; <<>> if it is none.
LabelAt(addr) == IF addr \in DOMAIN P.labels THEN P.labels[addr] ELSE <<>>

\* The one address there is, unless the solver takes too long to say so, is gone to as it is,
\* a destination or not.
JumpUnchecked ==
  \E e \in Executes("indirectbr") :
  \E n \in Values(e.state, eval(e.state, e.inst.addr)) :
    /\ Values(e.state, eval(e.state, e.inst.addr)) = {n}
    /\ Continues(e, [transferToBasicBlock(e.state, LabelAt(n), e.parent)
                       EXCEPT !.misled = @ \/ LabelAt(n) \notin Range(e.inst.to)])

\* Of several, those that are no destination end the state; when forking is not possible
\* any more, the state for them may be missing, and is dereferenced.
JumpChecked ==
  \E e \in Executes("indirectbr"), limit \in Limits \cap {"none", "timeout", "max_forks"} :
    LET s == e.state
        addr == eval(s, e.inst.addr)
        at(l) == {x \in s.constraints : LabelAt(addr[x]) = l}
    IN /\ Cardinality(IF limit = "timeout" THEN Range(addr) ELSE Values(s, addr)) > 1
       /\ \E targets \in {[l \in {l \in Range(e.inst.to) : at(l) # {}} |-> at(l)]} :
          \E illegal \in {s.constraints \ UNION Range(targets)} :
          \E o \in branch(s, Range(targets) \cup ({illegal} \ {{}}), limit) :
            IF illegal # {} /\ illegal \notin o.live
            THEN Crashes
            ELSE Becomes(e,
                   {transferToBasicBlock(addConstraint(s, targets[l]), l, e.parent)
                      : l \in {l \in DOMAIN targets : targets[l] \in o.live}},
                   {terminateStateOnError(addConstraint(s, c), "exec") : c \in o.live \cap {illegal}}
                     \cup {terminateStateEarly(addConstraint(s, c)) : c \in o.over},
                   o.lost)

IndirectBr == ~P.thread /\ (JumpUnchecked \/ JumpChecked)

Unreachable ==
  /\ ~P.thread
  /\ \E e \in Executes("unreachable") : Becomes(e, {}, {terminateStateOnError(e.state, "exec")}, {})

UnreachableThread ==
  /\ P.thread
  /\ \E e \in Executes("unreachable") : Becomes(e, {}, {terminateStateOnErrorThread(e.state, "exec")}, {})

-----------------------------------------------------------------------------
(* Calls and returns *)

\* executeCall: the frame is pushed before the arguments are counted.
pushFrame(s, fn) ==
  [s EXCEPT !.frames = Append(@, StackFrame(fn, Top(s).pc - 1)),
            !.trace = IF fn \in DOMAIN P.fns THEN Append(@, <<fn, P.fns[fn].order[1]>>) ELSE @]

executeCall(s, fn, args) ==
  LET kf == KF(fn)
      bound == [r \in {kf.params[k] : k \in DOMAIN kf.params} |->
                  args[CHOOSE k \in DOMAIN kf.params : kf.params[k] = r]]
      callee == pushFrame(s, fn)
  IN IF Len(args) < Len(kf.params)
     THEN [live |-> {}, over |-> {terminateStateOnError(callee, "user")}]
     ELSE [live |-> {[callee EXCEPT !.frames[Len(callee.frames)].locals = bound]}, over |-> {}]

executeCallThread(s, fn, args) == executeCall(s, fn, args)

\* The special functions, one name for those with the same handler, and whether they have a
\* result; exit gives way to the program's own.
handlerInfo ==
  [fn \in {"calloc", "klee_get_value", "klee_get_obj_size", "klee_get_errno", "__errno_location", "malloc",
           "realloc", "new"} |-> [hasReturnValue |-> TRUE, doNotOverride |-> FALSE]]
    @@ [fn \in {"__assert_fail", "abort", "klee_silent_exit", "free", "klee_assume", "klee_check_memory_access",
               "klee_define_fixed_object", "klee_make_symbolic", "klee_prefer_cex", "klee_print_range",
               "klee_set_forking", "klee_warning", "klee_alias_function", "delete", "__ubsan_handle_add_overflow",
               "__ubsan_handle_sub_overflow", "__ubsan_handle_mul_overflow", "__ubsan_handle_divrem_overflow"} |->
          [hasReturnValue |-> FALSE, doNotOverride |-> FALSE]]
    @@ "exit" :> [hasReturnValue |-> FALSE, doNotOverride |-> TRUE]

\* prepare deletes the bodies of those it has.
HasBody(fn) ==
  fn \in DOMAIN kmodule /\ (fn \in DOMAIN handlerInfo => handlerInfo[fn].doNotOverride)

\* The function of the name that the callee's name is an alias for, if it is; <<>> when the
\* module has none of that name.
getTargetFunction(s, fn) ==
  LET names == {name \in DOMAIN s.fnAliases \cap DOMAIN P.names : P.names[name] = fn /\ s.fnAliases[name] # <<>>}
      alias == s.fnAliases[CHOOSE name \in names : TRUE]
  IN IF names = {} THEN <<fn>> ELSE IF alias \in DOMAIN P.names THEN <<P.names[alias]>> ELSE <<>>

\* A call by a name.
Named(e) == e.inst.callee[1] = "function"
Target(e) == getTargetFunction(e.state, e.inst.callee[2])
CallsBody(e) == Named(e) /\ Target(e) # <<>> /\ HasBody(Target(e)[1])

Arguments(s, i) == [k \in DOMAIN i.args |-> eval(s, i.args[k])]

CallFunction ==
  /\ ~P.thread
  /\ \E e \in Executes("call") :
     /\ CallsBody(e)
     /\ \E r \in {executeCall(e.state, Target(e)[1], Arguments(e.state, e.inst))} :
          Becomes(e, r.live, r.over, {})

CallFunctionThread ==
  /\ P.thread
  /\ \E e \in Executes("call") :
     /\ CallsBody(e)
     /\ \E r \in {executeCallThread(e.state, Target(e)[1], Arguments(e.state, e.inst))} :
          Becomes(e, r.live, r.over, {})

\* A call through a pointer: a fork for each value, in the order of the solver's
\* answers.  The state itself has the first value.  The first value that is no function
\* terminates the state, whatever value it has, and the others terminate nothing.
CallPointer ==
  /\ ~P.thread
  /\ \E e \in Executes("call"), limit \in Limits :
     /\ ~Named(e)
     /\ \E v \in {eval(e.state, e.inst.callee)} :
        \E first \in Values(e.state, v), o \in fork(e.state, Parts(e.state, v), limit) :
          LET s == e.state
              legal(n) == n \in DOMAIN P.functions
              left == {n \in Values(s, v) : Where(s, v, n) \in o.live}
              itself == IF first \in left THEN first ELSE CHOOSE n \in left : TRUE
              state(n) == addConstraint(s, Where(s, v, n))
              runOn == {n \in left : n # itself /\ ~legal(n)}
              killed == {n \in left : n = itself /\ (runOn # {} \/ ~legal(n))}
          IN \E results \in {{executeCall(state(n), P.functions[n], Arguments(s, e.inst))
                               : n \in {n \in left \ killed : legal(n)}}} :
               Becomes(e,
                 UNION {r.live : r \in results} \cup {[state(n) EXCEPT !.misled = TRUE] : n \in runOn},
                 UNION {r.over : r \in results}
                   \cup {[terminateStateOnError(state(n), "exec") EXCEPT !.misled = legal(n)] : n \in killed}
                   \cup {terminateStateEarly(addConstraint(s, c)) : c \in o.over},
                 o.lost)

\* The copy reads the main thread's register of that number: any value, or none.
CallPointerThread ==
  /\ P.thread
  /\ \E e \in Executes("call") :
     /\ ~Named(e)
     /\ \/ \E n \in DOMAIN P.functions \cup {0} :
             \E s \in {[e.state EXCEPT !.misled = TRUE]} :
               IF n \in DOMAIN P.functions
               THEN \E r \in {executeCallThread(s, P.functions[n], Arguments(e.state, e.inst))} :
                      Becomes(e, r.live, r.over, {})
               ELSE Becomes(e, {}, {terminateStateOnErrorThread(s, "exec")}, {})
        \/ Crashes

\* The runtime's report of a failed check.
klee_report_error ==
  \E e \in Executes("report_error") :
    Becomes(e, {}, {terminateStateOnError(e.state, e.inst.kind)}, {})

Coerce(v, from, to, sext) == [x \in Inputs |-> Coerced(v[x], from, to, sext)]

\* popFrame unbinds the objects of the frame.
popFrame(s) ==
  [s EXCEPT !.frames = Front(@), !.objects = [a \in DOMAIN @ \ Top(s).allocas |-> @[a]]]

\* The result, of another width when the function was called as something else.
bindResult(s, i, width, v) ==
  bindLocal(s, i.dest, IF width # i.width THEN Coerce(v, width, i.width, i.sext) ELSE v)

\* Where the caller goes on.
Return(caller, call) ==
  IF call.inst.normal # <<>> THEN transferToBasicBlock(caller, call.inst.normal, call.parent)
  ELSE caller

\* With a result or without one.
ReturnsValue(e, back, call) ==
  Continues(e, IF call.inst.dest = <<>> THEN back
               ELSE bindResult(back, call.inst, KF(Top(e.state).fn).width,
                               eval(e.state, e.inst.vals[1])))
ReturnsVoid(e, back) == Continues(e, back)

\* A thread insists on a result that is used.
ReturnsVoidThread(e, back, call) ==
  IF call.inst.dest # <<>> THEN Becomes(e, {}, {terminateStateOnErrorThread(back, "exec")}, {})
  ELSE Continues(e, back)

\* Ret into a caller.
Returns(e) ==
  \E caller \in {popFrame(e.state)} :
  \E call \in {KF(Top(caller).fn).instructions[Top(e.state).caller]} :
  \E back \in {Return(caller, call)} :
    IF e.inst.vals # <<>> THEN ReturnsValue(e, back, call)
    ELSE IF P.thread THEN ReturnsVoidThread(e, back, call) ELSE ReturnsVoid(e, back)

ReturnToCaller == ~P.thread /\ \E e \in Executes("ret") : Len(e.state.frames) > 1 /\ Returns(e)
ReturnToCallerThread == P.thread /\ \E e \in Executes("ret") : Len(e.state.frames) > 1 /\ Returns(e)

\* Ret out of the outermost frame, of the path or of a thread.
ReturnFromEntry ==
  \E e \in Executes("ret") :
    /\ Len(e.state.frames) = 1
    /\ \E v \in {IF e.inst.vals = <<>> THEN Constant(0) ELSE eval(e.state, e.inst.vals[1])} :
         Becomes(e, {}, {IF P.thread THEN terminateStateOnExitThread(e.state, v)
                         ELSE terminateStateOnExit(e.state, v)}, {})

-----------------------------------------------------------------------------
(* Values and memory *)

Binds(e, v) == Continues(e, bindLocal(e.state, e.inst.dest, v))

PHI ==
  /\ ~P.thread
  /\ \E e \in Executes("phi") : Binds(e, eval(e.state, e.inst.vals[e.state.incomingBBIndex]))

PHIThread ==
  /\ P.thread
  /\ \E e \in Executes("phi") : Binds(e, eval(e.state, e.inst.vals[e.state.incomingBBIndex]))

Arithmetic == {"add", "sub", "udiv", "urem", "shl", "lshr"}
Comparisons == {"eq", "ult", "uge"}
Casts == {"bitcast"}

Lifted(fn, args) == [x \in Inputs |-> Compute(fn, [k \in DOMAIN args |-> args[k][x]])]

Operates(fns) ==
  \E e \in Executes("do") :
    e.inst.fn \in fns /\ Binds(e, Lifted(e.inst.fn, Arguments(e.state, e.inst)))

Operate == ~P.thread /\ Operates(Arithmetic)
OperateThread == P.thread /\ Operates(Arithmetic)
ICmp == ~P.thread /\ Operates(Comparisons)
ICmpThread == P.thread /\ Operates(Comparisons)
Cast == ~P.thread /\ Operates(Casts)
CastThread == P.thread /\ Operates(Casts)

Select == ~P.thread /\ ~P.breakSelect /\ Operates({"select"})
SelectThread == P.thread /\ Operates({"select"})

\* Select as a branch.
BreakSelect ==
  /\ ~P.thread /\ P.breakSelect
  /\ \E e \in Executes("do"), limit \in Limits :
     /\ e.inst.fn = "select"
     /\ \E args \in {Arguments(e.state, e.inst)} :
        \E o \in fork(e.state, YesNo(e.state, args[1]), limit) :
          Splits(e, e.state, o, [c \in o.live |->
            bindLocal(addConstraint(e.state, c), e.inst.dest,
                      args[IF Holds(e.state, args[1], c) THEN 2 ELSE 3])])

\* initializeToRandom.
Random == Constant(171 % 2^Width)

\* What is asked for: by which instruction, of what size and kind, with what in it, and of
\* which object it takes the place.
Request(i, size, kind, cell, from) ==
  [inst |-> i, size |-> size, kind |-> kind, cell |-> cell, from |-> from]

\* A special function has its result in the main thread's register, whoever calls it.
bindTarget(s, i, v) ==
  CASE i.op = "call" /\ P.thread -> [s EXCEPT !.misled = TRUE]
    [] i.op = "call" /\ ~P.thread /\ i.dest = <<>> -> s
    [] OTHER -> bindLocal(s, i.dest, v)

\* An object of n cells where so many were asked for.
Allocated(s, r, asked, n) ==
  LET a == ObjectAddress(s.allocated)
      old == IF r.from = <<>> THEN <<>> ELSE s.objects[r.from[1]].cells
      cells == [k \in 1..n |-> IF k <= Len(old) THEN old[k] ELSE r.cell]
  IN [bindTarget(s, r.inst, Constant(a))
        EXCEPT !.frames[Len(s.frames)].allocas = IF r.kind = "local" THEN @ \cup {a} ELSE @,
               !.allocated = @ + 1, !.misled = @ \/ n # asked,
               !.objects = (a :> Object(r.kind, FALSE, cells))
                             @@ (IF r.from = <<>> THEN @ ELSE Without(@, r.from[1]))]

\* A small value of the size where one is possible.
Example(n, sizes) ==
  FoldLeft(LAMBDA m, k : IF m > SmallAlloc /\ m \div 2 \in sizes THEN m \div 2 ELSE m, n, [k \in 1..Width |-> k])

\* For a size of several values: an example, with fixed(it) cells, and the rest when it has
\* one value, a huge one, for null, or something else.
ForSizes(s, r, example, fixed(_), one(_), unknown(_)) ==
  LET chosen == Where(s, r.size, example)
      rest == s.constraints \ chosen
      huge == {x \in rest : r.size[x] > HugeAlloc}
      only == Cardinality({r.size[x] : x \in rest}) = 1
  IN [c \in {chosen} \cup (IF only THEN {rest} ELSE {huge, rest \ huge} \ {{}}) |->
        LET t == addConstraint(s, c)
        IN {CASE c = chosen -> Live(Allocated(t, r, example, fixed(example)))
              [] c # chosen /\ only -> Live(Allocated(t, r, r.size[CHOOSE x \in c : TRUE], one(r.size[CHOOSE x \in c : TRUE])))
              [] c # chosen /\ ~only /\ c = huge -> Live(bindTarget(t, r.inst, Constant(0)))
              [] OTHER -> unknown(t)}]

Examples(s, r) == {Example(n, Values(s, r.size)) : n \in Values(s, r.size)}

\* Sizes that are too small or too large are replaced.
executeAlloc(s, r, limit) ==
  LET adjusted(n) == IF n <= 0 \/ n > MaxAlloc THEN primArraySize ELSE n
      one(n) == IF P.lazyInit THEN primArraySize ELSE adjusted(n)
      unknown(t) ==
        IF P.lazyInit THEN Live([Allocated(t, r, primArraySize, primArraySize) EXCEPT !.misled = TRUE])
        ELSE Over(terminateUnsupported(t))
  IN IF Cardinality(Values(s, r.size)) = 1
     THEN {Live(Allocated(s, r, n, adjusted(n))) : n \in Values(s, r.size)}
     ELSE UNION {Forked(s, ForSizes(s, r, n, LAMBDA m : primArraySize, one, unknown), limit) : n \in Examples(s, r)}

executeAllocThread(s, r, limit) ==
  LET exact(n) == n
      unknown(t) == Over(terminateUnsupported(t))
  IN IF Cardinality(Values(s, r.size)) = 1
     THEN {Live(Allocated(s, r, n, n)) : n \in Values(s, r.size)}
     ELSE UNION {ForkedThread(s, ForSizes(s, r, n, exact, exact, unknown), limit) : n \in Examples(s, r)}

LocalObject(e) == Request(e.inst, eval(e.state, e.inst.size), "local", Random, <<>>)
Alloca ==
  /\ ~P.thread
  /\ \E e \in Executes("alloca"), limit \in Limits :
       \E r \in {LocalObject(e)} : Turns(e, executeAlloc(e.state, r, limit))
AllocaThread ==
  /\ P.thread
  /\ \E e \in Executes("alloca"), limit \in Limits :
       \E r \in {LocalObject(e)} : Turns(e, executeAllocThread(e.state, r, limit))

\* executeMemoryOperation: a state for each object the address may be in, and an error
\* for the rest.
In(s, b, addr) == {x \in s.constraints : Within(s.objects, b, addr[x])}
BoundTo(s, addr) == {b \in DOMAIN s.objects : In(s, b, addr) # {}}

Loaded(s, b, addr) ==
  [x \in Inputs |-> IF Within(s.objects, b, addr[x]) THEN s.objects[b].cells[addr[x] - b + 1][x] ELSE 0]
Stored(s, b, addr, v) ==
  [s EXCEPT !.objects[b].cells = [k \in DOMAIN @ |-> [x \in Inputs |-> IF addr[x] = b + k - 1 THEN v[x] ELSE @[k][x]]]]

\* Both copies, each with its way of ending a state.
Accessed(e, s, b, addr, error(_, _)) ==
  CASE e.inst.op = "load" -> Live(bindLocal(s, e.inst.dest, Loaded(s, b, addr)))
    [] e.inst.op = "store" /\ s.objects[b].readOnly -> Over(error(s, "readonly"))
    [] e.inst.op = "store" /\ ~s.objects[b].readOnly -> Live(Stored(s, b, addr, eval(s, e.inst.val)))

Resolutions(e, addr, error(_, _)) ==
  LET s == e.state
      nowhere == s.constraints \ UNION {In(s, b, addr) : b \in BoundTo(s, addr)}
  IN [c \in {In(s, b, addr) : b \in BoundTo(s, addr)} \cup ({nowhere} \ {{}}) |->
        LET t == addConstraint(s, c)
        IN {IF c = nowhere THEN Over(error(t, "ptr"))
            ELSE Accessed(e, t, CHOOSE b \in BoundTo(s, addr) : In(s, b, addr) = c, addr, error)}]

executeMemoryOperation(e, limit) ==
  \E addr \in {eval(e.state, e.inst.addr)} :
    Turns(e, Forked(e.state, Resolutions(e, addr, terminateStateOnError), limit))

executeMemoryOperationThread(e, limit) ==
  \E addr \in {eval(e.state, e.inst.addr)} :
    Turns(e, ForkedThread(e.state, Resolutions(e, addr, terminateStateOnErrorThread), limit))

Memory(op) ==
  \E e \in Executes(op), limit \in Limits :
    IF P.thread THEN executeMemoryOperationThread(e, limit) ELSE executeMemoryOperation(e, limit)
Load == Memory("load")
Store == Memory("store")

-----------------------------------------------------------------------------
(* Values made concrete *)

\* patchSeed, for the seeds that the constraint excludes.
patchSeeds(s, part) ==
  IF s.seeds \subseteq part THEN {s.seeds} ELSE {(s.seeds \cap part) \cup {x} : x \in part}

\* toConstant, of one operand after the other: any values they have together, and the
\* state is left with the inputs that have these.
toConstant(s, vs) ==
  UNION {LET part == {x \in s.constraints : \A k \in DOMAIN vs : vs[k][x] = vs[k][y]}
         IN {[state |-> [s EXCEPT !.constraints = part, !.seeds = seeds],
              values |-> [k \in DOMAIN vs |-> vs[k][y]],
              lost |-> s.constraints \ part] : seeds \in patchSeeds(s, part)}
         : y \in s.constraints}

-----------------------------------------------------------------------------
(* Conversions, addresses, aggregates and vectors *)

IsConstant(v) == \E n \in {v[x] : x \in Inputs} : v = Constant(n)
Map(Op(_), args) == [x \in Inputs |-> Op([k \in DOMAIN args |-> args[k][x]])]

\* ExtractExpr and ConcatExpr.
Extracted(v, offset, width) == BitsAt(v, offset, width)
Concatenated(high, low, lowWidth) == high * 2^lowWidth + low

\* Trunc, ZExt, SExt, IntToPtr, PtrToInt.
Converted(i, v) ==
  CASE i.fn = "trunc" -> Extracted(v, 0, i.to)
    [] i.fn \in {"zext", "inttoptr", "ptrtoint"} -> Coerced(v, i.from, i.to, FALSE)
    [] i.fn = "sext" -> Coerced(v, i.from, i.to, TRUE)

Converts == \E e \in Executes("cast") :
  Binds(e, Map(LAMBDA v : Converted(e.inst, v[1]), Arguments(e.state, e.inst)))
Convert == ~P.thread /\ Converts
ConvertThread == P.thread /\ Converts

\* The fields and the constant indices make one offset; the other indices stay, by their
\* number and with the size of an element.
computeOffsets(types, constantAt) ==
  LET known == [k \in DOMAIN types |-> types[k][1] = "struct" \/ constantAt[k] # <<>>]
      offset(k) == IF types[k][1] = "struct" THEN types[k][2][constantAt[k][1] + 1]
                   ELSE Coerced(constantAt[k][1], Width, PointerWidth, TRUE) * types[k][2]
  IN [indices |-> SelectSeq([k \in DOMAIN types |-> <<k, types[k][2]>>], LAMBDA ix : ~known[ix[1]]),
      offset |-> FoldLeft(LAMBDA sum, k : IF known[k] THEN (sum + offset(k)) % 2^PointerWidth ELSE sum,
                          0, [k \in DOMAIN types |-> k])]

\* bindInstructionConstants.
KGEPInstruction(i) ==
  IF i.op = "gep"
  THEN computeOffsets(i.types, [k \in DOMAIN i.types |->
         IF i.args[k + 1][1] = "const" THEN <<i.args[k + 1][2]>> ELSE <<>>])
  ELSE computeOffsets(i.types, [k \in DOMAIN i.types |-> <<i.indices[k]>>])

Address(kgepi, v) ==
  (FoldLeft(LAMBDA base, ix : base + Coerced(v[ix[1] + 1], Width, PointerWidth, TRUE) * ix[2],
            v[1], kgepi.indices) + kgepi.offset) % 2^PointerWidth

GetsElementPtr == \E e \in Executes("gep") : \E kgepi \in {KGEPInstruction(e.inst)} :
  Binds(e, Map(LAMBDA v : Address(kgepi, v), Arguments(e.state, e.inst)))
GetElementPtr == ~P.thread /\ GetsElementPtr
GetElementPtrThread == P.thread /\ GetsElementPtr

\* What is above and below the offset of the value, around it.
Inserted(i, v) ==
  LET lOffset == KGEPInstruction(i).offset * 8
      rOffset == lOffset + i.width
      l == Extracted(v[1], 0, lOffset)
      r == Extracted(v[1], rOffset, i.aggregate - rOffset)
      withLow == IF lOffset > 0 THEN Concatenated(v[2], l, lOffset) ELSE v[2]
  IN IF rOffset < i.aggregate THEN Concatenated(r, withLow, rOffset) ELSE withLow

InsertsValue == \E e \in Executes("insertvalue") :
  Binds(e, Map(LAMBDA v : Inserted(e.inst, v), Arguments(e.state, e.inst)))
InsertValue == ~P.thread /\ InsertsValue
InsertValueThread == P.thread /\ InsertsValue

ExtractsValue == \E e \in Executes("extractvalue") :
  Binds(e, Map(LAMBDA v : Extracted(v[1], KGEPInstruction(e.inst).offset * 8, e.inst.width),
               Arguments(e.state, e.inst)))
ExtractValue == ~P.thread /\ ExtractsValue
ExtractValueThread == P.thread /\ ExtractsValue

\* An index has to be constant, and of an element.
IndexFails(e, index) ==
  \/ ~IsConstant(index) /\ Becomes(e, {}, {terminateUnsupported(e.state)}, {})
  \/ /\ IsConstant(index) /\ \A x \in Inputs : index[x] >= e.inst.count
     /\ Becomes(e, {}, {terminateStateOnError(e.state, "vector")}, {})
IndexIsGood(e, index) == IsConstant(index) /\ \A x \in Inputs : index[x] < e.inst.count

\* Where an element is: for the main thread the first is the lowest, for the others the last.
BitOffset(i) == [n \in 0..(i.count - 1) |-> i.bits * n]
BitOffsetThread(i) == [n \in 0..(i.count - 1) |-> i.bits * (i.count - n - 1)]

\* The elements are put together from the left to the right.
FromLast(i) == [k \in 1..i.count |-> i.count - k]
FromFirst(i) == [k \in 1..i.count |-> k - 1]

Elements(i, order, offset, v) ==
  FoldLeft(LAMBDA result, n :
             Concatenated(result, IF n = v[3] THEN v[2] ELSE Extracted(v[1], offset[n], i.bits), i.bits),
           0, order)

InsertsElement(e, order, offset) ==
  \E args \in {Arguments(e.state, e.inst)} :
    \/ IndexFails(e, args[3])
    \/ IndexIsGood(e, args[3]) /\ Binds(e, Map(LAMBDA v : Elements(e.inst, order, offset, v), args))
InsertElement ==
  /\ ~P.thread
  /\ \E e \in Executes("insertelement") : InsertsElement(e, FromLast(e.inst), BitOffset(e.inst))
InsertElementThread ==
  /\ P.thread
  /\ \E e \in Executes("insertelement") : InsertsElement(e, FromFirst(e.inst), BitOffsetThread(e.inst))

ExtractsElement(e, offset) ==
  \E args \in {Arguments(e.state, e.inst)} :
    \/ IndexFails(e, args[2])
    \/ IndexIsGood(e, args[2])
       /\ Binds(e, Map(LAMBDA v : Extracted(v[1], offset[v[2]], e.inst.bits), args))
ExtractElement ==
  ~P.thread /\ \E e \in Executes("extractelement") : ExtractsElement(e, BitOffset(e.inst))
ExtractElementThread ==
  P.thread /\ \E e \in Executes("extractelement") : ExtractsElement(e, BitOffsetThread(e.inst))

Fence == \E e \in Executes("fence") : Continues(e, e.state)

\* ShuffleVector, and what is no instruction for the interpreter.
IllegalInstruction == \E e \in Executes("illegal") : Becomes(e, {}, {terminateStateOnError(e.state, "exec")}, {})

-----------------------------------------------------------------------------
(* Floating point instructions work on values made concrete. *)

\* The widths it returns a format for.
fpWidthToSemantics(width) == width \in {32, 64, 80}

Unsupported(i) ==
  CASE i.fn = "fptrunc" -> ~fpWidthToSemantics(i.from) \/ i.to > i.from
    [] i.fn = "fpext" -> ~fpWidthToSemantics(i.from) \/ i.from > i.to
    [] i.fn \in {"fptoui", "fptosi"} -> ~fpWidthToSemantics(i.from) \/ i.to > 64
    [] i.fn \in {"uitofp", "sitofp"} -> ~fpWidthToSemantics(i.to)
    [] OTHER -> ~fpWidthToSemantics(i.from)

\* A format for the result is not looked for before it is used.
Dereferenced(i) == i.fn \in {"fptrunc", "fpext"} /\ ~fpWidthToSemantics(i.to)

Concrete(e, c, result) ==
  CASE Unsupported(e.inst) -> Becomes(e, {}, {terminateUnsupported(c.state)}, c.lost)
    [] ~Unsupported(e.inst) /\ Dereferenced(e.inst) ->
         Crashes
    [] OTHER -> Becomes(e, {bindLocal(c.state, e.inst.dest, Constant(result))}, {}, c.lost)

FloatArithmetics == {"fadd", "fsub", "fmul", "fdiv", "frem"}
FloatConversions == {"fptrunc", "fpext", "fptoui", "fptosi", "uitofp", "sitofp"}

Calculates ==
  \E e \in Executes("fp") : e.inst.fn \in FloatArithmetics /\
    \E c \in toConstant(e.state, Arguments(e.state, e.inst)) :
      Concrete(e, c, FloatArithmetic(e.inst.fn, c.values[1], c.values[2]))
FloatingPoint == ~P.thread /\ Calculates
FloatingPointThread == P.thread /\ Calculates

ConvertsFloat(fns) ==
  \E e \in Executes("fp") : e.inst.fn \in fns /\
    \E c \in toConstant(e.state, Arguments(e.state, e.inst)) :
      Concrete(e, c, FloatConversion(e.inst.fn, c.values[1], e.inst.from, e.inst.to))
FloatConvert == ~P.thread /\ ConvertsFloat(FloatConversions)
FloatConvertThread == P.thread /\ ConvertsFloat(FloatConversions \ {"fptosi"})

\* FPToSI of a thread reads the main thread's register of that number: any value, or none.
FPToSIThread ==
  /\ P.thread
  /\ \E e \in Executes("fp") :
     /\ e.inst.fn = "fptosi"
     /\ \/ \E n \in 0..(2^Width - 1) :
             \E c \in toConstant([e.state EXCEPT !.misled = TRUE], <<Constant(n)>>) :
               Concrete(e, c, FloatConversion("fptosi", n, e.inst.from, e.inst.to))
        \/ Crashes

\* The switch over the predicates.
FCmpResult(pred, CmpRes) ==
  CASE pred = "ord" -> CmpRes # "unordered"
    [] pred = "uno" -> CmpRes = "unordered"
    [] pred = "ueq" -> CmpRes \in {"unordered", "equal"}
    [] pred = "oeq" -> CmpRes = "equal"
    [] pred = "ugt" -> CmpRes \in {"unordered", "greater"}
    [] pred = "ogt" -> CmpRes = "greater"
    [] pred = "uge" -> CmpRes \in {"unordered", "greater", "equal"}
    [] pred = "oge" -> CmpRes \in {"greater", "equal"}
    [] pred = "ult" -> CmpRes \in {"unordered", "less"}
    [] pred = "olt" -> CmpRes = "less"
    [] pred = "ule" -> CmpRes \in {"unordered", "less", "equal"}
    [] pred = "ole" -> CmpRes \in {"less", "equal"}
    [] pred = "une" -> CmpRes # "equal"
    [] pred = "one" -> CmpRes \notin {"unordered", "equal"}
    [] pred = "false" -> FALSE
    [] pred = "true" -> TRUE

\* In the copy, the unordered predicates fall through to the ordered ones.
FCmpResultThread(pred, CmpRes) ==
  \/ pred = "ord" /\ CmpRes # "unordered"
  \/ pred \in {"uno", "ueq", "ugt", "uge", "ult", "ule"} /\ CmpRes = "unordered"
  \/ pred \in {"ueq", "oeq", "uge", "oge", "ule", "ole"} /\ CmpRes = "equal"
  \/ pred \in {"ugt", "ogt", "uge", "oge"} /\ CmpRes = "greater"
  \/ pred \in {"ult", "olt", "ule", "ole"} /\ CmpRes = "less"
  \/ pred = "une" /\ (CmpRes = "unordered" \/ CmpRes # "equal")
  \/ pred = "one" /\ CmpRes # "unordered" /\ CmpRes # "equal"
  \/ pred = "true"

FCmp ==
  /\ ~P.thread
  /\ \E e \in Executes("fcmp") : \E c \in toConstant(e.state, Arguments(e.state, e.inst)) :
       Concrete(e, c, IF FCmpResult(e.inst.pred, OutcomeOf(c.values[1], c.values[2])) THEN 1 ELSE 0)
FCmpThread ==
  /\ P.thread
  /\ \E e \in Executes("fcmp") : \E c \in toConstant(e.state, Arguments(e.state, e.inst)) :
       Concrete(e, c, IF FCmpResultThread(e.inst.pred, OutcomeOf(c.values[1], c.values[2])) THEN 1 ELSE 0)

-----------------------------------------------------------------------------
(* Calls of the runtime.  It is interpreted like the program: the branches  *)
(* it takes for some of the inputs are one step here, and PosixFiles has    *)
(* what a call does for each input.                                         *)

\* executeGetValue: any value there is, or one for each seed; the runtime assumes that it
\* is the value.
executeGetValue(s, v, limit) ==
  IF s.seeds = {} THEN {Outcome({Where(s, v, n)}, {}, s.constraints \ Where(s, v, n)) : n \in Values(s, v)}
  ELSE LET seeded == {Where(s, v, v[x]) : x \in s.seeds}
       IN {[o EXCEPT !.lost = @ \cup (s.constraints \ UNION seeded)] : o \in branch(s, seeded, limit)}

\* The inputs for which a value was made concrete, and the others.
Concretizes(s, r, limit) ==
  LET asked == {x \in s.constraints : r[x].concrete # <<>>}
      others == {s.constraints \ asked} \ {{}}
  IN IF asked = {} THEN {Outcome(others, {}, {})}
     ELSE {[o EXCEPT !.live = @ \cup others]
             : o \in executeGetValue(addConstraint(s, asked), [x \in Inputs |-> r[x].concrete], limit)}

RunsOn(e, r, part) ==
  LET s == addConstraint(e.state, part)
      at(x, new, old) == IF x \in part THEN new ELSE old
  IN [bindLocal(s, e.inst.dest, [x \in Inputs |-> at(x, r[x].ret, 0)])
        EXCEPT !.runtime = [x \in Inputs |-> at(x, r[x].m, s.runtime[x])],
               !.log = [x \in Inputs |-> at(x, Append(s.log[x], <<r[x].ret, r[x].errno, r[x].data>>), s.log[x])]]

CallRuntime ==
  /\ ~P.thread
  /\ \E e \in Executes("runtime"), limit \in Limits \cap {"none", "max_forks"} :
     \E args \in {Arguments(e.state, e.inst)} :
     \E r \in {[x \in e.state.constraints |->
                  Files!Call(e.state.runtime[x], e.inst, [k \in DOMAIN args |-> args[k][x]], P.input[x])]} :
     \E o \in Concretizes(e.state, r, limit) :
       LET with(c, error) == {x \in c : r[x].error = error}
           errors == {r[x].error : x \in DOMAIN r} \ {""}
       IN Becomes(e,
            {RunsOn(e, r, part) : part \in {with(c, "") : c \in o.live} \ {{}}},
            UNION {{terminateStateOnError(addConstraint(e.state, part), error)
                      : part \in {with(c, error) : c \in o.live} \ {{}}} : error \in errors},
            o.lost)

Instruction ==
  \/ ReadsUnbound
  \/ Br \/ CondBr \/ BrThread \/ Switch \/ SwitchThread \/ IndirectBr
  \/ Unreachable \/ UnreachableThread
  \/ CallFunction \/ CallFunctionThread \/ CallPointer \/ CallPointerThread
  \/ klee_report_error
  \/ ReturnToCaller \/ ReturnToCallerThread \/ ReturnFromEntry
  \/ PHI \/ PHIThread \/ Operate \/ OperateThread \/ ICmp \/ ICmpThread \/ Cast \/ CastThread
  \/ Select \/ SelectThread \/ BreakSelect \/ Alloca \/ AllocaThread \/ Load \/ Store
  \/ Convert \/ ConvertThread \/ GetElementPtr \/ GetElementPtrThread
  \/ InsertValue \/ InsertValueThread \/ ExtractValue \/ ExtractValueThread
  \/ InsertElement \/ InsertElementThread \/ ExtractElement \/ ExtractElementThread
  \/ Fence \/ IllegalInstruction
  \/ FloatingPoint \/ FloatingPointThread \/ FloatConvert \/ FloatConvertThread \/ FPToSIThread
  \/ FCmp \/ FCmpThread \/ CallRuntime

-----------------------------------------------------------------------------

\* As far as the behaviour of the program is defined.
SamePath(s, x, run) ==
  \/ IsPrefix(s.trace, run.trace) /\ IsPrefix(s.log[x], run.log)
  \/ run.how = "undefined" /\ IsPrefix(run.trace, s.trace) /\ IsPrefix(run.log, s.log[x])

OnTheWay(s, runs) ==
  \A x \in s.constraints :
    SamePath(s, x, runs[x]) /\ (runs[x].how # "undefined" => AllBound(s))

AtTheEnd(e, runs) ==
  \A x \in e.constraints :
    /\ SamePath(e, x, runs[x])
    /\ e.how \notin {"early", "unsupported"} /\ runs[x].how # "undefined" =>
         e.trace = runs[x].trace /\ e.log[x] = runs[x].log /\ e.how = runs[x].how /\ e.result[x] = runs[x].result

\* Every input of a state takes the path of the state through the program as it was
\* before the passes, what the instructions read there has a value, the calls on files
\* yield what POSIX has for them, and the result or the error at the end is the input's
\* own: unless the loop bound or a call through a pointer
\* sent the state somewhere else.
EveryPathIsAnExecution ==
  \E runs \in {Runs[program.number]} :
    /\ \A s \in states : ~s.misled => OnTheWay(s, runs)
    /\ \A e \in ended : ~e.misled => AtTheEnd(e, runs)

\* Forks, switches and calls share the inputs of a state out to others, all of them and
\* each to one, unless a fork was skipped or a value was made concrete.
NoInputIsLost ==
  ~crashed =>
    /\ UNION {s.constraints : s \in states \cup ended} = Inputs \ skipped
    /\ \A s, t \in states \cup ended : s # t => s.constraints \cap t.constraints = {}
=============================================================================
