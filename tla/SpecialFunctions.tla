-------------------------- MODULE SpecialFunctions --------------------------
(***************************************************************************)
(* Calls of functions that have no body: those the interpreter handles     *)
(* itself, SpecialFunctionHandler, with the allocation and release of      *)
(* memory that Executor does for them, and the functions of the system.    *)
(*                                                                         *)
(* The handlers are written for the main thread.  When a thread calls one, *)
(* its result goes to the main thread's register, and its errors end the   *)
(* state.                                                                  *)
(***************************************************************************)
EXTENDS Interpreter

CallsSpecial(e) == Named(e) /\ Target(e) # <<>> /\ Target(e)[1] \in DOMAIN handlerInfo /\ ~HasBody(Target(e)[1])
IsExternal(e) == Named(e) /\ Target(e) # <<>> /\ Target(e)[1] \notin DOMAIN handlerInfo \cup DOMAIN kmodule

\* An instruction has a destination when its result is used.
UsesNothing(e) == e.inst.dest # <<>> /\ ~handlerInfo[Target(e)[1]].hasReturnValue

\* handle, of one of these.
Handles(names) == {e \in Executes("call") : CallsSpecial(e) /\ Target(e)[1] \in names /\ ~UsesNothing(e)}
Argument(e, k) == eval(e.state, e.inst.args[k])

ExpectsValue ==
  \E e \in Executes("call") :
    /\ CallsSpecial(e) /\ UsesNothing(e)
    /\ Becomes(e, {}, {terminateStateOnError(e.state, "exec")}, {})

\* The module has no function of the name that is the alias.
AliasNotFound == \E e \in Executes("call") : Named(e) /\ Target(e) = <<>> /\ Crashes

\* The values there are, when there is one of them.
toUnique(s, v) == IF Cardinality(Values(s, v)) = 1 THEN Values(s, v) ELSE {}

-----------------------------------------------------------------------------
(* Strings *)

SymbolicChar == 33 % 2^Width

\* A string, or what is wrong with it: the two errors end the state, an interior pointer KLEE.
readStringAtAddress(s, addr) ==
  LET a == CHOOSE n \in Values(s, addr) : TRUE
      cells == s.objects[a].cells
      read(v) == IF toUnique(s, v) = {} THEN SymbolicChar ELSE CHOOSE n \in toUnique(s, v) : TRUE
  IN CASE toUnique(s, addr) = {} -> [is |-> "symbolic", string |-> <<>>]
       [] toUnique(s, addr) # {} /\ a \in DOMAIN s.objects ->
            [is |-> "string", string |-> StringIn([k \in DOMAIN cells |-> read(cells[k])])]
       [] OTHER -> [is |-> IF Holding(s.objects, a) = {} THEN "invalid" ELSE "interior", string |-> <<>>]

Ending(s, read) == IF read.is = "symbolic" THEN terminateUnsupported(s) ELSE terminateStateOnError(s, "user")

\* What is done with strings; a state that two of them end is looked for twice.
WithStrings(e, addrs, done(_)) ==
  LET reads == [k \in DOMAIN addrs |-> readStringAtAddress(e.state, addrs[k])]
      bad == {k \in DOMAIN addrs : reads[k].is # "string"}
  IN CASE bad = {} -> done([k \in DOMAIN reads |-> reads[k].string])
       [] Cardinality(bad) = 1 /\ \A k \in bad : reads[k].is # "interior" ->
            Becomes(e, {}, {Ending(e.state, reads[k]) : k \in bad}, {})
       [] OTHER -> Crashes

handleWarning ==
  \E e \in Handles({"klee_warning"}) : WithStrings(e, <<Argument(e, 1)>>, LAMBDA strings : Continues(e, e.state))
handlePrintRange ==
  \E e \in Handles({"klee_print_range"}) : WithStrings(e, <<Argument(e, 1)>>, LAMBDA strings : Continues(e, e.state))

addFnAlias(s, old, new) == [s EXCEPT !.fnAliases = (old :> new) @@ @]
removeFnAlias(s, old) == [s EXCEPT !.fnAliases = [name \in DOMAIN @ \ {old} |-> @[name]]]

handleAliasFunction ==
  \E e \in Handles({"klee_alias_function"}) :
    WithStrings(e, <<Argument(e, 1), Argument(e, 2)>>,
      LAMBDA strings : Continues(e, IF strings[1] = strings[2] THEN removeFnAlias(e.state, strings[1])
                                    ELSE addFnAlias(e.state, strings[1], strings[2])))

-----------------------------------------------------------------------------
(* Ends *)

Fails(name, kind) == \E e \in Handles({name}) : Becomes(e, {}, {terminateStateOnError(e.state, kind)}, {})
handleAbort == Fails("abort", "abort")
handleAddOverflow == Fails("__ubsan_handle_add_overflow", "overflow")
handleSubOverflow == Fails("__ubsan_handle_sub_overflow", "overflow")
handleMulOverflow == Fails("__ubsan_handle_mul_overflow", "overflow")
handleDivRemOverflow == Fails("__ubsan_handle_divrem_overflow", "overflow")

\* The message is read first, and ends the state once more than it should.
handleAssertFail ==
  \E e \in Handles({"__assert_fail"}) :
    IF readStringAtAddress(e.state, Argument(e, 1)).is = "string"
    THEN Becomes(e, {}, {terminateStateOnError(e.state, "assert")}, {})
    ELSE Crashes

handleExit == \E e \in Handles({"exit"}) : Becomes(e, {}, {terminateStateOnExit(e.state, Argument(e, 1))}, {})
handleSilentExit ==
  \E e \in Handles({"klee_silent_exit"}) : Becomes(e, {}, {terminated(e.state, "silent", Constant(0))}, {})

-----------------------------------------------------------------------------
(* The path condition *)

\* A condition that does not hold for any input is an error.
handleAssume ==
  \E e \in Handles({"klee_assume"}) : \E v \in {Argument(e, 1)} :
    LET s == e.state
        part == s.constraints \ Where(s, v, 0)
    IN IF part = {} THEN Becomes(e, {}, {terminateStateOnError(s, "user")}, {})
       ELSE \E seeds \in patchSeeds(s, part) :
              Becomes(e, {[s EXCEPT !.constraints = part, !.seeds = seeds]}, {}, s.constraints \ part)

handleSetForking ==
  \E e \in Handles({"klee_set_forking"}) : \E value \in {toUnique(e.state, Argument(e, 1))} :
    IF value = {} THEN Becomes(e, {}, {terminateUnsupported(e.state)}, {})
    ELSE Continues(e, [e.state EXCEPT !.forkDisabled = value = {0}])

\* Without seeds a value is taken for the value, and the path condition left as it is.
handleGetValue ==
  \E e \in Handles({"klee_get_value"}), limit \in Limits \cap {"none", "max_forks"} :
  \E v \in {Argument(e, 1)} :
    LET s == e.state
        cases == [c \in Parts(s, v) |->
                    {Live(bindTarget(addConstraint(s, c), e.inst, Constant(v[CHOOSE x \in c : TRUE])))}]
    IN IF s.seeds = {}
       THEN \E n \in Values(s, v) :
              Continues(e, [bindTarget(s, e.inst, Constant(n)) EXCEPT !.misled = @ \/ Values(s, v) # {n}])
       ELSE \E o \in executeGetValue(s, v, limit) : Turns(e, Shared(s, cases, o, terminateStateEarly))

-----------------------------------------------------------------------------
(* Objects by the address they begin at *)

\* resolveExact: what becomes of the state for each object, and an error for the rest.
resolveExact(s, p, found(_, _)) ==
  LET bases == {b \in DOMAIN s.objects : Where(s, p, b) # {}}
      unbound == s.constraints \ UNION {Where(s, p, b) : b \in bases}
  IN [c \in {Where(s, p, b) : b \in bases} \cup ({unbound} \ {{}}) |->
        LET t == addConstraint(s, c)
        IN IF c = unbound THEN {Over(terminateStateOnError(t, "ptr"))} ELSE found(t, p[CHOOSE x \in c : TRUE])]

\* Of null nothing is released.  The result, when there is to be one, is null.
executeFree(s, i, p, result) ==
  LET bound(t) == IF result THEN bindTarget(t, i, Constant(0)) ELSE t
      zero == Where(s, p, 0)
      release(t, b) ==
        {IF t.objects[b].kind # "heap" THEN Over(terminateStateOnError(t, "free"))
         ELSE Live(bound([t EXCEPT !.objects = Without(@, b)]))}
  IN [c \in {zero} \ {{}} |-> {Live(bound(addConstraint(s, c)))}]
       @@ resolveExact(addConstraint(s, s.constraints \ zero), p, release)

Frees(name) ==
  \E e \in Handles({name}), limit \in Limits : \E p \in {Argument(e, 1)} :
    Turns(e, Forked(e.state, executeFree(e.state, e.inst, p, FALSE), limit))
handleFree == Frees("free")
handleDelete == Frees("delete")

Allocs(name, cell, size(_)) ==
  \E e \in Handles({name}), limit \in Limits : \E r \in {Request(e.inst, size(e), "heap", cell, <<>>)} :
    Turns(e, executeAlloc(e.state, r, limit))
handleMalloc == Allocs("malloc", Random, LAMBDA e : Argument(e, 1))
handleNew == Allocs("new", Random, LAMBDA e : Argument(e, 1))
handleCalloc ==
  Allocs("calloc", Constant(0), LAMBDA e : [x \in Inputs |-> (Argument(e, 1)[x] * Argument(e, 2)[x]) % 2^Width])

\* For a size of zero the object is released, for null one is allocated, and otherwise one
\* takes the place of the object, whatever kind that is of.
handleRealloc ==
  \E e \in Handles({"realloc"}), limit \in Limits :
  \E p \in {Argument(e, 1)}, size \in {Argument(e, 2)} :
    LET s == e.state
        zeroSize == Where(s, size, 0)
        other == addConstraint(s, s.constraints \ zeroSize)
        allocated(t, from) == executeAlloc(t, Request(e.inst, size, "heap", Random, from), limit)
        cases ==
          (IF zeroSize = {} THEN <<>> ELSE executeFree(addConstraint(s, zeroSize), e.inst, p, TRUE))
            @@ [c \in {Where(other, p, 0)} \ {{}} |-> allocated(addConstraint(other, c), <<>>)]
            @@ resolveExact(addConstraint(other, other.constraints \ Where(other, p, 0)), p,
                            LAMBDA t, b : allocated(t, <<b>>))
    IN Turns(e, Forked(s, cases, limit))

handleGetObjSize ==
  \E e \in Handles({"klee_get_obj_size"}), limit \in Limits : \E p \in {Argument(e, 1)} :
    Turns(e, Forked(e.state,
      resolveExact(e.state, p,
        LAMBDA t, b : {Live(bindTarget(t, e.inst, Constant(Len(t.objects[b].cells))))}), limit))

\* The assertion is that one state goes on.
handlePreferCex ==
  \E e \in Handles({"klee_prefer_cex"}), limit \in Limits : \E p \in {Argument(e, 1)} :
    LET s == e.state
        cases == resolveExact(s, p, LAMBDA t, b : {Live(t)})
    IN \E o \in fork(s, DOMAIN cases, limit) :
         IF Cardinality({c \in o.live : \A r \in cases[c] : r.live # {}}) = 1
         THEN Turns(e, Shared(s, cases, o, terminateStateEarly)) ELSE Crashes

-----------------------------------------------------------------------------
(* Objects made symbolic *)

executeMakeSymbolic(s, b) ==
  LET made == [s EXCEPT !.symbolics = @ + 1,
                        !.objects[b].cells = [k \in DOMAIN @ |-> [x \in Inputs |-> Made(P.input[x], s.symbolics, k)]]]
  IN IF s.seeds # {} /\ s.symbolics >= P.seedObjects THEN Over(terminateUnsupported(made)) ELSE Live(made)

\* The size has to be the object's for all inputs.
MadeSymbolic(s, b, size) ==
  LET right == {x \in s.constraints : size[x] = Len(s.objects[b].cells)}
  IN CASE right = s.constraints -> executeMakeSymbolic(s, b)
       [] right = {} -> Over(terminateStateOnError(s, "user"))
       [] OTHER -> Over(terminateUnsupported(s))

\* The first object that is read only ends its state and the handler: the states of the
\* objects after it go on as they are.
handleMakeSymbolic ==
  \E e \in Handles({"klee_make_symbolic"}), limit \in Limits :
  \E p \in {Argument(e, 1)}, size \in {Argument(e, 2)} :
    LET s == e.state
        base(c) == p[CHOOSE x \in c : TRUE]
        readOnly(c) == s.objects[base(c)].readOnly
        resolved == resolveExact(s, p, LAMBDA t, b : {Live(t)})
    IN \E o \in fork(s, DOMAIN resolved, limit) :
       \E objects \in {{c \in o.live : base(c) \in DOMAIN s.objects}} :
       \E before \in SUBSET {c \in objects : ~readOnly(c)} :
         /\ before # objects => \E c \in objects : readOnly(c)
         /\ \E stop \in IF before = objects THEN {{}} ELSE {{c} : c \in {c \in objects : readOnly(c)}} :
              Turns(e, Shared(s,
                [c \in DOMAIN resolved |->
                   LET t == addConstraint(s, c)
                   IN CASE c \in before -> {MadeSymbolic(t, base(c), size)}
                        [] c \in stop -> {Over(terminateStateOnError(t, "user"))}
                        [] c \in objects \ (before \cup stop) -> {Live([t EXCEPT !.misled = TRUE])}
                        [] OTHER -> resolved[c]],
                o, terminateStateEarly))

\* Where an object is, is the caller's: not where another object of any state is.
handleDefineFixedObject ==
  \E e \in Handles({"klee_define_fixed_object"}) : \E a \in {Argument(e, 1)}, n \in {Argument(e, 2)} :
    LET s == e.state
        address == CHOOSE m \in Values(s, a) : TRUE
        size == CHOOSE m \in Values(s, n) : TRUE
        overlaps == \E t \in states : \E k \in address..(address + size - 1) : Holding(t.objects, k) # {}
    IN IF ~IsConstant(a) \/ ~IsConstant(n) \/ overlaps THEN Crashes
       ELSE Continues(e, [s EXCEPT !.objects = (address :> Object("global", FALSE, Cells(size, Constant(0)))) @@ @])

handleCheckMemoryAccess ==
  \E e \in Handles({"klee_check_memory_access"}) :
  \E address \in {toUnique(e.state, Argument(e, 1))}, size \in {toUnique(e.state, Argument(e, 2))} :
    LET objects == e.state.objects
        fits(a, n) == \E b \in Holding(objects, a) : n <= Len(objects[b].cells) /\ a - b < Len(objects[b].cells) - n + 1
    IN IF address = {} \/ size = {} THEN Becomes(e, {}, {terminateUnsupported(e.state)}, {})
       ELSE IF \E a \in address, n \in size : fits(a, n) THEN Continues(e, e.state)
       ELSE Becomes(e, {}, {terminateStateOnError(e.state, "ptr")}, {})

-----------------------------------------------------------------------------
(* errno, and functions of the system *)

\* After an object that is missing is reported, it is read.
handleGetErrno ==
  \E e \in Handles({"klee_get_errno"}) :
    IF Errno \in DOMAIN e.state.objects
    THEN Continues(e, bindTarget(e.state, e.inst, e.state.objects[Errno].cells[1])) ELSE Crashes

handleErrnoLocation ==
  \E e \in Handles({"__errno_location"}) : Continues(e, bindTarget(e.state, e.inst, Constant(Errno)))

\* The values a function is called with: those of an example for each argument, when that
\* is allowed, or the only ones.
Concretely(s, args) ==
  IF P.externalSymCalls
  THEN {f \in [DOMAIN args -> UNION {Values(s, args[k]) : k \in DOMAIN args}] : \A k \in DOMAIN args : f[k] \in Values(s, args[k])}
  ELSE IF \A k \in DOMAIN args : toUnique(s, args[k]) # {}
       THEN {[k \in DOMAIN args |-> CHOOSE n \in Values(s, args[k]) : TRUE]} ELSE {}

\* That none of the arguments is an example.
AsTheyAre(s, args) == \A k \in DOMAIN args : toUnique(s, args[k]) # {}

\* The call may fail, or write to what is read only.
Succeeds(e) == LET ext == P.external[Target(e)[1]] IN ext.found /\ ~ext.spoils

\* What it returns, and leaves in errno.
Returned(e, s, values) ==
  IF e.inst.dest = <<>> THEN s
  ELSE bindLocal(s, e.inst.dest, Constant(Compute(P.external[Target(e)[1]].fn, values)))
LastErrno(e) == <<Constant(P.external[Target(e)[1]].errno)>>

\* Not with symbolic arguments, and not with a symbolic errno.
callExternalFunction ==
  /\ ~P.thread
  /\ \E e \in Executes("call") : \E args \in {Arguments(e.state, e.inst)} :
     /\ IsExternal(e)
     /\ LET s == e.state
            values == Concretely(s, args)
            known == [s EXCEPT !.misled = @ \/ ~AsTheyAre(s, args)]
        IN CASE P.noExternals \/ values = {} -> Becomes(e, {}, {terminateUnsupported(s)}, {})
             [] ~P.noExternals /\ values # {} /\ Errno \notin DOMAIN s.objects -> Crashes
             [] OTHER ->
                  IF ~IsConstant(s.objects[Errno].cells[1]) \/ ~Succeeds(e)
                  THEN Becomes(e, {}, {terminateUnsupported(s)}, {})
                  ELSE \E v \in values :
                         Continues(e, [Returned(e, known, v) EXCEPT !.objects[Errno].cells = LastErrno(e)])

\* For a thread errno stays what it was.
callExternalFunctionThread ==
  /\ P.thread
  /\ \E e \in Executes("call") : \E args \in {Arguments(e.state, e.inst)} :
     /\ IsExternal(e)
     /\ LET s == e.state
            values == Concretely(s, args)
            stale == Errno \in DOMAIN s.objects /\ s.objects[Errno].cells # LastErrno(e)
            known == [s EXCEPT !.misled = @ \/ ~AsTheyAre(s, args) \/ stale]
        IN IF P.noExternals \/ values = {} \/ ~Succeeds(e)
           THEN Becomes(e, {}, {terminateUnsupported(s)}, {})
           ELSE \E v \in values : Continues(e, Returned(e, known, v))

SpecialFunction ==
  \/ ExpectsValue \/ AliasNotFound \/ handleWarning \/ handlePrintRange \/ handleAliasFunction
  \/ handleAbort \/ handleAssertFail \/ handleExit \/ handleSilentExit
  \/ handleAddOverflow \/ handleSubOverflow \/ handleMulOverflow \/ handleDivRemOverflow
  \/ handleAssume \/ handleSetForking \/ handleGetValue
  \/ handleFree \/ handleDelete \/ handleMalloc \/ handleNew \/ handleCalloc \/ handleRealloc
  \/ handleGetObjSize \/ handlePreferCex \/ handleMakeSymbolic
  \/ handleDefineFixedObject \/ handleCheckMemoryAccess \/ handleGetErrno \/ handleErrnoLocation
  \/ callExternalFunction \/ callExternalFunctionThread

Next == Instruction \/ SpecialFunction

Spec == Init /\ [][Next]_vars
=============================================================================
