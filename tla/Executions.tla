----------------------------- MODULE Executions -----------------------------
(***************************************************************************)
(* What a program does for one input, as the language reference has it:    *)
(* the blocks it goes through and how it ends.  No part of the program is  *)
(* modelled here; symbolic execution is compared with it.                  *)
(***************************************************************************)
EXTENDS ModulePasses

CONSTANTS
  Width,        \* of the integers of a program
  PointerWidth,
  MaxFds,       \* of a process
  DirentSize,   \* of a directory entry
  OsDirents,    \* what a directory that is read has first, for the symbolic files
  MaxArgs,
  StdoutSize,   \* of a symbolic standard output
  HugeAlloc     \* the largest size memory is allocated for

Posix == INSTANCE PosixStandard

\* What an operation yields; pointers are only compared, chosen and passed on.
Compute(fn, v) ==
  CASE fn = "add" -> (v[1] + v[2]) % 2^Width
    [] fn = "sub" -> (v[1] - v[2]) % 2^Width
    [] fn = "udiv" -> IF v[2] = 0 THEN 0 ELSE v[1] \div v[2]
    [] fn = "urem" -> IF v[2] = 0 THEN 0 ELSE v[1] % v[2]
    [] fn = "shl" -> IF v[2] >= Width THEN 0 ELSE (v[1] * 2^v[2]) % 2^Width
    [] fn = "lshr" -> IF v[2] >= Width THEN 0 ELSE v[1] \div 2^v[2]
    [] fn = "eq" -> IF v[1] = v[2] THEN 1 ELSE 0
    [] fn = "ult" -> IF v[1] < v[2] THEN 1 ELSE 0
    [] fn = "uge" -> IF v[1] >= v[2] THEN 1 ELSE 0
    [] fn = "select" -> IF v[1] = 1 THEN v[2] ELSE v[3]
    [] fn = "bitcast" -> v[1]

Undefined(fn, v) ==
  \/ fn \in Divides /\ v[2] = 0
  \/ fn \in Shifts /\ v[2] >= Width

\* A result of some width where another is expected.
Coerced(v, from, to, sext) ==
  IF sext /\ to > from /\ v >= 2^(from - 1) THEN (v - 2^from) % 2^to ELSE v % 2^to

\* The offset of a field of a structure, or of an element of an array.
OffsetOf(types, indices) ==
  FoldLeft(LAMBDA sum, n : sum + n, 0,
    [k \in DOMAIN types |->
       IF types[k][1] = "struct" THEN types[k][2][indices[k] + 1]
       ELSE Coerced(indices[k], Width, PointerWidth, TRUE) * types[k][2]])

\* Some bits of a value, and a value with other bits there.
BitsAt(v, offset, width) == (v \div 2^offset) % 2^width
WithBitsAt(v, offset, width, new) == v + (new - BitsAt(v, offset, width)) * 2^offset

-----------------------------------------------------------------------------
(* Memory: the objects by their addresses.  A cell of an object holds a     *)
(* value of any width.                                                      *)

ObjectAddress(n) == 300 + 8 * n
GlobalAddress(n) == 800 + 8 * n
Errno == GlobalAddress(1)

Object(kind, readOnly, cells) == [kind |-> kind, readOnly |-> readOnly, cells |-> cells]
\* A cell that was never written.
Unknown == -1

Within(objects, b, a) == a - b \in 0..(Len(objects[b].cells) - 1)
Holding(objects, a) == {b \in DOMAIN objects : Within(objects, b, a)}
Without(objects, b) == [a \in DOMAIN objects \ {b} |-> objects[a]]

\* What the input has for a cell of the n-th object that is made symbolic.
Made(input, n, k) == input.made[(n % 2) + 1][((k - 1) % 4) + 1]

-----------------------------------------------------------------------------
(* Floating point numbers: a sign, and a magnitude that is zero, one,       *)
(* infinite, or of no number.                                               *)

NaN == 3
IsInfinite(n) == n \in {-2, 2}
Number(v) == IF v >= 4 THEN -(v % 4) ELSE v
FloatOf(n) == IF n >= 2 THEN 2 ELSE IF n >= 0 THEN n ELSE IF n = -1 THEN 5 ELSE 6

FloatSum(x, y) ==
  IF IsInfinite(x) /\ y = -x THEN NaN
  ELSE FloatOf(IF IsInfinite(x) THEN x ELSE IF IsInfinite(y) THEN y ELSE x + y)

FloatArithmetic(fn, a, b) ==
  LET x == Number(a)
      y == Number(b)
  IN CASE NaN \in {a % 4, b % 4} -> NaN
       [] fn = "fadd" -> FloatSum(x, y)
       [] fn = "fsub" -> FloatSum(x, -y)
       [] fn = "fmul" -> IF 0 \in {x, y} /\ (IsInfinite(x) \/ IsInfinite(y)) THEN NaN ELSE FloatOf(x * y)
       [] fn = "fdiv" -> IF (x = 0 /\ y = 0) \/ (IsInfinite(x) /\ IsInfinite(y)) THEN NaN
                         ELSE IF y = 0 THEN FloatOf(2 * x) ELSE IF IsInfinite(y) THEN 0 ELSE FloatOf(x * y)
       [] fn = "frem" -> IF IsInfinite(x) \/ y = 0 THEN NaN ELSE IF IsInfinite(y) THEN FloatOf(x) ELSE 0

\* An integer of some width, signed or not, from a number and the other way round.
Saturated(v, low, high) ==
  LET n == Number(v)
  IN IF v % 4 = NaN THEN 0 ELSE IF n = 2 THEN high ELSE IF n = -2 \/ n < low THEN low ELSE n

FloatConversion(fn, v, from, to) ==
  CASE fn \in {"fptrunc", "fpext"} -> v
    [] fn = "fptoui" -> Saturated(v, 0, 2^to - 1)
    [] fn = "fptosi" -> Saturated(v, -2^(to - 1), 2^(to - 1) - 1) % 2^to
    [] fn = "uitofp" -> FloatOf(v)
    [] fn = "sitofp" -> FloatOf(IF v >= 2^(from - 1) THEN v - 2^from ELSE v)

\* The predicates by their encoding, a bit for each outcome of a comparison they hold for.
Predicates ==
  <<"false", "oeq", "ogt", "oge", "olt", "ole", "one", "ord",
    "uno", "ueq", "ugt", "uge", "ult", "ule", "une", "true">>
OutcomeOf(a, b) ==
  CASE NaN \in {a % 4, b % 4} -> "unordered"
    [] NaN \notin {a % 4, b % 4} /\ Number(a) = Number(b) -> "equal"
    [] NaN \notin {a % 4, b % 4} /\ Number(a) > Number(b) -> "greater"
    [] NaN \notin {a % 4, b % 4} /\ Number(a) < Number(b) -> "less"
BitOf == [equal |-> 1, greater |-> 2, less |-> 4, unordered |-> 8]
PredicateHolds(pred, outcome) ==
  LET code == SelectInSeq(Predicates, LAMBDA p : p = pred) - 1
  IN (code \div BitOf[outcome]) % 2 = 1

-----------------------------------------------------------------------------
(* A configuration: the frames, the objects, how many there were, the path, *)
(* the files and what its calls on them yielded, and how the run ended.     *)

Value(fr, o) == IF o[1] = "reg" THEN fr.regs[o[2]] ELSE o[2]
Known(fr, o) == o[1] = "reg" => o[2] \in DOMAIN fr.regs
Set(fr, dest, v) == [fr EXCEPT !.regs = (dest :> v) @@ @]

Activation(f, fn, args) ==
  [fn |-> fn, label |-> f.order[1], pos |-> 1, call |-> <<>>, own |-> {},
   regs |-> [r \in {f.params[k] : k \in DOMAIN f.params} |->
               args[CHOOSE k \in DOMAIN f.params : f.params[k] = r]]]

\* All phis of a block take their values at once.
Enter(f, fr, to) ==
  LET code == f.block[to]
      n == NumPhis(code)
      taken == [k \in 1..n |-> Value(fr, code[k].vals[getBasicBlockIndex(code[k], fr.label)])]
  IN [fr EXCEPT !.label = to, !.pos = n + 1,
                !.regs = [r \in {code[k].dest : k \in 1..n} |->
                            taken[CHOOSE k \in 1..n : code[k].dest = r]] @@ @]

Start(p, x) ==
  [frames |-> <<Activation(p.fns[p.entry], p.entry, <<x>>)>>,
   objects |-> [a \in {GlobalAddress(n) : n \in DOMAIN p.globals} |->
                  p.globals[CHOOSE n \in DOMAIN p.globals : a = GlobalAddress(n)]],
   alias |-> <<>>, made |-> 0, allocated |-> 0, trace |-> <<<<p.entry, p.fns[p.entry].order[1]>>>>,
   files |-> Posix!Start(p.os), input |-> p.input[x], log |-> <<>>,
   how |-> "runs", result |-> 0]

Ends(c, how, v) == [c EXCEPT !.how = how, !.result = v]
WithTop(c, fr) == [c EXCEPT !.frames = Append(Front(@), fr)]
Jump(p, c, to) ==
  LET fr == Last(c.frames)
  IN [WithTop(c, Enter(p.fns[fr.fn], fr, to)) EXCEPT !.trace = Append(@, <<fr.fn, to>>)]

\* A function without a result, or with fewer arguments than parameters, is called as
\* something else than it is: the behaviour is undefined.
CallFn(p, c, i, fn, args) ==
  LET f == p.fns[fn] IN
  IF Len(args) < Len(f.params) \/ (i.dest # <<>> /\ f.width = 0)
  THEN [Ends(c, "undefined", 0) EXCEPT !.trace = Append(@, <<fn, f.order[1]>>)]
  ELSE [c EXCEPT !.frames = Append(@, [Activation(f, fn, args) EXCEPT !.call = i]),
                 !.trace = Append(@, <<fn, f.order[1]>>)]

ReturnTo(p, c, vals) ==
  LET fr == Last(c.frames)
      i == fr.call
      caller == c.frames[Len(c.frames) - 1]
      v == Coerced(vals[1], p.fns[fr.fn].width, i.width, i.sext)
      bound == IF i.dest # <<>> THEN Set(caller, i.dest, v) ELSE caller
      c1 == [c EXCEPT !.frames = Append(SubSeq(@, 1, Len(@) - 2), bound),
                      !.objects = [a \in DOMAIN @ \ fr.own |-> @[a]]]
  IN IF i.normal # <<>> THEN Jump(p, c1, i.normal) ELSE c1

\* A call on files, and its result where it has one.
CallPosix(c, fr, i, args) ==
  LET r == Posix!Call(c.files, i, args, c.input)
  IN CASE r.error = "undefined" -> Ends(c, "undefined", 0)
       [] r.error \notin {"", "undefined"} -> Ends(c, "error", r.error)
       [] OTHER -> [WithTop(c, Set(fr, i.dest, r.ret)) EXCEPT !.files = r.r, !.log = Append(@, <<r.ret, r.errno, r.data>>)]

-----------------------------------------------------------------------------
(* Functions of the library, and those by which a program speaks to KLEE.   *)

Yields(c, i, v) == IF i.dest = <<>> THEN c ELSE WithTop(c, Set(Last(c.frames), i.dest, v))

Allocate(c, i, kind, cells) ==
  LET a == ObjectAddress(c.allocated)
      bound == [Yields(c, i, a) EXCEPT !.allocated = @ + 1, !.objects = (a :> Object(kind, FALSE, cells)) @@ @]
  IN CASE Len(cells) > HugeAlloc /\ kind = "local" -> Ends(c, "undefined", 0)
       [] Len(cells) > HugeAlloc /\ kind # "local" -> Yields(c, i, 0)
       [] kind = "local" /\ Len(cells) <= HugeAlloc ->
            WithTop(bound, [Last(bound.frames) EXCEPT !.own = @ \cup {a}])
       [] OTHER -> bound

Cells(n, v) == [k \in 1..n |-> v]

Free(c, i, a) ==
  CASE a = 0 -> Yields(c, i, 0)
    [] a # 0 /\ a \notin DOMAIN c.objects -> Ends(c, "error", "ptr")
    [] a \in DOMAIN c.objects ->
         IF c.objects[a].kind # "heap" THEN Ends(c, "error", "free")
         ELSE [Yields(c, i, 0) EXCEPT !.objects = Without(@, a)]

\* The pointer has to be one that was allocated.
Realloc(c, i, a, n) ==
  CASE n = 0 -> Free(c, i, a)
    [] n # 0 /\ a = 0 -> Allocate(c, i, "heap", Cells(n, Unknown))
    [] n # 0 /\ a # 0 /\ a \notin DOMAIN c.objects -> Ends(c, "error", "ptr")
    [] n # 0 /\ a \in DOMAIN c.objects ->
         LET old == c.objects[a].cells
         IN IF c.objects[a].kind # "heap" THEN Ends(c, "undefined", 0)
            ELSE IF n > HugeAlloc THEN Yields(c, i, 0)
            ELSE Allocate([c EXCEPT !.objects = Without(@, a)], i, "heap",
                          [k \in 1..n |-> IF k <= Len(old) THEN old[k] ELSE Unknown])

MakeSymbolic(c, a, n) ==
  CASE a \notin DOMAIN c.objects -> Ends(c, "error", "ptr")
    [] a \in DOMAIN c.objects ->
         IF c.objects[a].readOnly \/ n # Len(c.objects[a].cells) THEN Ends(c, "error", "user")
         ELSE [c EXCEPT !.objects[a].cells = [k \in DOMAIN @ |-> Made(c.input, c.made, k)], !.made = @ + 1]

\* A string goes up to the first zero.
IsString(c, a) == a \in DOMAIN c.objects /\ \A k \in DOMAIN c.objects[a].cells : c.objects[a].cells[k] # Unknown
StringIn(cells) ==
  LET n == SelectInSeq(cells, LAMBDA v : v = 0) IN SubSeq(cells, 1, IF n = 0 THEN Len(cells) - 1 ELSE n - 1)

\* Of the functions the names are of, and calls of the first are calls of the second then.
Alias(p, c, old, new) ==
  LET name(a) == StringIn(c.objects[a].cells)
  IN IF ~IsString(c, old) \/ ~IsString(c, new) \/ {name(old), name(new)} \ DOMAIN p.names # {}
     THEN Ends(c, "undefined", 0)
     ELSE [c EXCEPT !.alias = IF name(old) = name(new)
                              THEN [f \in DOMAIN @ \ {p.names[name(old)]} |-> @[f]]
                              ELSE (p.names[name(old)] :> p.names[name(new)]) @@ @]

Allocators == {"malloc", "new"}
Releases == {"free", "delete"}
Results == Allocators \cup {"calloc", "realloc", "klee_get_value", "klee_get_obj_size", "klee_get_errno", "__errno_location"}
Failures ==
  [abort |-> "abort", __assert_fail |-> "assert", __ubsan_handle_add_overflow |-> "overflow",
   __ubsan_handle_sub_overflow |-> "overflow", __ubsan_handle_mul_overflow |-> "overflow",
   __ubsan_handle_divrem_overflow |-> "overflow"]
Library ==
  Results \cup Releases \cup DOMAIN Failures
    \cup {"exit", "klee_silent_exit", "klee_assume", "klee_make_symbolic", "klee_prefer_cex", "klee_set_forking",
          "klee_check_memory_access", "klee_define_fixed_object", "klee_alias_function", "klee_warning",
          "klee_print_range"}

CallLibrary(p, c, i, fn, args) ==
  CASE i.dest # <<>> /\ fn \notin Results -> Ends(c, "undefined", 0)
    [] fn \in Allocators -> Allocate(c, i, "heap", Cells(args[1], Unknown))
    [] fn = "calloc" -> Allocate(c, i, "heap", Cells((args[1] * args[2]) % 2^Width, 0))
    [] fn = "realloc" -> Realloc(c, i, args[1], args[2])
    [] fn \in Releases /\ i.dest = <<>> -> Free(c, i, args[1])
    [] fn = "klee_get_value" -> Yields(c, i, args[1])
    [] fn = "klee_get_obj_size" ->
         IF args[1] \in DOMAIN c.objects THEN Yields(c, i, Len(c.objects[args[1]].cells))
         ELSE Ends(c, "error", "ptr")
    [] fn = "klee_get_errno" -> Yields(c, i, c.objects[Errno].cells[1])
    [] fn = "__errno_location" -> Yields(c, i, Errno)
    [] fn \in DOMAIN Failures /\ i.dest = <<>> -> Ends(c, "error", Failures[fn])
    [] fn = "exit" /\ i.dest = <<>> -> Ends(c, "exit", args[1])
    [] fn = "klee_silent_exit" /\ i.dest = <<>> -> Ends(c, "silent", 0)
    [] fn = "klee_assume" /\ i.dest = <<>> -> IF args[1] = 0 THEN Ends(c, "error", "user") ELSE c
    [] fn = "klee_make_symbolic" /\ i.dest = <<>> -> MakeSymbolic(c, args[1], args[2])
    [] fn = "klee_prefer_cex" /\ i.dest = <<>> ->
         IF args[1] \in DOMAIN c.objects THEN c ELSE Ends(c, "error", "ptr")
    [] fn = "klee_check_memory_access" /\ i.dest = <<>> ->
         IF \E b \in Holding(c.objects, args[1]) : args[1] + args[2] <= b + Len(c.objects[b].cells) THEN c
         ELSE Ends(c, "error", "ptr")
    [] fn = "klee_define_fixed_object" /\ i.dest = <<>> ->
         IF \E a \in args[1]..(args[1] + args[2] - 1) : Holding(c.objects, a) # {} THEN Ends(c, "undefined", 0)
         ELSE [c EXCEPT !.objects = (args[1] :> Object("global", FALSE, Cells(args[2], Unknown))) @@ @]
    [] fn = "klee_alias_function" /\ i.dest = <<>> -> Alias(p, c, args[1], args[2])
    [] fn \in {"klee_warning", "klee_print_range"} /\ i.dest = <<>> ->
         IF IsString(c, args[1]) THEN c ELSE Ends(c, "undefined", 0)
    [] fn = "klee_set_forking" /\ i.dest = <<>> -> c

\* A function of the system.
CallExternal(p, c, i, fn, args) ==
  LET ext == p.external[fn] IN
  IF ~ext.found \/ ext.spoils THEN Ends(c, "undefined", 0)
  ELSE [Yields(c, i, Compute(ext.fn, args)) EXCEPT !.objects[Errno].cells = <<ext.errno>>]

\* The library's functions are not the program's, but exit may be.
CallNamed(p, c, i, fn, args) ==
  LET name == IF fn \in DOMAIN c.alias THEN c.alias[fn] ELSE fn
  IN CASE name \in DOMAIN p.fns \ (Library \ {"exit"}) -> CallFn(p, c, i, name, args)
       [] name \in DOMAIN p.fns /\ name \in Library \ {"exit"} -> Ends(c, "undefined", 0)
       [] name \in Library \ DOMAIN p.fns -> CallLibrary(p, c, i, name, args)
       [] name \in DOMAIN p.external \ (DOMAIN p.fns \cup Library) -> CallExternal(p, c, i, name, args)
       [] OTHER -> Ends(c, "undefined", 0)

-----------------------------------------------------------------------------

Step(p, c) ==
  LET fr == Last(c.frames)
      i == p.fns[fr.fn].block[fr.label][fr.pos]
      next == WithTop(c, [fr EXCEPT !.pos = @ + 1])
      v(o) == Value(fr, o)
      args == [k \in DOMAIN i.args |-> v(i.args[k])]
      bound(n) == WithTop(c, Set(Last(next.frames), i.dest, n))
  IN CASE i.op = "do" ->
            IF Undefined(i.fn, args)
            THEN Ends(c, "error", IF i.fn \in Divides THEN "div" ELSE "overshift")
            ELSE bound(Compute(i.fn, args))
       [] i.op = "cast" ->
            bound(IF i.fn = "sext" THEN Coerced(args[1], i.from, i.to, TRUE) ELSE args[1] % 2^i.to)
       [] i.op = "gep" -> bound((args[1] + OffsetOf(i.types, Tail(args))) % 2^PointerWidth)
       [] i.op = "fp" ->
            bound(IF Len(args) = 2 THEN FloatArithmetic(i.fn, args[1], args[2])
                  ELSE FloatConversion(i.fn, args[1], i.from, i.to))
       [] i.op = "fcmp" -> bound(IF PredicateHolds(i.pred, OutcomeOf(args[1], args[2])) THEN 1 ELSE 0)
       [] i.op = "insertvalue" ->
            bound(WithBitsAt(args[1], 8 * OffsetOf(i.types, i.indices), i.width, args[2]))
       [] i.op = "extractvalue" -> bound(BitsAt(args[1], 8 * OffsetOf(i.types, i.indices), i.width))
       [] i.op \in {"insertelement", "extractelement"} /\ Last(args) >= i.count ->
            Ends(c, "error", "vector")
       [] i.op = "insertelement" /\ Last(args) < i.count ->
            bound(WithBitsAt(args[1], args[3] * i.bits, i.bits, args[2]))
       [] i.op = "extractelement" /\ Last(args) < i.count -> bound(BitsAt(args[1], args[2] * i.bits, i.bits))
       [] i.op = "fence" -> next
       [] i.op = "runtime" -> CallPosix(c, Last(next.frames), i, args)
       [] i.op = "illegal" -> Ends(c, "undefined", 0)
       [] i.op = "br" -> Jump(p, c, i.to)
       [] i.op = "condbr" -> Jump(p, c, i.to[IF v(i.cond) # 0 THEN 1 ELSE 2])
       [] i.op = "switch" ->
            LET k == SelectInSeq(i.cases, LAMBDA case : case[1] = v(i.cond))
            IN Jump(p, c, IF k = 0 THEN i.default ELSE i.cases[k][2])
       [] i.op = "indirectbr" ->
            LET l == IF v(i.addr) \in DOMAIN p.labels THEN p.labels[v(i.addr)] ELSE <<>>
            IN IF \E k \in DOMAIN i.to : i.to[k] = l THEN Jump(p, c, l) ELSE Ends(c, "error", "exec")
       [] i.op = "call" /\ i.callee[1] = "function" -> CallNamed(p, next, i, i.callee[2], args)
       [] i.op = "call" /\ i.callee[1] # "function" ->
            IF v(i.callee) \in DOMAIN p.functions
            THEN CallFn(p, next, i, p.functions[v(i.callee)], args)
            ELSE Ends(c, "error", "exec")
       [] i.op = "ret" /\ Len(c.frames) = 1 ->
            Ends(c, "exit", IF i.vals = <<>> THEN 0 ELSE v(i.vals[1]))
       [] i.op = "ret" /\ Len(c.frames) > 1 ->
            ReturnTo(p, c, [k \in DOMAIN i.vals |-> v(i.vals[k])])
       [] i.op = "unreachable" -> Ends(c, "error", "exec")
       [] i.op = "alloca" -> Allocate(next, i, "local", Cells(v(i.size), Unknown))
       [] i.op \in {"load", "store"} /\ Holding(c.objects, v(i.addr)) = {} -> Ends(c, "error", "ptr")
       [] i.op \in {"load", "store"} /\ Holding(c.objects, v(i.addr)) # {} ->
            LET b == CHOOSE b \in Holding(c.objects, v(i.addr)) : TRUE
                k == v(i.addr) - b + 1
            IN CASE i.op = "load" ->
                      IF c.objects[b].cells[k] = Unknown THEN Ends(c, "undefined", 0)
                      ELSE bound(c.objects[b].cells[k])
                 [] i.op = "store" ->
                      IF c.objects[b].readOnly THEN Ends(c, "error", "readonly")
                      ELSE [next EXCEPT !.objects[b].cells[k] = v(i.val)]

\* The run of a program that ends within so many steps.
RECURSIVE RunFrom(_, _, _)
RunFrom(p, c, steps) ==
  IF c.how # "runs" \/ steps = 0 THEN c ELSE RunFrom(p, Step(p, c), steps - 1)

Run(p, x) == RunFrom(p, Start(p, x), 100)
=============================================================================
