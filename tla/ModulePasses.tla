---------------------------- MODULE ModulePasses ----------------------------
(***************************************************************************)
(* The program that is executed, and the passes KModule::prepare runs over *)
(* it before: the checks of divisors and shift counts, the lowering of     *)
(* switches, the PhiCleaner, and the flattening of a function into an      *)
(* array of instructions.                                                  *)
(*                                                                         *)
(* A function has registers for its parameters, the width of its result (0 *)
(* for void), its block labels in order, and the code of each block.       *)
(***************************************************************************)
EXTENDS Integers, SequencesExt

\* Operands: a constant, a register, a function.
C(n) == <<"const", n>>
R(r) == <<"reg", r>>
F(f) == <<"function", f>>

Phi(dest, from, vals) == [op |-> "phi", dest |-> dest, from |-> from, vals |-> vals]
Do(dest, fn, args) == [op |-> "do", dest |-> dest, fn |-> fn, args |-> args]
Goto(l) == [op |-> "br", to |-> l]
If(c, t, f) == [op |-> "condbr", cond |-> c, to |-> <<t, f>>]
Call(dest, callee, args) ==
  [op |-> "call", dest |-> dest, callee |-> callee, args |-> args, width |-> 3,
   sext |-> FALSE, normal |-> <<>>]
ReportError(kind) == [op |-> "report_error", kind |-> kind]
Ret(vals) == [op |-> "ret", vals |-> vals]

IsPhi(i) == i.op = "phi"
\* The phis of a block are in front.
NumPhis(code) == Cardinality({k \in DOMAIN code : IsPhi(code[k])})

\* PHINode::getBasicBlockIndex, 0 for a block that is no predecessor.
getBasicBlockIndex(phi, l) == SelectInSeq(phi.from, LAMBDA b : b = l)

-----------------------------------------------------------------------------
(* DivCheckPass and OvershiftCheckPass: a call in front of the instruction. *)

Divides == {"udiv", "urem"}
Shifts == {"shl", "lshr"}

Checks(i, width) ==
  CASE i.op = "do" /\ i.fn \in Divides ->
         <<Call(<<>>, F("klee_div_zero_check"), <<i.args[2]>>)>>
    [] i.op = "do" /\ i.fn \in Shifts ->
         <<Call(<<>>, F("klee_overshift_check"), <<C(width), i.args[2]>>)>>
    [] OTHER -> <<>>

runOnModule(f, width) ==
  [f EXCEPT !.block =
     [l \in DOMAIN f.block |->
        FoldLeft(LAMBDA code, i : code \o Append(Checks(i, width), i), <<>>, f.block[l])]]

\* The functions of the intrinsic runtime that are called.
Intrinsics ==
  [klee_div_zero_check |->
     [params |-> <<<<"z">>>>, width |-> 0, order |-> <<<<"entry">>, <<"zero">>, <<"end">>>>,
      block |-> [l \in {<<"entry">>, <<"zero">>, <<"end">>} |->
        CASE l = <<"entry">> -> <<Do(<<"c">>, "eq", <<R(<<"z">>), C(0)>>),
                                  If(R(<<"c">>), <<"zero">>, <<"end">>)>>
          [] l = <<"zero">> -> <<ReportError("div"), Goto(<<"end">>)>>
          [] OTHER -> <<Ret(<<>>)>>]],
   klee_overshift_check |->
     [params |-> <<<<"w">>, <<"s">>>>, width |-> 0,
      order |-> <<<<"entry">>, <<"over">>, <<"end">>>>,
      block |-> [l \in {<<"entry">>, <<"over">>, <<"end">>} |->
        CASE l = <<"entry">> -> <<Do(<<"c">>, "uge", <<R(<<"s">>), R(<<"w">>)>>),
                                  If(R(<<"c">>), <<"over">>, <<"end">>)>>
          [] l = <<"over">> -> <<ReportError("overshift"), Goto(<<"end">>)>>
          [] OTHER -> <<Ret(<<>>)>>]]]

-----------------------------------------------------------------------------
(* LowerSwitchPass *)

\* The first entry of each phi for one predecessor is made to be for another.
setIncomingBlock(code, old, new) ==
  [k \in DOMAIN code |->
     IF IsPhi(code[k]) THEN [code[k] EXCEPT !.from[getBasicBlockIndex(code[k], old)] = new]
     ELSE code[k]]

\* processSwitchInst and switchConvert: a chain of blocks that compare with one case
\* each, the first case first, and a new block for the default at its end.
processSwitchInst(f, l) ==
  LET sw == Last(f.block[l])
      n == Len(sw.cases)
      newDefault == Append(l, "newDefault")
      node(k) == IF k > n THEN newDefault ELSE Append(l, "NodeBlock" \o ToString(k))
      cmp(k) == Append(l, "case.cmp" \o ToString(k))
      edges == <<<<sw.default, newDefault>>>>
               \o Reverse([k \in 1..n |-> <<sw.cases[k][2], node(k)>>])
      redirected == FoldLeft(LAMBDA b, e : [b EXCEPT ![e[1]] = setIncomingBlock(@, l, e[2])],
                             f.block, edges)
      chain == [nb \in {node(k) : k \in 1..(n + 1)} |->
                  IF nb = newDefault THEN <<Goto(sw.default)>>
                  ELSE LET k == CHOOSE k \in 1..n : node(k) = nb
                       IN <<Do(cmp(k), "eq", <<sw.cond, C(sw.cases[k][1])>>),
                            If(R(cmp(k)), sw.cases[k][2], node(k + 1))>>]
  IN [f EXCEPT !.order = @ \o [k \in 1..(n + 1) |-> node(k)],
               !.block = chain @@ [redirected EXCEPT ![l] = Append(Front(@), Goto(node(1)))]]

LowerSwitch(f) ==
  FoldLeft(LAMBDA g, l : IF Last(g.block[l]).op = "switch" THEN processSwitchInst(g, l) ELSE g,
           f, f.order)

-----------------------------------------------------------------------------
(* PhiCleanerPass *)

\* Mutant: the incoming blocks keep their order.
NotReordered(phi, first) == phi

\* The incoming blocks in the order of the first phi of the block.
Reordered(phi, first) ==
  [phi EXCEPT !.from = first.from,
              !.vals = [i \in DOMAIN @ |-> phi.vals[getBasicBlockIndex(phi, first.from[i])]]]

\* A value that an earlier phi of the block defines.
Earlier(code, k, v) == \E j \in 1..(k - 1) : v = R(code[j].dest)
Copy(code, k, i) == Append(code[k].dest, "phiclean" \o ToString(i))

CleanPhis(code) ==
  LET ordered == [k \in DOMAIN code |->
                    IF IsPhi(code[k]) THEN Reordered(code[k], code[1]) ELSE code[k]]
  IN [k \in DOMAIN code |->
        IF ~IsPhi(code[k]) THEN code[k]
        ELSE [ordered[k] EXCEPT !.vals =
                [i \in DOMAIN @ |-> IF Earlier(code, k, @[i]) THEN R(Copy(code, k, i)) ELSE @[i]]]]

\* The copies that belong in front of the terminator of a block.
Copies(f, l) ==
  LET uses == {<<b, k, i>> \in UNION {{<<b, k, i>> : k \in 1..NumPhis(f.block[b]),
                                        i \in DOMAIN f.block[b][1].vals}
                                      : b \in {b \in DOMAIN f.block : IsPhi(f.block[b][1])}} :
                 LET phi == Reordered(f.block[b][k], f.block[b][1])
                 IN phi.from[i] = l /\ Earlier(f.block[b], k, phi.vals[i])}
      copy(u) == Do(Copy(f.block[u[1]], u[2], u[3]), "bitcast",
                    <<Reordered(f.block[u[1]][u[2]], f.block[u[1]][1]).vals[u[3]]>>)
  IN SetToSeq({copy(u) : u \in uses})

PhiCleaner(f) ==
  [f EXCEPT !.block =
     [l \in DOMAIN f.block |->
        LET code == CleanPhis(f.block[l])
        IN Front(code) \o Copies(f, l) \o <<Last(code)>>]]

-----------------------------------------------------------------------------

\* KFunction: the instructions of the blocks one after the other, each with its block,
\* and where every block starts.
KFunction(f) ==
  [params |-> f.params, width |-> f.width,
   instructions |->
     FlattenSeq([n \in DOMAIN f.order |->
       LET code == f.block[f.order[n]]
       IN [k \in DOMAIN code |-> [inst |-> code[k], parent |-> f.order[n]]]]),
   basicBlockEntry |->
     [l \in DOMAIN f.block |->
        1 + FoldLeft(LAMBDA sum, n : sum + n, 0,
                     [n \in 1..(SelectInSeq(f.order, LAMBDA b : b = l) - 1) |->
                        Len(f.block[f.order[n]])])]]

\* KModule::prepare.
prepare(fns, width, lower) ==
  LET linked == [n \in DOMAIN fns |-> runOnModule(fns[n], width)] @@ Intrinsics
      lowered == [n \in DOMAIN linked |-> IF lower THEN LowerSwitch(linked[n]) ELSE linked[n]]
  IN [n \in DOMAIN linked |-> KFunction(PhiCleaner(lowered[n]))]
=============================================================================
