----------------------------- MODULE MCApiModel -----------------------------
EXTENDS ApiModel, TLC

CONSTANTS f, g, main, none

TwoFns == {f, g}
LeastCount == -8

Effect == [op |-> "effect"]
Inc == [op |-> "inc"]
Terminates == [op |-> "terminate"]
Dec(l) == [op |-> "dec", sub |-> l]
Callback(x) == [op |-> "callback", f |-> x]

Body(actions) == [plain |-> FALSE, assigns |-> FALSE, cond |-> "true", body |-> actions]
Single(action) == [Body(<<action>>) EXCEPT !.plain = TRUE]

\* Two APIs with a block each, and a subblock.
Blocks(first, second, sub) ==
  [api |-> ("api" :> {"first"} @@ "other" :> {"second"}),
   block |-> ("first" :> Body(first) @@ "second" :> Body(second) @@ "sub" :> Body(sub))]

\* An API with an action for each of some return conditions.
Conditional(conds) ==
  [api |-> "api" :> conds,
   block |-> [c \in conds |-> [Body(<<Effect>>) EXCEPT !.cond = c]]]

BlockSpecs ==
  {Blocks(<<Callback(f), Effect, Callback(g)>>, <<Effect>>, <<Effect>>),
   Blocks(<<Callback(f), Callback(f)>>, <<Callback(g), Effect>>, <<Effect>>),
   Blocks(<<Dec("sub"), Effect>>, <<Inc>>, <<Callback(f), Effect>>),
   Blocks(<<Callback("sub"), Callback(g)>>, <<Terminates, Effect>>, <<Callback(f)>>),
   Blocks(<<Dec("sub"), Dec(none), Callback(f)>>, <<Dec("sub"), Effect>>, <<Dec(none)>>)}

\* Actions outside of a block, and an API that also binds its return value.
OtherSpecs ==
  {[api |-> "api" :> {"first"}, block |-> "first" :> Single(a)] :
     a \in {Callback(f), Inc}}
  \cup {[api |-> "api" :> {"first"},
         block |-> ("first" :> Single(Dec("sub")) @@ "sub" :> Body(<<Effect>>))]}
  \cup {[api |-> "api" :> {"zero", "nonzero"},
         block |-> [c \in {"zero", "nonzero"} |->
                      [Body(<<Effect>>) EXCEPT !.cond = c, !.assigns = (c = "zero")]]]}

\* All sets of up to three conditions.
CondSets == {c \in SUBSET Conds : c # {} /\ Cardinality(c) <= 3}

AllSpecs == BlockSpecs \cup OtherSpecs \cup {Conditional(c) : c \in CondSets}
=============================================================================
