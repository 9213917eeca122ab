--------------------------- MODULE ApiModelProofs ---------------------------
(***************************************************************************)
(* Theorems about ApiModel, for every set of programming models, any       *)
(* functions and any depth of the two stacks.                              *)
(***************************************************************************)
EXTENDS ApiModel, FiniteSetTheorems, SequenceTheorems, TLAPS

-----------------------------------------------------------------------------
(* The inductive invariant, by concern *)

Calls == [fn : Fns \cup {Entry}, frame : Nat]
Frames == [label : DOMAIN spec.block, action : Nat \ {0}, callback : Fns \cup {None}, ran : Nat]
Histories == [recursed : BOOLEAN, lost : BOOLEAN, deferred : BOOLEAN,
              repeated : BOOLEAN, skipped : BOOLEAN, early : BOOLEAN]

TypeInv ==
  /\ spec \in Specs
  /\ pmstack \in Seq(Frames)
  /\ stack \in Seq(Calls) /\ stack # <<>> /\ stack[1].frame = 0
  /\ history \in Histories /\ refcount \in Int

\* A frame has carried out the actions before the one that is due, and no frame is
\* beyond the end of its block.
InOrder(frame) ==
  frame.ran + 1 = frame.action /\ frame.action <= NumActions(frame.label) + 1
FramesInOrder == \A k \in DOMAIN pmstack : InOrder(pmstack[k])

\* A callback on the call stack is the one its frame waits for.
CallbacksKnown ==
  ~history.recursed /\ ~history.lost =>
    /\ \A i, j \in DOMAIN stack : stack[i].fn = stack[j].fn => i = j
    /\ \A i \in DOMAIN stack : stack[i].frame # 0 =>
         stack[i].frame \in DOMAIN pmstack /\ pmstack[stack[i].frame].callback = stack[i].fn

Intact == ~history.lost /\ ~history.deferred
Waits == {k \in DOMAIN pmstack : pmstack[k].callback # None}

\* The frames that wait, wait for different calls, the upper frame for the inner call.
Awaited(w) ==
  /\ \A k \in Waits : stack[w[k]].fn = pmstack[k].callback
  /\ \A j, k \in Waits : j < k => w[j] < w[k]
WaitingOnStack == Intact => \E w \in [Waits -> 2 .. Len(stack)] : Awaited(w)

\* Between two instructions the top frame waits.
TopWaits == status = "running" /\ mode = "instr" /\ Intact /\ pmstack # <<>> => Len(pmstack) \in Waits

\* What ActionsRunInOrder, CallbackFinishesFirst and NothingLeftAtExit say of blocks.
NothingWrong ==
  /\ ~history.repeated /\ ~history.skipped
  /\ ~history.recursed /\ ~history.lost => ~history.early
NothingLeft == status = "exited" /\ Intact => pmstack = <<>>

Inv == FramesInOrder /\ CallbacksKnown /\ WaitingOnStack /\ TopWaits /\ NothingWrong /\ NothingLeft
IInv == TypeInv /\ (OnlyBlocks => Inv)

-----------------------------------------------------------------------------
(* Sequences used as stacks *)

\* Numbers
LEMMA Numbers ==
  ASSUME NEW n \in Nat
  PROVE  /\ \A i \in 1 .. n + 1 : i \in 1 .. n \/ i = n + 1
         /\ \A i \in 1 .. n : i \in Nat /\ i # 0 /\ (i = n \/ i < n)
         /\ n # 0 => n + 1 \in 2 .. n + 1
         /\ 2 .. n \subseteq 2 .. n + 1
         /\ \A j, k \in Nat : j < k /\ j # 0 /\ (k = n \/ k < n \/ n = 0) => j # n
         /\ \A j \in 2 .. n : j < n + 1 /\ j \in 1 .. n
         /\ \A i \in 1 .. n : i # n => i \in 1 .. n - 1
OBVIOUS

LEMMA Popped ==
  ASSUME NEW F, NEW s \in Seq(F), s # <<>>, NEW t, t = SubSeq(s, 1, Len(s) - 1)
  PROVE  t \in Seq(F) /\ Len(t) = Len(s) - 1 /\ \A k \in 1 .. Len(t) : t[k] = s[k]
<1>1. Len(s) \in Nat \ {0} /\ \A k \in 1 .. Len(s) : s[k] \in F
  BY EmptySeq, ElementOfSeq
<1> DEFINE n == Len(s) - 1
<1>2. n \in Nat /\ \A i \in 1 .. n : s[i] \in F
  BY <1>1
<1> HIDE DEF n
<1>3. /\ SubSeq(s, 1, n) \in Seq(F)
      /\ Len(SubSeq(s, 1, n)) = IF 1 <= n THEN n - 1 + 1 ELSE 0
      /\ \A i \in 1 .. n - 1 + 1 : SubSeq(s, 1, n)[i] = s[1 + i - 1]
  BY <1>2, SubSeqProperties
<1>4. t = SubSeq(s, 1, n)
  BY DEF n
<1>5. Len(t) = n /\ \A i \in 1 .. n : t[i] = s[i]
  BY <1>2, <1>3, <1>4
<1>6. QED
  BY <1>3, <1>4, <1>5 DEF n

LEMMA Grown ==
  ASSUME NEW F, NEW s \in Seq(F), s # <<>>, NEW f \in F, NEW p \in Seq(F),
         NEW t, t = Append(SubSeq(s, 1, Len(s) - 1), f) \o p
  PROVE  /\ t \in Seq(F) /\ Len(t) = Len(s) + Len(p)
         /\ \A k \in 1 .. Len(s) + Len(p) :
              t[k] = IF k < Len(s) THEN s[k] ELSE IF k = Len(s) THEN f ELSE p[k - Len(s)]
<1> DEFINE b == SubSeq(s, 1, Len(s) - 1)
<1>1. b \in Seq(F) /\ Len(b) = Len(s) - 1 /\ \A k \in 1 .. Len(b) : b[k] = s[k]
  BY Popped
<1> DEFINE a == Append(b, f)
<1> HIDE DEF b
<1>2. a \in Seq(F) /\ Len(a) = Len(s) /\ a[Len(s)] = f /\ \A k \in 1 .. Len(s) - 1 : a[k] = s[k]
  <2>1. Len(s) \in Nat \ {0}
    BY EmptySeq
  <2>2. QED  BY <1>1, <2>1, AppendProperties
<1> HIDE DEF a
<1>3. t = a \o p
  BY DEF a, b
<1>4. Len(s) \in Nat \ {0} /\ Len(p) \in Nat
  BY EmptySeq, LenProperties
<1>5. t \in Seq(F) /\ Len(t) = Len(s) + Len(p)
  BY <1>2, <1>3, ConcatProperties
<1>6. \A i \in 1 .. Len(s) + Len(p) : t[i] = IF i <= Len(s) THEN a[i] ELSE p[i - Len(s)]
  BY <1>2, <1>3, ConcatProperties
<1>7. ASSUME NEW k \in 1 .. Len(s) + Len(p)
      PROVE  t[k] = IF k < Len(s) THEN s[k] ELSE IF k = Len(s) THEN f ELSE p[k - Len(s)]
  BY <1>2, <1>4, <1>6
<1>8. QED
  BY <1>5, <1>7

-----------------------------------------------------------------------------
(* Return conditions *)

\* What the conditions mean for a sign.
LEMMA HoldsFacts ==
  ASSUME NEW sign \in Signs
  PROVE  /\ Holds("zero", sign) <=> sign = 0
         /\ Holds("nonzero", sign) <=> sign # 0
         /\ Holds("ltzero", sign) <=> sign = -1
         /\ Holds("lteqzero", sign) <=> sign # 1
         /\ Holds("gtzero", sign) <=> sign = 1
         /\ Holds("gteqzero", sign) <=> sign # -1
         /\ Holds("true", sign)
<1>1. sign \in {-1, 0, 1}
  BY DEF Signs
<1>2. Holds("zero", sign) <=> sign = 0
  BY DEF Holds
<1>3. Holds("nonzero", sign) <=> sign # 0
  BY DEF Holds
<1>4. Holds("ltzero", sign) <=> sign = -1
  BY <1>1 DEF Holds
<1>5. Holds("lteqzero", sign) <=> sign # 1
  BY <1>1 DEF Holds
<1>6. Holds("gtzero", sign) <=> sign = 1
  BY <1>1 DEF Holds
<1>7. Holds("gteqzero", sign) <=> sign # -1
  BY <1>1 DEF Holds
<1>8. Holds("true", sign)
  BY DEF Holds
<1>9. QED
  BY <1>2, <1>3, <1>4, <1>5, <1>6, <1>7, <1>8

\* For every programming model and every sign of the return value, the branch gets
\* actions meant for it and no other, and gets one if the conditions but "true"
\* leave no value out; the action for "true" it gets if there is no fork.
LEMMA PartitionDecides ==
  ASSUME NEW conds \in SUBSET Conds, NEW sign \in Signs
  PROVE  /\ \A c \in conds : c \in Partition(conds, sign) => Holds(c, sign)
         /\ Exhaustive(conds \ {"true"}) => \E c \in conds : c \in Partition(conds, sign)
         /\ "true" \in Partition(conds, sign) <=> ~Forks(conds)
<1> DEFINE part == Partition(conds, sign)
           C == conds \ {"true"}
<1>0. C \subseteq {"zero", "nonzero", "ltzero", "lteqzero", "gtzero", "gteqzero"}
  BY DEF Conds
<1>1. CASE SplitsInThree(conds)
  <2>1. part = CASE sign = 0 -> {"zero", "lteqzero", "gteqzero"}
                 [] sign < 0 -> {"ltzero", "nonzero", "lteqzero"}
                 [] sign > 0 -> {"gtzero", "nonzero", "gteqzero"}
    BY <1>1 DEF Partition
  <2>2. Exhaustive(C) => \E c \in C : Holds(c, sign)
    BY DEF Exhaustive
  <2>3. Forks(conds)
    BY <1>1 DEF Forks
  <2> HIDE DEF C
  <2>4. CASE sign = 0
    <3>1. part = {"zero", "lteqzero", "gteqzero"}
      BY <2>1, <2>4
    <3>2. \A c \in C : Holds(c, sign) => c \in part
      BY <1>0, <2>4, <3>1, HoldsFacts
    <3>3. QED  BY <2>2, <2>3, <2>4, <3>1, <3>2, HoldsFacts DEF C
  <2>5. CASE sign = -1
    <3>1. part = {"ltzero", "nonzero", "lteqzero"}
      BY <2>1, <2>5
    <3>2. \A c \in C : Holds(c, sign) => c \in part
      BY <1>0, <2>5, <3>1, HoldsFacts
    <3>3. QED  BY <2>2, <2>3, <2>5, <3>1, <3>2, HoldsFacts DEF C
  <2>6. CASE sign = 1
    <3>1. part = {"gtzero", "nonzero", "gteqzero"}
      BY <2>1, <2>6
    <3>2. \A c \in C : Holds(c, sign) => c \in part
      BY <1>0, <2>6, <3>1, HoldsFacts
    <3>3. QED  BY <2>2, <2>3, <2>6, <3>1, <3>2, HoldsFacts DEF C
  <2>7. QED  BY <2>4, <2>5, <2>6 DEF Signs
<1>2. CASE ~SplitsInThree(conds) /\ ComparedWithZero(conds)
  <2>1. part = IF sign = 0 THEN {"zero"} ELSE {"nonzero"}
    BY <1>2 DEF Partition
  <2>2. C \subseteq {"zero", "nonzero"}
    BY <1>0, <1>2 DEF SplitsInThree, Compared
  <2>3. Exhaustive(C) => \E c \in C : Holds(c, sign)
    BY DEF Exhaustive
  <2>4. Forks(conds)
    BY <1>2 DEF Forks
  <2> HIDE DEF C
  <2>5. \A c \in C : Holds(c, sign) => c \in part
    BY <2>1, <2>2, HoldsFacts
  <2>6. QED  BY <2>1, <2>3, <2>4, <2>5, HoldsFacts DEF C
<1>3. CASE ~SplitsInThree(conds) /\ ~ComparedWithZero(conds)
  <2>1. "zero" \notin conds /\ "nonzero" \notin conds
    BY <1>3 DEF ComparedWithZero
  <2>2. C \subseteq {"ltzero", "lteqzero", "gtzero", "gteqzero"}
    BY <1>0, <2>1
  <2>3. Exhaustive(C) => (\E c \in C : Holds(c, sign)) /\ (\E c \in C : Holds(c, 0))
    BY DEF Exhaustive, Signs
  <2>4. CASE "lteqzero" \in conds
    <3>1. part = IF sign <= 0 THEN {"lteqzero"} ELSE {"gtzero"}
      BY <1>3, <2>4 DEF Partition
    <3>2. "gteqzero" \notin conds
      BY <1>3, <2>4 DEF SplitsInThree
    <3>3. Forks(conds)
      BY <2>4 DEF Forks
    <3>4. CASE sign = 1
      <4>1. part = {"gtzero"}
        BY <3>1, <3>4
      <4>2. \A c \in C : Holds(c, sign) => c = "gtzero"
        BY <2>2, <3>2, <3>4, HoldsFacts
      <4>3. QED  BY <2>3, <3>3, <3>4, <4>1, <4>2, HoldsFacts
    <3>5. CASE sign # 1
      <4>1. part = {"lteqzero"}
        BY <3>1, <3>5 DEF Signs
      <4>2. QED  BY <2>4, <3>3, <3>5, <4>1, HoldsFacts
    <3>6. QED  BY <3>4, <3>5
  <2>5. CASE "lteqzero" \notin conds /\ "gteqzero" \in conds
    <3>1. part = IF sign >= 0 THEN {"gteqzero"} ELSE {"ltzero"}
      BY <1>3, <2>5 DEF Partition
    <3>2. Forks(conds)
      BY <2>5 DEF Forks
    <3>3. CASE sign = -1
      <4>1. part = {"ltzero"}
        BY <3>1, <3>3
      <4>2. \A c \in C : Holds(c, sign) => c = "ltzero"
        BY <2>2, <2>5, <3>3, HoldsFacts
      <4>3. QED  BY <2>3, <3>2, <3>3, <4>1, <4>2, HoldsFacts
    <3>4. CASE sign # -1
      <4>1. part = {"gteqzero"}
        BY <3>1, <3>4 DEF Signs
      <4>2. QED  BY <2>5, <3>2, <3>4, <4>1, HoldsFacts
    <3>5. QED  BY <3>3, <3>4
  <2>6. CASE "lteqzero" \notin conds /\ "gteqzero" \notin conds
    <3>1. part = {"true"}
      BY <1>3, <2>6 DEF Partition
    <3>2. ~Forks(conds)
      BY <1>3, <2>6 DEF Forks
    <3>3. C \subseteq {"ltzero", "gtzero"}
      BY <2>2, <2>6
    <3>4. ~Holds("ltzero", 0) /\ ~Holds("gtzero", 0)
      BY DEF Holds
    <3>5. ~Exhaustive(C)
      BY <2>3, <3>3, <3>4
    <3>6. QED  BY <3>1, <3>2, <3>5, HoldsFacts
  <2>7. QED  BY <2>4, <2>5, <2>6
<1>4. QED
  BY <1>1, <1>2, <1>3

LEMMA SpecDecides == spec \in Specs => ConditionsDecide
<1> SUFFICES ASSUME spec \in Specs, NEW api \in DOMAIN spec.api, NEW sign \in Signs
             PROVE  LET conds == CondsOf(api) IN
                      /\ \A c \in conds : c \in Partition(conds, sign) => Holds(c, sign)
                      /\ Exhaustive(conds \ {"true"}) =>
                           \E c \in conds : c \in Partition(conds, sign)
                      /\ "true" \in Partition(conds, sign) <=> ~Forks(conds)
  BY DEF ConditionsDecide
<1>1. CondsOf(api) \in SUBSET Conds
  BY SpecAssumption DEF CondsOf, Labels, Block
<1>2. QED
  BY <1>1, PartitionDecides

-----------------------------------------------------------------------------
(* Type correctness *)

LEMMA TopFacts ==
  ASSUME TypeInv, pmstack # <<>>
  PROVE  /\ Len(pmstack) \in Nat \ {0} /\ Top \in Frames /\ Top = pmstack[Len(pmstack)]
         /\ Below \in Seq(Frames) /\ Len(Below) = Len(pmstack) - 1
         /\ \A k \in 1 .. Len(Below) : Below[k] = pmstack[k]
         /\ AfterAction \in Frames /\ InProgress \in Frames
<1>1. Len(pmstack) \in Nat \ {0} /\ Top \in Frames
  BY EmptySeq, ElementOfSeq DEF TypeInv, Top
<1>2. /\ Below \in Seq(Frames) /\ Len(Below) = Len(pmstack) - 1
      /\ \A k \in 1 .. Len(Below) : Below[k] = pmstack[k]
  <2>1. pmstack \in Seq(Frames) /\ Below = SubSeq(pmstack, 1, Len(pmstack) - 1)
    BY DEF TypeInv, Below
  <2>2. QED  BY <2>1, Popped
<1>3. AfterAction \in Frames
  <2>1. \A n \in Nat \ {0}, m \in Nat : [Top EXCEPT !.action = n, !.ran = m] \in Frames
    BY <1>1 DEF Frames
  <2>2. Top.action \in Nat /\ Top.action + 1 \in Nat \ {0}
    BY <1>1 DEF Frames
  <2>3. QED  BY <2>1, <2>2 DEF AfterAction
<1>4. [Top EXCEPT !.ran = 1] \in Frames
  BY <1>1 DEF Frames
<1>5. QED
  BY <1>1, <1>2, <1>3, <1>4 DEF Top, InProgress

\* The frames that an API call or an action puts on the stack.
Fresh(p) == p \in Seq(Frames) /\ \A k \in DOMAIN p : \E l \in DOMAIN spec.block : p[k] = PMFrame(l)

LEMMA FreshFacts ==
  /\ Fresh(<<>>)
  /\ \A l \in DOMAIN spec.block : PMFrame(l) \in Frames /\ Fresh(<<PMFrame(l)>>)
<1>1. Fresh(<<>>)
  BY DEF Fresh
<1>2. ASSUME NEW l \in DOMAIN spec.block  PROVE PMFrame(l) \in Frames /\ Fresh(<<PMFrame(l)>>)
  <2>1. PMFrame(l) \in Frames
    BY DEF PMFrame, Frames
  <2>2. QED  BY <2>1 DEF Fresh
<1>3. QED
  BY <1>1, <1>2

LEMMA ActionFacts ==
  ASSUME TypeInv, NEW op, DoesAction(op)
  PROVE  /\ pmstack # <<>> /\ Top.callback = None
         /\ Top.action <= NumActions(Top.label) /\ NumActions(Top.label) \in Nat
         /\ op = "dec" => Action.sub \in {None} \cup DOMAIN spec.block
<1>1. pmstack # <<>> /\ Top.callback = None /\ Top.action <= NumActions(Top.label)
  BY DEF DoesAction, Ready
<1>2. Top \in Frames
  BY <1>1, TopFacts
<1>3. Block(Top.label).body \in Seq(Actions(spec))
  BY <1>2, SpecAssumption DEF TypeInv, Frames, Block
<1>4. NumActions(Top.label) \in Nat
  BY <1>3, LenProperties DEF NumActions
<1>5. Action \in Actions(spec)
  <2>1. Top.action \in 1 .. Len(Block(Top.label).body)
    BY <1>1, <1>2, <1>4 DEF NumActions, Frames
  <2>2. QED  BY <1>3, <2>1, ElementOfSeq DEF Action
<1>6. Action.op = op
  BY DEF DoesAction
<1>7. op = "dec" => Action.sub \in {None} \cup DOMAIN spec.block
  BY <1>5, <1>6 DEF Actions
<1>8. QED
  BY <1>1, <1>4, <1>7

LEMMA RanType == TypeInv => Ran \in Histories
BY DEF TypeInv, Ran, Histories

LEMMA TypeFrom ==
  ASSUME TypeInv, spec' = spec, pmstack' \in Seq(Frames), history' \in Histories, refcount' \in Int,
         stack' \in Seq(Calls), stack' # <<>>, stack'[1].frame = 0
  PROVE  TypeInv'
<1>1. Frames' = Frames
  BY DEF Frames
<1>2. QED
  BY <1>1 DEF TypeInv

LEMMA CompletesType ==
  ASSUME TypeInv, pmstack # <<>>, ActionCompletes
  PROVE  pmstack' \in Seq(Frames) /\ history' \in Histories
<1>1. pmstack' = Below \/ pmstack' = Append(Below, AfterAction)
  BY DEF ActionCompletes
<1>2. QED
  BY <1>1, TopFacts, AppendProperties, RanType DEF ActionCompletes

LEMMA InProgressType ==
  ASSUME TypeInv, pmstack # <<>>, NEW p, Fresh(p), ActionInProgress(InProgress, p)
  PROVE  pmstack' \in Seq(Frames) /\ history' \in Histories
<1> DEFINE grown == Append(Below, InProgress) \o p
<1>1. grown \in Seq(Frames) /\ Len(grown) = Len(pmstack) + Len(p) /\ Len(p) \in Nat
  BY TopFacts, Grown, LenProperties DEF TypeInv, Below, Fresh
<1>2. grown # <<>>
  BY <1>1, TopFacts
<1>3. pmstack' = grown \/ pmstack' = SubSeq(grown, 1, Len(grown) - 1)
  BY DEF ActionInProgress
<1> HIDE DEF grown
<1>4. QED
  BY <1>1, <1>2, <1>3, Popped, RanType DEF ActionInProgress

LEMMA ExecutePMType == TypeInv /\ executePM => TypeInv'
<1> SUFFICES ASSUME TypeInv, executePM  PROVE TypeInv'
  OBVIOUS
<1>0. pmstack \in Seq(Frames) /\ history \in Histories /\ stack \in Seq(Calls) /\ stack # <<>>
      /\ stack[1].frame = 0 /\ refcount \in Int
  BY DEF TypeInv
<1>1. CASE executePMReturns
  BY <1>0, <1>1, TypeFrom DEF executePMReturns
<1>2. CASE BlockCompletes
  <2>1. pmstack # <<>>
    BY <1>2 DEF BlockCompletes, Ready
  <2>2. history' \in Histories
    BY <1>0, <1>2 DEF BlockCompletes, popPMFrame, Histories
  <2>3. QED  BY <1>0, <1>2, <2>1, <2>2, TopFacts, TypeFrom DEF BlockCompletes, popPMFrame
<1>3. CASE interpretEffect
  BY <1>0, <1>3, ActionFacts, CompletesType, TypeFrom DEF interpretEffect
<1>4. CASE interpretAborts
  BY <1>0, <1>4, TypeFrom DEF interpretAborts
<1>5. CASE RefCountInc
  BY <1>0, <1>5, ActionFacts, CompletesType, TypeFrom DEF RefCountInc
<1>6. CASE RefCountDec
  <2>1. pmstack # <<>> /\ Action.sub \in {None} \cup DOMAIN spec.block
    BY <1>6, ActionFacts DEF RefCountDec
  <2>2. \/ ActionInProgress(InProgress, <<>>)
        \/ ActionCompletes
        \/ Action.sub # None /\ ActionInProgress(InProgress, <<PMFrame(Action.sub)>>)
    <3>1. \/ refcount' # 0 /\ ActionInProgress(InProgress, <<>>)
          \/ refcount' = 0 /\ Action.sub = None /\ ActionCompletes
          \/ Action.sub # None /\ ActionInProgress(InProgress, <<PMFrame(Action.sub)>>)
      BY <1>0, <1>6 DEF RefCountDec
    <3>2. QED  BY <3>1
  <2>3. pmstack' \in Seq(Frames) /\ history' \in Histories
    BY <1>0, <2>1, <2>2, CompletesType, InProgressType, FreshFacts
  <2>4. QED  BY <1>0, <1>6, <2>3, TypeFrom DEF RefCountDec
<1>7. CASE Terminate
  <2>1. pmstack # <<>>
    BY <1>7, ActionFacts DEF Terminate
  <2>2. pmstack' \in Seq(Frames) /\ history' \in Histories
    BY <1>7, <2>1, CompletesType, TopFacts, RanType DEF Terminate
  <2>3. QED  BY <1>0, <1>7, <2>2, TypeFrom DEF Terminate
<1>8. CASE CallbackSkipped
  BY <1>0, <1>8, ActionFacts, CompletesType, TypeFrom DEF CallbackSkipped
<1>9. CASE CallbackIsSubblock
  BY <1>0, <1>9, ActionFacts, InProgressType, FreshFacts, TypeFrom DEF CallbackIsSubblock
<1>10. CASE CallsBack
  <2>1. pmstack # <<>> /\ Action.f \in Fns
    BY <1>10, ActionFacts DEF CallsBack
  <2>2. Waiting(Action.f) \in Frames
    BY <2>1, TopFacts DEF Waiting, Frames
  <2>3. pmstack' \in Seq(Frames)
    BY <1>10, <2>1, <2>2, TopFacts, AppendProperties DEF CallsBack
  <2>4. history' \in Histories
    BY <1>10, RanType DEF CallsBack, Histories
  <2>5. [fn |-> Action.f, frame |-> Len(pmstack)] \in Calls
    BY <2>1, TopFacts DEF Calls
  <2>6. stack' \in Seq(Calls) /\ stack' # <<>> /\ stack'[1].frame = 0
    BY <1>0, <1>10, <2>5, AppendProperties, EmptySeq DEF CallsBack
  <2>7. QED  BY <1>0, <1>10, <2>3, <2>4, <2>6, TypeFrom DEF CallsBack
<1>11. QED
  BY <1>1, <1>2, <1>3, <1>4, <1>5, <1>6, <1>7, <1>8, <1>9, <1>10 DEF executePM

\* The actions of a branch, in any order.
LEMMA OrderFresh ==
  ASSUME TypeInv, NEW S \in SUBSET DOMAIN spec.block, NEW order \in Orders(S)
  PROVE  Fresh([i \in DOMAIN order |-> PMFrame(order[i])])
         /\ (S = {} => [i \in DOMAIN order |-> PMFrame(order[i])] = <<>>)
<1> DEFINE n == Cardinality(S)
           p == [i \in DOMAIN order |-> PMFrame(order[i])]
<1>1. IsFiniteSet(S)
  <2>1. IsFiniteSet(DOMAIN spec.block)
    BY SpecAssumption DEF TypeInv
  <2>2. QED  BY <2>1, FS_Subset
<1>2. n \in Nat /\ (S = {} => n = 0)
  BY <1>1, FS_CardinalityType, FS_EmptySet
<1>3. order \in [1 .. n -> S]
  BY DEF Orders
<1> HIDE DEF n
<1>4. p = [i \in 1 .. n |-> PMFrame(order[i])]
  BY <1>3
<1>5. \A i \in 1 .. n : order[i] \in DOMAIN spec.block /\ PMFrame(order[i]) \in Frames
  BY <1>3, FreshFacts
<1>6. p \in Seq(Frames) /\ DOMAIN p = 1 .. n /\ \A i \in 1 .. n : p[i] = PMFrame(order[i])
  BY <1>2, <1>4, <1>5, IsASeq
<1>7. Fresh(p)
  BY <1>5, <1>6 DEF Fresh
<1>8. S = {} => p = <<>>
  BY <1>2, <1>6
<1>9. QED
  BY <1>7, <1>8

LEMMA CheckType ==
  ASSUME TypeInv, NEW fn, checkAndSetPMCallbackCompleted(fn)
  PROVE  pmstack' \in Seq(Frames) /\ history' \in Histories
<1>1. CASE pmstack # <<>> /\ Top.callback = fn
  <2>1. [Top EXCEPT !.callback = None] \in Frames
    BY <1>1, TopFacts DEF Frames
  <2>2. \/ pmstack' = Below /\ history' = [history EXCEPT !.skipped = @ \/ ~(Top.ran = NumActions(Top.label))]
        \/ pmstack' = Append(Below, [Top EXCEPT !.callback = None]) /\ history' = history
    BY <1>1 DEF checkAndSetPMCallbackCompleted, popPMFrame
  <2>3. pmstack' \in Seq(Frames)
    BY <1>1, <2>1, <2>2, TopFacts, AppendProperties
  <2>4. [history EXCEPT !.skipped = @ \/ ~(Top.ran = NumActions(Top.label))] \in Histories
        /\ history \in Histories
    BY DEF TypeInv, Histories
  <2>5. QED  BY <2>2, <2>3, <2>4
<1>2. CASE ~(pmstack # <<>> /\ Top.callback = fn)
  BY <1>2 DEF checkAndSetPMCallbackCompleted, TypeInv
<1>3. QED
  BY <1>1, <1>2

LEMMA ApiFacts ==
  ASSUME TypeInv, NEW api \in DOMAIN spec.api
  PROVE  Labels(api) \subseteq DOMAIN spec.block
BY SpecAssumption DEF TypeInv, Labels

LEMMA BranchFacts ==
  ASSUME TypeInv, NEW api \in DOMAIN spec.api, HandleBranching(api)
  PROVE  \E p : \E copy \in BOOLEAN :
           /\ Fresh(p) /\ pmstack' = (IF copy THEN <<>> ELSE pmstack) \o p
           /\ mode' = IF copy THEN "instr" ELSE "pm"
           /\ history' \in Histories
           /\ history'.recursed = history.recursed /\ history'.repeated = history.repeated
           /\ history'.skipped = history.skipped /\ history'.early = history.early
           /\ history'.lost <=> history.lost \/ (copy /\ pmstack # <<>>)
           /\ history.deferred \/ (copy /\ p # <<>>) => history'.deferred
<1> DEFINE S(sign) == {l \in Labels(api) : Block(l).cond \in Partition(CondsOf(api), sign)}
<1>1. PICK sign \in Signs, copy \in BOOLEAN :
        /\ \E order \in Orders(S(sign)) :
             pmstack' = (IF copy THEN <<>> ELSE pmstack) \o [i \in DOMAIN order |-> PMFrame(order[i])]
        /\ history' = [history EXCEPT !.lost = @ \/ (copy /\ pmstack # <<>>),
                                      !.deferred = @ \/ (copy /\ S(sign) # {})]
        /\ mode' = IF copy THEN "instr" ELSE "pm"
  BY DEF HandleBranching
<1>2. S(sign) \in SUBSET DOMAIN spec.block
  BY ApiFacts
<1>3. PICK order \in Orders(S(sign)) :
        pmstack' = (IF copy THEN <<>> ELSE pmstack) \o [i \in DOMAIN order |-> PMFrame(order[i])]
  BY <1>1
<1> DEFINE p == [i \in DOMAIN order |-> PMFrame(order[i])]
<1>4. Fresh(p) /\ (S(sign) = {} => p = <<>>)
  BY <1>2, OrderFresh
<1> HIDE DEF p, S
<1>5. /\ history' \in Histories
      /\ history'.recursed = history.recursed /\ history'.repeated = history.repeated
      /\ history'.skipped = history.skipped /\ history'.early = history.early
      /\ history'.lost <=> history.lost \/ (copy /\ pmstack # <<>>)
      /\ history'.deferred <=> history.deferred \/ (copy /\ S(sign) # {})
  BY <1>1 DEF TypeInv, Histories
<1>6. pmstack' = (IF copy THEN <<>> ELSE pmstack) \o p
  BY <1>3 DEF p
<1>7. QED
  BY <1>1, <1>4, <1>5, <1>6

LEMMA NextType == TypeInv /\ [Next]_vars => TypeInv'
<1> SUFFICES ASSUME TypeInv, [Next]_vars  PROVE TypeInv'
  OBVIOUS
<1>0. pmstack \in Seq(Frames) /\ history \in Histories /\ stack \in Seq(Calls) /\ stack # <<>>
      /\ stack[1].frame = 0 /\ refcount \in Int
  BY DEF TypeInv
<1>1. CASE Step
  BY <1>0, <1>1, TypeFrom DEF Step
<1>2. ASSUME NEW f \in Fns, CallFunction(f)  PROVE TypeInv'
  <2>1. [fn |-> f, frame |-> 0] \in Calls
    BY DEF Calls
  <2>2. stack' \in Seq(Calls) /\ stack' # <<>> /\ stack'[1].frame = 0
    BY <1>0, <1>2, <2>1, AppendProperties, EmptySeq DEF CallFunction
  <2>3. history' \in Histories
    BY <1>0, <1>2 DEF CallFunction, Histories
  <2>4. QED  BY <1>0, <1>2, <2>2, <2>3, TypeFrom DEF CallFunction
<1>3. CASE Return
  <2>1. pmstack' \in Seq(Frames) /\ history' \in Histories
    BY <1>3, CheckType DEF Return
  <2>2. CASE Len(stack) > 1
    <3>1. stack' = SubSeq(stack, 1, Len(stack) - 1)
      BY <1>3, <2>2 DEF Return
    <3>2. /\ stack' \in Seq(Calls) /\ Len(stack') = Len(stack) - 1
          /\ \A k \in 1 .. Len(stack') : stack'[k] = stack[k]
      BY <1>0, <3>1, Popped
    <3>3. Len(stack) \in Nat
      BY <1>0, LenProperties
    <3>4. stack' # <<>> /\ stack'[1].frame = 0
      BY <1>0, <2>2, <3>2, <3>3, EmptySeq
    <3>5. QED  BY <1>0, <1>3, <2>1, <3>2, <3>4, TypeFrom DEF Return
  <2>3. CASE ~(Len(stack) > 1)
    BY <1>0, <1>3, <2>1, <2>3, TypeFrom DEF Return
  <2>4. QED  BY <2>2, <2>3
<1>4. CASE ForkCopy
  <2>1. history' \in Histories
    BY <1>0, <1>4 DEF ForkCopy, Histories
  <2>2. QED  BY <1>0, <1>4, <2>1, EmptySeq, TypeFrom DEF ForkCopy
<1>5. ASSUME NEW api \in DOMAIN spec.api, HandlePlain(api)  PROVE TypeInv'
  <2>1. (CHOOSE l \in Labels(api) : TRUE) \in DOMAIN spec.block
    BY <1>5, ApiFacts DEF HandlePlain, CallsApi
  <2>2. PMFrame(CHOOSE l \in Labels(api) : TRUE) \in Frames
    BY <2>1, FreshFacts
  <2>3. pmstack' \in Seq(Frames)
    BY <1>0, <1>5, <2>2, AppendProperties DEF HandlePlain
  <2>4. QED  BY <1>0, <1>5, <2>3, TypeFrom DEF HandlePlain
<1>6. ASSUME NEW api \in DOMAIN spec.api, HandleBranching(api)  PROVE TypeInv'
  <2>1. PICK p : \E copy \in BOOLEAN :
          Fresh(p) /\ pmstack' = (IF copy THEN <<>> ELSE pmstack) \o p /\ history' \in Histories
    BY <1>6, BranchFacts
  <2>2. pmstack' \in Seq(Frames)
    BY <1>0, <2>1, ConcatProperties, EmptySeq DEF Fresh
  <2>3. QED  BY <1>0, <1>6, <2>1, <2>2, TypeFrom DEF HandleBranching
<1>7. ASSUME NEW api \in DOMAIN spec.api, HandleFails(api)  PROVE TypeInv'
  BY <1>0, <1>7, TypeFrom DEF HandleFails
<1>8. CASE UNCHANGED vars
  BY <1>0, <1>8, TypeFrom DEF vars
<1>9. QED
  BY <1>1, <1>2, <1>3, <1>4, <1>5, <1>6, <1>7, <1>8, ExecutePMType DEF Next

-----------------------------------------------------------------------------
(* The stack of frames under the three ways it changes *)

\* The frames that wait stay and wait for the same functions, and no other waits.
SameWaiting ==
  /\ \A k \in DOMAIN pmstack' : pmstack'[k].callback # None =>
       k \in DOMAIN pmstack /\ pmstack[k].callback = pmstack'[k].callback
  /\ \A k \in DOMAIN pmstack : pmstack[k].callback # None =>
       k \in DOMAIN pmstack' /\ pmstack'[k].callback = pmstack[k].callback

LEMMA LabelFacts ==
  ASSUME TypeInv
  PROVE  /\ \A l \in DOMAIN spec.block : NumActions(l) \in Nat /\ InOrder(PMFrame(l))
         /\ spec' = spec => /\ \A l : NumActions(l)' = NumActions(l)
                            /\ FramesInOrder' <=> \A k \in DOMAIN pmstack' : InOrder(pmstack'[k])
<1>1. ASSUME NEW l \in DOMAIN spec.block  PROVE NumActions(l) \in Nat /\ InOrder(PMFrame(l))
  <2>1. Block(l).body \in Seq(Actions(spec))
    BY SpecAssumption DEF TypeInv, Block
  <2>2. NumActions(l) \in Nat
    BY <2>1, LenProperties DEF NumActions
  <2>3. PMFrame(l).ran = 0 /\ PMFrame(l).action = 1 /\ PMFrame(l).label = l
    BY DEF PMFrame
  <2>4. QED  BY <2>2, <2>3 DEF InOrder
<1>2. ASSUME spec' = spec
      PROVE  /\ \A l : NumActions(l)' = NumActions(l)
             /\ FramesInOrder' <=> \A k \in DOMAIN pmstack' : InOrder(pmstack'[k])
  BY <1>2 DEF NumActions, Block, FramesInOrder, InOrder
<1>3. QED
  BY <1>1, <1>2

LEMMA AfterActionFields ==
  ASSUME Top \in Frames
  PROVE  /\ AfterAction.callback = Top.callback /\ AfterAction.label = Top.label
         /\ AfterAction.action = Top.action + 1 /\ AfterAction.ran = Top.action
<1>1. \A a, r : LET after == [Top EXCEPT !.action = a, !.ran = r] IN
        /\ after.callback = Top.callback /\ after.label = Top.label
        /\ after.action = a /\ after.ran = r
  BY DEF Frames
<1>2. AfterAction = [Top EXCEPT !.action = Top.action + 1, !.ran = Top.action]
  BY DEF AfterAction
<1>3. QED
  BY <1>1, <1>2

LEMMA AfterPop ==
  ASSUME TypeInv, spec' = spec, FramesInOrder, pmstack # <<>>, Top.callback = None, pmstack' = Below
  PROVE  FramesInOrder' /\ SameWaiting
<1>1. /\ DOMAIN pmstack' = 1 .. Len(pmstack) - 1 /\ DOMAIN pmstack = 1 .. Len(pmstack)
      /\ \A k \in DOMAIN pmstack' : pmstack'[k] = pmstack[k]
      /\ Len(pmstack) \in Nat \ {0} /\ pmstack[Len(pmstack)].callback = None
  BY TopFacts, LenProperties DEF TypeInv
<1>2. FramesInOrder'
  BY <1>1, LabelFacts DEF FramesInOrder
<1>3. SameWaiting
  BY <1>1 DEF SameWaiting
<1>4. QED
  BY <1>2, <1>3

LEMMA AfterAdvance ==
  ASSUME TypeInv, spec' = spec, FramesInOrder, pmstack # <<>>, Top.callback = None,
         Top.action <= NumActions(Top.label), NEW p, Fresh(p),
         pmstack' = Append(Below, AfterAction) \o p
  PROVE  FramesInOrder' /\ SameWaiting
<1> DEFINE n == Len(pmstack)
<1>1. /\ n \in Nat \ {0} /\ DOMAIN pmstack = 1 .. n /\ pmstack[n] = Top /\ Top \in Frames
      /\ Len(p) \in Nat /\ DOMAIN p = 1 .. Len(p)
  BY TopFacts, LenProperties DEF TypeInv, Fresh
<1>2. /\ pmstack' \in Seq(Frames) /\ Len(pmstack') = n + Len(p)
      /\ \A k \in 1 .. n + Len(p) :
           pmstack'[k] = IF k < n THEN pmstack[k] ELSE IF k = n THEN AfterAction ELSE p[k - n]
  <2>1. pmstack \in Seq(Frames) /\ p \in Seq(Frames) /\ AfterAction \in Frames
    BY TopFacts DEF TypeInv, Fresh
  <2>2. pmstack' = Append(SubSeq(pmstack, 1, Len(pmstack) - 1), AfterAction) \o p
    BY DEF Below
  <2>3. QED  BY <2>1, <2>2, Grown
<1>3. DOMAIN pmstack' = 1 .. n + Len(p)
  BY <1>2, LenProperties
<1>5. AfterAction.callback = None /\ InOrder(AfterAction)
  <2>1. /\ AfterAction.callback = Top.callback /\ AfterAction.label = Top.label
        /\ AfterAction.action = Top.action + 1 /\ AfterAction.ran = Top.action
    BY <1>1, AfterActionFields
  <2>2. Top.action \in Nat /\ NumActions(Top.label) \in Nat
    BY <1>1, LabelFacts DEF Frames
  <2>3. Top.action + 1 <= NumActions(Top.label) + 1
    BY <2>2
  <2>4. InOrder(AfterAction)
    BY <2>1, <2>3 DEF InOrder
  <2>5. QED  BY <2>1, <2>4
<1>6. \A j \in 1 .. Len(p) : p[j].callback = None /\ InOrder(p[j])
  BY <1>1, LabelFacts DEF Fresh, PMFrame
<1>7. ASSUME NEW k \in DOMAIN pmstack', ~(k < n)
      PROVE  pmstack'[k].callback = None /\ InOrder(pmstack'[k])
  <2>1. CASE k = n
    <3>1. pmstack'[k] = AfterAction
      BY <1>2, <1>3, <1>7, <2>1
    <3>2. QED  BY <1>5, <3>1
  <2>2. CASE k # n
    <3>1. k - n \in 1 .. Len(p)
      BY <1>1, <1>3, <1>7, <2>2
    <3>2. QED  BY <1>2, <1>3, <1>6, <1>7, <2>2, <3>1
  <2>3. QED  BY <2>1, <2>2
<1>8. \A k \in 1 .. n - 1 : k \in DOMAIN pmstack /\ k \in DOMAIN pmstack' /\ pmstack'[k] = pmstack[k]
  <2>1. \A k \in 1 .. n - 1 : k \in 1 .. n /\ k \in 1 .. n + Len(p) /\ k < n
    BY <1>1
  <2>2. QED  BY <1>1, <1>2, <1>3, <2>1
<1>9. \A k \in DOMAIN pmstack : pmstack[k].callback # None => k \in 1 .. n - 1
  <2> SUFFICES ASSUME NEW k \in 1 .. n, pmstack[k].callback # None  PROVE k \in 1 .. n - 1
    BY <1>1
  <2>1. k # n
    BY <1>1
  <2>2. n \in Nat
    BY <1>1
  <2>3. QED  BY <2>1, <2>2, Numbers
<1>10. FramesInOrder'
  <2>1. \A k \in DOMAIN pmstack' : k \in 1 .. n - 1 \/ ~(k < n)
    BY <1>1, <1>3
  <2>2. \A k \in DOMAIN pmstack' : InOrder(pmstack'[k])
    BY <1>7, <1>8, <2>1 DEF FramesInOrder
  <2>3. QED  BY <2>2, LabelFacts
<1>11. SameWaiting
  <2>1. \A k \in DOMAIN pmstack' : k \in 1 .. n - 1 \/ ~(k < n)
    BY <1>1, <1>3
  <2>2. QED  BY <1>7, <1>8, <1>9, <2>1 DEF SameWaiting
<1>12. QED
  BY <1>10, <1>11

LEMMA AfterPush ==
  ASSUME TypeInv, spec' = spec, FramesInOrder, NEW p, Fresh(p), pmstack' = pmstack \o p
  PROVE  FramesInOrder' /\ SameWaiting
<1> DEFINE n == Len(pmstack)
<1>1. /\ n \in Nat /\ DOMAIN pmstack = 1 .. n /\ Len(p) \in Nat /\ DOMAIN p = 1 .. Len(p)
  BY LenProperties DEF TypeInv, Fresh
<1>2. /\ DOMAIN pmstack' = 1 .. n + Len(p)
      /\ \A k \in 1 .. n + Len(p) : pmstack'[k] = IF k <= n THEN pmstack[k] ELSE p[k - n]
  <2>1. pmstack \in Seq(Frames) /\ p \in Seq(Frames)
    BY DEF TypeInv, Fresh
  <2>2. pmstack' \in Seq(Frames) /\ Len(pmstack') = n + Len(p)
    BY <2>1, ConcatProperties
  <2>3. \A k \in 1 .. n + Len(p) : (pmstack \o p)[k] = IF k <= n THEN pmstack[k] ELSE p[k - n]
    BY <2>1, ConcatProperties
  <2>4. QED  BY <2>2, <2>3, LenProperties
<1>3. \A j \in 1 .. Len(p) : p[j].callback = None /\ InOrder(p[j])
  BY <1>1, LabelFacts DEF Fresh, PMFrame
<1>4. ASSUME NEW k \in 1 .. n + Len(p), ~(k <= n)
      PROVE  pmstack'[k].callback = None /\ InOrder(pmstack'[k])
  <2>1. k - n \in 1 .. Len(p)
    BY <1>1, <1>4
  <2>2. QED  BY <1>2, <1>3, <1>4, <2>1
<1>5. \A k \in 1 .. n : k \in 1 .. n + Len(p) /\ pmstack'[k] = pmstack[k]
  BY <1>1, <1>2
<1>6. FramesInOrder'
  BY <1>1, <1>2, <1>4, <1>5, LabelFacts DEF FramesInOrder
<1>7. SameWaiting
  BY <1>1, <1>2, <1>4, <1>5 DEF SameWaiting
<1>8. QED
  BY <1>6, <1>7

-----------------------------------------------------------------------------
(* The calls on the stack *)

\* What has gone wrong stays.
StillIntact ==
  /\ history.recursed => history'.recursed
  /\ history.lost => history'.lost
  /\ history.deferred => history'.deferred

LEMMA KeepsCalls ==
  ASSUME TypeInv, SameWaiting, StillIntact, stack' = stack, CallbacksKnown, WaitingOnStack
  PROVE  CallbacksKnown' /\ WaitingOnStack'
<1>1. CallbacksKnown'
  <2> SUFFICES ASSUME ~history.recursed, ~history.lost
               PROVE  /\ \A i, j \in DOMAIN stack : stack[i].fn = stack[j].fn => i = j
                      /\ \A i \in DOMAIN stack : stack[i].frame # 0 =>
                           stack[i].frame \in DOMAIN pmstack' /\ pmstack'[stack[i].frame].callback = stack[i].fn
    BY DEF CallbacksKnown, StillIntact
  <2>1. \A i \in DOMAIN stack : stack[i].fn # None
    <3>1. \A i \in DOMAIN stack : stack[i] \in Calls
      BY LenProperties, ElementOfSeq DEF TypeInv
    <3>2. QED  BY <3>1, FnsAssumption DEF Calls
  <2>2. QED  BY <2>1 DEF CallbacksKnown, SameWaiting
<1>2. WaitingOnStack'
  <2>1. Waits' = Waits
    BY DEF Waits, SameWaiting
  <2>2. \A w : Awaited(w) => Awaited(w)'
    BY <2>1 DEF Awaited, SameWaiting, Waits
  <2>3. Intact' => Intact
    BY DEF Intact, StillIntact
  <2>4. QED  BY <2>1, <2>2, <2>3 DEF WaitingOnStack
<1>3. QED
  BY <1>1, <1>2

\* An action is carried out: it is the one that is due, and no callback of the frame runs.
LEMMA RanRight ==
  ASSUME TypeInv, FramesInOrder, CallbacksKnown, NothingWrong, pmstack # <<>>, Top.callback = None
  PROVE  /\ Ran.recursed = history.recursed /\ Ran.lost = history.lost
         /\ Ran.deferred = history.deferred
         /\ ~Ran.repeated /\ ~Ran.skipped
         /\ ~history.recursed /\ ~history.lost => ~Ran.early
<1>1. /\ Ran.recursed = history.recursed /\ Ran.lost = history.lost
      /\ Ran.deferred = history.deferred
      /\ Ran.repeated <=> history.repeated \/ Top.ran >= Top.action
      /\ Ran.skipped <=> history.skipped \/ Top.action > Top.ran + 1
      /\ Ran.early <=> history.early \/ CallbackStillRuns
  BY DEF TypeInv, Histories, Ran
<1>2. /\ Top \in Frames /\ Len(pmstack) \in Nat \ {0}
      /\ pmstack[Len(pmstack)] = Top /\ Len(pmstack) \in DOMAIN pmstack
  BY TopFacts, LenProperties DEF TypeInv
<1>3. Top.ran + 1 = Top.action /\ Top.ran \in Nat /\ Top.action \in Nat
  BY <1>2 DEF FramesInOrder, InOrder, Frames
<1>4. ~(Top.ran >= Top.action) /\ ~(Top.action > Top.ran + 1)
  BY <1>3
<1>5. ~history.recursed /\ ~history.lost => ~CallbackStillRuns
  <2> SUFFICES ASSUME ~history.recursed, ~history.lost,
                      NEW i \in DOMAIN stack, stack[i].frame = Len(pmstack)
               PROVE  FALSE
    BY DEF CallbackStillRuns
  <2>1. stack[i].fn = None
    BY <1>2 DEF CallbacksKnown
  <2>2. stack[i] \in Calls
    BY LenProperties, ElementOfSeq DEF TypeInv
  <2>3. QED  BY <2>1, <2>2, FnsAssumption DEF Calls
<1>6. QED
  BY <1>1, <1>4, <1>5 DEF NothingWrong

LEMMA RanFacts ==
  ASSUME TypeInv, FramesInOrder, CallbacksKnown, NothingWrong, pmstack # <<>>, Top.callback = None,
         history' = Ran
  PROVE  StillIntact /\ NothingWrong'
BY RanRight DEF StillIntact, NothingWrong

\* A function is called; for a callback, frame is the one that waits from now on.
LEMMA Called ==
  ASSUME TypeInv, CallbacksKnown, WaitingOnStack, StillIntact, NEW f \in Fns, NEW frame \in Nat,
         stack' = Append(stack, [fn |-> f, frame |-> frame]),
         OnStack(f) => history'.recursed,
         Len(pmstack') = Len(pmstack), DOMAIN pmstack' = DOMAIN pmstack,
         \A k \in DOMAIN pmstack : k # frame => pmstack'[k] = pmstack[k],
         frame # 0 => /\ frame = Len(pmstack) /\ frame \in DOMAIN pmstack
                      /\ pmstack[frame].callback = None /\ pmstack'[frame].callback = f
  PROVE  CallbacksKnown' /\ WaitingOnStack'
<1>0. PICK n \in Nat : n = Len(stack)
  BY LenProperties DEF TypeInv
<1>1. /\ DOMAIN stack = 1 .. n /\ DOMAIN stack' = 1 .. n + 1 /\ Len(stack') = n + 1
      /\ \A i \in 1 .. n : stack'[i] = stack[i] /\ stack[i] \in Calls
      /\ stack'[n + 1].fn = f /\ stack'[n + 1].frame = frame
  <2>1. stack \in Seq(Calls) /\ [fn |-> f, frame |-> frame] \in Calls
    BY DEF TypeInv, Calls
  <2>2. stack' \in Seq(Calls) /\ Len(stack') = n + 1 /\ stack'[n + 1] = [fn |-> f, frame |-> frame]
        /\ \A i \in 1 .. n : stack'[i] = stack[i]
    BY <1>0, <2>1, AppendProperties
  <2>3. QED  BY <1>0, <2>1, <2>2, LenProperties, ElementOfSeq
<1>2. ASSUME ~history'.recursed, ~history'.lost
      PROVE  /\ \A i, j \in DOMAIN stack' : stack'[i].fn = stack'[j].fn => i = j
             /\ \A i \in DOMAIN stack' : stack'[i].frame # 0 =>
                  /\ stack'[i].frame \in DOMAIN pmstack'
                  /\ pmstack'[stack'[i].frame].callback = stack'[i].fn
  <2>1. /\ \A i, j \in 1 .. n : stack[i].fn = stack[j].fn => i = j
        /\ \A i \in 1 .. n : stack[i].frame # 0 =>
             stack[i].frame \in DOMAIN pmstack /\ pmstack[stack[i].frame].callback = stack[i].fn
    BY <1>1, <1>2 DEF CallbacksKnown, StillIntact
  <2>2. \A i \in 1 .. n : stack[i].fn # f /\ stack[i].fn # None
    BY <1>1, <1>2, FnsAssumption DEF OnStack, Calls
  <2>3. \A i \in 1 .. n + 1 : i \in 1 .. n \/ i = n + 1
    BY <1>0, Numbers
  <2>4. ASSUME NEW i \in 1 .. n + 1, NEW j \in 1 .. n + 1, stack'[i].fn = stack'[j].fn
        PROVE  i = j
    <3>1. CASE i \in 1 .. n /\ j \in 1 .. n
      <4>1. stack'[i] = stack[i] /\ stack'[j] = stack[j]
        BY <1>1, <3>1
      <4>2. QED  BY <2>1, <2>4, <3>1, <4>1
    <3>2. CASE i = n + 1 /\ j \in 1 .. n
      BY <1>1, <2>2, <2>4, <3>2
    <3>3. CASE i \in 1 .. n /\ j = n + 1
      BY <1>1, <2>2, <2>4, <3>3
    <3>4. QED  BY <2>3, <3>1, <3>2, <3>3
  <2>5. ASSUME NEW i \in 1 .. n, stack[i].frame # 0
        PROVE  stack[i].frame \in DOMAIN pmstack /\ pmstack'[stack[i].frame].callback = stack[i].fn
    <3>1. stack[i].frame \in DOMAIN pmstack /\ pmstack[stack[i].frame].callback = stack[i].fn
      BY <2>1, <2>5
    <3>2. stack[i].frame # frame
      BY <2>2, <2>5, <3>1
    <3>3. QED  BY <3>1, <3>2
  <2>6. ASSUME NEW i \in 1 .. n + 1, stack'[i].frame # 0
        PROVE  stack'[i].frame \in DOMAIN pmstack' /\ pmstack'[stack'[i].frame].callback = stack'[i].fn
    <3>1. CASE i \in 1 .. n
      <4>1. stack'[i] = stack[i]
        BY <1>1, <3>1
      <4>2. QED  BY <2>5, <2>6, <3>1, <4>1
    <3>2. CASE i = n + 1
      BY <1>1, <2>6, <3>2
    <3>3. QED  BY <2>3, <3>1, <3>2
  <2>7. QED  BY <1>1, <2>4, <2>6
<1>3. ASSUME Intact'
      PROVE  \E w \in [Waits' -> 2 .. n + 1] : Awaited(w)'
  <2>1. PICK w \in [Waits -> 2 .. n] : Awaited(w)
    BY <1>0, <1>3 DEF WaitingOnStack, Intact, StillIntact
  <2>2. PICK W, V : W = Waits /\ V = Waits'
    OBVIOUS
  <2>3. \A k \in V : k \in Nat /\ k # 0 /\ (k # frame => k \in W) /\ (k = frame \/ k < frame \/ frame = 0)
    <3>1. DOMAIN pmstack = 1 .. Len(pmstack) /\ Len(pmstack) \in Nat
      BY LenProperties DEF TypeInv
    <3>2. \A k \in 1 .. Len(pmstack) : k \in Nat /\ k # 0 /\ (k = Len(pmstack) \/ k < Len(pmstack))
      BY <3>1, Numbers
    <3>3. V \subseteq 1 .. Len(pmstack) /\ \A k \in V : k # frame => k \in W
      BY <2>2, <3>1 DEF Waits
    <3>4. QED  BY <3>2, <3>3
  <2>4. n + 1 \in 2 .. n + 1
    <3>1. n # 0
      BY EmptySeq, <1>0 DEF TypeInv
    <3>2. QED  BY <1>0, <3>1, Numbers
  <2>5. PICK v \in [V -> 2 .. n + 1] : \A k \in V : v[k] = IF k = frame THEN n + 1 ELSE w[k]
    <3>1. [k \in V |-> IF k = frame THEN n + 1 ELSE w[k]] \in [V -> 2 .. n + 1]
      <4>1. \A k \in V : k # frame => w[k] \in 2 .. n
        BY <2>1, <2>2, <2>3
      <4>2. 2 .. n \subseteq 2 .. n + 1
        BY <1>0, Numbers
      <4>3. QED  BY <2>4, <4>1, <4>2
    <3>2. QED  BY <3>1
  <2>6. ASSUME NEW k \in V  PROVE stack'[v[k]].fn = pmstack'[k].callback
    <3>1. CASE k = frame
      <4>1. v[k] = n + 1 /\ k # 0
        BY <2>3, <2>5, <3>1
      <4>2. stack'[n + 1].fn = f /\ pmstack'[frame].callback = f
        BY <1>1, <3>1, <4>1
      <4>3. QED  BY <3>1, <4>1, <4>2
    <3>2. CASE k # frame
      <4>1. k \in Waits /\ v[k] = w[k] /\ w[k] \in 1 .. n
        <5>1. k \in Waits /\ v[k] = w[k]
          BY <2>2, <2>3, <2>5, <3>2
        <5>2. w[k] \in 2 .. n
          BY <2>1, <5>1
        <5>3. w[k] \in 1 .. n
          BY <1>0, <5>2, Numbers
        <5>4. QED  BY <5>1, <5>3
      <4>2. stack[w[k]].fn = pmstack[k].callback
        BY <2>1, <4>1 DEF Awaited
      <4>3. pmstack'[k] = pmstack[k]
        BY <3>2, <4>1 DEF Waits
      <4>4. stack'[w[k]] = stack[w[k]]
        BY <1>1, <4>1
      <4>5. QED  BY <4>1, <4>2, <4>3, <4>4
    <3>3. QED  BY <3>1, <3>2
  <2>7. ASSUME NEW j \in V, NEW k \in V, j < k  PROVE v[j] < v[k]
    <3>1. j # frame
      <4>1. j \in Nat /\ k \in Nat /\ k # 0 /\ (k = frame \/ k < frame \/ frame = 0)
        BY <2>3
      <4>2. j # 0
        BY <2>3
      <4>3. QED  BY <2>7, <4>1, <4>2, Numbers
    <3>2. j \in Waits /\ v[j] = w[j] /\ w[j] \in 2 .. n
      BY <2>1, <2>2, <2>3, <2>5, <3>1
    <3>3. CASE k = frame
      BY <2>5, <3>2, <3>3
    <3>4. CASE k # frame
      <4>1. k \in Waits /\ v[k] = w[k]
        BY <2>2, <2>3, <2>5, <3>4
      <4>2. QED  BY <2>1, <2>7, <3>2, <4>1 DEF Awaited
    <3>5. QED  BY <3>3, <3>4
  <2>8. Awaited(v)'
    BY <2>2, <2>6, <2>7 DEF Awaited
  <2>9. QED  BY <2>2, <2>5, <2>8
<1>4. QED
  BY <1>1, <1>2, <1>3 DEF CallbacksKnown, WaitingOnStack

-----------------------------------------------------------------------------
(* The steps of executePM on blocks *)

LEMMA StillInv ==
  ASSUME TypeInv, Inv, SameWaiting, FramesInOrder', NothingWrong', StillIntact, stack' = stack,
         status' # "exited", mode' = "pm" \/ status' # "running"
  PROVE  Inv'
<1>1. CallbacksKnown' /\ WaitingOnStack'
  BY KeepsCalls DEF Inv
<1>2. TopWaits' /\ NothingLeft'
  BY DEF TopWaits, NothingLeft
<1>3. QED
  BY <1>1, <1>2 DEF Inv

LEMMA Unchanged ==
  ASSUME TypeInv, Inv, UNCHANGED <<spec, pmstack, history>>
  PROVE  SameWaiting /\ FramesInOrder' /\ NothingWrong' /\ StillIntact
<1>1. FramesInOrder'
  BY LabelFacts DEF Inv, FramesInOrder
<1>2. QED
  BY <1>1 DEF SameWaiting, NothingWrong, StillIntact, Inv

LEMMA Advances ==
  ASSUME TypeInv, Inv, NEW op, DoesAction(op), spec' = spec, history' = Ran, NEW p, Fresh(p),
         pmstack' = Append(Below, AfterAction) \o p
  PROVE  SameWaiting /\ FramesInOrder' /\ NothingWrong' /\ StillIntact
<1>1. pmstack # <<>> /\ Top.callback = None /\ Top.action <= NumActions(Top.label)
  BY ActionFacts
<1>2. FramesInOrder' /\ SameWaiting
  BY <1>1, AfterAdvance DEF Inv
<1>3. NothingWrong' /\ StillIntact
  BY <1>1, RanFacts DEF Inv
<1>4. QED
  BY <1>2, <1>3

LEMMA InBlock ==
  ASSUME TypeInv, OnlyBlocks, pmstack # <<>>
  PROVE  ~Block(Top.label).plain /\ InProgress = AfterAction
<1>1. Top.label \in DOMAIN spec.block
  BY TopFacts DEF Frames
<1>2. QED
  BY <1>1 DEF OnlyBlocks, InProgress

LEMMA Completes ==
  ASSUME TypeInv, Inv, OnlyBlocks, NEW op, DoesAction(op), spec' = spec, ActionCompletes
  PROVE  SameWaiting /\ FramesInOrder' /\ NothingWrong' /\ StillIntact
<1>1. pmstack # <<>>
  BY ActionFacts
<1>2. history' = Ran /\ pmstack' = Append(Below, AfterAction)
  BY <1>1, InBlock DEF ActionCompletes
<1>3. Append(Below, AfterAction) \in Seq(Frames)
  BY <1>1, TopFacts, AppendProperties
<1>4. pmstack' = Append(Below, AfterAction) \o <<>>
  BY <1>2, <1>3, ConcatEmptySeq
<1>5. QED
  BY <1>2, <1>4, Advances, FreshFacts

LEMMA Progresses ==
  ASSUME TypeInv, Inv, OnlyBlocks, NEW op, DoesAction(op), spec' = spec, NEW p, Fresh(p),
         ActionInProgress(InProgress, p)
  PROVE  SameWaiting /\ FramesInOrder' /\ NothingWrong' /\ StillIntact
<1>1. pmstack # <<>>
  BY ActionFacts
<1>2. history' = Ran /\ pmstack' = Append(Below, AfterAction) \o p
  BY <1>1, InBlock DEF ActionInProgress
<1>3. QED
  BY <1>2, Advances

LEMMA TopInOrder ==
  ASSUME TypeInv, FramesInOrder, pmstack # <<>>
  PROVE  /\ InOrder(Top) /\ NumActions(Top.label) \in Nat /\ Top \in Frames
         /\ Top.action > NumActions(Top.label) => Top.ran = NumActions(Top.label)
<1>1. Top \in Frames /\ Len(pmstack) \in Nat \ {0} /\ pmstack[Len(pmstack)] = Top
  BY TopFacts
<1>2. Len(pmstack) \in DOMAIN pmstack
  BY <1>1, LenProperties DEF TypeInv
<1>3. InOrder(Top)
  BY <1>1, <1>2 DEF FramesInOrder
<1>4. NumActions(Top.label) \in Nat
  BY <1>1, LabelFacts DEF Frames
<1>5. Top.ran \in Nat /\ Top.action \in Nat
  BY <1>1 DEF Frames
<1>6. QED
  BY <1>1, <1>3, <1>4, <1>5 DEF InOrder

\* The frame of a block that is complete is popped: none of its actions was passed over.
LEMMA CompletesBlock ==
  ASSUME TypeInv, Inv, BlockCompletes
  PROVE  SameWaiting /\ FramesInOrder' /\ NothingWrong' /\ StillIntact
<1>1. pmstack # <<>> /\ Top.callback = None /\ Top.action > NumActions(Top.label) /\ spec' = spec
      /\ pmstack' = Below /\ history' = [history EXCEPT !.skipped = @ \/ ~(Top.ran = NumActions(Top.label))]
  BY DEF BlockCompletes, Ready, popPMFrame
<1>2. FramesInOrder' /\ SameWaiting
  BY <1>1, AfterPop DEF Inv
<1>3. Top.ran = NumActions(Top.label)
  BY <1>1, TopInOrder DEF Inv
<1>4. /\ history'.recursed = history.recursed /\ history'.lost = history.lost
      /\ history'.deferred = history.deferred /\ history'.repeated = history.repeated
      /\ history'.early = history.early /\ (history'.skipped <=> history.skipped)
  BY <1>1, <1>3 DEF TypeInv, Histories
<1>5. NothingWrong' /\ StillIntact
  BY <1>4 DEF Inv, NothingWrong, StillIntact
<1>6. QED
  BY <1>2, <1>5

LEMMA CallsBackInv ==
  ASSUME TypeInv, Inv, OnlyBlocks, CallsBack
  PROVE  Inv'
<1> DEFINE n == Len(pmstack)
           f == Action.f
<1>1. /\ pmstack # <<>> /\ Top.callback = None /\ f \in Fns /\ spec' = spec
      /\ mode' = mode /\ mode = "pm" /\ status' = status /\ status # "exited"
  BY ActionFacts DEF CallsBack, DoesAction, Ready, Executing
<1>2. /\ stack' = Append(stack, [fn |-> f, frame |-> n])
      /\ history' = [Ran EXCEPT !.recursed = @ \/ OnStack(f)]
      /\ pmstack' = Append(Below, [AfterAction EXCEPT !.callback = f])
  BY <1>1, InBlock DEF CallsBack, Waiting
<1>3. /\ n \in Nat \ {0} /\ Top \in Frames /\ Top = pmstack[n] /\ AfterAction \in Frames
      /\ Below \in Seq(Frames) /\ Len(Below) = n - 1 /\ \A k \in 1 .. n - 1 : Below[k] = pmstack[k]
  BY <1>1, TopFacts
<1> DEFINE waiting == [AfterAction EXCEPT !.callback = f]
<1>4. /\ waiting \in Frames /\ waiting.callback = f
      /\ waiting.ran = AfterAction.ran /\ waiting.action = AfterAction.action
      /\ waiting.label = AfterAction.label
  BY <1>1, <1>3 DEF Frames
<1> HIDE DEF waiting
<1>5. /\ pmstack' \in Seq(Frames) /\ Len(pmstack') = n /\ pmstack'[n] = waiting
      /\ \A k \in 1 .. n - 1 : pmstack'[k] = Below[k]
  <2>1. pmstack' = Append(Below, waiting)
    BY <1>2 DEF waiting
  <2>2. n - 1 + 1 = n
    BY <1>3
  <2>3. QED  BY <1>3, <1>4, <2>1, <2>2, AppendProperties
<1>6. DOMAIN pmstack = 1 .. n /\ DOMAIN pmstack' = 1 .. n
  BY <1>5, LenProperties DEF TypeInv
<1>7. \A k \in 1 .. n : k # n => pmstack'[k] = pmstack[k]
  <2>1. \A k \in 1 .. n : k # n => k \in 1 .. n - 1
    BY <1>3
  <2>2. QED  BY <1>3, <1>5, <2>1
<1>8. InOrder(AfterAction)
  <2>1. Top.action <= NumActions(Top.label) /\ NumActions(Top.label) \in Nat /\ Top.action \in Nat
    BY <1>3, ActionFacts DEF CallsBack, Frames
  <2>2. Top.action + 1 <= NumActions(Top.label) + 1
    BY <2>1
  <2>3. QED  BY <1>3, <2>2, AfterActionFields DEF InOrder
<1>9. FramesInOrder'
  <2>1. InOrder(waiting)
    BY <1>4, <1>8 DEF InOrder
  <2>2. \A k \in DOMAIN pmstack' : InOrder(pmstack'[k])
    BY <1>5, <1>6, <1>7, <2>1 DEF Inv, FramesInOrder
  <2>3. QED  BY <1>1, <2>2, LabelFacts
<1>10. NothingWrong' /\ StillIntact /\ (OnStack(f) => history'.recursed)
  <2>1. /\ history'.lost = Ran.lost /\ history'.deferred = Ran.deferred
        /\ history'.repeated = Ran.repeated /\ history'.skipped = Ran.skipped
        /\ history'.early = Ran.early
        /\ history'.recursed <=> Ran.recursed \/ OnStack(f)
    BY <1>2, RanType DEF Histories
  <2>2. /\ Ran.recursed = history.recursed /\ Ran.lost = history.lost
        /\ Ran.deferred = history.deferred
        /\ ~Ran.repeated /\ ~Ran.skipped
        /\ ~history.recursed /\ ~history.lost => ~Ran.early
    BY <1>1, RanRight DEF Inv
  <2>3. QED  BY <2>1, <2>2 DEF NothingWrong, StillIntact
<1>11. CallbacksKnown' /\ WaitingOnStack'
  <2>1. n \in DOMAIN pmstack /\ n # 0 /\ n \in Nat
    BY <1>3, <1>6
  <2>2. QED  BY <1>1, <1>2, <1>3, <1>4, <1>5, <1>6, <1>7, <1>10, <2>1, Called DEF Inv
<1>12. TopWaits' /\ NothingLeft'
  BY <1>1 DEF TopWaits, NothingLeft
<1>13. QED
  BY <1>9, <1>10, <1>11, <1>12 DEF Inv

LEMMA ExecutePMInv ==
  ASSUME TypeInv, Inv, OnlyBlocks, executePM
  PROVE  Inv'
<1> DEFINE Good == SameWaiting /\ FramesInOrder' /\ NothingWrong' /\ StillIntact
<1>0. /\ status # "exited" /\ mode = "pm"
      /\ spec' = spec
  BY DEF executePM, executePMReturns, BlockCompletes, interpretEffect, interpretAborts, RefCountInc,
         RefCountDec, Terminate, CallbackSkipped, CallbackIsSubblock, CallsBack, DoesAction, Ready, Executing
<1>1. CASE executePMReturns
  <2>1. /\ Good /\ stack' = stack /\ UNCHANGED <<pmstack, history>>
        /\ status' = (IF status = "terminated" THEN "error" ELSE status)
    BY <1>1, Unchanged DEF executePMReturns
  <2>2. CallbacksKnown' /\ WaitingOnStack'
    BY <2>1, KeepsCalls DEF Inv
  <2>3. TopWaits'
    <3>1. pmstack # <<>> => Len(pmstack) \in Waits
      BY <1>1, TopFacts, LenProperties DEF executePMReturns, Waits, TypeInv
    <3>2. QED  BY <2>1, <3>1 DEF TopWaits, Waits
  <2>4. NothingLeft'
    BY <1>0, <2>1 DEF NothingLeft
  <2>5. QED  BY <2>1, <2>2, <2>3, <2>4 DEF Inv
<1>2. CASE BlockCompletes
  <2>1. Good /\ stack' = stack /\ status' = status /\ mode' = mode
    BY <1>2, CompletesBlock DEF BlockCompletes
  <2>2. QED  BY <1>0, <2>1, StillInv
<1>3. CASE interpretEffect
  <2>1. Good /\ stack' = stack /\ status' = status /\ mode' = mode
    BY <1>3, Completes DEF interpretEffect
  <2>2. QED  BY <1>0, <2>1, StillInv
<1>4. CASE interpretAborts
  <2>1. Good /\ stack' = stack /\ status' = "error"
    BY <1>4, Unchanged DEF interpretAborts
  <2>2. QED  BY <2>1, StillInv
<1>5. CASE RefCountInc
  <2>1. Good /\ stack' = stack /\ status' = status /\ mode' = mode
    BY <1>5, Completes DEF RefCountInc
  <2>2. QED  BY <1>0, <2>1, StillInv
<1>6. CASE RefCountDec
  <2>1. DoesAction("dec") /\ Action.sub \in {None} \cup DOMAIN spec.block
        /\ stack' = stack /\ mode' = mode /\ spec' = spec
    BY <1>6, ActionFacts DEF RefCountDec
  <2>2. \/ ActionInProgress(InProgress, <<>>)
        \/ ActionCompletes
        \/ Action.sub # None /\ ActionInProgress(InProgress, <<PMFrame(Action.sub)>>)
    <3>1. CASE refcount' # 0
      BY <1>6, <3>1 DEF RefCountDec
    <3>2. CASE refcount' = 0 /\ Action.sub = None
      BY <1>6, <3>2 DEF RefCountDec
    <3>3. CASE refcount' = 0 /\ Action.sub # None
      BY <1>6, <3>3 DEF RefCountDec
    <3>4. QED  BY <3>1, <3>2, <3>3
  <2>3. Good
    <3>1. CASE ActionInProgress(InProgress, <<>>)
      BY <2>1, <3>1, Progresses, FreshFacts
    <3>2. CASE ActionCompletes
      BY <2>1, <3>2, Completes
    <3>3. CASE Action.sub # None /\ ActionInProgress(InProgress, <<PMFrame(Action.sub)>>)
      BY <2>1, <3>3, Progresses, FreshFacts
    <3>4. QED  BY <2>2, <3>1, <3>2, <3>3
  <2>4. status' # "exited"
    BY <1>0, <1>6 DEF RefCountDec
  <2>5. QED  BY <1>0, <2>1, <2>3, <2>4, StillInv
<1>7. CASE Terminate
  <2>1. DoesAction("terminate") /\ stack' = stack /\ status' = status /\ mode' = mode
    BY <1>7 DEF Terminate
  <2>2. CASE ActionCompletes
    <3>1. Good
      BY <1>0, <2>1, <2>2, Completes
    <3>2. QED  BY <1>0, <2>1, <3>1, StillInv
  <2>3. CASE pmstack' = Below /\ history' = Ran
    <3>1. pmstack # <<>> /\ Top.callback = None
      BY <2>1, ActionFacts
    <3>2. SameWaiting /\ FramesInOrder'
      BY <1>0, <2>3, <3>1, AfterPop DEF Inv
    <3>3. NothingWrong' /\ StillIntact
      BY <2>3, <3>1, RanFacts DEF Inv
    <3>4. QED  BY <1>0, <2>1, <3>2, <3>3, StillInv
  <2>4. QED  BY <1>7, <2>2, <2>3 DEF Terminate
<1>8. CASE CallbackSkipped
  <2>1. Good /\ stack' = stack /\ status' = status /\ mode' = mode
    BY <1>8, Completes DEF CallbackSkipped
  <2>2. QED  BY <1>0, <2>1, StillInv
<1>9. CASE CallbackIsSubblock
  <2>1. Good /\ stack' = stack /\ status' = status /\ mode' = mode
    BY <1>9, Progresses, FreshFacts DEF CallbackIsSubblock
  <2>2. QED  BY <1>0, <2>1, StillInv
<1>10. CASE CallsBack
  BY <1>10, CallsBackInv
<1>11. QED
  BY <1>1, <1>2, <1>3, <1>4, <1>5, <1>6, <1>7, <1>8, <1>9, <1>10 DEF executePM

-----------------------------------------------------------------------------
(* The return of a function *)

\* Whether the top frame is the one whose callback returns.
Completed(fn) == pmstack # <<>> /\ Top.callback = fn

LEMMA CheckFacts ==
  ASSUME TypeInv, FramesInOrder, NothingWrong, spec' = spec, NEW fn, fn # None,
         checkAndSetPMCallbackCompleted(fn)
  PROVE  /\ FramesInOrder' /\ NothingWrong' /\ StillIntact
         /\ history'.recursed = history.recursed /\ history'.lost = history.lost
         /\ history'.deferred = history.deferred
         /\ ~Completed(fn) => pmstack' = pmstack
         /\ Completed(fn) => Waits' = Waits \ {Len(pmstack)} /\ Len(pmstack) \in Waits
         /\ \A k \in Waits' : k \in Waits /\ pmstack'[k].callback = pmstack[k].callback
<1> DEFINE n == Len(pmstack)
<1>1. CASE ~Completed(fn)
  <2>1. pmstack' = pmstack /\ history' = history
    BY <1>1 DEF checkAndSetPMCallbackCompleted, Completed
  <2>2. FramesInOrder'
    BY <2>1, LabelFacts DEF FramesInOrder
  <2>3. NothingWrong' /\ StillIntact
    BY <2>1 DEF NothingWrong, StillIntact
  <2>4. QED  BY <1>1, <2>1, <2>2, <2>3 DEF Waits
<1>2. CASE Completed(fn)
  <2>1. /\ n \in Nat \ {0} /\ Top \in Frames /\ Top = pmstack[n]
        /\ Below \in Seq(Frames) /\ Len(Below) = n - 1 /\ \A k \in 1 .. n - 1 : Below[k] = pmstack[k]
    BY <1>2, TopFacts DEF Completed
  <2>2. /\ InOrder(Top) /\ NumActions(Top.label) \in Nat
        /\ Top.action > NumActions(Top.label) => Top.ran = NumActions(Top.label)
    BY <1>2, TopInOrder DEF Completed
  <2>3. DOMAIN pmstack = 1 .. n /\ n \in Waits
    BY <1>2, <2>1, LenProperties DEF Waits, Completed, TypeInv
  <2>4. CASE Top.action > NumActions(Top.label)
    <3>1. pmstack' = Below /\ history' = [history EXCEPT !.skipped = @ \/ ~(Top.ran = NumActions(Top.label))]
      BY <1>2, <2>4 DEF checkAndSetPMCallbackCompleted, popPMFrame, Completed
    <3>2. /\ history'.recursed = history.recursed /\ history'.lost = history.lost
          /\ history'.deferred = history.deferred /\ history'.repeated = history.repeated
          /\ history'.early = history.early /\ (history'.skipped <=> history.skipped)
      BY <2>2, <2>4, <3>1 DEF TypeInv, Histories
    <3>3. DOMAIN pmstack' = 1 .. n - 1
      BY <2>1, <3>1, LenProperties
    <3>4. \A k \in 1 .. n : k # n <=> k \in 1 .. n - 1
      BY <2>1
    <3>5. \A k \in 1 .. n - 1 : k \in 1 .. n /\ pmstack'[k] = pmstack[k]
      BY <2>1, <3>1
    <3>6. Waits' = Waits \ {n}
      BY <2>3, <3>3, <3>4, <3>5 DEF Waits
    <3>7. FramesInOrder'
      BY <2>3, <3>3, <3>5, LabelFacts DEF FramesInOrder
    <3>8. NothingWrong' /\ StillIntact
      BY <3>2 DEF NothingWrong, StillIntact
    <3>9. \A k \in Waits' : k \in Waits /\ pmstack'[k].callback = pmstack[k].callback
      BY <3>3, <3>5, <3>6 DEF Waits
    <3>10. QED  BY <1>2, <2>3, <3>2, <3>6, <3>7, <3>8, <3>9
  <2>5. CASE ~(Top.action > NumActions(Top.label))
    <3> DEFINE resumed == [Top EXCEPT !.callback = None]
    <3>1. pmstack' = Append(Below, resumed) /\ history' = history
      BY <1>2, <2>5 DEF checkAndSetPMCallbackCompleted, Completed
    <3>2. /\ resumed \in Frames /\ resumed.callback = None /\ resumed.ran = Top.ran
          /\ resumed.action = Top.action /\ resumed.label = Top.label
      BY <2>1 DEF Frames
    <3> HIDE DEF resumed
    <3>3. /\ pmstack' \in Seq(Frames) /\ Len(pmstack') = n /\ pmstack'[n] = resumed
          /\ \A k \in 1 .. n - 1 : pmstack'[k] = Below[k]
      <4>1. n - 1 + 1 = n
        BY <2>1
      <4>2. QED  BY <2>1, <3>1, <3>2, <4>1, AppendProperties
    <3>4. DOMAIN pmstack' = 1 .. n
      BY <3>3, LenProperties
    <3>5. \A k \in 1 .. n : k # n => pmstack'[k] = pmstack[k]
      <4>1. \A k \in 1 .. n : k # n => k \in 1 .. n - 1
        BY <2>1
      <4>2. QED  BY <2>1, <3>3, <4>1
    <3>6. Waits' = Waits \ {n}
      BY <2>3, <3>2, <3>3, <3>4, <3>5 DEF Waits
    <3>7. InOrder(resumed)
      BY <2>2, <3>2 DEF InOrder
    <3>8. FramesInOrder'
      <4>1. \A k \in DOMAIN pmstack' : InOrder(pmstack'[k])
        BY <2>3, <3>3, <3>4, <3>5, <3>7 DEF FramesInOrder
      <4>2. QED  BY <4>1, LabelFacts
    <3>9. NothingWrong' /\ StillIntact
      BY <3>1 DEF NothingWrong, StillIntact
    <3>10. \A k \in Waits' : k \in Waits /\ pmstack'[k].callback = pmstack[k].callback
      BY <2>3, <3>4, <3>5, <3>6 DEF Waits
    <3>11. QED  BY <1>2, <2>3, <3>1, <3>6, <3>8, <3>9, <3>10
  <2>6. QED  BY <2>4, <2>5
<1>3. QED
  BY <1>1, <1>2

\* The innermost of the awaited calls returns to the top frame: calls and frames are
\* both left in the order of a stack.
LEMMA ReturnInv ==
  ASSUME TypeInv, Inv, Return
  PROVE  Inv'
<1>0. PICK n \in Nat \ {0} : n = Len(stack)
  BY EmptySeq DEF TypeInv
<1> DEFINE m == Len(pmstack)
           fn == stack[n].fn
<1>1. /\ spec' = spec /\ status = "running" /\ mode = "instr"
      /\ checkAndSetPMCallbackCompleted(fn)
      /\ n > 1 => stack' = SubSeq(stack, 1, n - 1) /\ mode' = "pm" /\ status' = status
      /\ ~(n > 1) => status' = "exited" /\ stack' = stack
  BY <1>0 DEF Return, Runs
<1>2. DOMAIN stack = 1 .. n /\ n \in 1 .. n /\ \A i \in 1 .. n : stack[i] \in Calls
  BY <1>0, LenProperties, ElementOfSeq DEF TypeInv
<1>3. \A i \in 1 .. n : stack[i].fn # None
  BY <1>2, FnsAssumption DEF Calls
<1>4. /\ FramesInOrder' /\ NothingWrong' /\ StillIntact
      /\ history'.recursed = history.recursed /\ history'.lost = history.lost
      /\ history'.deferred = history.deferred
      /\ ~Completed(fn) => pmstack' = pmstack
      /\ Completed(fn) => Waits' = Waits \ {m} /\ m \in Waits
      /\ \A k \in Waits' : k \in Waits /\ pmstack'[k].callback = pmstack[k].callback
  BY <1>1, <1>2, <1>3, CheckFacts DEF Inv
<1>5. Completed(fn) => pmstack # <<>> /\ pmstack[m].callback = fn
  BY TopFacts DEF Completed
<1>6. \A k \in Waits : k \in Nat /\ m \in Nat /\ (k = m \/ k < m)
  BY LenProperties DEF Waits, TypeInv
<1>7. Intact => (pmstack # <<>> => m \in Waits) /\ \E w \in [Waits -> 2 .. n] : Awaited(w)
  BY <1>0, <1>1 DEF Inv, TopWaits, WaitingOnStack
<1>8. CASE n > 1
  <2>1. /\ stack' \in Seq(Calls) /\ Len(stack') = n - 1 /\ DOMAIN stack' = 1 .. n - 1
        /\ \A i \in 1 .. n - 1 : stack'[i] = stack[i]
    <3>1. stack \in Seq(Calls) /\ stack # <<>> /\ stack' = SubSeq(stack, 1, Len(stack) - 1)
      BY <1>0, <1>1, <1>8 DEF TypeInv
    <3>2. /\ stack' \in Seq(Calls) /\ Len(stack') = Len(stack) - 1
          /\ \A i \in 1 .. Len(stack') : stack'[i] = stack[i]
      BY <3>1, Popped
    <3>3. QED  BY <1>0, <3>2, LenProperties
  <2>2. \A i \in 1 .. n - 1 : i \in 1 .. n /\ i # n
    BY <1>0
  <2>3. CallbacksKnown'
    <3> SUFFICES ASSUME ~history.recursed, ~history.lost
                 PROVE  /\ \A i, j \in 1 .. n - 1 : stack[i].fn = stack[j].fn => i = j
                        /\ \A i \in 1 .. n - 1 : stack[i].frame # 0 =>
                             /\ stack[i].frame \in DOMAIN pmstack'
                             /\ pmstack'[stack[i].frame].callback = stack[i].fn
      BY <1>4, <2>1 DEF CallbacksKnown
    <3>1. /\ \A i, j \in 1 .. n : stack[i].fn = stack[j].fn => i = j
          /\ \A i \in 1 .. n : stack[i].frame # 0 =>
               stack[i].frame \in DOMAIN pmstack /\ pmstack[stack[i].frame].callback = stack[i].fn
      BY <1>2 DEF Inv, CallbacksKnown
    <3>2. ASSUME NEW i \in 1 .. n - 1, stack[i].frame # 0
          PROVE  stack[i].frame \in DOMAIN pmstack' /\ pmstack'[stack[i].frame].callback = stack[i].fn
      <4>1. stack[i].frame \in DOMAIN pmstack /\ pmstack[stack[i].frame].callback = stack[i].fn
            /\ stack[i].fn # None
        BY <1>3, <2>2, <3>1, <3>2
      <4>2. CASE ~Completed(fn)
        BY <1>4, <4>1, <4>2
      <4>3. CASE Completed(fn)
        <5>1. stack[i].frame # m
          BY <1>2, <1>5, <2>2, <3>1, <4>1, <4>3
        <5>2. stack[i].frame \in Waits'
          BY <1>4, <4>1, <4>3, <5>1 DEF Waits
        <5>3. QED  BY <1>4, <4>1, <5>2 DEF Waits
      <4>4. QED  BY <4>2, <4>3
    <3>3. QED  BY <2>2, <3>1, <3>2
  <2>4. WaitingOnStack'
    <3> SUFFICES ASSUME Intact  PROVE \E w \in [Waits' -> 2 .. n - 1] : Awaited(w)'
      BY <1>4, <2>1 DEF WaitingOnStack, Intact
    <3>1. PICK w \in [Waits -> 2 .. n] : Awaited(w)
      BY <1>7
    <3>2. PICK W : W = Waits'
      OBVIOUS
    <3>3. ASSUME NEW k \in W  PROVE w[k] \in 2 .. n - 1
      <4>1. k \in Waits /\ w[k] \in 2 .. n /\ pmstack # <<>> /\ m \in Waits /\ w[m] \in 2 .. n
        BY <1>4, <1>7, <3>1, <3>2 DEF Waits
      <4>2. w[k] # n
        <5>1. CASE Completed(fn)
          <6>1. k # m /\ k < m
            BY <1>4, <1>6, <3>2, <4>1, <5>1
          <6>2. w[k] < w[m]
            BY <3>1, <4>1, <6>1 DEF Awaited
          <6>3. QED  BY <1>0, <4>1, <6>2
        <5>2. CASE ~Completed(fn)
          <6>1. pmstack[m].callback # fn
            BY <4>1, <5>2, TopFacts DEF Completed
          <6>2. stack[w[m]].fn = pmstack[m].callback
            BY <3>1, <4>1 DEF Awaited
          <6>3. w[m] # n
            BY <6>1, <6>2
          <6>4. k = m \/ w[k] < w[m]
            BY <1>6, <3>1, <4>1 DEF Awaited
          <6>5. QED  BY <1>0, <4>1, <6>3, <6>4
        <5>3. QED  BY <5>1, <5>2
      <4>3. QED  BY <1>0, <4>1, <4>2
    <3>4. PICK v \in [W -> 2 .. n - 1] : \A k \in W : v[k] = w[k]
      <4>1. [k \in W |-> w[k]] \in [W -> 2 .. n - 1]
        BY <3>3
      <4>2. QED  BY <4>1
    <3>5. \A i \in 2 .. n - 1 : stack'[i] = stack[i]
      BY <1>0, <2>1
    <3>6. \A k \in W : stack'[v[k]].fn = pmstack'[k].callback
      BY <1>4, <3>1, <3>2, <3>4, <3>5 DEF Awaited
    <3>7. \A j, k \in W : j < k => v[j] < v[k]
      BY <1>4, <3>1, <3>2, <3>4 DEF Awaited
    <3>8. Awaited(v)'
      BY <3>2, <3>6, <3>7 DEF Awaited
    <3>9. QED  BY <3>2, <3>4, <3>8
  <2>5. TopWaits' /\ NothingLeft'
    BY <1>1, <1>8 DEF TopWaits, NothingLeft
  <2>6. QED  BY <1>4, <2>3, <2>4, <2>5 DEF Inv
<1>9. CASE ~(n > 1)
  <2>1. n = 1 /\ stack' = stack /\ status' = "exited"
    BY <1>0, <1>1, <1>9
  <2>2. Intact => pmstack = <<>>
    <3> SUFFICES ASSUME Intact, pmstack # <<>>  PROVE FALSE
      OBVIOUS
    <3>1. PICK w \in [Waits -> 2 .. n] : Awaited(w)
      BY <1>7
    <3>2. w[m] \in 2 .. 1
      BY <1>7, <2>1, <3>1
    <3>3. QED  BY <3>2
  <2>3. CallbacksKnown'
    <3>1. \A i \in DOMAIN stack : i = 1
      BY <1>2, <2>1
    <3>2. \A i \in DOMAIN stack : stack[i].frame = 0
      BY <3>1 DEF TypeInv
    <3>3. QED  BY <2>1, <3>1, <3>2 DEF CallbacksKnown
  <2>4. Intact' => pmstack = <<>> /\ pmstack' = pmstack
    BY <1>4, <1>5, <2>2 DEF Intact
  <2>5. WaitingOnStack'
    <3> SUFFICES ASSUME Intact'  PROVE \E w \in [Waits' -> 2 .. Len(stack')] : Awaited(w)'
      BY DEF WaitingOnStack
    <3>1. Waits' = {}
      BY <2>4 DEF Waits
    <3>2. PICK w \in [{} -> 2 .. Len(stack')] : TRUE
      <4>1. [k \in {} |-> 2] \in [{} -> 2 .. Len(stack')]
        OBVIOUS
      <4>2. QED  BY <4>1
    <3>3. Awaited(w)'
      BY <3>1 DEF Awaited
    <3>4. QED  BY <3>1, <3>2, <3>3
  <2>6. TopWaits' /\ NothingLeft'
    BY <2>1, <2>4 DEF TopWaits, NothingLeft
  <2>7. QED  BY <1>4, <2>3, <2>5, <2>6 DEF Inv
<1>10. QED
  BY <1>8, <1>9

\* Once a fork has lost frames, only the frames that are left matter.
LEMMA LostInv ==
  ASSUME history'.lost = TRUE, FramesInOrder', NothingWrong'
  PROVE  Inv'
BY DEF Inv, CallbacksKnown, WaitingOnStack, TopWaits, NothingLeft, Intact

LEMMA ForkCopyInv ==
  ASSUME TypeInv, Inv, ForkCopy
  PROVE  Inv'
<1>1. /\ spec' = spec /\ stack' = stack /\ status' # "exited" /\ mode' = "pm" /\ pmstack' = <<>>
      /\ history' = [history EXCEPT !.lost = @ \/ pmstack # <<>>]
  BY DEF ForkCopy, Runs
<1>2. history \in Histories
  BY DEF TypeInv
<1>3. CASE pmstack = <<>>
  <2>1. history' = history
    BY <1>1, <1>2, <1>3 DEF Histories
  <2>2. UNCHANGED <<spec, pmstack, history>>
    BY <1>1, <1>3, <2>1
  <2>3. QED  BY <1>1, <2>2, Unchanged, StillInv
<1>4. CASE pmstack # <<>>
  <2>1. /\ history'.lost = TRUE /\ history'.repeated = history.repeated
        /\ history'.skipped = history.skipped
    BY <1>1, <1>2, <1>4 DEF Histories
  <2>2. FramesInOrder'
    BY <1>1 DEF FramesInOrder
  <2>3. NothingWrong'
    BY <2>1 DEF NothingWrong, Inv
  <2>4. QED  BY <2>1, <2>2, <2>3, LostInv
<1>5. QED  BY <1>3, <1>4

LEMMA CallFunctionInv ==
  ASSUME TypeInv, Inv, NEW f \in Fns, CallFunction(f)
  PROVE  Inv'
<1>1. /\ spec' = spec /\ pmstack' = pmstack /\ mode' = "pm" /\ status' = "running"
      /\ stack' = Append(stack, [fn |-> f, frame |-> 0])
      /\ history' = [history EXCEPT !.recursed = @ \/ OnStack(f)]
  BY DEF CallFunction, Runs
<1>2. /\ history'.lost = history.lost /\ history'.deferred = history.deferred
      /\ history'.repeated = history.repeated /\ history'.skipped = history.skipped
      /\ history'.early = history.early /\ history'.recursed = (history.recursed \/ OnStack(f))
  BY <1>1 DEF TypeInv, Histories
<1>3. StillIntact /\ NothingWrong'
  BY <1>2 DEF StillIntact, NothingWrong, Inv
<1>4. CallbacksKnown' /\ WaitingOnStack'
  <2>1. 0 \in Nat /\ CallbacksKnown /\ WaitingOnStack
    BY DEF Inv
  <2>2. QED  BY <1>1, <1>2, <1>3, <2>1, Called
<1>5. FramesInOrder'
  BY <1>1, LabelFacts DEF Inv, FramesInOrder
<1>6. TopWaits' /\ NothingLeft'
  BY <1>1 DEF TopWaits, NothingLeft
<1>7. QED  BY <1>3, <1>4, <1>5, <1>6 DEF Inv

LEMMA HandlePlainInv ==
  ASSUME TypeInv, Inv, NEW api \in DOMAIN spec.api, HandlePlain(api)
  PROVE  Inv'
<1>1. /\ spec' = spec /\ stack' = stack /\ history' = history /\ status = "running"
      /\ Labels(api) # {} /\ Labels(api) \subseteq DOMAIN spec.block
  BY ApiFacts DEF HandlePlain, CallsApi, Runs
<1>2. CASE Cardinality(Labels(api)) > 1
  <2>1. status' = "assert" /\ UNCHANGED <<spec, pmstack, history>>
    BY <1>1, <1>2 DEF HandlePlain
  <2>2. QED  BY <1>1, <2>1, Unchanged, StillInv
<1>3. CASE ~(Cardinality(Labels(api)) > 1)
  <2>1. PICK l \in DOMAIN spec.block : pmstack' = Append(pmstack, PMFrame(l))
    BY <1>1, <1>3 DEF HandlePlain
  <2>2. mode' = "pm" /\ status' = status
    BY <1>3 DEF HandlePlain
  <2>3. Fresh(<<PMFrame(l)>>) /\ PMFrame(l) \in Frames
    BY FreshFacts
  <2>4. pmstack' = pmstack \o <<PMFrame(l)>>
    BY <2>1, <2>3, AppendIsConcat DEF TypeInv
  <2>5. FramesInOrder' /\ SameWaiting
    BY <1>1, <2>3, <2>4, AfterPush DEF Inv
  <2>6. NothingWrong' /\ StillIntact
    BY <1>1 DEF NothingWrong, StillIntact, Inv
  <2>7. QED  BY <1>1, <2>2, <2>5, <2>6, StillInv
<1>4. QED  BY <1>2, <1>3

LEMMA HandleFailsInv ==
  ASSUME TypeInv, Inv, NEW api \in DOMAIN spec.api, HandleFails(api)
  PROVE  Inv'
<1>1. /\ UNCHANGED <<spec, pmstack, history>> /\ stack' = stack
      /\ status' \in {"error", "crashed"}
  BY DEF HandleFails
<1>2. QED  BY <1>1, Unchanged, StillInv

LEMMA HandleBranchingInv ==
  ASSUME TypeInv, Inv, NEW api \in DOMAIN spec.api, HandleBranching(api)
  PROVE  Inv'
<1>1. spec' = spec /\ stack' = stack /\ status' = status /\ status = "running"
  BY DEF HandleBranching, CallsApi, Runs
<1>2. PICK p : \E copy \in BOOLEAN :
           /\ Fresh(p) /\ pmstack' = (IF copy THEN <<>> ELSE pmstack) \o p
           /\ mode' = IF copy THEN "instr" ELSE "pm"
           /\ history' \in Histories
           /\ history'.recursed = history.recursed /\ history'.repeated = history.repeated
           /\ history'.skipped = history.skipped /\ history'.early = history.early
           /\ history'.lost <=> history.lost \/ (copy /\ pmstack # <<>>)
           /\ history.deferred \/ (copy /\ p # <<>>) => history'.deferred
  BY BranchFacts
<1>3. PICK copy \in BOOLEAN :
           /\ Fresh(p) /\ pmstack' = (IF copy THEN <<>> ELSE pmstack) \o p
           /\ mode' = IF copy THEN "instr" ELSE "pm"
           /\ history' \in Histories
           /\ history'.recursed = history.recursed /\ history'.repeated = history.repeated
           /\ history'.skipped = history.skipped /\ history'.early = history.early
           /\ history'.lost <=> history.lost \/ (copy /\ pmstack # <<>>)
           /\ history.deferred \/ (copy /\ p # <<>>) => history'.deferred
  BY <1>2
<1>4. StillIntact /\ NothingWrong'
  BY <1>3 DEF StillIntact, NothingWrong, Inv
<1>5. p \in Seq(Frames)
  BY <1>3 DEF Fresh
<1>6. CASE copy /\ pmstack # <<>>
  <2>1. history'.lost = TRUE
    BY <1>3, <1>6 DEF Histories
  <2>2. pmstack' = p
    BY <1>3, <1>5, <1>6, ConcatEmptySeq
  <2>3. FramesInOrder'
    <3>1. \A k \in DOMAIN p : InOrder(p[k])
      BY <1>3, LabelFacts DEF Fresh
    <3>2. QED  BY <1>1, <2>2, <3>1, LabelFacts
  <2>4. QED  BY <1>4, <2>1, <2>3, LostInv
<1>7. CASE ~(copy /\ pmstack # <<>>)
  <2>1. pmstack' = pmstack \o p
    BY <1>3, <1>7
  <2>2. FramesInOrder' /\ SameWaiting
    BY <1>1, <1>3, <2>1, AfterPush DEF Inv
  <2>3. CallbacksKnown' /\ WaitingOnStack'
    BY <1>1, <1>4, <2>2, KeepsCalls DEF Inv
  <2>4. TopWaits'
    <3>1. CASE copy
      <4>1. pmstack = <<>>
        BY <1>7, <3>1
      <4>2. Intact' => p = <<>>
        BY <1>3, <3>1 DEF Intact
      <4>3. Intact' => pmstack' = <<>>
        BY <2>1, <4>1, <4>2, ConcatEmptySeq
      <4>4. QED  BY <4>3 DEF TopWaits
    <3>2. CASE ~copy
      BY <1>3, <3>2 DEF TopWaits
    <3>3. QED  BY <3>1, <3>2
  <2>5. NothingLeft'
    BY <1>1 DEF NothingLeft
  <2>6. QED  BY <1>4, <2>2, <2>3, <2>4, <2>5 DEF Inv
<1>8. QED  BY <1>6, <1>7

-----------------------------------------------------------------------------
(* The theorems *)

LEMMA SpecStays == Next \/ UNCHANGED vars => spec' = spec
BY DEF Next, vars, executePM, executePMReturns, BlockCompletes, interpretEffect, interpretAborts,
   RefCountInc, RefCountDec, Terminate, CallbackSkipped, CallbackIsSubblock, CallsBack, Step,
   CallFunction, Return, ForkCopy, HandlePlain, HandleBranching, HandleFails

LEMMA InitIInv == Init => IInv
<1> SUFFICES ASSUME Init  PROVE IInv
  OBVIOUS
<1>1. /\ spec \in Specs /\ pmstack = <<>> /\ stack = <<[fn |-> Entry, frame |-> 0]>>
      /\ refcount \in {0, 1, 2} /\ status = "running" /\ history = NoHistory
  BY DEF Init
<1>2. [fn |-> Entry, frame |-> 0] \in Calls
  BY DEF Calls
<1>3. stack \in Seq(Calls) /\ stack # <<>> /\ stack[1].frame = 0 /\ DOMAIN stack = {1}
  BY <1>1, <1>2
<1>4. history \in Histories /\ refcount \in Int /\ pmstack \in Seq(Frames)
  BY <1>1 DEF NoHistory, Histories
<1>5. TypeInv
  BY <1>1, <1>3, <1>4 DEF TypeInv
<1>6. DOMAIN pmstack = {}
  BY <1>1
<1>7. FramesInOrder /\ CallbacksKnown /\ TopWaits /\ NothingLeft
  BY <1>1, <1>3, <1>6 DEF FramesInOrder, CallbacksKnown, TopWaits, NothingLeft
<1>8. NothingWrong
  BY <1>1 DEF NothingWrong, NoHistory
<1>9. WaitingOnStack
  <2>1. Waits = {}
    BY <1>6 DEF Waits
  <2>2. [k \in {} |-> 2] \in [{} -> 2 .. Len(stack)]
    OBVIOUS
  <2>3. Awaited([k \in {} |-> 2])
    BY <2>1 DEF Awaited
  <2>4. QED  BY <2>1, <2>2, <2>3 DEF WaitingOnStack
<1>10. QED  BY <1>5, <1>7, <1>8, <1>9 DEF IInv, Inv

LEMMA NextIInv == IInv /\ [Next]_vars => IInv'
<1> SUFFICES ASSUME IInv, [Next]_vars  PROVE IInv'
  OBVIOUS
<1>1. TypeInv /\ TypeInv'
  BY NextType DEF IInv
<1>2. OnlyBlocks' => OnlyBlocks
  BY SpecStays DEF OnlyBlocks, Block
<1> SUFFICES ASSUME OnlyBlocks  PROVE Inv'
  BY <1>1, <1>2 DEF IInv
<1>3. Inv
  BY DEF IInv
<1>4. CASE executePM
  BY <1>1, <1>3, <1>4, ExecutePMInv
<1>5. CASE Step
  <2>1. /\ UNCHANGED <<spec, pmstack, history>> /\ stack' = stack /\ mode' = "pm"
        /\ status' # "exited"
    BY <1>5 DEF Step, Runs
  <2>2. QED  BY <1>1, <1>3, <2>1, Unchanged, StillInv
<1>6. ASSUME NEW f \in Fns, CallFunction(f)  PROVE Inv'
  BY <1>1, <1>3, <1>6, CallFunctionInv
<1>7. CASE Return
  BY <1>1, <1>3, <1>7, ReturnInv
<1>8. CASE ForkCopy
  BY <1>1, <1>3, <1>8, ForkCopyInv
<1>9. ASSUME NEW api \in DOMAIN spec.api,
             HandlePlain(api) \/ HandleBranching(api) \/ HandleFails(api)
      PROVE  Inv'
  BY <1>1, <1>3, <1>9, HandlePlainInv, HandleBranchingInv, HandleFailsInv
<1>10. CASE UNCHANGED vars
  <2>1. FramesInOrder' /\ CallbacksKnown'
    BY <1>3, <1>10 DEF vars, Inv, FramesInOrder, InOrder, NumActions, Block, CallbacksKnown
  <2>2. WaitingOnStack'
    <3>1. UNCHANGED <<pmstack, stack, history>>
      BY <1>10 DEF vars
    <3>2. Intact' <=> Intact
      BY <3>1 DEF Intact
    <3>3. Waits' = Waits
      BY <3>1 DEF Waits
    <3>4. ASSUME NEW w  PROVE Awaited(w)' <=> Awaited(w)
      BY <3>1, <3>3 DEF Awaited
    <3>5. QED  BY <1>3, <3>1, <3>2, <3>3, <3>4 DEF Inv, WaitingOnStack
  <2>3. TopWaits' /\ NothingWrong' /\ NothingLeft'
    BY <1>3, <1>10 DEF vars, Inv, Intact, Waits, TopWaits, NothingWrong, NothingLeft
  <2>4. QED  BY <2>1, <2>2, <2>3 DEF Inv
<1>11. QED
  BY <1>4, <1>5, <1>6, <1>7, <1>8, <1>9, <1>10 DEF Next

\* The frames and the call stack have their types, and where every action belongs to
\* a block: each frame has carried out the actions before the one that is due, the
\* frames that wait do so for calls that lie on the call stack in the order of the
\* frames, and between two instructions the top frame is one that waits.
THEOREM Invariance == Spec => []IInv
<1>1. QED
  BY InitIInv, NextIInv, PTL DEF Spec

\* While the function that a block called back is on the call stack, no action of
\* that block runs (setPMCallback, checkAndSetPMCallbackCompleted), as long as
\* no function is called while it runs and no fork has dropped frames.
THEOREM CallbacksFinishFirst == Spec => []CallbackFinishesFirst
<1>1. IInv => CallbackFinishesFirst
  BY DEF IInv, Inv, NothingWrong, CallbackFinishesFirst
<1>2. QED
  BY Invariance, <1>1, PTL

\* executePM carries out every action of a block once and in order, however its
\* callbacks, subblocks and the API calls of its callbacks are nested.
THEOREM BlocksRunInOrder == Spec => []ActionsRunInOrder
<1>1. IInv => ActionsRunInOrder
  BY DEF IInv, Inv, NothingWrong, ActionsRunInOrder
<1>2. QED
  BY Invariance, <1>1, PTL

\* A path that leaves the entry function has no frame left, unless a fork took or
\* deferred some of them.
THEOREM PathsFinishTheirBlocks == Spec => []NothingLeftAtExit
<1>1. IInv => NothingLeftAtExit
  BY DEF IInv, Inv, NothingLeft, Intact, NothingLeftAtExit
<1>2. QED
  BY Invariance, <1>1, PTL

\* handle puts every branch on the return value in the partition that belongs to it:
\* an action is pushed only where its return condition holds, and one is pushed for
\* each value if the conditions other than "true" leave none out.  The action for
\* "true" is pushed for every value if the state does not fork on it, else for none.
THEOREM BranchesAreDecided == Spec => []ConditionsDecide
<1>1. IInv => ConditionsDecide
  BY SpecDecides DEF IInv, TypeInv
<1>2. QED
  BY Invariance, <1>1, PTL

=============================================================================
