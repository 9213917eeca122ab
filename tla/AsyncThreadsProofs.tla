------------------------- MODULE AsyncThreadsProofs -------------------------
(***************************************************************************)
(* Theorems about AsyncThreads, for any asynchronous functions, any bounds *)
(* and programs.                                                           *)
(***************************************************************************)
EXTENDS AsyncThreads, SequenceTheorems, WellFoundedInduction, TLAPS

-----------------------------------------------------------------------------
(* What the loops over the queue compute *)

\* A set of natural numbers has a least one: induction for the loops below.
LEMMA LeastNumber ==
  ASSUME NEW T \in SUBSET Nat, T # {}
  PROVE  \E n \in T : \A m \in T : n <= m
<1> DEFINE R == OpToRel(<, Nat)
<1>1. IsWellFoundedOn(R, Nat)
  BY NatLessThanWellFounded
<1>2. \A a, b \in Nat : <<a, b>> \in R <=> a < b
  BY DEF R, OpToRel
<1> HIDE DEF R
<1>3. PICK n \in T : \A m \in T : ~ (<<m, n>> \in R)
  BY <1>1, WFMin, Zenon
<1>4. \A m \in T : ~ (m < n)
  BY <1>2, <1>3, Zenon
<1>5. QED
  BY <1>4

\* Induction up to n, for a set of numbers.
LEMMA UpTo ==
  ASSUME NEW n \in Nat, NEW G, 0 \in G, \A i \in 1 .. n : i - 1 \in G => i \in G
  PROVE  \A i \in 0 .. n : i \in G
<1> DEFINE T == (0 .. n) \ G
<1>1. SUFFICES ASSUME T # {}  PROVE FALSE
  BY <1>1
<1>2. T \in SUBSET Nat
  OBVIOUS
<1>3. PICK i \in T : \A m \in T : i <= m
  BY <1>1, <1>2, LeastNumber, Zenon
<1>4. i \in 1 .. n /\ i - 1 \notin T /\ i - 1 \in 0 .. n
  BY <1>3
<1>5. QED
  BY <1>3, <1>4

\* Nothing is queued twice.
NoneTwice(q) == \A i, j \in DOMAIN q : q[i] = q[j] => i = j

\* What temp holds after one more element is popped.
Pushed(q, x, f, i) ==
  IF i = 0 THEN <<>> ELSE IF q[i] # x THEN Append(f[i - 1], q[i]) ELSE f[i - 1]

\* There is a function that gives temp after every number of pops.
LEMMA TempExists ==
  ASSUME NEW q, NEW x, NEW len \in Nat
  PROVE  \E f : f = [i \in 0 .. len |-> Pushed(q, x, f, i)]
<1> DEFINE G == {n \in 0 .. len : \E f : f = [i \in 0 .. n |-> Pushed(q, x, f, i)]}
<1>1. 0 \in G
  <2> DEFINE f == [i \in 0 .. 0 |-> <<>>]
  <2>1. f = [i \in 0 .. 0 |-> Pushed(q, x, f, i)]
    BY DEF Pushed
  <2>2. QED  BY <2>1
<1>2. ASSUME NEW n \in 1 .. len, n - 1 \in G  PROVE n \in G
  <2>1. PICK g : g = [i \in 0 .. n - 1 |-> Pushed(q, x, g, i)]
    BY <1>2
  <2> DEFINE f == [i \in 0 .. n |-> IF i = n THEN Pushed(q, x, g, n) ELSE g[i]]
  <2>2. \A i \in 0 .. n : Pushed(q, x, f, i) = Pushed(q, x, g, i)
    BY DEF Pushed
  <2>3. \A i \in 0 .. n : f[i] = Pushed(q, x, g, i)
    <3>1. \A i \in 0 .. n - 1 : g[i] = Pushed(q, x, g, i)
      BY <2>1
    <3>2. QED  BY <3>1
  <2>4. f = [i \in 0 .. n |-> Pushed(q, x, f, i)]
    BY <2>2, <2>3
  <2> HIDE DEF f
  <2>5. \E h : h = [i \in 0 .. n |-> Pushed(q, x, h, i)]
    BY <2>4
  <2>6. QED  BY <2>5
<1> HIDE DEF G
<1>3. \A n \in 0 .. len : n \in G
  BY <1>1, <1>2, UpTo
<1>4. QED
  BY <1>3 DEF G

\* The loop, step by step.
LEMMA WithoutLoop ==
  ASSUME NEW S, NEW q \in Seq(S), NEW x
  PROVE  \E f : /\ Without(q, x) = f[Len(q)]
                /\ f[0] = <<>>
                /\ \A i \in 1 .. Len(q) :
                     f[i] = IF q[i] # x THEN Append(f[i - 1], q[i]) ELSE f[i - 1]
<1> DEFINE F == CHOOSE f : f = [i \in 0 .. Len(q) |-> Pushed(q, x, f, i)]
<1>1. Without(q, x) = F[Len(q)]
  BY DEF Without, Pushed
<1>2. Len(q) \in Nat
  BY LenProperties
<1>3. F = [i \in 0 .. Len(q) |-> Pushed(q, x, F, i)]
  <2>1. \E f : f = [i \in 0 .. Len(q) |-> Pushed(q, x, f, i)]
    BY <1>2, TempExists
  <2>2. QED  BY <2>1
<1> HIDE DEF F
<1>4. \A i \in 0 .. Len(q) : F[i] = Pushed(q, x, F, i)
  BY <1>3
<1>5. QED
  BY <1>1, <1>2, <1>4 DEF Pushed

\* s holds what is in the first n elements of q and is not x.
Kept(s, q, x, n) ==
  \A y : (\E k \in DOMAIN s : s[k] = y) <=> (y # x /\ \E k \in 1 .. n : q[k] = y)

\* Exactly x is taken out; what is queued once stays queued once.
LEMMA WithoutFacts ==
  ASSUME NEW S, NEW q \in Seq(S), NEW x
  PROVE  /\ Without(q, x) \in Seq(S)
         /\ ToSet(Without(q, x)) = ToSet(q) \ {x}
         /\ NoneTwice(q) => NoneTwice(Without(q, x))
<1>1. PICK f : /\ Without(q, x) = f[Len(q)]
               /\ f[0] = <<>>
               /\ \A i \in 1 .. Len(q) :
                    f[i] = IF q[i] # x THEN Append(f[i - 1], q[i]) ELSE f[i - 1]
  BY WithoutLoop
<1>2. Len(q) \in Nat /\ DOMAIN q = 1 .. Len(q) /\ \A i \in 1 .. Len(q) : q[i] \in S
  BY LenProperties, ElementOfSeq
<1> DEFINE G == {n \in 0 .. Len(q) : /\ f[n] \in Seq(S)
                                     /\ Kept(f[n], q, x, n)
                                     /\ NoneTwice(q) => NoneTwice(f[n])}
<1>3. 0 \in G
  <2>1. f[0] \in Seq(S) /\ DOMAIN f[0] = {}
    BY <1>1
  <2>2. Kept(f[0], q, x, 0) /\ NoneTwice(f[0])
    BY <2>1 DEF Kept, NoneTwice
  <2>3. QED  BY <2>1, <2>2, <1>2
<1>4. ASSUME NEW n \in 1 .. Len(q), n - 1 \in G  PROVE n \in G
  <2> DEFINE g == f[n - 1]
  <2>1. /\ g \in Seq(S) /\ Len(g) \in Nat /\ DOMAIN g = 1 .. Len(g)
        /\ Kept(g, q, x, n - 1)
        /\ NoneTwice(q) => NoneTwice(g)
    BY <1>4, LenProperties
  <2>2. \A y : (\E k \in 1 .. n : q[k] = y) <=> (y = q[n] \/ \E k \in 1 .. n - 1 : q[k] = y)
    BY <1>2
  <2>3. CASE q[n] = x
    <3>1. f[n] = g
      BY <1>1, <2>3
    <3>2. Kept(f[n], q, x, n)
      BY <2>1, <2>2, <2>3, <3>1 DEF Kept
    <3>3. QED  BY <3>1, <3>2, <2>1, <1>2
  <2>4. CASE q[n] # x
    <3>1. f[n] = Append(g, q[n]) /\ q[n] \in S
      BY <1>1, <1>2, <2>4
    <3> HIDE DEF g
    <3>2. /\ f[n] \in Seq(S) /\ DOMAIN f[n] = 1 .. Len(g) + 1
          /\ \A k \in 1 .. Len(g) : f[n][k] = g[k]
          /\ f[n][Len(g) + 1] = q[n]
      BY <3>1, <2>1, AppendProperties, LenProperties
    <3>3. \A y : (\E k \in DOMAIN f[n] : f[n][k] = y)
                   <=> (y = q[n] \/ \E k \in DOMAIN g : g[k] = y)
      <4>1. DOMAIN f[n] = DOMAIN g \cup {Len(g) + 1}
        BY <3>2, <2>1
      <4>2. \A k \in DOMAIN g : f[n][k] = g[k]
        BY <3>2, <2>1
      <4>3. QED  BY <3>2, <4>1, <4>2, Zenon
    <3>4. Kept(f[n], q, x, n)
      BY <3>3, <2>1, <2>2, <2>4, Zenon DEF Kept
    <3>5. ASSUME NoneTwice(q)  PROVE NoneTwice(f[n])
      <4>1. \A k \in 1 .. n - 1 : q[k] # q[n]
        BY <3>5, <1>2 DEF NoneTwice
      <4>2. \A k \in 1 .. Len(g) : g[k] # q[n]
        BY <4>1, <2>1, Zenon DEF Kept
      <4>3. \A i, j \in 1 .. Len(g) : g[i] = g[j] => i = j
        BY <2>1, <3>5 DEF NoneTwice
      <4>4. \A k \in 1 .. Len(g) + 1 : k \in 1 .. Len(g) \/ k = Len(g) + 1
        BY <2>1, LenProperties
      <4>5. ASSUME NEW i \in 1 .. Len(g) + 1, NEW j \in 1 .. Len(g) + 1, f[n][i] = f[n][j]
            PROVE  i = j
        BY <3>2, <4>2, <4>3, <4>4, <4>5
      <4>6. QED  BY <3>2, <4>5 DEF NoneTwice
    <3>6. QED  BY <3>2, <3>4, <3>5, <1>2
  <2>5. QED  BY <2>3, <2>4
<1>5. Len(q) \in G
  <2> HIDE DEF G
  <2>1. \A n \in 0 .. Len(q) : n \in G
    BY <1>2, <1>3, <1>4, UpTo
  <2>2. QED  BY <1>2, <2>1
<1>6. \A y : y \in ToSet(f[Len(q)]) <=> y \in ToSet(q) \ {x}
  BY <1>2, <1>5 DEF Kept, ToSet
<1>7. QED
  BY <1>1, <1>5, <1>6

\* Popping takes out the head, pushing adds what is not queued yet.
LEMMA PopFacts ==
  ASSUME NEW S, NEW q \in Seq(S), q # <<>>, NoneTwice(q)
  PROVE  /\ Tail(q) \in Seq(S) /\ Head(q) \in S /\ Head(q) \in ToSet(q)
         /\ ToSet(Tail(q)) = ToSet(q) \ {Head(q)} /\ NoneTwice(Tail(q))
<1>1. /\ Tail(q) \in Seq(S) /\ Len(Tail(q)) = Len(q) - 1 /\ Head(q) \in S
      /\ \A i \in 1 .. Len(Tail(q)) : Tail(q)[i] = q[i + 1]
  BY HeadTailProperties
<1>2. /\ Len(q) \in Nat \ {0} /\ DOMAIN q = 1 .. Len(q) /\ Head(q) = q[1]
      /\ DOMAIN Tail(q) = 1 .. Len(q) - 1
  BY <1>1, LenProperties, EmptySeq
<1>3. NoneTwice(Tail(q))
  BY <1>1, <1>2 DEF NoneTwice
<1>4. ASSUME NEW y  PROVE y \in ToSet(Tail(q)) <=> y \in ToSet(q) /\ y # Head(q)
  <2>1. y \in ToSet(Tail(q)) <=> \E i \in 2 .. Len(q) : q[i] = y
    <3>1. \A i \in 2 .. Len(q) : i - 1 \in 1 .. Len(q) - 1 /\ q[i] = Tail(q)[i - 1]
      BY <1>1, <1>2
    <3>2. \A i \in 1 .. Len(q) - 1 : i + 1 \in 2 .. Len(q) /\ q[i + 1] = Tail(q)[i]
      BY <1>1, <1>2
    <3>3. y \in ToSet(Tail(q)) <=> \E i \in 1 .. Len(q) - 1 : Tail(q)[i] = y
      BY <1>2, Zenon DEF ToSet
    <3>4. QED  BY <3>1, <3>2, <3>3
  <2>2. y \in ToSet(q) <=> y = q[1] \/ \E i \in 2 .. Len(q) : q[i] = y
    BY <1>2 DEF ToSet
  <2>3. \A i \in 2 .. Len(q) : q[i] # q[1]
    BY <1>2 DEF NoneTwice
  <2>4. QED  BY <2>1, <2>2, <2>3, <1>2
<1>5. Head(q) \in ToSet(q)
  BY <1>2 DEF ToSet
<1>6. QED
  BY <1>1, <1>3, <1>4, <1>5

LEMMA PushFacts ==
  ASSUME NEW S, NEW q \in Seq(S), NEW e \in S, e \notin ToSet(q), NoneTwice(q)
  PROVE  /\ q \o <<e>> \in Seq(S)
         /\ ToSet(q \o <<e>>) = ToSet(q) \cup {e} /\ NoneTwice(q \o <<e>>)
<1>1. /\ q \o <<e>> \in Seq(S) /\ Len(q \o <<e>>) = Len(q) + 1
      /\ \A i \in 1 .. Len(q) : (q \o <<e>>)[i] = q[i]
      /\ (q \o <<e>>)[Len(q) + 1] = e
  BY AppendProperties, AppendIsConcat
<1>2. Len(q) \in Nat /\ DOMAIN q = 1 .. Len(q) /\ DOMAIN (q \o <<e>>) = 1 .. Len(q) + 1
  BY <1>1, LenProperties
<1>3. \A i \in 1 .. Len(q) : q[i] # e
  BY <1>2 DEF ToSet
<1>4. NoneTwice(q \o <<e>>)
  BY <1>1, <1>2, <1>3 DEF NoneTwice
<1>5. ASSUME NEW y  PROVE y \in ToSet(q \o <<e>>) <=> y \in ToSet(q) \/ y = e
  BY <1>1, <1>2 DEF ToSet
<1>6. QED
  BY <1>1, <1>4, <1>5

-----------------------------------------------------------------------------
(* The inductive invariant, by concern *)

Runners == {Main} \cup Tids

ThreadInfo == [fn : Fns, preemptable : BOOLEAN, terminated : BOOLEAN]
AsyncInfo == [count : Nat, numstarted : Nat]

TypeInv ==
  /\ spawning \in SUBSET Fns
  /\ threads \in Seq(ThreadInfo)
  /\ threadsQueue \in Seq(Runners)
  /\ rtid \in Runners
  /\ preemptable \in BOOLEAN /\ waiting \in BOOLEAN
  /\ initiated \in [Fns -> AsyncInfo]
  /\ chosen \in Runners \cup {None}
  /\ status \in {"running", "exited", "aborted"}

\* Whom scheduleAsync returns runs; only at the end main, which is not queued.
ChosenInv ==
  /\ chosen \notin {None, rtid} => chosen = Main /\ waiting
  /\ chosen = Main /\ waiting => Live = {}

\* Without spawning, main has left the queue for good once it waits: as long as
\* something is left to start, another thread is queued.
SpawnFreeInv ==
  spawning = {} =>
    /\ waiting => Main \notin ToSet(threadsQueue)
    /\ waiting /\ (\E f \in Fns : Pending(f)) => \E t \in Live : t # rtid

IInv == /\ TypeInv /\ QueueHoldsLive /\ ChosenInv /\ SpawnFreeInv
        /\ ExitOnlyWhenThreadsDone /\ AssertHoldsWithoutSpawning

-----------------------------------------------------------------------------
(* What the steps do to threads and queue *)

\* Thread identifiers and thread infos.
LEMMA ThreadFacts ==
  ASSUME TypeInv
  PROVE  /\ Len(threads) \in Nat /\ DOMAIN threads = 1 .. Len(threads)
         /\ Tids \subseteq Nat /\ Len(threads) \notin Tids
         /\ Main \notin Tids /\ None \notin Runners /\ Main # None /\ -1 = Main
         /\ \A t \in Tids : t + 1 \in DOMAIN threads /\ Thread(t) \in ThreadInfo
<1>1. Len(threads) \in Nat /\ DOMAIN threads = 1 .. Len(threads)
  BY LenProperties DEF TypeInv
<1>2. \A i \in 1 .. Len(threads) : threads[i] \in ThreadInfo
  BY ElementOfSeq DEF TypeInv
<1>3. \A t \in Tids : t + 1 \in 1 .. Len(threads)
  BY <1>1 DEF Tids
<1>4. QED
  BY <1>1, <1>2, <1>3 DEF Tids, Main, None, Runners, Thread

\* A thread is changed.
LEMMA ChangedFacts ==
  ASSUME TypeInv, NEW t \in Tids, NEW e \in ThreadInfo,
         threads' = [threads EXCEPT ![t + 1] = e]
  PROVE  /\ threads' \in Seq(ThreadInfo) /\ Tids' = Tids
         /\ Live' = IF e.terminated THEN Live \ {t} ELSE Live \cup {t}
<1>1. t + 1 \in 1 .. Len(threads) /\ threads \in Seq(ThreadInfo)
  BY ThreadFacts DEF TypeInv
<1>2. /\ threads' \in Seq(ThreadInfo) /\ Len(threads') = Len(threads)
      /\ \A i \in 1 .. Len(threads) : threads'[i] = IF i = t + 1 THEN e ELSE threads[i]
  BY <1>1, ExceptSeq
<1>3. Tids' = Tids
  BY <1>2 DEF Tids
<1>4. threads'[t + 1] = e /\ \A u \in Tids \ {t} : threads'[u + 1] = threads[u + 1]
  BY <1>1, <1>2, ThreadFacts
<1>5. QED
  BY <1>2, <1>3, <1>4 DEF Live, Thread

\* setPreemptable of a thread: no thread comes, goes or terminates.
LEMMA PreemptableFacts ==
  ASSUME TypeInv, NEW t \in Tids, NEW b \in BOOLEAN,
         threads' = [threads EXCEPT ![t + 1].preemptable = b]
  PROVE  threads' \in Seq(ThreadInfo) /\ Tids' = Tids /\ Live' = Live
<1>1. Thread(t) \in ThreadInfo
  BY ThreadFacts
<1>2. PICK e \in ThreadInfo : /\ e.terminated = Thread(t).terminated
                              /\ threads' = [threads EXCEPT ![t + 1] = e]
  <2> DEFINE e == [threads[t + 1] EXCEPT !.preemptable = b]
  <2>1. e \in ThreadInfo /\ e.terminated = Thread(t).terminated
    BY <1>1 DEF ThreadInfo, Thread
  <2>2. threads' = [threads EXCEPT ![t + 1] = e]
    OBVIOUS
  <2>3. QED  BY <2>1, <2>2
<1>3. threads' \in Seq(ThreadInfo) /\ Tids' = Tids
  BY <1>2, ChangedFacts
<1>4. Live' = IF e.terminated THEN Live \ {t} ELSE Live \cup {t}
  BY <1>2, ChangedFacts
<1>5. t \in Live <=> ~e.terminated
  BY <1>2 DEF Live
<1>6. QED
  BY <1>3, <1>4, <1>5

\* terminated and preemptable of a thread are set.
LEMMA TerminatedFacts ==
  ASSUME TypeInv, NEW t \in Tids,
         threads' = [threads EXCEPT ![t + 1].terminated = TRUE, ![t + 1].preemptable = TRUE]
  PROVE  threads' \in Seq(ThreadInfo) /\ Tids' = Tids /\ Live' = Live \ {t}
<1>1. Thread(t) \in ThreadInfo /\ t + 1 \in DOMAIN threads
  BY ThreadFacts
<1>2. PICK e \in ThreadInfo : e.terminated /\ threads' = [threads EXCEPT ![t + 1] = e]
  <2> DEFINE e == [threads[t + 1] EXCEPT !.terminated = TRUE, !.preemptable = TRUE]
  <2>1. e \in ThreadInfo /\ e.terminated
    BY <1>1 DEF ThreadInfo, Thread
  <2>2. threads' = [threads EXCEPT ![t + 1] = e]
    BY <1>1
  <2>3. QED  BY <2>1, <2>2
<1>3. threads' \in Seq(ThreadInfo) /\ Tids' = Tids
  BY <1>2, ChangedFacts
<1>4. Live' = IF e.terminated THEN Live \ {t} ELSE Live \cup {t}
  BY <1>2, ChangedFacts
<1>5. QED
  BY <1>2, <1>3, <1>4

\* A thread is added.
LEMMA AddedFacts ==
  ASSUME TypeInv, NEW f \in Fns,
         threads' = Append(threads, [fn |-> f, preemptable |-> FALSE, terminated |-> FALSE])
  PROVE  /\ threads' \in Seq(ThreadInfo)
         /\ Tids' = Tids \cup {Len(threads)} /\ Live' = Live \cup {Len(threads)}
<1> DEFINE e == [fn |-> f, preemptable |-> FALSE, terminated |-> FALSE]
<1>1. e \in ThreadInfo /\ ~e.terminated
  BY DEF ThreadInfo
<1> HIDE DEF e
<1>2. threads' = Append(threads, e)
  BY DEF e
<1>3. /\ threads' \in Seq(ThreadInfo) /\ Len(threads') = Len(threads) + 1
      /\ \A i \in 1 .. Len(threads) : threads'[i] = threads[i]
      /\ threads'[Len(threads) + 1] = e
  BY <1>1, <1>2, AppendProperties DEF TypeInv
<1>4. Tids' = Tids \cup {Len(threads)}
  BY <1>3, ThreadFacts DEF Tids
<1>5. \A u \in Tids : Thread(u)' = Thread(u)
  BY <1>3, ThreadFacts DEF Thread
<1>6. \A u \in Tids' : u = Len(threads) => Thread(u)' = e
  BY <1>3 DEF Thread
<1>7. QED
  BY <1>1, <1>3, <1>4, <1>5, <1>6 DEF Live

-----------------------------------------------------------------------------
(* The steps *)

LEMMA InitIInv == Init => IInv
<1> SUFFICES ASSUME Init  PROVE IInv
  OBVIOUS
<1>1. Tids = {} /\ Live = {} /\ ~waiting /\ status = "running" /\ chosen = None
  BY DEF Init, Tids, Live
<1>2. TypeInv
  <2>1. threads \in Seq(ThreadInfo) /\ threadsQueue \in Seq(Runners)
    BY DEF Init, Runners
  <2>2. initiated \in [Fns -> AsyncInfo]
    BY DEF Init, NothingInitiated, AsyncInfo
  <2>3. QED  BY <2>1, <2>2 DEF Init, TypeInv, Runners
<1>3. QueueHoldsLive
  BY <1>1 DEF Init, QueueHoldsLive, ToSet
<1>4. ChosenInv /\ SpawnFreeInv
  BY <1>1 DEF Init, ChosenInv, SpawnFreeInv
<1>5. QED
  BY <1>1, <1>2, <1>3, <1>4 DEF IInv, ExitOnlyWhenThreadsDone, AssertHoldsWithoutSpawning

\* One more instance of f is initiated, or started.
LEMMA CountFacts ==
  ASSUME TypeInv, NEW f \in Fns,
         \/ initiated' = [initiated EXCEPT ![f].count = @ + 1]
         \/ initiated' = [initiated EXCEPT ![f].numstarted = @ + 1]
  PROVE  initiated' \in [Fns -> AsyncInfo]
<1>1. initiated \in [Fns -> AsyncInfo] /\ initiated[f].count \in Nat /\ initiated[f].numstarted \in Nat
  BY DEF TypeInv, AsyncInfo
<1>2. /\ [initiated[f] EXCEPT !.count = @ + 1] \in AsyncInfo
      /\ [initiated[f] EXCEPT !.numstarted = @ + 1] \in AsyncInfo
  BY <1>1 DEF AsyncInfo
<1>3. QED
  BY <1>1, <1>2

\* Steps that change neither the queue nor who is live.
QueueAndLiveKept ==
  /\ threads' \in Seq(ThreadInfo) /\ Tids' = Tids /\ Live' = Live
  /\ UNCHANGED <<spawning, threadsQueue>>

LEMMA KeptFacts ==
  ASSUME IInv, QueueAndLiveKept, UNCHANGED waiting
  PROVE  threadsQueue' \in Seq(Runners') /\ QueueHoldsLive' /\ Runners' = Runners
<1>1. Runners' = Runners
  BY DEF Runners, QueueAndLiveKept, Main
<1>2. QueueHoldsLive'
  BY DEF IInv, QueueHoldsLive, QueueAndLiveKept, ToSet, Main
<1>3. QED
  BY <1>1, <1>2 DEF IInv, TypeInv, QueueAndLiveKept

LEMMA ScheduleAgainIInv == IInv /\ ScheduleAgain => IInv'
<1> SUFFICES ASSUME IInv, ScheduleAgain  PROVE IInv'
  OBVIOUS
<1>1. QueueAndLiveKept /\ UNCHANGED waiting
  BY DEF QueueAndLiveKept, ScheduleAgain, IInv, TypeInv, Tids, Live, Thread
<1>2. threadsQueue' \in Seq(Runners') /\ QueueHoldsLive' /\ Runners' = Runners
  BY <1>1, KeptFacts
<1>3. TypeInv'
  BY <1>1, <1>2 DEF IInv, TypeInv, ScheduleAgain, QueueAndLiveKept
<1>4. ChosenInv'
  BY <1>1 DEF IInv, ChosenInv, ScheduleAgain, QueueAndLiveKept, MainGoesOn, ThreadGoesOn
<1>5. SpawnFreeInv'
  BY <1>1 DEF IInv, SpawnFreeInv, ScheduleAgain, QueueAndLiveKept, Pending, ToSet
<1>6. QED
  BY <1>1, <1>2, <1>3, <1>4, <1>5
  DEF IInv, ExitOnlyWhenThreadsDone, AssertHoldsWithoutSpawning, ScheduleAgain, QueueAndLiveKept,
      activeThreads

LEMMA QueueEmptyIInv == IInv /\ QueueEmpty => IInv'
<1> SUFFICES ASSUME IInv, QueueEmpty  PROVE IInv'
  OBVIOUS
<1>1. QueueAndLiveKept /\ UNCHANGED waiting
  BY DEF QueueAndLiveKept, QueueEmpty, IInv, TypeInv, Tids, Live, Thread
<1>2. threadsQueue' \in Seq(Runners') /\ QueueHoldsLive' /\ Runners' = Runners
  BY <1>1, KeptFacts
<1>3. TypeInv'
  BY <1>1, <1>2 DEF IInv, TypeInv, QueueEmpty, QueueAndLiveKept, Runners
<1>4. Live = {} /\ waiting
  BY DEF IInv, QueueHoldsLive, QueueEmpty, ToSet, Live, Tids, Main
<1>5. ChosenInv'
  BY <1>1, <1>4 DEF ChosenInv, QueueEmpty, QueueAndLiveKept
<1>6. SpawnFreeInv'
  BY <1>1 DEF IInv, SpawnFreeInv, QueueEmpty, QueueAndLiveKept, Pending, ToSet
<1>7. QED
  BY <1>1, <1>2, <1>3, <1>5, <1>6
  DEF IInv, ExitOnlyWhenThreadsDone, AssertHoldsWithoutSpawning, QueueEmpty, QueueAndLiveKept,
      activeThreads

\* The queue as its two loops and its pushes and pops see it.
LEMMA QueueFacts ==
  ASSUME IInv
  PROVE  /\ threadsQueue \in Seq(Runners) /\ NoneTwice(threadsQueue)
         /\ ToSet(threadsQueue) \ {Main} = Live
         /\ ~waiting => Main \in ToSet(threadsQueue)
         /\ Main \notin Live /\ Live \subseteq Tids
BY ThreadFacts DEF IInv, TypeInv, QueueHoldsLive, NoneTwice, Live

LEMMA StartAsyncIInv == \A f \in Fns : IInv /\ StartAsync(f) => IInv'
<1> SUFFICES ASSUME NEW f \in Fns, IInv, StartAsync(f)  PROVE IInv'
  OBVIOUS
<1> DEFINE tid == Len(threads)
<1>1. TypeInv
  BY DEF IInv
<1>2. /\ threads' \in Seq(ThreadInfo)
      /\ Tids' = Tids \cup {tid} /\ Live' = Live \cup {tid}
  BY <1>1, AddedFacts DEF StartAsync
<1>3. tid \in Nat /\ tid \notin Tids /\ tid # Main /\ tid # None /\ Main # None
  BY <1>1, ThreadFacts DEF Main, None
<1>4. Runners' = Runners \cup {tid}
  BY <1>2 DEF Runners, Main
<1>5. PICK q \in Seq(Runners') : /\ threadsQueue' = q \o <<tid>>
                                 /\ NoneTwice(q) /\ ToSet(q) \ {Main} = Live
                                 /\ ~waiting => Main \in ToSet(q)
                                 /\ ToSet(q) \subseteq Runners
                                 /\ threadsQueue # <<>> => q = threadsQueue
  <2>1. CASE threadsQueue = <<>>
    <3>1. Live = {}
      BY <2>1, QueueFacts DEF ToSet
    <3>2. <<Main>> \in Seq(Runners') /\ NoneTwice(<<Main>>) /\ ToSet(<<Main>>) = {Main}
      BY DEF Runners, NoneTwice, ToSet
    <3>3. threadsQueue' = <<Main>> \o <<tid>>
      BY <2>1 DEF StartAsync
    <3>4. QED  BY <2>1, <3>1, <3>2, <3>3 DEF Runners
  <2>2. CASE threadsQueue # <<>>
    <3>1. threadsQueue \in Seq(Runners')
      BY <1>4, QueueFacts, SeqMonotonic
    <3>2. ToSet(threadsQueue) \subseteq Runners
      BY QueueFacts, LenProperties, ElementOfSeq DEF ToSet
    <3>3. threadsQueue' = threadsQueue \o <<tid>>
      BY <2>2 DEF StartAsync
    <3>4. QED  BY <3>1, <3>2, <3>3, <2>2, QueueFacts
  <2>3. QED  BY <2>1, <2>2
<1>6. tid \notin ToSet(q)
  BY <1>3, <1>5 DEF Runners
<1>7. /\ threadsQueue' \in Seq(Runners') /\ NoneTwice(threadsQueue')
      /\ ToSet(threadsQueue') = ToSet(q) \cup {tid}
  BY <1>4, <1>5, <1>6, PushFacts
<1>8. QueueHoldsLive'
  <2>1. ToSet(threadsQueue)' = ToSet(threadsQueue')
    BY DEF ToSet
  <2>2. (ToSet(threadsQueue)' \ {Main}) = Live'
    BY <1>2, <1>3, <1>5, <1>7, <2>1
  <2>3. ~waiting' => Main \in ToSet(threadsQueue)'
    BY <1>5, <1>7, <2>1 DEF StartAsync
  <2>4. QED  BY <1>7, <2>2, <2>3 DEF QueueHoldsLive, NoneTwice, Main
<1>9. TypeInv'
  <2>1. initiated' \in [Fns -> AsyncInfo]
    BY <1>1, CountFacts DEF StartAsync
  <2>2. QED  BY <1>1, <1>2, <1>4, <1>7, <2>1 DEF StartAsync, TypeInv
<1>10. ChosenInv'
  BY <1>3 DEF ChosenInv, StartAsync, Main
<1>11. SpawnFreeInv'
  <2> SUFFICES ASSUME spawning = {}, waiting  PROVE SpawnFreeInv'
    BY DEF SpawnFreeInv, StartAsync
  <2>1. PICK t \in Live : t # rtid
    BY DEF IInv, SpawnFreeInv, StartAsync
  <2>2. threadsQueue # <<>>
    BY <2>1, QueueFacts DEF ToSet
  <2>3. Main \notin ToSet(threadsQueue')
    BY <2>2, <1>3, <1>5, <1>7 DEF IInv, SpawnFreeInv
  <2>4. t \in Live' /\ t # rtid'
    BY <1>2, <1>3, <2>1, QueueFacts DEF StartAsync
  <2>5. QED  BY <2>3, <2>4 DEF SpawnFreeInv, ToSet, Main
<1>12. QED
  BY <1>8, <1>9, <1>10, <1>11
  DEF IInv, ExitOnlyWhenThreadsDone, AssertHoldsWithoutSpawning, StartAsync, Scheduling

\* The queue after its head was popped, and pushed again unless main waits.
LEMMA RotateFacts ==
  ASSUME IInv, threadsQueue # <<>>, threadsQueue' = Tail(threadsQueue) \o Requeue(Head(threadsQueue))
  PROVE  /\ threadsQueue' \in Seq(Runners) /\ NoneTwice(threadsQueue') /\ Head(threadsQueue) \in Runners
         /\ ToSet(threadsQueue') = IF waiting /\ Head(threadsQueue) = Main
                                     THEN ToSet(threadsQueue) \ {Main} ELSE ToSet(threadsQueue)
         /\ Head(threadsQueue) # Main => Head(threadsQueue) \in Tids
<1> DEFINE next == Head(threadsQueue)
           rest == Tail(threadsQueue)
<1>1. /\ rest \in Seq(Runners) /\ next \in Runners /\ next \in ToSet(threadsQueue)
      /\ ToSet(rest) = ToSet(threadsQueue) \ {next} /\ NoneTwice(rest)
  BY QueueFacts, PopFacts
<1>2. next # Main => next \in Tids
  BY <1>1, QueueFacts
<1>3. CASE waiting /\ next = Main
  <2>1. threadsQueue' = rest \o <<>>
    BY <1>3 DEF Requeue
  <2>2. threadsQueue' = rest
    BY <2>1, <1>1, ConcatEmptySeq
  <2>3. QED  BY <2>2, <1>1, <1>2, <1>3
<1>4. CASE ~(waiting /\ next = Main)
  <2>1. threadsQueue' = rest \o <<next>>
    BY <1>4 DEF Requeue
  <2>2. /\ rest \o <<next>> \in Seq(Runners)
        /\ ToSet(rest \o <<next>>) = ToSet(rest) \cup {next} /\ NoneTwice(rest \o <<next>>)
    BY <1>1, PushFacts
  <2>3. QED  BY <2>1, <2>2, <1>1, <1>2, <1>4
<1>5. QED  BY <1>3, <1>4

LEMMA RoundRobinIInv == IInv /\ RoundRobin => IInv'
<1> SUFFICES ASSUME IInv, RoundRobin  PROVE IInv'
  OBVIOUS
<1> DEFINE next == Head(threadsQueue)
<1>1. /\ threadsQueue' \in Seq(Runners) /\ NoneTwice(threadsQueue')
      /\ next \in Runners /\ ToSet(threadsQueue') = ToSet(threadsQueue)
      /\ next # Main => next \in Tids
  BY RotateFacts DEF RoundRobin
<1>2. TypeInv
  BY DEF IInv
<1>3. threads' \in Seq(ThreadInfo) /\ Tids' = Tids /\ Live' = Live
  <2>1. CASE next = Main
    BY <2>1, <1>2 DEF RoundRobin, TypeInv, Tids, Live, Thread
  <2>2. CASE next # Main
    BY <2>2, <1>1, <1>2, PreemptableFacts DEF RoundRobin
  <2>3. QED  BY <2>1, <2>2
<1>4. /\ rtid' = next /\ chosen' = next /\ next # None
      /\ UNCHANGED <<spawning, waiting, initiated, status>> /\ preemptable' \in BOOLEAN
      /\ status = "running" /\ ~(next = Main /\ waiting) /\ \A f \in Fns : ~Pending(f)
  BY <1>1, <1>2, ThreadFacts DEF RoundRobin, ChoosesFromQueue, Scheduling, TypeInv
<1> HIDE DEF next
<1>5. Runners' = Runners
  BY <1>3 DEF Runners, Main
<1>6. TypeInv'
  BY <1>1, <1>2, <1>3, <1>4, <1>5 DEF TypeInv
<1>7. QueueHoldsLive'
  BY <1>1, <1>3, <1>4, QueueFacts DEF QueueHoldsLive, NoneTwice, ToSet, Main
<1>8. ChosenInv'
  BY <1>4 DEF ChosenInv, Main
<1>9. SpawnFreeInv'
  BY <1>1, <1>4 DEF IInv, SpawnFreeInv, ToSet, Main, Pending
<1>10. QED
  BY <1>4, <1>6, <1>7, <1>8, <1>9 DEF IInv, ExitOnlyWhenThreadsDone, AssertHoldsWithoutSpawning

LEMMA MainPoppedWhileWaitingIInv == IInv /\ MainPoppedWhileWaiting => IInv'
<1> SUFFICES ASSUME IInv, MainPoppedWhileWaiting  PROVE IInv'
  OBVIOUS
<1>1. /\ threadsQueue' \in Seq(Runners) /\ NoneTwice(threadsQueue')
      /\ ToSet(threadsQueue') = ToSet(threadsQueue) \ {Main}
  BY RotateFacts DEF MainPoppedWhileWaiting
<1>2. Tids' = Tids /\ Live' = Live /\ Runners' = Runners
  BY DEF MainPoppedWhileWaiting, Tids, Live, Thread, Runners, Main
<1>3. TypeInv'
  BY <1>1, <1>2 DEF IInv, TypeInv, MainPoppedWhileWaiting
<1>4. QueueHoldsLive'
  BY <1>1, <1>2, QueueFacts DEF QueueHoldsLive, NoneTwice, ToSet, Main, MainPoppedWhileWaiting
<1>5. ChosenInv'
  BY <1>2 DEF IInv, ChosenInv, MainPoppedWhileWaiting, Main, None
<1>6. spawning # {}
  <2>1. Main \in ToSet(threadsQueue) /\ waiting
    BY PopFacts, QueueFacts DEF MainPoppedWhileWaiting
  <2>2. QED  BY <2>1 DEF IInv, SpawnFreeInv
<1>7. QED
  BY <1>3, <1>4, <1>5, <1>6
  DEF IInv, SpawnFreeInv, ExitOnlyWhenThreadsDone, AssertHoldsWithoutSpawning, MainPoppedWhileWaiting

\* Whoever executes is the running thread, which main is only before it waits.
LEMMA ExecutesFacts ==
  ASSUME IInv
  PROVE  /\ MainExecutes => chosen = Main /\ rtid = Main /\ ~waiting
         /\ ThreadExecutes => chosen \in Tids /\ chosen # Main /\ rtid = chosen
         /\ MainExecutes \/ ThreadExecutes => status = "running"
<1>1. Main \notin Tids /\ None \notin Tids /\ Main # None
  BY ThreadFacts DEF IInv, Runners
<1>2. chosen \in {None, rtid} \/ (chosen = Main /\ waiting)
  BY DEF IInv, ChosenInv
<1>3. QED
  BY <1>1, <1>2 DEF MainExecutes, ThreadExecutes

LEMMA TransferIInv == IInv /\ Transfer => IInv'
<1> SUFFICES ASSUME IInv, Transfer  PROVE IInv'
  OBVIOUS
<1>1. TypeInv /\ (MainExecutes \/ ThreadExecutes)
  BY DEF IInv, Transfer
<1>2. QueueAndLiveKept /\ UNCHANGED waiting /\ preemptable' \in BOOLEAN
  <2>1. CASE chosen = Main
    BY <2>1, <1>1, ThreadFacts DEF Transfer, BasicBlockEnds, QueueAndLiveKept, TypeInv, Tids, Live, Thread
  <2>2. CASE chosen # Main
    BY <2>2, <1>1, ExecutesFacts, PreemptableFacts DEF Transfer, BasicBlockEnds, QueueAndLiveKept, TypeInv
  <2>3. QED  BY <2>1, <2>2
<1>3. threadsQueue' \in Seq(Runners') /\ QueueHoldsLive' /\ Runners' = Runners
  BY <1>2, KeptFacts
<1>4. /\ chosen' = None /\ UNCHANGED <<spawning, threadsQueue, rtid, waiting, initiated, status>>
  BY DEF Transfer
<1>5. TypeInv'
  BY <1>1, <1>2, <1>3, <1>4 DEF TypeInv, QueueAndLiveKept, None
<1>6. ChosenInv'
  BY <1>4 DEF ChosenInv, Main, None
<1>7. SpawnFreeInv'
  BY <1>2, <1>4 DEF IInv, SpawnFreeInv, QueueAndLiveKept, Pending, ToSet, Main
<1>8. QED
  BY <1>2, <1>3, <1>4, <1>5, <1>6, <1>7
  DEF IInv, ExitOnlyWhenThreadsDone, AssertHoldsWithoutSpawning, QueueAndLiveKept, activeThreads

LEMMA initiateAsyncIInv == \A f \in Fns : IInv /\ initiateAsync(f) => IInv'
<1> SUFFICES ASSUME NEW f \in Fns, IInv, initiateAsync(f)  PROVE IInv'
  OBVIOUS
<1>1. TypeInv /\ (MainExecutes \/ (ThreadExecutes /\ Thread(chosen).fn \in spawning))
  BY DEF IInv, initiateAsync
<1>2. QueueAndLiveKept /\ UNCHANGED waiting
  BY <1>1 DEF initiateAsync, QueueAndLiveKept, TypeInv, Tids, Live, Thread
<1>3. threadsQueue' \in Seq(Runners') /\ QueueHoldsLive' /\ Runners' = Runners
  BY <1>2, KeptFacts
<1>4. chosen' = None /\ UNCHANGED <<spawning, threadsQueue, rtid, waiting, preemptable, status>>
  BY DEF initiateAsync
<1>5. TypeInv'
  <2>1. initiated' \in [Fns -> AsyncInfo]
    BY <1>1, CountFacts DEF initiateAsync
  <2>2. QED  BY <1>1, <1>2, <1>3, <1>4, <2>1 DEF TypeInv, QueueAndLiveKept, None
<1>6. ChosenInv'
  BY <1>4 DEF ChosenInv, Main, None
<1>7. SpawnFreeInv'
  <2>1. spawning = {} => ~waiting
    BY <1>1, ExecutesFacts
  <2>2. QED  BY <2>1, <1>4 DEF SpawnFreeInv
<1>8. QED
  BY <1>2, <1>3, <1>4, <1>5, <1>6, <1>7
  DEF IInv, ExitOnlyWhenThreadsDone, AssertHoldsWithoutSpawning, QueueAndLiveKept, activeThreads

LEMMA ForkCopyIInv == \A atBranch \in BOOLEAN : IInv /\ ForkCopy(atBranch) => IInv'
<1> SUFFICES ASSUME NEW atBranch \in BOOLEAN, IInv, ForkCopy(atBranch)  PROVE IInv'
  OBVIOUS
<1>1. TypeInv /\ (MainExecutes \/ ThreadExecutes)
  BY DEF IInv, ForkCopy
<1>2. QueueAndLiveKept /\ UNCHANGED waiting /\ preemptable' \in BOOLEAN
  <2>1. CASE ~(atBranch /\ chosen # Main)
    BY <2>1, <1>1 DEF ForkCopy, QueueAndLiveKept, TypeInv, Tids, Live, Thread
  <2>2. CASE atBranch /\ chosen # Main
    BY <2>2, <1>1, ExecutesFacts, PreemptableFacts DEF ForkCopy, QueueAndLiveKept
  <2>3. QED  BY <2>1, <2>2
<1>3. threadsQueue' \in Seq(Runners') /\ QueueHoldsLive' /\ Runners' = Runners
  BY <1>2, KeptFacts
<1>4. /\ chosen' = None /\ UNCHANGED <<spawning, threadsQueue, rtid, waiting, status>>
      /\ initiated' = NothingInitiated
  BY DEF ForkCopy
<1>5. TypeInv'
  BY <1>1, <1>2, <1>3, <1>4 DEF TypeInv, QueueAndLiveKept, None, NothingInitiated, AsyncInfo
<1>6. ChosenInv'
  BY <1>4 DEF ChosenInv, Main, None
<1>7. SpawnFreeInv'
  <2>1. \A f \in Fns : ~(initiated'[f].numstarted < initiated'[f].count)
    BY <1>4 DEF NothingInitiated
  <2>2. QED  BY <2>1, <1>4 DEF IInv, SpawnFreeInv, Pending, ToSet, Main
<1>8. QED
  BY <1>2, <1>3, <1>4, <1>5, <1>6, <1>7
  DEF IInv, ExitOnlyWhenThreadsDone, AssertHoldsWithoutSpawning, QueueAndLiveKept, activeThreads

LEMMA MainReturnsIInv == IInv /\ MainReturns => IInv'
<1> SUFFICES ASSUME IInv, MainReturns  PROVE IInv'
  OBVIOUS
<1>1. /\ TypeInv /\ MainExecutes /\ rtid = Main /\ ~waiting /\ status = "running"
  BY ExecutesFacts DEF IInv, MainReturns
<1>2. /\ chosen' = None /\ UNCHANGED <<spawning, threads, rtid, preemptable, initiated>>
      /\ Tids' = Tids /\ Live' = Live /\ Runners' = Runners
  BY DEF MainReturns, Tids, Live, Thread, Runners, Main
<1>3. /\ threadsQueue' \in Seq(Runners) /\ NoneTwice(threadsQueue')
      /\ ToSet(threadsQueue') = IF activeThreads THEN ToSet(threadsQueue) \ {Main}
                                ELSE ToSet(threadsQueue)
      /\ waiting' \in BOOLEAN /\ (waiting' <=> activeThreads)
      /\ status' = IF activeThreads THEN "running" ELSE "exited"
  <2>1. CASE activeThreads
    <3>1. threadsQueue' = Without(threadsQueue, Main)
      BY <2>1 DEF MainReturns
    <3>2. QED  BY <2>1, <3>1, <1>1, QueueFacts, WithoutFacts DEF MainReturns
  <2>2. CASE ~activeThreads
    <3>1. threadsQueue' = threadsQueue /\ waiting' = waiting /\ status' = "exited"
      BY <2>2 DEF MainReturns
    <3>2. NoneTwice(threadsQueue') /\ ToSet(threadsQueue') = ToSet(threadsQueue)
      BY <3>1, QueueFacts
    <3>3. QED  BY <2>2, <3>1, <3>2, <1>1, QueueFacts DEF TypeInv
  <2>3. QED  BY <2>1, <2>2
<1>4. TypeInv'
  BY <1>1, <1>2, <1>3 DEF TypeInv, None, activeThreads
<1>5. QueueHoldsLive'
  BY <1>1, <1>2, <1>3, QueueFacts DEF QueueHoldsLive, NoneTwice, ToSet, Main
<1>6. ChosenInv'
  BY <1>2 DEF ChosenInv, Main, None
<1>7. SpawnFreeInv'
  <2>1. waiting' => Main \notin ToSet(threadsQueue')
    BY <1>3
  <2>2. waiting' => \E t \in Live' : t # rtid'
    BY <1>1, <1>2, <1>3, QueueFacts DEF activeThreads
  <2>3. QED  BY <2>1, <2>2 DEF SpawnFreeInv, ToSet, Main
<1>8. QED
  BY <1>2, <1>3, <1>4, <1>5, <1>6, <1>7
  DEF IInv, ExitOnlyWhenThreadsDone, AssertHoldsWithoutSpawning, activeThreads

LEMMA ExitAfterThreadsIInv == IInv /\ ExitAfterThreads => IInv'
<1> SUFFICES ASSUME IInv, ExitAfterThreads  PROVE IInv'
  OBVIOUS
<1>1. QueueAndLiveKept /\ UNCHANGED waiting
  BY DEF ExitAfterThreads, QueueAndLiveKept, IInv, TypeInv, Tids, Live, Thread
<1>2. threadsQueue' \in Seq(Runners') /\ QueueHoldsLive' /\ Runners' = Runners
  BY <1>1, KeptFacts
<1>3. Live = {}
  BY DEF IInv, ChosenInv, ExitAfterThreads
<1>4. TypeInv'
  BY <1>1, <1>2 DEF IInv, TypeInv, QueueAndLiveKept, None, ExitAfterThreads
<1>5. ChosenInv' /\ SpawnFreeInv'
  BY <1>1 DEF IInv, ChosenInv, SpawnFreeInv, QueueAndLiveKept, Pending, ToSet, Main, None, ExitAfterThreads
<1>6. QED
  BY <1>1, <1>2, <1>3, <1>4, <1>5
  DEF IInv, ExitOnlyWhenThreadsDone, AssertHoldsWithoutSpawning, QueueAndLiveKept, activeThreads,
      ExitAfterThreads

LEMMA terminateThreadIInv == IInv /\ terminateThread => IInv'
<1> SUFFICES ASSUME IInv, terminateThread  PROVE IInv'
  OBVIOUS
<1>1. TypeInv /\ chosen \in Tids /\ chosen # Main /\ rtid = chosen /\ status = "running"
  BY ExecutesFacts DEF IInv, terminateThread
<1>2. threads' \in Seq(ThreadInfo) /\ Tids' = Tids /\ Live' = Live \ {chosen}
  BY <1>1, TerminatedFacts DEF terminateThread
<1>3. /\ chosen' = None /\ UNCHANGED <<spawning, rtid, preemptable, waiting, initiated, status>>
      /\ Runners' = Runners
  BY <1>2 DEF terminateThread, Runners, Main
<1>4. /\ threadsQueue' \in Seq(Runners) /\ NoneTwice(threadsQueue')
      /\ ToSet(threadsQueue') = ToSet(threadsQueue) \ {chosen}
  BY QueueFacts, WithoutFacts DEF terminateThread
<1>5. TypeInv'
  BY <1>1, <1>2, <1>3, <1>4 DEF TypeInv, None
<1>6. QueueHoldsLive'
  BY <1>1, <1>2, <1>3, <1>4, QueueFacts DEF QueueHoldsLive, NoneTwice, ToSet, Main
<1>7. ChosenInv'
  BY <1>3 DEF ChosenInv, Main, None
<1>8. SpawnFreeInv'
  <2>1. spawning = {} /\ waiting => Main \notin ToSet(threadsQueue')
    BY <1>4 DEF IInv, SpawnFreeInv
  <2>2. ASSUME spawning = {}, waiting, \E f \in Fns : Pending(f)  PROVE \E t \in Live' : t # rtid'
    BY <2>2, <1>1, <1>2, <1>3 DEF IInv, SpawnFreeInv
  <2>3. QED  BY <2>1, <2>2, <1>3 DEF SpawnFreeInv, ToSet, Main, Pending
<1>9. QED
  BY <1>1, <1>3, <1>5, <1>6, <1>7, <1>8
  DEF IInv, ExitOnlyWhenThreadsDone, AssertHoldsWithoutSpawning

\* Every step, and the stuttering one.
LEMMA StepIInv == IInv /\ [Next]_vars => IInv'
<1> SUFFICES ASSUME IInv, [Next]_vars  PROVE IInv'
  OBVIOUS
<1>1. CASE schedule
  BY <1>1, ScheduleAgainIInv, StartAsyncIInv, QueueEmptyIInv, RoundRobinIInv,
     MainPoppedWhileWaitingIInv DEF schedule
<1>2. CASE execute
  BY <1>2, TransferIInv, initiateAsyncIInv, ForkCopyIInv, MainReturnsIInv, ExitAfterThreadsIInv,
     terminateThreadIInv DEF execute
<1>3. CASE UNCHANGED vars
  <2>1. Tids' = Tids /\ Live' = Live /\ Runners' = Runners /\ ToSet(threadsQueue)' = ToSet(threadsQueue)
    BY <1>3 DEF vars, Tids, Live, Thread, Runners, Main, ToSet
  <2>2. QED  BY <2>1, <1>3
    DEF IInv, TypeInv, QueueHoldsLive, ChosenInv, SpawnFreeInv, Pending, activeThreads,
        ExitOnlyWhenThreadsDone, AssertHoldsWithoutSpawning, vars, Main, None
<1>4. QED  BY <1>1, <1>2, <1>3 DEF Next

-----------------------------------------------------------------------------
(* The theorems *)

\* The inductive invariant, types included.
THEOREM Invariance == Spec => []IInv
<1>1. QED  BY InitIInv, StepIInv, PTL DEF Spec

\* ExecutionState::threadsQueue holds every thread that still has instructions to
\* run, once, no terminated one, and main until it waits, whatever is initiated,
\* started, forked and terminated in whatever order.
THEOREM NoThreadIsLost == Spec => []QueueHoldsLive
<1>1. IInv => QueueHoldsLive
  BY DEF IInv
<1>2. QED  BY <1>1, Invariance, PTL

\* A state is removed at exit only when every started thread has terminated.
THEOREM ThreadsEndBeforeExit == Spec => []ExitOnlyWhenThreadsDone
<1>1. IInv => ExitOnlyWhenThreadsDone
  BY DEF IInv
<1>2. QED  BY <1>1, Invariance, PTL

\* The assert of scheduleAsync never fails when asynchronous functions initiate
\* no further ones.
THEOREM SchedulerAssertHolds == Spec => []AssertHoldsWithoutSpawning
<1>1. IInv => AssertHoldsWithoutSpawning
  BY DEF IInv
<1>2. QED  BY <1>1, Invariance, PTL

=============================================================================
