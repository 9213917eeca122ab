------------------------- MODULE RegionMarksProofs -------------------------
(***************************************************************************)
(* Theorems about RegionMarks, for any states, objects, types and          *)
(* declarations, and any width of the offsets.                             *)
(***************************************************************************)
EXTENDS RegionMarks, SequenceTheorems, WellFoundedInduction, TLAPS

-----------------------------------------------------------------------------
(* Loops *)

\* A set of natural numbers has a least one: induction for the loops below.
LEMMA LeastNumber ==
  ASSUME NEW T \in SUBSET Nat, T # {}
  PROVE  \E n \in T : \A m \in T : n <= m
<1> DEFINE R == OpToRel(<, Nat)
<1>1. IsWellFoundedOn(R, Nat)
  BY NatLessThanWellFounded
<1>2. \A a, b \in Nat : <<a, b>> \in R <=> a < b
  BY DEF R, OpToRel
<1> HIDE DEF R
<1>3. PICK n \in T : \A m \in T : ~ (<<m, n>> \in R)
  BY <1>1, WFMin, Zenon
<1>4. \A m \in T : ~ (m < n)
  BY <1>2, <1>3, Zenon
<1>5. QED
  BY <1>4

\* Induction up to n, for a set of numbers.
LEMMA UpTo ==
  ASSUME NEW n \in Nat, NEW G, 0 \in G, \A i \in 1 .. n : i - 1 \in G => i \in G
  PROVE  \A i \in 0 .. n : i \in G
<1> DEFINE T == (0 .. n) \ G
<1>1. SUFFICES ASSUME T # {}  PROVE FALSE
  BY <1>1
<1>2. T \in SUBSET Nat
  OBVIOUS
<1>3. PICK i \in T : \A m \in T : i <= m
  BY <1>1, <1>2, LeastNumber, Zenon
<1>4. i \in 1 .. n /\ i - 1 \notin T /\ i - 1 \in 0 .. n
  BY <1>3
<1>5. QED
  BY <1>3, <1>4

\* What temp holds after i regions: one more of source is cleared, or one more of rs.
Cleared(r, source, f, i) == IF i = 0 THEN <<>> ELSE f[i - 1] \o Left(r, source[i])
AllCleared(rs, source, f, i) == IF i = 0 THEN source ELSE clear(rs[i], f[i - 1])

\* There are functions that give temp after every number of regions.
LEMMA ClearedExists ==
  ASSUME NEW r, NEW source, NEW len \in Nat
  PROVE  \E f : f = [i \in 0 .. len |-> Cleared(r, source, f, i)]
<1> DEFINE G == {n \in 0 .. len : \E f : f = [i \in 0 .. n |-> Cleared(r, source, f, i)]}
<1>1. 0 \in G
  <2> DEFINE f == [i \in 0 .. 0 |-> <<>>]
  <2>1. f = [i \in 0 .. 0 |-> Cleared(r, source, f, i)]
    BY DEF Cleared
  <2>2. QED  BY <2>1
<1>2. ASSUME NEW n \in 1 .. len, n - 1 \in G  PROVE n \in G
  <2>1. PICK g : g = [i \in 0 .. n - 1 |-> Cleared(r, source, g, i)]
    BY <1>2
  <2> DEFINE f == [i \in 0 .. n |-> IF i = n THEN Cleared(r, source, g, n) ELSE g[i]]
  <2>2. \A i \in 0 .. n : Cleared(r, source, f, i) = Cleared(r, source, g, i)
    BY DEF Cleared
  <2>3. \A i \in 0 .. n : f[i] = Cleared(r, source, g, i)
    <3>1. \A i \in 0 .. n - 1 : g[i] = Cleared(r, source, g, i)
      BY <2>1
    <3>2. QED  BY <3>1
  <2>4. f = [i \in 0 .. n |-> Cleared(r, source, f, i)]
    BY <2>2, <2>3
  <2> HIDE DEF f
  <2>5. \E h : h = [i \in 0 .. n |-> Cleared(r, source, h, i)]
    BY <2>4
  <2>6. QED  BY <2>5
<1> HIDE DEF G
<1>3. \A n \in 0 .. len : n \in G
  BY <1>1, <1>2, UpTo
<1>4. QED
  BY <1>3 DEF G

\* The loop over the regions to clear has a value, too.
LEMMA AllClearedExists ==
  ASSUME NEW rs, NEW source, NEW len \in Nat
  PROVE  \E f : f = [i \in 0 .. len |-> AllCleared(rs, source, f, i)]
<1> DEFINE G == {n \in 0 .. len : \E f : f = [i \in 0 .. n |-> AllCleared(rs, source, f, i)]}
<1>1. 0 \in G
  <2> DEFINE f == [i \in 0 .. 0 |-> source]
  <2>1. f = [i \in 0 .. 0 |-> AllCleared(rs, source, f, i)]
    BY DEF AllCleared
  <2>2. QED  BY <2>1
<1>2. ASSUME NEW n \in 1 .. len, n - 1 \in G  PROVE n \in G
  <2>1. PICK g : g = [i \in 0 .. n - 1 |-> AllCleared(rs, source, g, i)]
    BY <1>2
  <2> DEFINE f == [i \in 0 .. n |-> IF i = n THEN AllCleared(rs, source, g, n) ELSE g[i]]
  <2>2. \A i \in 0 .. n : AllCleared(rs, source, f, i) = AllCleared(rs, source, g, i)
    BY DEF AllCleared
  <2>3. \A i \in 0 .. n : f[i] = AllCleared(rs, source, g, i)
    <3>1. \A i \in 0 .. n - 1 : g[i] = AllCleared(rs, source, g, i)
      BY <2>1
    <3>2. QED  BY <3>1
  <2>4. f = [i \in 0 .. n |-> AllCleared(rs, source, f, i)]
    BY <2>2, <2>3
  <2> HIDE DEF f
  <2>5. \E h : h = [i \in 0 .. n |-> AllCleared(rs, source, h, i)]
    BY <2>4
  <2>6. QED  BY <2>5
<1> HIDE DEF G
<1>3. \A n \in 0 .. len : n \in G
  BY <1>1, <1>2, UpTo
<1>4. QED
  BY <1>3 DEF G

\* The loops, step by step.
ClearsBy(f, r, source) ==
  /\ clear(r, source) = f[Len(source)]
  /\ f[0] = <<>>
  /\ \A i \in 1 .. Len(source) : f[i] = f[i - 1] \o Left(r, source[i])

\* clear is a loop over the regions to clear from.
LEMMA ClearLoop ==
  ASSUME NEW S, NEW r, NEW source \in Seq(S)
  PROVE  \E f : ClearsBy(f, r, source)
<1> DEFINE F == CHOOSE f : f = [i \in 0 .. Len(source) |-> Cleared(r, source, f, i)]
<1>1. clear(r, source) = F[Len(source)]
  BY DEF clear, Cleared
<1>2. Len(source) \in Nat
  BY LenProperties
<1>3. F = [i \in 0 .. Len(source) |-> Cleared(r, source, F, i)]
  <2>1. \E f : f = [i \in 0 .. Len(source) |-> Cleared(r, source, f, i)]
    BY <1>2, ClearedExists
  <2>2. QED  BY <2>1
<1> HIDE DEF F
<1>4. \A i \in 0 .. Len(source) : F[i] = Cleared(r, source, F, i)
  BY <1>3
<1>5. \A i \in 1 .. Len(source) : i \in 0 .. Len(source) /\ i # 0
  BY <1>2
<1>6. \A i \in 1 .. Len(source) : F[i] = F[i - 1] \o Left(r, source[i])
  BY <1>4, <1>5, Zenon DEF Cleared
<1>7. F[0] = <<>>
  BY <1>2, <1>4 DEF Cleared
<1>8. ClearsBy(F, r, source)
  BY <1>1, <1>6, <1>7 DEF ClearsBy
<1>9. QED
  BY <1>8

\* clearRegion is a loop over the regions to clear.
LEMMA ClearRegionLoop ==
  ASSUME NEW S, NEW rs \in Seq(S), NEW source
  PROVE  \E f : /\ clearRegion(rs, source) = f[Len(rs)]
                /\ f[0] = source
                /\ \A i \in 1 .. Len(rs) : f[i] = clear(rs[i], f[i - 1])
<1> DEFINE F == CHOOSE f : f = [i \in 0 .. Len(rs) |-> AllCleared(rs, source, f, i)]
<1>1. clearRegion(rs, source) = F[Len(rs)]
  BY DEF clearRegion, AllCleared
<1>2. Len(rs) \in Nat
  BY LenProperties
<1>3. F = [i \in 0 .. Len(rs) |-> AllCleared(rs, source, F, i)]
  <2>1. \E f : f = [i \in 0 .. Len(rs) |-> AllCleared(rs, source, f, i)]
    BY <1>2, AllClearedExists
  <2>2. QED  BY <2>1
<1> HIDE DEF F
<1>4. \A i \in 0 .. Len(rs) : F[i] = AllCleared(rs, source, F, i)
  BY <1>3
<1>5. QED
  BY <1>1, <1>2, <1>4 DEF AllCleared

-----------------------------------------------------------------------------
(* Regions *)

\* Below the width of the offsets, arithmetic is that of natural numbers.
LEMMA SmallModulo ==
  ASSUME NEW n \in Nat, NEW m \in Nat, n < m
  PROVE  n % m = n
OBVIOUS

\* A region that does not wrap around is the offset and the size it was made of.
LEMMA RegionFits ==
  ASSUME NEW offset \in Nat, NEW size \in Nat, 0 < size, size < UInt, offset + size <= UInt
  PROVE  region(offset, size) = [offset |-> offset, size |-> size] /\ region(offset, size) \in RegionSet
<1>1. UInt \in Nat /\ offset < UInt
  BY SizesAssumption
<1>2. offset % UInt = offset /\ size % UInt = size
  BY <1>1, SmallModulo
<1>3. QED
  BY <1>2 DEF region, RegionSet

\* The parts of a region.
LEMMA RegionFacts ==
  ASSUME NEW r \in RegionSet
  PROVE  /\ r.offset \in Nat /\ r.size \in Nat /\ r.size # 0 /\ UInt \in Nat
         /\ r.size < UInt /\ r.offset + r.size <= UInt
         /\ r = [offset |-> r.offset, size |-> r.size]
         /\ last(r) = r.offset + r.size - 1
         /\ BitsOf(r) = r.offset .. last(r)
<1>1. /\ r.offset \in Nat /\ r.size \in Nat /\ r.size # 0 /\ UInt \in Nat
      /\ r.size < UInt /\ r.offset + r.size <= UInt
      /\ r = [offset |-> r.offset, size |-> r.size]
  BY SizesAssumption DEF RegionSet
<1>2. r.offset + r.size - 1 \in Nat /\ r.offset + r.size - 1 < UInt
  BY <1>1
<1>3. last(r) = r.offset + r.size - 1
  BY <1>1, <1>2, SmallModulo DEF last
<1>4. QED
  BY <1>1, <1>3 DEF BitsOf

\* The bits of a list are those of its regions,
LEMMA BitsOfElements ==
  ASSUME NEW S, NEW rs \in Seq(S), NEW k
  PROVE  k \in Bits(rs) <=> \E i \in 1 .. Len(rs) : k \in BitsOf(rs[i])
<1>1. DOMAIN rs = 1 .. Len(rs)
  BY LenProperties
<1>2. QED
  BY <1>1 DEF Bits, Range

\* an empty list has none,
LEMMA BitsOfNone ==
  Bits(<<>>) = {}
BY DEF Bits, Range

\* and a concatenation has those of both lists.
LEMMA BitsOfConcatenation ==
  ASSUME NEW S, NEW rs \in Seq(S), NEW ss \in Seq(S)
  PROVE  Bits(rs \o ss) = Bits(rs) \cup Bits(ss)
<1>1. rs \o ss \in Seq(S) /\ Range(rs \o ss) = Range(rs) \cup Range(ss)
  <2>1. rs \o ss \in Seq(S)
    BY ConcatProperties
  <2>2. /\ DOMAIN rs = 1 .. Len(rs) /\ DOMAIN ss = 1 .. Len(ss)
        /\ Len(rs) \in Nat /\ Len(ss) \in Nat
        /\ DOMAIN (rs \o ss) = 1 .. Len(rs) + Len(ss)
        /\ \A i \in 1 .. Len(rs) + Len(ss) :
             (rs \o ss)[i] = IF i <= Len(rs) THEN rs[i] ELSE ss[i - Len(rs)]
    BY ConcatProperties, LenProperties, <2>1
  <2>3. ASSUME NEW x \in Range(ss)  PROVE x \in Range(rs \o ss)
    <3>1. PICK j \in 1 .. Len(ss) : x = ss[j]
      BY <2>2 DEF Range
    <3>2. /\ j + Len(rs) \in 1 .. Len(rs) + Len(ss)
          /\ ~(j + Len(rs) <= Len(rs)) /\ (j + Len(rs)) - Len(rs) = j
      BY <2>2
    <3>3. QED  BY <2>2, <3>1, <3>2 DEF Range
  <2>4. ASSUME NEW x \in Range(rs)  PROVE x \in Range(rs \o ss)
    BY <2>2 DEF Range
  <2>5. ASSUME NEW x \in Range(rs \o ss)  PROVE x \in Range(rs) \cup Range(ss)
    BY <2>2 DEF Range
  <2>6. QED  BY <2>1, <2>3, <2>4, <2>5
<1>2. QED
  BY <1>1 DEF Bits

\* The two regions have no bit in common.
Apartness(r, s) == BitsOf(r) \cap BitsOf(s) = {}
\* Of every region of source, r is a part or has no bit.
Fits(r, source) == \A i \in 1 .. Len(source) : Apartness(r, source[i]) \/ BitsOf(r) \subseteq BitsOf(source[i])

\* Regions apart are below or above each other.
LEMMA ApartIsBelowOrAbove ==
  ASSUME NEW r \in RegionSet, NEW s \in RegionSet
  PROVE  /\ Apartness(r, s) <=> (last(r) < s.offset \/ last(s) < r.offset)
         /\ BitsOf(r) \subseteq BitsOf(s) <=> (s.offset <= r.offset /\ last(r) <= last(s))
<1>1. /\ r.offset \in Nat /\ last(r) \in Nat /\ r.offset <= last(r)
      /\ s.offset \in Nat /\ last(s) \in Nat /\ s.offset <= last(s)
      /\ BitsOf(r) = r.offset .. last(r) /\ BitsOf(s) = s.offset .. last(s)
  BY RegionFacts
<1>2. ASSUME Apartness(r, s)  PROVE last(r) < s.offset \/ last(s) < r.offset
  <2>1. r.offset \notin BitsOf(s) /\ s.offset \notin BitsOf(r)
    BY <1>1, <1>2 DEF Apartness
  <2>2. QED  BY <2>1, <1>1
<1>3. ASSUME last(r) < s.offset \/ last(s) < r.offset  PROVE Apartness(r, s)
  BY <1>1, <1>3 DEF Apartness
<1>4. ASSUME BitsOf(r) \subseteq BitsOf(s)  PROVE s.offset <= r.offset /\ last(r) <= last(s)
  <2>1. r.offset \in BitsOf(s) /\ last(r) \in BitsOf(s)
    BY <1>1, <1>4
  <2>2. QED  BY <2>1, <1>1
<1>5. ASSUME s.offset <= r.offset, last(r) <= last(s)  PROVE BitsOf(r) \subseteq BitsOf(s)
  BY <1>1, <1>5
<1>6. QED
  BY <1>2, <1>3, <1>4, <1>5

\* What is left of s: its parts below and above r, or those of r below and above s.
Between(from, to) == IF from <= to THEN <<[offset |-> from, size |-> to - from + 1]>> ELSE <<>>

\* Lists of at most two regions as concatenations.
LEMMA ShortLists ==
  ASSUME NEW x, NEW y
  PROVE  <<x>> \o <<>> = <<x>> /\ <<>> \o <<x>> = <<x>> /\ <<x>> \o <<y>> = <<x, y>>
<1>1. <<x>> \in Seq({x, y}) /\ <<y>> \in Seq({x, y}) /\ <<x, y>> \in Seq({x, y})
  OBVIOUS
<1>2. <<x>> \o <<>> = <<x>> /\ <<>> \o <<x>> = <<x>>
  BY <1>1, ConcatEmptySeq
<1>3. <<x>> \o <<y>> = <<x, y>>
  <2>1. /\ <<x>> \o <<y>> \in Seq({x, y}) /\ Len(<<x>> \o <<y>>) = 2
        /\ (<<x>> \o <<y>>)[1] = x /\ (<<x>> \o <<y>>)[2] = y
    <3>1. Len(<<x>>) = 1 /\ Len(<<y>>) = 1
      OBVIOUS
    <3>2. QED  BY <1>1, <3>1, ConcatProperties
  <2>2. Len(<<x, y>>) = 2 /\ <<x, y>>[1] = x /\ <<x, y>>[2] = y
    OBVIOUS
  <2>3. \A i \in 1 .. 2 : (<<x>> \o <<y>>)[i] = <<x, y>>[i]
    BY <2>1, <2>2
  <2> DEFINE s == <<x>> \o <<y>>  t == <<x, y>>
  <2>4. s \in Seq({x, y}) /\ t \in Seq({x, y}) /\ Len(s) = Len(t) /\ \A i \in 1 .. Len(s) : s[i] = t[i]
    BY <1>1, <2>1, <2>2, <2>3
  <2> HIDE DEF s, t
  <2>5. s = t
    BY <2>4, SeqEqual
  <2>6. QED  BY <2>5 DEF s, t
<1>4. QED
  BY <1>2, <1>3

\* The distance of two numbers.
LEMMA ApartFacts ==
  ASSUME NEW m \in Nat, NEW n \in Nat
  PROVE  /\ Lesser(m, n) \in {m, n} /\ Greater(m, n) \in {m, n} /\ Apart(m, n) \in Nat
         /\ Lesser(m, n) + Apart(m, n) = Greater(m, n)
         /\ m # n => Lesser(m, n) < Greater(m, n) /\ 0 < Apart(m, n)
<1>1. CASE m < n
  BY <1>1 DEF Lesser, Greater, Apart
<1>2. CASE ~(m < n)
  BY <1>2 DEF Lesser, Greater, Apart
<1>3. QED
  BY <1>1, <1>2

\* What clearing leaves of two regions that meet is below and above what they share.
LEMMA LeftIsBelowAndAbove ==
  ASSUME NEW r \in RegionSet, NEW s \in RegionSet, ~Apartness(r, s)
  PROVE  Left(r, s) = Between(Lesser(r.offset, s.offset), Greater(r.offset, s.offset) - 1)
                      \o Between(Lesser(last(r), last(s)) + 1, Greater(last(r), last(s)))
<1>1. /\ r.offset \in Nat /\ r.size \in Nat /\ r.size # 0
      /\ s.offset \in Nat /\ s.size \in Nat /\ s.size # 0 /\ UInt \in Nat
      /\ r.size < UInt /\ s.size < UInt
      /\ r.offset + r.size <= UInt /\ s.offset + s.size <= UInt
      /\ last(r) = r.offset + r.size - 1 /\ last(s) = s.offset + s.size - 1
      /\ r = [offset |-> r.offset, size |-> r.size] /\ s = [offset |-> s.offset, size |-> s.size]
  BY RegionFacts
<1>2. rangesIntersect(r.offset, last(r), s.offset, last(s))
  <2>1. ~(last(r) < s.offset) /\ ~(last(s) < r.offset)
    BY ApartIsBelowOrAbove
  <2>2. QED  BY <2>1, <1>1 DEF rangesIntersect
<1>3. last(r) \in Nat /\ last(s) \in Nat /\ last(r) < UInt /\ last(s) < UInt
  BY <1>1
<1> DEFINE low == Between(Lesser(r.offset, s.offset), Greater(r.offset, s.offset) - 1)
           high == Between(Lesser(last(r), last(s)) + 1, Greater(last(r), last(s)))
<1>4. r.offset = s.offset => low = <<>>
  BY <1>1 DEF Between, Lesser, Greater
<1>5. r.offset # s.offset =>
        low = <<region(Lesser(r.offset, s.offset), Apart(r.offset, s.offset))>>
  <2>1. SUFFICES ASSUME r.offset # s.offset
                 PROVE  low = <<region(Lesser(r.offset, s.offset), Apart(r.offset, s.offset))>>
    OBVIOUS
  <2> DEFINE o == Lesser(r.offset, s.offset)  n == Apart(r.offset, s.offset)
         t == Greater(r.offset, s.offset) - 1
  <2>2. /\ o \in Nat /\ n \in Nat /\ t + 1 \in {r.offset, s.offset} /\ t \in Int
        /\ o + n = t + 1 /\ 0 < n
    BY <1>1, <2>1, ApartFacts
  <2> HIDE DEF o, n, t
  <2>3. region(o, n) = [offset |-> o, size |-> n]
    <3>1. n < UInt /\ o + n <= UInt
      BY <1>1, <1>3, <2>2
    <3>2. QED  BY <2>2, <3>1, RegionFits
  <2>4. o <= t /\ t - o + 1 = n
    BY <2>2
  <2>5. Between(o, t) = <<[offset |-> o, size |-> n]>>
    BY <2>4 DEF Between
  <2>6. QED  BY <2>3, <2>5 DEF o, n, t
<1>6. last(r) = last(s) => high = <<>>
  BY <1>1 DEF Between, Lesser, Greater
<1>7. last(r) # last(s) =>
        high = <<region(Lesser(last(r), last(s)) + 1, Apart(last(r), last(s)))>>
  <2>1. SUFFICES ASSUME last(r) # last(s)
                 PROVE  high = <<region(Lesser(last(r), last(s)) + 1, Apart(last(r), last(s)))>>
    OBVIOUS
  <2> DEFINE o == Lesser(last(r), last(s)) + 1  n == Apart(last(r), last(s))
         t == Greater(last(r), last(s))
  <2>2. /\ o \in Nat /\ n \in Nat /\ t \in {last(r), last(s)} /\ t \in Nat
        /\ o - 1 + n = t /\ o - 1 \in Nat /\ 0 < n
    <3>1. Lesser(last(r), last(s)) \in Nat /\ n \in Nat /\ Lesser(last(r), last(s)) + n = t
          /\ 0 < n /\ t \in {last(r), last(s)}
      BY <1>3, <2>1, ApartFacts, Zenon
    <3>2. QED  BY <1>3, <3>1
  <2> HIDE DEF o, n, t
  <2>3. region(o, n) = [offset |-> o, size |-> n]
    <3>1. n < UInt /\ o + n <= UInt
      BY <1>1, <1>3, <2>2
    <3>2. QED  BY <2>2, <3>1, RegionFits
  <2>4. o <= t /\ t - o + 1 = n
    BY <2>2
  <2>5. Between(o, t) = <<[offset |-> o, size |-> n]>>
    BY <2>4 DEF Between
  <2>6. QED  BY <2>3, <2>5 DEF o, n, t
<1> HIDE DEF low, high
<1>8. CASE r = s
  <2>1. Left(r, s) = <<>>
    BY <1>8 DEF Left
  <2>2. QED  BY <2>1, <1>4, <1>6, <1>8 DEF low, high
<1>9. CASE r # s /\ r.offset + r.size = s.offset + s.size
  <2>1. Left(r, s) = <<region(Lesser(r.offset, s.offset), Apart(r.size, s.size))>>
    BY <1>2, <1>9 DEF Left
  <2>2. r.offset # s.offset /\ last(r) = last(s) /\ Apart(r.size, s.size) = Apart(r.offset, s.offset)
    BY <1>1, <1>9 DEF Apart, Lesser, Greater
  <2>3. low = Left(r, s) /\ high = <<>>
    BY <2>1, <2>2, <1>5, <1>6
  <2>4. low \o high = Left(r, s)
    BY <2>1, <2>3, ShortLists
  <2>5. QED  BY <2>4 DEF low, high
<1>10. CASE r.offset + r.size # s.offset + s.size /\ r.offset = s.offset
  <2>1. Left(r, s) = <<region(r.offset + Lesser(r.size, s.size), Apart(r.size, s.size))>>
    BY <1>2, <1>10 DEF Left
  <2>2. /\ last(r) # last(s) /\ Apart(r.size, s.size) = Apart(last(r), last(s))
        /\ r.offset + Lesser(r.size, s.size) = Lesser(last(r), last(s)) + 1
    BY <1>1, <1>10 DEF Apart, Lesser, Greater
  <2>3. high = Left(r, s) /\ low = <<>>
    BY <2>1, <2>2, <1>4, <1>7, <1>10
  <2>4. low \o high = Left(r, s)
    BY <2>1, <2>3, ShortLists
  <2>5. QED  BY <2>4 DEF low, high
<1>11. CASE r.offset + r.size # s.offset + s.size /\ r.offset # s.offset
  <2>1. Left(r, s) = BelowAndAbove(r, s)
    BY <1>2, <1>11 DEF Left
  <2>2. last(r) # last(s)
    BY <1>1, <1>11
  <2>3. BelowAndAbove(r, s) = low \o high
    BY <2>2, <1>5, <1>7, <1>11, ShortLists DEF BelowAndAbove
  <2>4. QED  BY <2>1, <2>3 DEF low, high
<1>12. QED
  BY <1>8, <1>9, <1>10, <1>11

\* The list of the region between two numbers, if there is any.
LEMMA BetweenFacts ==
  ASSUME NEW from \in Nat, NEW to \in Int, to < UInt, from > 0 \/ to < UInt - 1
  PROVE  /\ Between(from, to) \in Seq(RegionSet)
         /\ Bits(Between(from, to)) = from .. to
         /\ \A i \in 1 .. Len(Between(from, to)) : BitsOf(Between(from, to)[i]) = from .. to
<1>1. CASE from <= to
  <2> DEFINE r == [offset |-> from, size |-> to - from + 1]
  <2>1. r \in RegionSet
    BY <1>1, SizesAssumption DEF RegionSet
  <2>2. Between(from, to) = <<r>> /\ BitsOf(r) = from .. to
    BY <1>1 DEF Between, BitsOf
  <2> HIDE DEF r
  <2>3. QED
    BY <2>1, <2>2 DEF Bits, Range
<1>2. CASE ~(from <= to)
  <2>1. Between(from, to) = <<>> /\ from .. to = {}
    BY <1>2 DEF Between
  <2>2. Between(from, to) \in Seq(RegionSet) /\ Len(Between(from, to)) = 0
    BY <2>1, EmptySeq
  <2>3. \A i \in 1 .. Len(Between(from, to)) : FALSE
    BY <2>2
  <2>4. QED  BY <2>1, <2>2, <2>3, BitsOfNone
<1>3. QED
  BY <1>1, <1>2

\* What is in one of the two regions only is left, and a part of s that r has no bit of is
\* on one side of r.
LEMMA LeftFacts ==
  ASSUME NEW r \in RegionSet, NEW s \in RegionSet
  PROVE  /\ Left(r, s) \in Seq(RegionSet)
         /\ Apartness(r, s) => Left(r, s) = <<s>>
         /\ ~Apartness(r, s) =>
              Bits(Left(r, s)) = (BitsOf(r) \ BitsOf(s)) \cup (BitsOf(s) \ BitsOf(r))
         /\ BitsOf(r) \subseteq BitsOf(s) =>
              \A x \in RegionSet : Apartness(x, r) /\ BitsOf(x) \subseteq BitsOf(s) => Fits(x, Left(r, s))
         /\ BitsOf(r) \subseteq BitsOf(s) =>
              \A x \in RegionSet : Apartness(x, s) => Fits(x, Left(r, s))
<1>1. /\ r.offset \in Nat /\ last(r) \in Nat /\ r.offset <= last(r) /\ last(r) < UInt
      /\ s.offset \in Nat /\ last(s) \in Nat /\ s.offset <= last(s) /\ last(s) < UInt
      /\ BitsOf(r) = r.offset .. last(r) /\ BitsOf(s) = s.offset .. last(s)
      /\ UInt \in Nat
  BY RegionFacts
<1>2. CASE Apartness(r, s)
  <2>1. ~(BitsOf(r) \subseteq BitsOf(s)) /\ r # s
    BY <1>1, <1>2 DEF Apartness
  <2>2. last(r) < s.offset \/ last(s) < r.offset
    BY <1>2, ApartIsBelowOrAbove
  <2>3. ~rangesIntersect(r.offset, last(r), s.offset, last(s))
    BY <1>1, <2>2 DEF rangesIntersect
  <2>4. Left(r, s) = <<s>>
    BY <2>1, <2>3 DEF Left
  <2>5. QED  BY <1>2, <2>1, <2>4
<1>3. CASE ~Apartness(r, s)
  <2> DEFINE a == Lesser(r.offset, s.offset)   b == Greater(r.offset, s.offset) - 1
             c == Lesser(last(r), last(s)) + 1  d == Greater(last(r), last(s))
             low == Between(a, b)  high == Between(c, d)
  <2>1. Left(r, s) = low \o high
    BY <1>3, LeftIsBelowAndAbove
  <2>2. /\ a \in Nat /\ b + 1 \in Nat /\ b \in Int /\ a <= b + 1
        /\ IF r.offset < s.offset THEN a = r.offset /\ b + 1 = s.offset ELSE a = s.offset /\ b + 1 = r.offset
    BY <1>1 DEF Lesser, Greater
  <2>3. /\ c \in Nat /\ 0 < c /\ d \in Nat /\ c <= d + 1
        /\ IF last(r) < last(s) THEN c = last(r) + 1 /\ d = last(s) ELSE c = last(s) + 1 /\ d = last(r)
    BY <1>1 DEF Lesser, Greater
  <2> HIDE DEF a, b, c, d
  <2>4. /\ low \in Seq(RegionSet) /\ Bits(low) = a .. b
        /\ \A i \in 1 .. Len(low) : BitsOf(low[i]) = a .. b
    <3>1. b < UInt /\ b < UInt - 1
      BY <1>1, <2>2
    <3>2. QED  BY <2>2, <3>1, BetweenFacts, Zenon
  <2>5. /\ high \in Seq(RegionSet) /\ Bits(high) = c .. d
        /\ \A i \in 1 .. Len(high) : BitsOf(high[i]) = c .. d
    <3>1. d < UInt /\ d \in Int /\ c > 0
      BY <1>1, <2>3
    <3>2. QED  BY <2>3, <3>1, BetweenFacts, Zenon
  <2> HIDE DEF low, high
  <2>6. Left(r, s) \in Seq(RegionSet) /\ Bits(Left(r, s)) = (a .. b) \cup (c .. d)
    <3>1. low \o high \in Seq(RegionSet)
      BY <2>4, <2>5, ConcatProperties, Zenon
    <3>2. Bits(low \o high) = Bits(low) \cup Bits(high)
      BY <2>4, <2>5, BitsOfConcatenation, Zenon
    <3>3. QED  BY <2>1, <2>4, <2>5, <3>1, <3>2, Zenon
  <2>7. r.offset <= last(s) /\ s.offset <= last(r)
    BY <1>1, <1>3, ApartIsBelowOrAbove
  <2>8. (a .. b) \cup (c .. d) = (BitsOf(r) \ BitsOf(s)) \cup (BitsOf(s) \ BitsOf(r))
    <3> DEFINE p == r.offset  q == last(r)  u == s.offset  v == last(s)
    <3>1. p \in Int /\ q \in Int /\ u \in Int /\ v \in Int /\ p <= q /\ u <= v /\ p <= v /\ u <= q
      BY <1>1, <2>7
    <3>2. BitsOf(r) = p .. q /\ BitsOf(s) = u .. v
      BY <1>1
    <3>3. IF p < u THEN a = p /\ b = u - 1 ELSE a = u /\ b = p - 1
      BY <3>1, <2>2
    <3>4. IF q < v THEN c = q + 1 /\ d = v ELSE c = v + 1 /\ d = q
      BY <2>3
    <3> HIDE DEF p, q, u, v
    <3> DEFINE A == a .. b  B == c .. d  R == p .. q  S == u .. v
    <3>5. A \subseteq Int /\ B \subseteq Int /\ R \subseteq Int /\ S \subseteq Int
      BY <3>1, <3>3, <3>4
    <3>6. /\ \A i \in Int : i \in A <=> (p <= i /\ i < u) \/ (u <= i /\ i < p)
          /\ \A i \in Int : i \in B <=> (q < i /\ i <= v) \/ (v < i /\ i <= q)
          /\ \A i \in Int : i \in R <=> p <= i /\ i <= q
          /\ \A i \in Int : i \in S <=> u <= i /\ i <= v
      <4>1. \A i \in Int : i \in A <=> (p <= i /\ i < u) \/ (u <= i /\ i < p)
        BY <3>1, <3>3
      <4>2. \A i \in Int : i \in B <=> (q < i /\ i <= v) \/ (v < i /\ i <= q)
        BY <3>1, <3>4
      <4>3. \A i \in Int : (i \in R <=> p <= i /\ i <= q) /\ (i \in S <=> u <= i /\ i <= v)
        BY <3>1
      <4>4. QED  BY <4>1, <4>2, <4>3
    <3> HIDE DEF A, B, R, S
    <3>7. \A i \in Int : i \in A \/ i \in B <=> (i \in R /\ i \notin S) \/ (i \in S /\ i \notin R)
      BY <3>1, <3>6
    <3>8. A \cup B = (R \ S) \cup (S \ R)
      BY <3>5, <3>7
    <3>9. QED  BY <3>2, <3>8 DEF A, B, R, S
  <2>9. \A i \in 1 .. Len(Left(r, s)) : BitsOf(Left(r, s)[i]) \in {a .. b, c .. d}
    BY <2>1, <2>4, <2>5, ConcatProperties, LenProperties
  <2>10. ASSUME BitsOf(r) \subseteq BitsOf(s), NEW x \in RegionSet,
                Apartness(x, s) \/ (Apartness(x, r) /\ BitsOf(x) \subseteq BitsOf(s))
         PROVE  Fits(x, Left(r, s))
    <3>1. /\ x.offset \in Nat /\ last(x) \in Nat /\ x.offset <= last(x)
          /\ BitsOf(x) = x.offset .. last(x)
      <4>1. /\ x.offset \in Nat /\ x.size \in Nat /\ x.size # 0
            /\ last(x) = x.offset + x.size - 1
            /\ BitsOf(x) = x.offset .. last(x)
        BY RegionFacts, Zenon
      <4>2. last(x) \in Nat /\ x.offset <= last(x)
        BY <4>1
      <4>3. QED  BY <4>1, <4>2
    <3>2. s.offset <= r.offset /\ last(r) <= last(s)
      BY <2>10, ApartIsBelowOrAbove
    <3>3. a = s.offset /\ b + 1 = r.offset /\ c = last(r) + 1 /\ d = last(s)
      BY <1>1, <2>2, <2>3, <3>2
    <3>4. CASE Apartness(x, s)
      <4>1. last(x) < s.offset \/ last(s) < x.offset
        BY <3>4, ApartIsBelowOrAbove
      <4>2. BitsOf(x) \cap (a .. b) = {} /\ BitsOf(x) \cap (c .. d) = {}
        BY <1>1, <2>2, <3>1, <3>2, <3>3, <4>1
      <4>3. QED  BY <2>9, <4>2 DEF Fits, Apartness
    <3>5. CASE Apartness(x, r) /\ BitsOf(x) \subseteq BitsOf(s)
      <4>1. /\ last(x) < r.offset \/ last(r) < x.offset
            /\ s.offset <= x.offset /\ last(x) <= last(s)
        BY <3>5, ApartIsBelowOrAbove
      <4>2. CASE last(x) < r.offset
        <5>1. BitsOf(x) \subseteq a .. b /\ BitsOf(x) \cap (c .. d) = {}
          BY <1>1, <2>2, <3>1, <3>2, <3>3, <4>1, <4>2
        <5>2. QED  BY <2>9, <5>1 DEF Fits, Apartness
      <4>3. CASE last(r) < x.offset
        <5>1. BitsOf(x) \subseteq c .. d /\ BitsOf(x) \cap (a .. b) = {}
          BY <1>1, <2>2, <3>1, <3>2, <3>3, <4>1, <4>3
        <5>2. QED  BY <2>9, <5>1 DEF Fits, Apartness
      <4>4. QED  BY <4>1, <4>2, <4>3
    <3>6. QED  BY <2>10, <3>4, <3>5
  <2>11. QED
    BY <1>3, <2>6, <2>8, <2>10
<1>4. QED
  BY <1>2, <1>3

\* A region fits a concatenation when it fits both lists.
LEMMA FitsConcatenation ==
  ASSUME NEW x, NEW rs \in Seq(RegionSet), NEW ss \in Seq(RegionSet)
  PROVE  Fits(x, rs \o ss) <=> Fits(x, rs) /\ Fits(x, ss)
<1>1. /\ Len(rs) \in Nat /\ Len(ss) \in Nat /\ Len(rs \o ss) = Len(rs) + Len(ss)
      /\ \A i \in 1 .. Len(rs) + Len(ss) :
           (rs \o ss)[i] = IF i <= Len(rs) THEN rs[i] ELSE ss[i - Len(rs)]
  BY ConcatProperties, LenProperties
<1>2. ASSUME Fits(x, rs \o ss)  PROVE Fits(x, rs) /\ Fits(x, ss)
  <2>1. ASSUME NEW i \in 1 .. Len(rs)  PROVE i \in 1 .. Len(rs \o ss) /\ (rs \o ss)[i] = rs[i]
    BY <1>1
  <2>2. ASSUME NEW j \in 1 .. Len(ss)
        PROVE  Len(rs) + j \in 1 .. Len(rs \o ss) /\ (rs \o ss)[Len(rs) + j] = ss[j]
    <3>1. Len(rs) + j \in 1 .. Len(rs) + Len(ss) /\ ~(Len(rs) + j <= Len(rs)) /\ Len(rs) + j - Len(rs) = j
      BY <1>1
    <3>2. QED  BY <1>1, <3>1
  <2>3. QED  BY <1>2, <2>1, <2>2 DEF Fits
<1>3. ASSUME Fits(x, rs), Fits(x, ss)  PROVE Fits(x, rs \o ss)
  <2>1. ASSUME NEW i \in 1 .. Len(rs \o ss), ~(i <= Len(rs))
        PROVE  i - Len(rs) \in 1 .. Len(ss) /\ (rs \o ss)[i] = ss[i - Len(rs)]
    BY <1>1, <2>1
  <2>2. ASSUME NEW i \in 1 .. Len(rs \o ss), i <= Len(rs)
        PROVE  i \in 1 .. Len(rs) /\ (rs \o ss)[i] = rs[i]
    BY <1>1, <2>2
  <2>3. QED  BY <1>3, <2>1, <2>2 DEF Fits
<1>4. QED
  BY <1>2, <1>3

\* Every region fits the empty list.
LEMMA FitsNone ==
  ASSUME NEW x
  PROVE  Fits(x, <<>>) /\ <<>> \in Seq(RegionSet)
BY EmptySeq DEF Fits

\* What was marked and is not to be cleared stays marked.  What fits is taken out exactly,
\* and what else fitted still does.
ClearsTo(r, source, rest) ==
  /\ rest \in Seq(RegionSet)
  /\ Bits(source) \ BitsOf(r) \subseteq Bits(rest)
  /\ Fits(r, source) =>
       /\ Bits(rest) = Bits(source) \ BitsOf(r)
       /\ \A x \in RegionSet : Apartness(x, r) /\ Fits(x, source) => Fits(x, rest)

\* Clearing one region from a list.
LEMMA ClearFacts ==
  ASSUME NEW r \in RegionSet, NEW source \in Seq(RegionSet)
  PROVE  ClearsTo(r, source, clear(r, source))
<1>1. PICK f : ClearsBy(f, r, source)
  BY ClearLoop
<1>2. /\ clear(r, source) = f[Len(source)]
      /\ f[0] = <<>>
      /\ \A i \in 1 .. Len(source) : f[i] = f[i - 1] \o Left(r, source[i])
  BY <1>1 DEF ClearsBy
<1>3. Len(source) \in Nat /\ \A i \in 1 .. Len(source) : source[i] \in RegionSet
  BY LenProperties, ElementOfSeq
\* The bits of the first n regions.
<1> DEFINE Before(n) == UNION {BitsOf(source[i]) : i \in 1 .. n}
           G == {n \in 0 .. Len(source) :
                   /\ f[n] \in Seq(RegionSet)
                   /\ Before(n) \ BitsOf(r) \subseteq Bits(f[n])
                   /\ Fits(r, source) =>
                        /\ Bits(f[n]) = Before(n) \ BitsOf(r)
                        /\ \A x \in RegionSet : Apartness(x, r) /\ Fits(x, source) => Fits(x, f[n])}
<1>4. 0 \in G
  <2>1. Before(0) = {}
    OBVIOUS
  <2>2. f[0] \in Seq(RegionSet) /\ Bits(f[0]) = {} /\ \A x : Fits(x, f[0])
    BY <1>2, FitsNone, BitsOfNone
  <2>3. QED  BY <1>3, <2>1, <2>2
<1>5. ASSUME NEW n \in 1 .. Len(source), n - 1 \in G  PROVE n \in G
  <2> DEFINE s == source[n]
  <2>1. s \in RegionSet /\ n - 1 \in Nat
    BY <1>3
  <2>2. Before(n) = Before(n - 1) \cup BitsOf(s)
    <3>1. \A i : i \in 1 .. n <=> i \in 1 .. n - 1 \/ i = n
      BY <1>3
    <3>2. QED  BY <3>1
  <2>3. f[n] = f[n - 1] \o Left(r, s)
    BY <1>2
  <2>4. /\ f[n - 1] \in Seq(RegionSet)
        /\ Before(n - 1) \ BitsOf(r) \subseteq Bits(f[n - 1])
        /\ Fits(r, source) =>
             /\ Bits(f[n - 1]) = Before(n - 1) \ BitsOf(r)
             /\ \A x \in RegionSet : Apartness(x, r) /\ Fits(x, source) => Fits(x, f[n - 1])
    BY <1>5
  <2> HIDE DEF Before
  <2>5. Left(r, s) \in Seq(RegionSet)
    BY <2>1, LeftFacts
  <2>6. f[n] \in Seq(RegionSet) /\ Bits(f[n]) = Bits(f[n - 1]) \cup Bits(Left(r, s))
    BY <2>3, <2>4, <2>5, BitsOfConcatenation, ConcatProperties
  <2>7. BitsOf(s) \ BitsOf(r) \subseteq Bits(Left(r, s))
    <3>1. CASE Apartness(r, s)
      <4>1. Left(r, s) = <<s>>
        BY <3>1, <2>1, LeftFacts
      <4>2. Bits(<<s>>) = BitsOf(s)
        BY DEF Bits, Range
      <4>3. QED  BY <4>1, <4>2
    <3>2. CASE ~Apartness(r, s)
      BY <3>2, <2>1, LeftFacts
    <3>3. QED  BY <3>1, <3>2
  <2>8. ASSUME Fits(r, source)
        PROVE  /\ Bits(Left(r, s)) = BitsOf(s) \ BitsOf(r)
               /\ \A x \in RegionSet : Apartness(x, r) /\ Fits(x, source) => Fits(x, Left(r, s))
    <3>1. CASE Apartness(r, s)
      <4>1. Left(r, s) = <<s>>
        BY <3>1, <2>1, LeftFacts
      <4>2. Bits(<<s>>) = BitsOf(s) /\ Len(<<s>>) = 1 /\ <<s>>[1] = s
        BY DEF Bits, Range
      <4>3. BitsOf(s) \ BitsOf(r) = BitsOf(s)
        BY <3>1 DEF Apartness
      <4>4. \A x : Fits(x, source) => Fits(x, <<s>>)
        BY <4>2 DEF Fits
      <4>5. QED  BY <4>1, <4>2, <4>3, <4>4
    <3>2. CASE ~Apartness(r, s)
      <4>1. BitsOf(r) \subseteq BitsOf(s)
        BY <2>8, <3>2 DEF Fits
      <4>2. Bits(Left(r, s)) = (BitsOf(r) \ BitsOf(s)) \cup (BitsOf(s) \ BitsOf(r))
        BY <3>2, <2>1, LeftFacts
      <4>3. ASSUME NEW x \in RegionSet, Apartness(x, r), Fits(x, source)  PROVE Fits(x, Left(r, s))
        <5>1. Apartness(x, s) \/ BitsOf(x) \subseteq BitsOf(s)
          BY <4>3 DEF Fits
        <5>2. QED  BY <2>1, <4>1, <4>3, <5>1, LeftFacts
      <4>4. QED  BY <4>1, <4>2, <4>3
    <3>3. QED  BY <3>1, <3>2
  <2>9. ASSUME Fits(r, source)
        PROVE  /\ Bits(f[n]) = Before(n) \ BitsOf(r)
               /\ \A x \in RegionSet : Apartness(x, r) /\ Fits(x, source) => Fits(x, f[n])
    <3>1. Bits(f[n]) = Before(n) \ BitsOf(r)
      BY <2>2, <2>4, <2>6, <2>8, <2>9
    <3>2. ASSUME NEW x \in RegionSet, Apartness(x, r), Fits(x, source)  PROVE Fits(x, f[n])
      BY <2>3, <2>4, <2>5, <2>8, <2>9, <3>2, FitsConcatenation
    <3>3. QED  BY <3>1, <3>2
  <2>10. QED  BY <2>2, <2>4, <2>6, <2>7, <2>9
<1>6. Len(source) \in G
  <2> HIDE DEF G
  <2>1. \A i \in 0 .. Len(source) : i \in G
    BY <1>3, <1>4, <1>5, UpTo
  <2>2. QED  BY <1>3, <2>1
<1>7. Before(Len(source)) = Bits(source)
  <2>1. \A k : k \in Bits(source) <=> \E i \in 1 .. Len(source) : k \in BitsOf(source[i])
    BY BitsOfElements
  <2>2. QED  BY <2>1
<1>8. QED
  BY <1>2, <1>6, <1>7 DEF ClearsTo

\* Clearing a list of regions: what was marked and is in none of them stays marked; if
\* each fits, and no two of them overlap, exactly their bits are taken out.
LEMMA ClearRegionFacts ==
  ASSUME NEW rs \in Seq(RegionSet), NEW source \in Seq(RegionSet)
  PROVE  /\ clearRegion(rs, source) \in Seq(RegionSet)
         /\ Bits(source) \ Bits(rs) \subseteq Bits(clearRegion(rs, source))
         /\ ~Straddles(rs, source) => Bits(clearRegion(rs, source)) = Bits(source) \ Bits(rs)
<1>1. PICK f : /\ clearRegion(rs, source) = f[Len(rs)]
               /\ f[0] = source
               /\ \A i \in 1 .. Len(rs) : f[i] = clear(rs[i], f[i - 1])
  BY ClearRegionLoop
<1>2. /\ Len(rs) \in Nat /\ DOMAIN rs = 1 .. Len(rs) /\ \A i \in 1 .. Len(rs) : rs[i] \in RegionSet
      /\ DOMAIN source = 1 .. Len(source)
  BY LenProperties, ElementOfSeq
<1> DEFINE Before(n) == UNION {BitsOf(rs[i]) : i \in 1 .. n}
           G == {n \in 0 .. Len(rs) :
                   /\ f[n] \in Seq(RegionSet)
                   /\ Bits(source) \ Before(n) \subseteq Bits(f[n])
                   /\ ~Straddles(rs, source) =>
                        /\ Bits(f[n]) = Bits(source) \ Before(n)
                        /\ \A j \in n + 1 .. Len(rs) : Fits(rs[j], f[n])}
<1>3. 0 \in G
  <2>1. Before(0) = {}
    OBVIOUS
  <2>2. ASSUME ~Straddles(rs, source), NEW j \in 1 .. Len(rs)  PROVE Fits(rs[j], source)
    BY <1>2, <2>2 DEF Straddles, Fits, Apartness, Range
  <2>3. QED  BY <1>1, <1>2, <2>1, <2>2
<1>4. ASSUME NEW n \in 1 .. Len(rs), n - 1 \in G  PROVE n \in G
  <2> DEFINE r == rs[n]
  <2>1. r \in RegionSet /\ n - 1 \in Nat
    BY <1>2
  <2>2. Before(n) = Before(n - 1) \cup BitsOf(r)
    <3>1. \A i : i \in 1 .. n <=> i \in 1 .. n - 1 \/ i = n
      BY <1>2
    <3>2. QED  BY <3>1
  <2>3. /\ f[n - 1] \in Seq(RegionSet)
        /\ Bits(source) \ Before(n - 1) \subseteq Bits(f[n - 1])
        /\ ~Straddles(rs, source) =>
             /\ Bits(f[n - 1]) = Bits(source) \ Before(n - 1)
             /\ \A j \in (n - 1) + 1 .. Len(rs) : Fits(rs[j], f[n - 1])
    BY <1>4
  <2>4. ClearsTo(r, f[n - 1], f[n])
    BY <1>1, <2>1, <2>3, ClearFacts
  <2> HIDE DEF Before
  <2>5. ASSUME ~Straddles(rs, source)
        PROVE  /\ Bits(f[n]) = Bits(source) \ Before(n)
               /\ \A j \in n + 1 .. Len(rs) : Fits(rs[j], f[n])
    <3>1. n \in (n - 1) + 1 .. Len(rs) /\ \A j \in n + 1 .. Len(rs) : j \in (n - 1) + 1 .. Len(rs)
      BY <1>2
    <3>2. Fits(r, f[n - 1])
      BY <2>3, <2>5, <3>1
    <3>3. Bits(f[n]) = Bits(source) \ Before(n)
      BY <2>2, <2>3, <2>4, <2>5, <3>2 DEF ClearsTo
    <3>4. ASSUME NEW j \in n + 1 .. Len(rs)  PROVE Fits(rs[j], f[n])
      <4>1. j \in 1 .. Len(rs) /\ j # n
        BY <1>2
      <4>2. Apartness(rs[j], r)
        BY <1>2, <2>5, <4>1 DEF Straddles, Apartness
      <4>3. QED  BY <1>2, <2>3, <2>4, <2>5, <3>1, <3>2, <4>1, <4>2 DEF ClearsTo
    <3>5. QED  BY <3>3, <3>4
  <2>6. QED  BY <2>2, <2>3, <2>4, <2>5 DEF ClearsTo
<1>5. Len(rs) \in G
  <2> HIDE DEF G
  <2>1. \A i \in 0 .. Len(rs) : i \in G
    BY <1>2, <1>3, <1>4, UpTo
  <2>2. QED  BY <1>2, <2>1
<1>6. Before(Len(rs)) = Bits(rs)
  <2>1. \A k : k \in Bits(rs) <=> \E i \in 1 .. Len(rs) : k \in BitsOf(rs[i])
    BY BitsOfElements
  <2>2. QED  BY <2>1
<1>7. QED
  BY <1>1, <1>5, <1>6

-----------------------------------------------------------------------------
(* Marks *)

Declarations == [high : SUBSET Nat, low : SUBSET Nat, wide : SUBSET Levels]
\* Marks by the name of an object.
Named == UNION {[K -> Seq(RegionSet)] : K \in SUBSET Objects}
MemoryMarks == UNION {[A -> Named] : A \in SUBSET Addresses}
MarkRecords ==
  [memory : [Levels -> MemoryMarks], sym : [Levels -> Named],
   declared : [memory : [Addresses -> [Objects -> Declarations]], sym : [Objects -> Declarations]]]

\* There are two levels.
LEMMA LevelsFacts ==
  ASSUME NEW level \in Levels
  PROVE  Other(level) \in Levels /\ Other(level) # level /\ \A l \in Levels : l = level \/ l = Other(level)
BY DEF Levels, Other

\* What is declared of an object is what is marked after clearing, for both levels.
LEMMA DeclareFacts ==
  ASSUME NEW level \in Levels, NEW d \in Declarations, NEW rs \in Seq(RegionSet), NEW other,
         Matches(other, d, Other(level))
  PROVE  /\ Declare(d, level, rs, other) \in Declarations
         /\ Matches(rs, Declare(d, level, rs, other), level)
         /\ Matches(clearRegion(rs, other), Declare(d, level, rs, other), Other(level))
         /\ other = <<>> => Matches(<<>>, Declare(d, level, rs, other), Other(level))
<1> DEFINE e == Declare(d, level, rs, other)
<1>1. /\ e = [high |-> e["high"], low |-> e["low"], wide |-> e["wide"]]
      /\ e[level] = Bits(rs) /\ e[Other(level)] = d[Other(level)] \ Bits(rs)
      /\ e.wide = (d.wide \ {level}) \cup (IF Straddles(rs, other) THEN {Other(level)} ELSE {})
  <2>1. CASE level = "high"
    BY <2>1 DEF Declare, Declarations, Other
  <2>2. CASE level = "low"
    BY <2>2 DEF Declare, Declarations, Other
  <2>3. QED  BY <2>1, <2>2 DEF Levels
<1>2. Bits(rs) \subseteq Nat
  <2>1. \A i \in 1 .. Len(rs) : rs[i] \in RegionSet
    BY ElementOfSeq
  <2>2. \A r \in RegionSet : BitsOf(r) \subseteq Nat
    BY DEF BitsOf, RegionSet
  <2>3. QED  BY <2>1, <2>2, BitsOfElements
<1>3. d[Other(level)] \subseteq Nat /\ d.wide \subseteq Levels
  BY DEF Declarations, Levels, Other
<1>4. e["high"] \subseteq Nat /\ e["low"] \subseteq Nat /\ e["wide"] \subseteq Levels
  BY <1>1, <1>2, <1>3, LevelsFacts DEF Levels, Other
<1> HIDE DEF e
<1>5. e \in Declarations
  BY <1>1, <1>4 DEF Declarations
<1>6. level \notin e.wide
  BY <1>1, LevelsFacts
<1>7. Matches(rs, e, level)
  BY <1>1, <1>6 DEF Matches
<1>8. other \in Seq(RegionSet)
  BY DEF Matches
<1>9. /\ clearRegion(rs, other) \in Seq(RegionSet)
      /\ Bits(other) \ Bits(rs) \subseteq Bits(clearRegion(rs, other))
      /\ ~Straddles(rs, other) => Bits(clearRegion(rs, other)) = Bits(other) \ Bits(rs)
  BY <1>8, ClearRegionFacts
<1>10. d[Other(level)] \subseteq Bits(other) /\ (Other(level) \notin d.wide => d[Other(level)] = Bits(other))
  BY DEF Matches
<1>11. Other(level) \notin e.wide => ~Straddles(rs, other) /\ Other(level) \notin d.wide
  BY <1>1, LevelsFacts
<1>12. Matches(clearRegion(rs, other), e, Other(level))
  BY <1>1, <1>9, <1>10, <1>11 DEF Matches
<1>13. other = <<>> => Matches(<<>>, e, Other(level))
  <2>1. SUFFICES ASSUME other = <<>>  PROVE Matches(<<>>, e, Other(level))
    OBVIOUS
  <2>2. e[Other(level)] = {}
    BY <1>1, <1>10, <2>1, BitsOfNone
  <2>3. QED  BY <2>2, BitsOfNone, FitsNone DEF Matches
<1>14. QED
  BY <1>5, <1>7, <1>12, <1>13 DEF e

\* The marks of one name.
LEMMA NamedFacts ==
  ASSUME NEW m \in Named, NEW o
  PROVE  /\ DOMAIN m \subseteq Objects /\ m = [k \in DOMAIN m |-> m[k]]
         /\ \A k \in DOMAIN m : m[k] \in Seq(RegionSet)
         /\ At(m, o) \in Seq(RegionSet)
BY FitsNone DEF Named, At

\* Marks, given by what they are for each name.
LEMMA NamedConstruction ==
  ASSUME NEW K \in SUBSET Objects, NEW m, m = [k \in K |-> m[k]], \A k \in K : m[k] \in Seq(RegionSet)
  PROVE  m \in Named
<1>1. m \in [K -> Seq(RegionSet)]
  OBVIOUS
<1>2. QED
  BY <1>1 DEF Named

\* Marking and clearing concern one object.
LEMMA AddedFacts ==
  ASSUME NEW m \in Named, NEW o \in Objects, NEW rs \in Seq(RegionSet)
  PROVE  /\ With(m, o, rs) \in Named
         /\ At(With(m, o, rs), o) = rs
         /\ \A p : p # o => At(With(m, o, rs), p) = At(m, p)
<1> DEFINE n == With(m, o, rs)
<1>1. /\ DOMAIN n = {o} \cup DOMAIN m /\ n = [k \in {o} \cup DOMAIN m |-> n[k]]
      /\ n[o] = rs /\ \A k \in DOMAIN m : k # o => n[k] = m[k]
  BY DEF With
<1> HIDE DEF n
<1>2. {o} \cup DOMAIN m \in SUBSET Objects /\ \A k \in {o} \cup DOMAIN m : n[k] \in Seq(RegionSet)
  BY <1>1, NamedFacts
<1>3. n \in Named
  BY <1>1, <1>2, NamedConstruction
<1>4. QED
  BY <1>1, <1>3 DEF n, At

\* Clearing concerns the memory of one object,
LEMMA ClearMemoryFacts ==
  ASSUME NEW m \in Named, NEW o \in Objects, NEW rs \in Seq(RegionSet)
  PROVE  /\ clearMemoryRegion(m, o, rs) \in Named
         /\ At(clearMemoryRegion(m, o, rs), o) = IF o \in DOMAIN m THEN clearRegion(rs, At(m, o)) ELSE <<>>
         /\ \A p : p # o => At(clearMemoryRegion(m, o, rs), p) = At(m, p)
<1> DEFINE n == clearMemoryRegion(m, o, rs)  rest == clearRegion(rs, m[o])
<1>1. CASE o \notin DOMAIN m
  BY <1>1 DEF clearMemoryRegion, At
<1>2. CASE o \in DOMAIN m
  <2> DEFINE K == DOMAIN m \ (IF rest = <<>> THEN {o} ELSE {})
  <2>1. n = [k \in K |-> IF k = o THEN rest ELSE m[k]]
    BY <1>2 DEF clearMemoryRegion
  <2>2. rest \in Seq(RegionSet)
    BY <1>2, NamedFacts, ClearRegionFacts
  <2> HIDE DEF n, rest
  <2>3. /\ DOMAIN n = K /\ n = [k \in K |-> n[k]]
        /\ \A k \in K : n[k] = IF k = o THEN rest ELSE m[k]
    BY <2>1
  <2>4. K \in SUBSET Objects /\ \A k \in K : n[k] \in Seq(RegionSet)
    BY <2>2, <2>3, NamedFacts
  <2> HIDE DEF K
  <2>5. n \in Named
    BY <2>3, <2>4, NamedConstruction
  <2>6. At(n, o) = rest
    BY <1>2, <2>3 DEF At, K
  <2>7. \A p : p # o => At(n, p) = At(m, p)
    BY <2>3 DEF At, K
  <2>8. QED
    BY <1>2, <2>5, <2>6, <2>7 DEF n, rest, At
<1>3. QED
  BY <1>1, <1>2

\* and one symbol.
LEMMA ClearSymFacts ==
  ASSUME NEW m \in Named, NEW o \in Objects, NEW rs \in Seq(RegionSet)
  PROVE  /\ clearSymRegion(m, o, rs) \in Named
         /\ At(clearSymRegion(m, o, rs), o) = IF o \in DOMAIN m THEN clearRegion(rs, At(m, o)) ELSE <<>>
         /\ \A p : p # o => At(clearSymRegion(m, o, rs), p) = At(m, p)
<1> DEFINE n == clearSymRegion(m, o, rs)  rest == clearRegion(rs, m[o])
<1>1. CASE o \notin DOMAIN m
  BY <1>1 DEF clearSymRegion, At
<1>2. CASE o \in DOMAIN m
  <2>1. n = [m EXCEPT ![o] = rest]
    BY <1>2 DEF clearSymRegion
  <2>2. rest \in Seq(RegionSet) /\ m = [k \in DOMAIN m |-> m[k]]
    BY <1>2, NamedFacts, ClearRegionFacts
  <2> HIDE DEF n, rest
  <2>3. /\ DOMAIN n = DOMAIN m /\ n = [k \in DOMAIN m |-> n[k]]
        /\ \A k \in DOMAIN m : n[k] = IF k = o THEN rest ELSE m[k]
    BY <2>1, <2>2
  <2>4. DOMAIN m \in SUBSET Objects /\ \A k \in DOMAIN m : n[k] \in Seq(RegionSet)
    BY <2>2, <2>3, NamedFacts
  <2>5. n \in Named
    BY <2>3, <2>4, NamedConstruction
  <2>6. At(n, o) = rest
    BY <1>2, <2>3 DEF At
  <2>7. \A p : p # o => At(n, p) = At(m, p)
    BY <2>3 DEF At
  <2>8. QED
    BY <1>2, <2>5, <2>6, <2>7 DEF n, rest, At
<1>3. QED
  BY <1>1, <1>2

\* The marks of an object in a state, and of its symbol, are what is declared of them.
MemoryMatches(m, s, o) ==
  \A level \in Levels : Matches(At(m.memory[level][s], o), m.declared.memory[s][o], level)
SymMatches(m, o) == \A level \in Levels : Matches(At(m.sym[level], o), m.declared.sym[o], level)

\* Two records of marks differ in what concerns an object of a state and its symbol only.
Same(m, n, s, o) ==
  /\ \A level \in Levels :
       /\ DOMAIN n.memory[level] = DOMAIN m.memory[level]
       /\ \A t \in DOMAIN m.memory[level], p \in Objects :
            t # s \/ p # o => At(n.memory[level][t], p) = At(m.memory[level][t], p)
       /\ \A p \in Objects : p # o => At(n.sym[level], p) = At(m.sym[level], p)
  /\ \A t \in Addresses, p \in Objects :
       t # s \/ p # o => n.declared.memory[t][p] = m.declared.memory[t][p]
  /\ \A p \in Objects : p # o => n.declared.sym[p] = m.declared.sym[p]

\* n has the marks of m, but for an object of a state, whose marks are what is declared.
Marked(m, n, s, o) ==
  n \in MarkRecords /\ Same(m, n, s, o) /\ MemoryMatches(n, s, o) /\ SymMatches(n, o)

\* The marks of a state are kept for both levels.
Keeps(m, s) == s \in Addresses /\ \A level \in Levels : s \in DOMAIN m.memory[level]

\* The parts of a record of marks.
LEMMA MarkRecordFacts ==
  ASSUME NEW m \in MarkRecords, NEW level \in Levels
  PROVE  /\ m.memory[level] \in MemoryMarks /\ m.sym[level] \in Named
         /\ DOMAIN m.memory[level] \subseteq Addresses
         /\ \A t \in DOMAIN m.memory[level] : m.memory[level][t] \in Named
         /\ m.declared.memory \in [Addresses -> [Objects -> Declarations]]
         /\ m.declared.sym \in [Objects -> Declarations]
         /\ m.memory \in [Levels -> MemoryMarks] /\ m.sym \in [Levels -> Named]
<1>1. m.memory[level] \in MemoryMarks /\ m.sym[level] \in Named
  BY DEF MarkRecords
<1>2. /\ DOMAIN m.memory[level] \subseteq Addresses
      /\ \A t \in DOMAIN m.memory[level] : m.memory[level][t] \in Named
  BY <1>1 DEF MemoryMarks
<1>3. QED
  BY <1>1, <1>2 DEF MarkRecords

MemorySet(m, n, level, s, o, rs) ==
  /\ n \in [Levels -> MemoryMarks]
  /\ \A l \in Levels : /\ DOMAIN n[l] = DOMAIN m[l]
                       /\ \A t \in DOMAIN m[l] : t # s => n[l][t] = m[l][t]
  /\ n[level][s] = With(m[level][s], o, rs)
  /\ n[Other(level)][s] = clearMemoryRegion(m[Other(level)][s], o, rs)

\* Marking memory concerns one object of one state.
LEMMA SetMemoryFacts ==
  ASSUME NEW m \in [Levels -> MemoryMarks], NEW level \in Levels, NEW s, NEW o \in Objects,
         NEW rs \in Seq(RegionSet), \A l \in Levels : s \in DOMAIN m[l]
  PROVE  MemorySet(m, setMemoryRegion(m, level, s, o, rs), level, s, o, rs)
<1> DEFINE k == Other(level)  n == setMemoryRegion(m, level, s, o, rs)
           a == [m[level] EXCEPT ![s] = With(@, o, rs)]
           b == [m[k] EXCEPT ![s] = clearMemoryRegion(@, o, rs)]
<1>1. k \in Levels /\ k # level /\ \A l \in Levels : l = level \/ l = k
  BY LevelsFacts
<1>2. \A l \in Levels : \E A \in SUBSET Addresses : m[l] \in [A -> Named] /\ s \in A
  BY DEF MemoryMarks
<1>3. n = [m EXCEPT ![level] = a, ![k] = b]
  BY <1>1 DEF setMemoryRegion
<1>4. DOMAIN n = Levels /\ n[level] = a /\ n[k] = b /\ n = [l \in Levels |-> n[l]]
  BY <1>1, <1>3
<1>5. PICK A \in SUBSET Addresses : m[level] \in [A -> Named] /\ s \in A
  BY <1>2
<1>6. PICK B \in SUBSET Addresses : m[k] \in [B -> Named] /\ s \in B
  BY <1>1, <1>2
<1>7. a \in [A -> Named] /\ DOMAIN a = DOMAIN m[level] /\ a[s] = With(m[level][s], o, rs)
      /\ \A t \in DOMAIN m[level] : t # s => a[t] = m[level][t]
  <2>1. With(m[level][s], o, rs) \in Named
    BY <1>5, AddedFacts
  <2>2. QED  BY <1>5, <2>1
<1>8. b \in [B -> Named] /\ DOMAIN b = DOMAIN m[k] /\ b[s] = clearMemoryRegion(m[k][s], o, rs)
      /\ \A t \in DOMAIN m[k] : t # s => b[t] = m[k][t]
  <2>1. clearMemoryRegion(m[k][s], o, rs) \in Named
    BY <1>6, ClearMemoryFacts
  <2>2. QED  BY <1>6, <2>1
<1> HIDE DEF n, a, b, k
<1>9. a \in MemoryMarks /\ b \in MemoryMarks
  BY <1>7, <1>8 DEF MemoryMarks
<1>10. n \in [Levels -> MemoryMarks]
  BY <1>1, <1>4, <1>9
<1>11. \A l \in Levels : /\ DOMAIN n[l] = DOMAIN m[l]
                        /\ \A t \in DOMAIN m[l] : t # s => n[l][t] = m[l][t]
  BY <1>1, <1>4, <1>7, <1>8
<1>12. n[level][s] = With(m[level][s], o, rs) /\ n[k][s] = clearMemoryRegion(m[k][s], o, rs)
  BY <1>4, <1>7, <1>8
<1>13. QED
  BY <1>10, <1>11, <1>12 DEF n, k, MemorySet

\* Marking a symbol sets it at a level and clears it at the other.
LEMMA SetSymFacts ==
  ASSUME NEW m \in [Levels -> Named], NEW level \in Levels, NEW o \in Objects, NEW rs \in Seq(RegionSet)
  PROVE  LET n == setSymRegion(m, level, o, rs)
         IN /\ n \in [Levels -> Named]
            /\ n[level] = With(m[level], o, rs)
            /\ n[Other(level)] = clearSymRegion(m[Other(level)], o, rs)
<1>1. Other(level) \in Levels /\ Other(level) # level
  BY LevelsFacts
<1>2. With(m[level], o, rs) \in Named /\ clearSymRegion(m[Other(level)], o, rs) \in Named
  BY <1>1, AddedFacts, ClearSymFacts
<1>3. QED
  BY <1>1, <1>2 DEF setSymRegion

\* Marking an object keeps marks and declarations of everything else, and those of the
\* object agree afterwards if they did before.
LEMMA SetRegionFacts ==
  ASSUME NEW m \in MarkRecords, NEW level \in Levels, NEW s, Keeps(m, s), NEW o \in Objects,
         NEW rs \in Seq(RegionSet), MemoryMatches(m, s, o), SymMatches(m, o)
  PROVE  Marked(m, setRegion(m, level, s, o, rs), s, o)
<1> DEFINE k == Other(level)  n == setRegion(m, level, s, o, rs)
           memory == setMemoryRegion(m.memory, level, s, o, rs)
           sym == setSymRegion(m.sym, level, o, rs)
           dm == Declare(m.declared.memory[s][o], level, rs, At(m.memory[k][s], o))
           ds == Declare(m.declared.sym[o], level, rs, At(m.sym[k], o))
<1>1. k \in Levels /\ k # level /\ \A l \in Levels : l = level \/ l = k
  BY LevelsFacts
<1>2. /\ m.memory \in [Levels -> MemoryMarks] /\ m.sym \in [Levels -> Named]
      /\ m.memory[level][s] \in Named /\ m.memory[k][s] \in Named
      /\ m.sym[level] \in Named /\ m.sym[k] \in Named
      /\ m.declared.memory \in [Addresses -> [Objects -> Declarations]]
      /\ m.declared.sym \in [Objects -> Declarations] /\ s \in Addresses
  BY <1>1, MarkRecordFacts DEF Keeps
<1>3. /\ n.memory = memory /\ n.sym = sym
      /\ n = [memory |-> memory, sym |-> sym, declared |-> n.declared]
      /\ n.declared = [m.declared EXCEPT !.memory[s][o] = dm, !.sym[o] = ds]
  BY DEF setRegion
<1>4. /\ memory \in [Levels -> MemoryMarks]
      /\ \A l \in Levels : /\ DOMAIN memory[l] = DOMAIN m.memory[l]
                           /\ \A t \in DOMAIN m.memory[l] : t # s => memory[l][t] = m.memory[l][t]
      /\ memory[level][s] = With(m.memory[level][s], o, rs)
      /\ memory[k][s] = clearMemoryRegion(m.memory[k][s], o, rs)
  <2>1. \A l \in Levels : s \in DOMAIN m.memory[l]
    BY DEF Keeps
  <2>2. MemorySet(m.memory, memory, level, s, o, rs)
    BY <1>2, <2>1, SetMemoryFacts
  <2>3. QED  BY <2>2 DEF MemorySet
<1>5. /\ sym \in [Levels -> Named]
      /\ sym[level] = With(m.sym[level], o, rs) /\ sym[k] = clearSymRegion(m.sym[k], o, rs)
  BY <1>2, SetSymFacts
<1>6. /\ dm \in Declarations /\ Matches(rs, dm, level)
      /\ Matches(clearRegion(rs, At(m.memory[k][s], o)), dm, k)
      /\ At(m.memory[k][s], o) = <<>> => Matches(<<>>, dm, k)
  <2>1. m.declared.memory[s][o] \in Declarations
    BY <1>2
  <2>2. Matches(At(m.memory[k][s], o), m.declared.memory[s][o], k)
    BY <1>1 DEF MemoryMatches
  <2>3. QED  BY <2>1, <2>2, DeclareFacts
<1>7. /\ ds \in Declarations /\ Matches(rs, ds, level)
      /\ Matches(clearRegion(rs, At(m.sym[k], o)), ds, k)
      /\ At(m.sym[k], o) = <<>> => Matches(<<>>, ds, k)
  <2>1. m.declared.sym[o] \in Declarations
    BY <1>2
  <2>2. Matches(At(m.sym[k], o), m.declared.sym[o], k)
    BY <1>1 DEF SymMatches
  <2>3. QED  BY <2>1, <2>2, DeclareFacts
<1> HIDE DEF n, memory, sym, dm, ds, k
<1>8. /\ n.declared.memory \in [Addresses -> [Objects -> Declarations]]
      /\ n.declared.sym \in [Objects -> Declarations]
      /\ n.declared = [memory |-> n.declared.memory, sym |-> n.declared.sym]
      /\ n.declared.memory[s][o] = dm /\ n.declared.sym[o] = ds
      /\ \A t \in Addresses, p \in Objects :
           t # s \/ p # o => n.declared.memory[t][p] = m.declared.memory[t][p]
      /\ \A p \in Objects : p # o => n.declared.sym[p] = m.declared.sym[p]
  <2>1. m.declared \in [memory : [Addresses -> [Objects -> Declarations]], sym : [Objects -> Declarations]]
    BY DEF MarkRecords
  <2>2. /\ n.declared.memory = [m.declared.memory EXCEPT ![s][o] = dm]
        /\ n.declared.sym = [m.declared.sym EXCEPT ![o] = ds]
        /\ n.declared = [memory |-> n.declared.memory, sym |-> n.declared.sym]
    BY <1>3, <2>1
  <2>3. QED  BY <1>2, <1>6, <1>7, <2>2
<1>9. n \in MarkRecords
  BY <1>3, <1>4, <1>5, <1>8 DEF MarkRecords
<1>10. /\ At(memory[level][s], o) = rs
       /\ At(memory[k][s], o) = IF o \in DOMAIN m.memory[k][s]
                                THEN clearRegion(rs, At(m.memory[k][s], o)) ELSE <<>>
       /\ \A p : p # o => /\ At(memory[level][s], p) = At(m.memory[level][s], p)
                          /\ At(memory[k][s], p) = At(m.memory[k][s], p)
  BY <1>2, <1>4, AddedFacts, ClearMemoryFacts
<1>11. /\ At(sym[level], o) = rs
       /\ At(sym[k], o) = IF o \in DOMAIN m.sym[k] THEN clearRegion(rs, At(m.sym[k], o)) ELSE <<>>
       /\ \A p : p # o => /\ At(sym[level], p) = At(m.sym[level], p)
                          /\ At(sym[k], p) = At(m.sym[k], p)
  BY <1>2, <1>5, AddedFacts, ClearSymFacts
<1>12. Same(m, n, s, o)
  <2>1. ASSUME NEW l \in Levels
        PROVE  /\ DOMAIN n.memory[l] = DOMAIN m.memory[l]
               /\ \A t \in DOMAIN m.memory[l], p \in Objects :
                    t # s \/ p # o => At(n.memory[l][t], p) = At(m.memory[l][t], p)
               /\ \A p \in Objects : p # o => At(n.sym[l], p) = At(m.sym[l], p)
    <3>1. l = level \/ l = k
      BY <1>1
    <3>2. QED  BY <1>3, <1>4, <1>10, <1>11, <3>1
  <2>2. QED  BY <1>8, <2>1 DEF Same
<1>13. MemoryMatches(n, s, o)
  <2>1. o \notin DOMAIN m.memory[k][s] => At(m.memory[k][s], o) = <<>>
    BY DEF At
  <2>2. Matches(At(n.memory[k][s], o), dm, k)
    BY <1>3, <1>6, <1>10, <2>1
  <2>3. Matches(At(n.memory[level][s], o), dm, level)
    BY <1>3, <1>6, <1>10
  <2>4. QED  BY <1>1, <1>8, <2>2, <2>3 DEF MemoryMatches
<1>14. SymMatches(n, o)
  <2>1. o \notin DOMAIN m.sym[k] => At(m.sym[k], o) = <<>>
    BY DEF At
  <2>2. Matches(At(n.sym[k], o), ds, k)
    BY <1>3, <1>7, <1>11, <2>1
  <2>3. Matches(At(n.sym[level], o), ds, level)
    BY <1>3, <1>7, <1>11
  <2>4. QED  BY <1>1, <1>8, <2>2, <2>3 DEF SymMatches
<1>15. QED
  BY <1>9, <1>12, <1>13, <1>14 DEF Marked, n

\* Marking twice is marking,
LEMMA MarkedCompose ==
  ASSUME NEW m, NEW n, NEW r, NEW s, NEW o, Marked(m, n, s, o), Marked(n, r, s, o)
  PROVE  Marked(m, r, s, o)
<1>1. Same(m, n, s, o) /\ Same(n, r, s, o)
  BY DEF Marked
<1>2. Same(m, r, s, o)
  BY <1>1 DEF Same
<1>3. QED
  BY <1>2 DEF Marked

\* and so is not marking.
LEMMA MarkedNothing ==
  ASSUME NEW m \in MarkRecords, NEW s, NEW o, MemoryMatches(m, s, o), SymMatches(m, o)
  PROVE  Marked(m, m, s, o)
BY DEF Marked, Same

\* One more region list for an object that was marked, if at all, as declared.
LEMMA MarkedAgain ==
  ASSUME NEW m \in MarkRecords, NEW n, NEW s, Keeps(m, s), NEW o \in Objects, Marked(m, n, s, o),
         NEW level \in Levels, NEW rs \in Seq(RegionSet)
  PROVE  Marked(m, setRegion(n, level, s, o, rs), s, o)
<1>1. n \in MarkRecords /\ Keeps(n, s) /\ MemoryMatches(n, s, o) /\ SymMatches(n, o)
  BY DEF Marked, Same, Keeps
<1>2. Marked(n, setRegion(n, level, s, o, rs), s, o)
  BY <1>1, SetRegionFacts
<1>3. QED
  BY <1>2, MarkedCompose

\* What is declared of an object without its marks.
LEMMA ClaimedFacts ==
  ASSUME NEW m \in MarkRecords, NEW s, Keeps(m, s), NEW o \in Objects, NEW d \in Declarations,
         \A level \in Levels : /\ Matches(At(m.memory[level][s], o), d, level)
                              /\ Matches(At(m.sym[level], o), d, level)
  PROVE  Marked(m, Claiming(m, s, o, d), s, o)
<1> DEFINE n == Claiming(m, s, o, d)
<1>1. /\ m.declared.memory \in [Addresses -> [Objects -> Declarations]]
      /\ m.declared.sym \in [Objects -> Declarations] /\ s \in Addresses
      /\ m.declared \in [memory : [Addresses -> [Objects -> Declarations]], sym : [Objects -> Declarations]]
      /\ m.memory \in [Levels -> MemoryMarks] /\ m.sym \in [Levels -> Named]
      /\ m = [memory |-> m.memory, sym |-> m.sym, declared |-> m.declared]
  BY DEF MarkRecords, Keeps
<1>2. /\ n = [memory |-> n.memory, sym |-> n.sym, declared |-> n.declared]
      /\ n.memory = m.memory /\ n.sym = m.sym
      /\ n.declared = [m.declared EXCEPT !.memory[s][o] = d, !.sym[o] = d]
  BY <1>1 DEF Claiming
<1> HIDE DEF n
<1>3. /\ n.declared.memory = [m.declared.memory EXCEPT ![s][o] = d]
      /\ n.declared.sym = [m.declared.sym EXCEPT ![o] = d]
      /\ n.declared = [memory |-> n.declared.memory, sym |-> n.declared.sym]
  BY <1>1, <1>2
<1>4. /\ n.declared.memory \in [Addresses -> [Objects -> Declarations]]
      /\ n.declared.sym \in [Objects -> Declarations]
      /\ n.declared.memory[s][o] = d /\ n.declared.sym[o] = d
      /\ \A t \in Addresses, p \in Objects :
           t # s \/ p # o => n.declared.memory[t][p] = m.declared.memory[t][p]
      /\ \A p \in Objects : p # o => n.declared.sym[p] = m.declared.sym[p]
  BY <1>1, <1>3
<1>5. n \in MarkRecords
  BY <1>1, <1>2, <1>3, <1>4 DEF MarkRecords
<1>6. Same(m, n, s, o)
  BY <1>2, <1>4 DEF Same
<1>7. MemoryMatches(n, s, o) /\ SymMatches(n, o)
  BY <1>2, <1>4 DEF MemoryMatches, SymMatches
<1>8. QED
  BY <1>5, <1>6, <1>7 DEF Marked, n

\* Of nothing that is claimed any marks are right.
LEMMA UnclaimedFacts ==
  ASSUME NEW m \in MarkRecords, NEW s, Keeps(m, s), NEW o \in Objects
  PROVE  Marked(m, Unclaimed(m, s, o), s, o)
<1>1. AnyMarks = [high |-> {}, low |-> {}, wide |-> {"high", "low"}]
  BY DEF AnyMarks, NothingDeclared
<1>2. AnyMarks \in Declarations
  BY <1>1 DEF Declarations, Levels
<1>3. \A level \in Levels, rs \in Seq(RegionSet) : Matches(rs, AnyMarks, level)
  BY <1>1 DEF Matches, Levels
<1>4. \A level \in Levels : /\ At(m.memory[level][s], o) \in Seq(RegionSet)
                            /\ At(m.sym[level], o) \in Seq(RegionSet)
  BY MarkRecordFacts, NamedFacts DEF Keeps
<1>5. QED
  BY <1>2, <1>3, <1>4, ClaimedFacts DEF Unclaimed

-----------------------------------------------------------------------------
(* What is declared *)

\* All of an object is a region.
LEMMA WholeIsRegion ==
  ASSUME NEW o \in Objects
  PROVE  <<Whole(o)>> \in Seq(RegionSet)
<1>1. SizeInBits[o] \in Nat /\ 0 < SizeInBits[o] /\ SizeInBits[o] < UInt /\ UInt \in Nat
  BY SizesAssumption
<1>2. Whole(o) \in RegionSet
  BY <1>1, RegionFits DEF Whole
<1>3. QED
  BY <1>2

\* An object has regions by its type, or is one.
LEMMA RegionsOfFacts ==
  ASSUME NEW level \in Levels, NEW o \in Objects
  PROVE  RegionsOf(level, o) \in Seq(RegionSet)
BY WholeIsRegion, DeclarationsAssumption DEF RegionsOf, Levels

\* An argument where it is declared, or as a whole.
Declared(arg) ==
  /\ arg.level \in {"high", "low", "mixed"}
  /\ arg.offset \in Nat /\ arg.bits \in Nat \ {0} /\ arg.bits < UInt /\ arg.offset + arg.bits <= UInt
  /\ \A o \in Objects : arg.offset + SizeInBits[o] <= UInt

\* A sensitive argument is in its object, where it is declared and at its beginning.
LEMMA SensitiveFacts ==
  ASSUME NEW arg \in Sensitive
  PROVE  Declared(arg) /\ Declared(AsWhole(arg))
<1>1. arg \in [level : {"high", "low", "mixed"}, type : STRING, offset : Nat, bits : Nat \ {0}, pointer : BOOLEAN]
  BY DeclarationsAssumption
<1>2. Declared(arg)
  BY <1>1, DeclarationsAssumption DEF Declared
<1>3. AsWhole(arg) \in [level : {"high", "low", "mixed"}, type : STRING, offset : Nat, bits : Nat \ {0}, pointer : BOOLEAN]
      /\ AsWhole(arg).offset = 0 /\ AsWhole(arg).bits = arg.bits
  BY <1>1 DEF AsWhole
<1>4. \A o \in Objects : SizeInBits[o] \in Nat /\ SizeInBits[o] < UInt
  BY SizesAssumption
<1>5. UInt \in Nat /\ \A o \in Objects : 0 + SizeInBits[o] <= UInt
  BY <1>4, SizesAssumption
<1>6. 0 + arg.bits <= UInt
  BY <1>2, <1>5 DEF Declared
<1>7. QED
  BY <1>2, <1>3, <1>5, <1>6 DEF Declared

\* An argument has regions by its type, or is one.
LEMMA RegionsForFacts ==
  ASSUME NEW arg, Declared(arg), NEW level \in Levels, NEW o \in Objects
  PROVE  RegionsFor(arg, level, o) \in Seq(RegionSet)
<1> DEFINE n == IF arg.pointer THEN SizeInBits[o] ELSE arg.bits
<1>1. n \in Nat /\ 0 < n /\ n < UInt /\ arg.offset + n <= UInt /\ arg.offset \in Nat
  BY SizesAssumption DEF Declared
<1> HIDE DEF n
<1>2. region(arg.offset, n) \in RegionSet
  BY <1>1, RegionFits
<1>3. CASE arg.type \in DOMAIN TypeRegions[level]
  BY <1>3, DeclarationsAssumption DEF RegionsFor, Levels
<1>4. CASE arg.type \notin DOMAIN TypeRegions[level]
  BY <1>2, <1>4 DEF RegionsFor, n
<1>5. QED
  BY <1>3, <1>4

\* An argument is marked as it is declared, with the regions of its type or as a whole.
LEMMA SensitiveIsMarked ==
  ASSUME NEW arg, Declared(arg), NEW m \in MarkRecords, NEW s, Keeps(m, s), NEW o \in Objects,
         MemoryMatches(m, s, o), SymMatches(m, o)
  PROVE  Marked(m, setSymRegionSensitive(m, s, o, arg), s, o)
<1>1. Marked(m, m, s, o)
  BY MarkedNothing
<1>2. CASE arg.level \in Levels
  <2>1. RegionsFor(arg, arg.level, o) \in Seq(RegionSet)
    BY <1>2, RegionsForFacts
  <2>2. QED  BY <1>2, <2>1, SetRegionFacts DEF setSymRegionSensitive
<1>3. CASE arg.level \notin Levels
  <2>1. ASSUME NEW n, Marked(m, n, s, o), NEW level \in Levels
        PROVE  Marked(m, ofType(n, level, s, o, arg.type), s, o)
    <3>1. CASE arg.type \in DOMAIN TypeRegions[level]
      <4>1. TypeRegions[level][arg.type] \in Seq(RegionSet)
        BY <3>1, DeclarationsAssumption DEF Levels
      <4>2. QED  BY <2>1, <3>1, <4>1, MarkedAgain DEF ofType
    <3>2. CASE arg.type \notin DOMAIN TypeRegions[level]
      BY <2>1, <3>2 DEF ofType
    <3>3. QED  BY <3>1, <3>2
  <2>2. Marked(m, ofType(m, "low", s, o, arg.type), s, o)
    BY <1>1, <2>1 DEF Levels
  <2>3. Marked(m, ofType(ofType(m, "low", s, o, arg.type), "high", s, o, arg.type), s, o)
    BY <2>1, <2>2 DEF Levels
  <2>4. QED  BY <1>3, <2>3 DEF setSymRegionSensitive
<1>4. QED
  BY <1>2, <1>3

-----------------------------------------------------------------------------
(* The invariant: the marks of an object that a state has, and of every     *)
(* named symbol, are what is declared of them; nothing is marked or         *)
(* declared of what is not named.                                           *)

ObjectsAreNamed ==
  /\ named \subseteq Objects
  /\ Live \subseteq Addresses /\ objects = [s \in Live |-> objects[s]]
  /\ \A s \in Live : objects[s] \subseteq named /\ Keeps(Marks, s)

UnnamedIsUnmarked ==
  \A o \in Objects \ named :
    /\ declared.sym[o] = NothingDeclared /\ \A level \in Levels : At(symRegions[level], o) = <<>>
    /\ \A s \in Live : /\ declared.memory[s][o] = NothingDeclared
                       /\ \A level \in Levels : At(memoryRegions[level][s], o) = <<>>

IInv == Marks \in MarkRecords /\ ObjectsAreNamed /\ UnnamedIsUnmarked /\ MarksAreTheDeclarations

\* No marks are right of what nothing is declared of.
LEMMA NothingMatches ==
  ASSUME NEW level \in Levels
  PROVE  Matches(<<>>, NothingDeclared, level) /\ NothingDeclared \in Declarations
<1>1. NothingDeclared[level] = {} /\ level \notin NothingDeclared.wide
  BY DEF NothingDeclared, Levels
<1>2. NothingDeclared \in Declarations
  BY DEF NothingDeclared, Declarations
<1>3. QED
  BY <1>1, <1>2, FitsNone, BitsOfNone DEF Matches

\* An object that a state has, or that is new, is marked as declared.
LEMMA MatchesBefore ==
  ASSUME IInv, NEW s \in Live, NEW o \in Objects, o \in objects[s] \/ o \notin named
  PROVE  /\ MemoryMatches(Marks, s, o) /\ SymMatches(Marks, o) /\ Keeps(Marks, s)
         /\ Marks \in MarkRecords
<1>1. Marks.memory = memoryRegions /\ Marks.sym = symRegions /\ Marks.declared = declared
  BY DEF Marks
<1>2. CASE o \in objects[s]
  <2>1. o \in named
    BY <1>2 DEF IInv, ObjectsAreNamed
  <2>2. MemoryMatches(Marks, s, o) /\ SymMatches(Marks, o)
    BY <1>1, <1>2, <2>1 DEF IInv, MarksAreTheDeclarations, MemoryMatches, SymMatches
  <2>3. QED  BY <2>2 DEF IInv, ObjectsAreNamed
<1>3. CASE o \notin named
  <2>1. MemoryMatches(Marks, s, o) /\ SymMatches(Marks, o)
    BY <1>1, <1>3, NothingMatches DEF IInv, UnnamedIsUnmarked, MemoryMatches, SymMatches
  <2>2. QED  BY <2>1 DEF IInv, ObjectsAreNamed
<1>4. QED
  BY <1>2, <1>3

\* An object of a state that has become marked, and possibly named.
LEMMA BecomesMarkedPreserves ==
  ASSUME IInv, NEW s \in Live, NEW o \in Objects, NEW m, Marked(Marks, m, s, o), BecomesMarked(s, o, m)
  PROVE  IInv'
<1>1. /\ objects' = [objects EXCEPT ![s] = @ \cup {o}] /\ named' = named \cup {o}
      /\ memoryRegions' = m.memory /\ symRegions' = m.sym /\ declared' = m.declared
  BY DEF BecomesMarked
<1>2. /\ m \in MarkRecords /\ Same(Marks, m, s, o) /\ MemoryMatches(m, s, o) /\ SymMatches(m, o)
  BY DEF Marked
<1>3. Marks' = m
  BY <1>1, <1>2 DEF Marks, MarkRecords
<1>4. Marks.memory = memoryRegions /\ Marks.sym = symRegions /\ Marks.declared = declared
  BY DEF Marks
<1>5. /\ named \subseteq Objects /\ Live \subseteq Addresses /\ objects = [t \in Live |-> objects[t]]
      /\ \A t \in Live : /\ objects[t] \subseteq named /\ t \in Addresses
                        /\ \A level \in Levels : t \in DOMAIN memoryRegions[level]
  BY <1>4 DEF IInv, ObjectsAreNamed, Keeps
<1>6. /\ Live' = Live /\ objects' = [t \in Live |-> objects'[t]]
      /\ objects'[s] = objects[s] \cup {o} /\ \A t \in Live : t # s => objects'[t] = objects[t]
  BY <1>1, <1>5 DEF Live
<1>7. ObjectsAreNamed'
  <2>1. \A t \in Live : \A level \in Levels : t \in DOMAIN memoryRegions'[level]
    BY <1>1, <1>2, <1>4, <1>5 DEF Same
  <2>2. \A t \in Live : Keeps(Marks, t)'
    BY <1>1, <1>3, <1>5, <2>1 DEF Keeps
  <2>3. \A t \in Live : objects'[t] \subseteq named'
    BY <1>1, <1>5, <1>6
  <2>4. QED  BY <1>1, <1>5, <1>6, <2>2, <2>3 DEF ObjectsAreNamed
<1>8. UnnamedIsUnmarked'
  <2>1. ASSUME NEW p \in Objects \ named'
        PROVE  /\ declared'.sym[p] = NothingDeclared
               /\ \A level \in Levels : At(symRegions'[level], p) = <<>>
               /\ \A t \in Live : /\ declared'.memory[t][p] = NothingDeclared
                                  /\ \A level \in Levels : At(memoryRegions'[level][t], p) = <<>>
    <3>1. p # o /\ p \in Objects \ named
      BY <1>1, <2>1
    <3>2. /\ declared.sym[p] = NothingDeclared /\ \A level \in Levels : At(symRegions[level], p) = <<>>
          /\ \A t \in Live : /\ declared.memory[t][p] = NothingDeclared
                             /\ \A level \in Levels : At(memoryRegions[level][t], p) = <<>>
      BY <3>1 DEF IInv, UnnamedIsUnmarked
    <3>3. QED  BY <1>1, <1>2, <1>4, <1>5, <3>1, <3>2 DEF Same
  <2>2. QED  BY <1>6, <2>1 DEF UnnamedIsUnmarked
<1>9. MarksAreTheDeclarations'
  <2>1. ASSUME NEW p \in named', NEW level \in Levels
        PROVE  /\ Matches(At(symRegions'[level], p), declared'.sym[p], level)
               /\ \A t \in Live : p \in objects'[t] =>
                    Matches(At(memoryRegions'[level][t], p), declared'.memory[t][p], level)
    <3>1. p \in Objects
      BY <1>1, <1>5
    <3>2. CASE p = o
      <4>1. Matches(At(symRegions'[level], p), declared'.sym[p], level)
        BY <1>1, <1>2, <3>2 DEF SymMatches
      <4>2. ASSUME NEW t \in Live, p \in objects'[t]
            PROVE  Matches(At(memoryRegions'[level][t], p), declared'.memory[t][p], level)
        <5>1. CASE t = s
          BY <1>1, <1>2, <3>2, <5>1 DEF MemoryMatches
        <5>2. CASE t # s
          <6>1. p \in objects[t] /\ p \in named
            BY <1>5, <1>6, <4>2, <5>2
          <6>2. Matches(At(memoryRegions[level][t], p), declared.memory[t][p], level)
            BY <6>1 DEF IInv, MarksAreTheDeclarations
          <6>3. /\ At(memoryRegions'[level][t], p) = At(memoryRegions[level][t], p)
                /\ declared'.memory[t][p] = declared.memory[t][p]
            BY <1>1, <1>2, <1>4, <1>5, <3>1, <5>2 DEF Same
          <6>4. QED  BY <6>2, <6>3
        <5>3. QED  BY <5>1, <5>2
      <4>3. QED  BY <4>1, <4>2
    <3>3. CASE p # o
      <4>1. p \in named
        BY <1>1, <3>3
      <4>2. /\ Matches(At(symRegions[level], p), declared.sym[p], level)
            /\ \A t \in Live : p \in objects[t] =>
                 Matches(At(memoryRegions[level][t], p), declared.memory[t][p], level)
        BY <4>1 DEF IInv, MarksAreTheDeclarations
      <4>3. At(symRegions'[level], p) = At(symRegions[level], p) /\ declared'.sym[p] = declared.sym[p]
        BY <1>1, <1>2, <1>4, <3>1, <3>3 DEF Same
      <4>4. ASSUME NEW t \in Live
            PROVE  /\ At(memoryRegions'[level][t], p) = At(memoryRegions[level][t], p)
                   /\ declared'.memory[t][p] = declared.memory[t][p]
                   /\ p \in objects'[t] => p \in objects[t]
        <5>1. t \in Addresses /\ t \in DOMAIN memoryRegions[level]
          BY <1>5
        <5>2. p \in objects'[t] => p \in objects[t]
          BY <1>6, <3>3
        <5>3. QED  BY <1>1, <1>2, <1>4, <3>1, <3>3, <5>1, <5>2 DEF Same
      <4>5. QED  BY <4>2, <4>3, <4>4
    <3>4. QED  BY <3>2, <3>3
  <2>2. QED  BY <1>6, <2>1 DEF MarksAreTheDeclarations
<1>10. QED
  BY <1>2, <1>3, <1>7, <1>8, <1>9 DEF IInv

\* No marks.
LEMMA NoMarksFacts ==
  /\ NoMarks \in MarkRecords /\ Keeps(NoMarks, First)
  /\ \A level \in Levels : \A o : /\ At(NoMarks.memory[level][First], o) = <<>>
                              /\ At(NoMarks.sym[level], o) = <<>>
  /\ \A o \in Objects : /\ NoMarks.declared.sym[o] = NothingDeclared
                        /\ \A s \in Addresses : NoMarks.declared.memory[s][o] = NothingDeclared
  /\ MemoryMatches(NoMarks, First, FirstObject) /\ SymMatches(NoMarks, FirstObject)
<1>1. First \in Addresses /\ FirstObject \in Objects
  BY StatesAssumption
<1>2. <<>> \in Named /\ \A o : At(<<>>, o) = <<>>
  <2>1. <<>> = [k \in {} |-> {}]
    OBVIOUS
  <2>2. <<>> \in [{} -> Seq(RegionSet)]
    BY <2>1
  <2>3. QED  BY <2>1, <2>2 DEF Named, At
<1>3. [s \in {First} |-> <<>>] \in MemoryMarks
  <2>1. [s \in {First} |-> <<>>] \in [{First} -> Named]
    BY <1>2
  <2>2. QED  BY <1>1, <2>1 DEF MemoryMarks
<1>4. NothingDeclared \in Declarations
  BY NothingMatches DEF Levels
<1>5. NoMarks \in MarkRecords
  BY <1>2, <1>3, <1>4 DEF NoMarks, MarkRecords
<1>6. /\ \A level \in Levels : NoMarks.memory[level] = [s \in {First} |-> <<>>] /\ NoMarks.sym[level] = <<>>
      /\ NoMarks.declared.memory = [s \in Addresses |-> [o \in Objects |-> NothingDeclared]]
      /\ NoMarks.declared.sym = [o \in Objects |-> NothingDeclared]
  BY DEF NoMarks
<1>7. Keeps(NoMarks, First)
  BY <1>1, <1>6 DEF Keeps
<1>8. \A level \in Levels : \A o : At(NoMarks.memory[level][First], o) = <<>> /\ At(NoMarks.sym[level], o) = <<>>
  BY <1>2, <1>6
<1>9. \A o \in Objects : /\ NoMarks.declared.sym[o] = NothingDeclared
                        /\ \A s \in Addresses : NoMarks.declared.memory[s][o] = NothingDeclared
  BY <1>6
<1>10. MemoryMatches(NoMarks, First, FirstObject) /\ SymMatches(NoMarks, FirstObject)
  BY <1>1, <1>8, <1>9, NothingMatches DEF MemoryMatches, SymMatches
<1>11. QED
  BY <1>5, <1>7, <1>8, <1>9, <1>10

\* Initially the object of the first state may be marked.
LEMMA InitIsMarked ==
  MarksInit => IInv
<1>1. SUFFICES ASSUME MarksInit  PROVE IInv
  OBVIOUS
<1>2. /\ named = {FirstObject} /\ objects = [s \in {First} |-> {FirstObject}]
      /\ First \in Addresses /\ FirstObject \in Objects
  BY <1>1, StatesAssumption DEF MarksInit
<1>3. PICK m \in {NoMarks} \cup {setSymRegionSensitive(NoMarks, First, FirstObject, AsWhole(arg)) : arg \in Sensitive} :
        memoryRegions = m.memory /\ symRegions = m.sym /\ declared = m.declared
  BY <1>1 DEF MarksInit
<1>4. Marked(NoMarks, m, First, FirstObject)
  <2>1. CASE m = NoMarks
    BY <2>1, NoMarksFacts, MarkedNothing
  <2>2. CASE \E arg \in Sensitive : m = setSymRegionSensitive(NoMarks, First, FirstObject, AsWhole(arg))
    BY <1>2, <2>2, NoMarksFacts, SensitiveFacts, SensitiveIsMarked
  <2>3. QED  BY <1>3, <2>1, <2>2
<1>5. m \in MarkRecords /\ Same(NoMarks, m, First, FirstObject)
      /\ MemoryMatches(m, First, FirstObject) /\ SymMatches(m, FirstObject)
  BY <1>4 DEF Marked
<1>6. Marks = m
  BY <1>3, <1>5 DEF Marks, MarkRecords
<1>7. ObjectsAreNamed
  <2>1. Keeps(m, First)
    BY <1>5, NoMarksFacts DEF Keeps, Same
  <2>2. QED  BY <1>2, <1>6, <2>1 DEF ObjectsAreNamed, Live
<1>8. UnnamedIsUnmarked
  <2>1. ASSUME NEW o \in Objects \ named
        PROVE  /\ declared.sym[o] = NothingDeclared /\ \A level \in Levels : At(symRegions[level], o) = <<>>
               /\ declared.memory[First][o] = NothingDeclared
               /\ \A level \in Levels : At(memoryRegions[level][First], o) = <<>>
    <3>1. o # FirstObject /\ o \in Objects
      BY <1>2, <2>1
    <3>2. /\ NoMarks.declared.sym[o] = NothingDeclared /\ NoMarks.declared.memory[First][o] = NothingDeclared
          /\ \A level \in Levels : /\ At(NoMarks.memory[level][First], o) = <<>>
                                  /\ At(NoMarks.sym[level], o) = <<>>
                                  /\ First \in DOMAIN NoMarks.memory[level]
      BY <1>2, <3>1, NoMarksFacts DEF Keeps
    <3>3. /\ declared.sym[o] = NoMarks.declared.sym[o]
          /\ declared.memory[First][o] = NoMarks.declared.memory[First][o]
          /\ \A level \in Levels :
               /\ At(symRegions[level], o) = At(NoMarks.sym[level], o)
               /\ At(memoryRegions[level][First], o) = At(NoMarks.memory[level][First], o)
      BY <1>2, <1>3, <1>5, <3>1, <3>2 DEF Same
    <3>4. QED  BY <3>2, <3>3
  <2>2. QED  BY <1>2, <2>1 DEF UnnamedIsUnmarked, Live
<1>9. MarksAreTheDeclarations
  BY <1>2, <1>3, <1>5 DEF MarksAreTheDeclarations, MemoryMatches, SymMatches, Live
<1>10. QED
  BY <1>5, <1>6, <1>7, <1>8, <1>9 DEF IInv

-----------------------------------------------------------------------------
(* The actions *)

\* A label marks all of an object.
LEMMA LabelPreserves ==
  ASSUME IInv, Label
  PROVE  IInv'
<1>1. PICK s \in Live, level \in Levels, o \in Objects :
        o \in objects[s] /\ BecomesMarked(s, o, setRegion(Marks, level, s, o, <<Whole(o)>>))
  BY DEF Label, IInv, ObjectsAreNamed
<1>2. Marked(Marks, setRegion(Marks, level, s, o, <<Whole(o)>>), s, o)
  BY <1>1, MatchesBefore, WholeIsRegion, SetRegionFacts
<1>3. QED
  BY <1>1, <1>2, BecomesMarkedPreserves

\* An argument is marked as it is declared.
LEMMA MarkArgumentPreserves ==
  ASSUME IInv, NEW s \in Live, NEW arg \in Sensitive, NEW o \in objects[s], MarkArgument(s, o, arg)
  PROVE  IInv'
<1>1. o \in Objects
  BY DEF IInv, ObjectsAreNamed
<1>2. Marked(Marks, setSymRegionSensitive(Marks, s, o, arg), s, o)
  BY <1>1, MatchesBefore, SensitiveFacts, SensitiveIsMarked
<1>3. QED
  BY <1>1, <1>2, BecomesMarkedPreserves DEF MarkArgument

\* A new object is marked as the pointer to it is.
LEMMA LazyInitPreserves ==
  ASSUME IInv, NEW s \in Live, NEW o \in Objects, NEW at, NEW c, LazyInit(s, c, o, at)
  PROVE  IInv'
<1> DEFINE n == Follows(Marks, "high", s, c, o, at)
           m == Follows(n, "low", s, c, o, at)
<1>1. o \notin named
  BY DEF LazyInit, Fresh
<1>2. MemoryMatches(Marks, s, o) /\ SymMatches(Marks, o) /\ Keeps(Marks, s) /\ Marks \in MarkRecords
  BY <1>1, MatchesBefore
<1>3. ASSUME NEW k, Marked(Marks, k, s, o), NEW level \in Levels
      PROVE  Marked(Marks, Follows(k, level, s, c, o, at), s, o)
  BY <1>2, <1>3, RegionsOfFacts, MarkedAgain DEF Follows
<1>4. Marked(Marks, Marks, s, o)
  BY <1>2, MarkedNothing
<1>5. Marked(Marks, n, s, o)
  BY <1>3, <1>4 DEF Levels
<1>6. Marked(Marks, m, s, o)
  BY <1>3, <1>5 DEF Levels
<1>7. Marked(Marks, Unclaimed(m, s, o), s, o)
  <2>1. m \in MarkRecords /\ Keeps(m, s)
    BY <1>2, <1>6 DEF Marked, Same, Keeps
  <2>2. Marked(m, Unclaimed(m, s, o), s, o)
    BY <2>1, UnclaimedFacts
  <2>3. QED  BY <1>6, <2>2, MarkedCompose
<1>8. BecomesMarked(s, o, m) \/ BecomesMarked(s, o, Unclaimed(m, s, o))
  BY DEF LazyInit
<1>9. QED
  BY <1>6, <1>7, <1>8, BecomesMarkedPreserves

\* Clearing from nothing leaves nothing.
LEMMA NothingToClear ==
  ASSUME NEW rs \in Seq(RegionSet)
  PROVE  clearRegion(rs, <<>>) = <<>>
<1>1. ASSUME NEW r  PROVE clear(r, <<>>) = <<>>
  <2>1. <<>> \in Seq(RegionSet) /\ Len(<<>>) = 0
    OBVIOUS
  <2>2. \E f : ClearsBy(f, r, <<>>)
    BY <2>1, ClearLoop
  <2>3. QED  BY <2>1, <2>2 DEF ClearsBy
<1>2. PICK f : /\ clearRegion(rs, <<>>) = f[Len(rs)]
               /\ f[0] = <<>>
               /\ \A i \in 1 .. Len(rs) : f[i] = clear(rs[i], f[i - 1])
  BY ClearRegionLoop
<1> DEFINE G == {i \in 0 .. Len(rs) : f[i] = <<>>}
<1>3. Len(rs) \in Nat
  BY LenProperties
<1>4. 0 \in G
  BY <1>2, <1>3
<1>5. \A i \in 1 .. Len(rs) : i - 1 \in G => i \in G
  BY <1>1, <1>2, <1>3
<1> HIDE DEF G
<1>6. \A i \in 0 .. Len(rs) : i \in G
  BY <1>3, <1>4, <1>5, UpTo
<1>7. QED
  BY <1>2, <1>3, <1>6 DEF G

\* The marks of a new object that is marked high.
LEMMA NewIsHigh ==
  ASSUME NEW m \in MarkRecords, NEW s, Keeps(m, s), NEW o \in Objects, NEW rs \in Seq(RegionSet),
         \A level \in Levels : At(m.memory[level][s], o) = <<>> /\ At(m.sym[level], o) = <<>>
  PROVE  LET n == setRegion(m, "high", s, o, rs)
         IN /\ At(n.memory["high"][s], o) = rs /\ At(n.memory["low"][s], o) = <<>>
            /\ At(n.sym["high"], o) = rs /\ At(n.sym["low"], o) = <<>>
<1> DEFINE n == setRegion(m, "high", s, o, rs)
           memory == setMemoryRegion(m.memory, "high", s, o, rs)
           sym == setSymRegion(m.sym, "high", o, rs)
<1>1. "high" \in Levels /\ "low" \in Levels /\ Other("high") = "low"
  BY DEF Levels, Other
<1>2. n.memory = memory /\ n.sym = sym
  BY DEF setRegion
<1>3. /\ m.memory \in [Levels -> MemoryMarks] /\ m.sym \in [Levels -> Named]
      /\ \A level \in Levels : /\ s \in DOMAIN m.memory[level] /\ m.memory[level][s] \in Named
                              /\ m.sym[level] \in Named
  BY <1>1, MarkRecordFacts DEF Keeps
<1>4. /\ memory["high"][s] = With(m.memory["high"][s], o, rs)
      /\ memory["low"][s] = clearMemoryRegion(m.memory["low"][s], o, rs)
  BY <1>1, <1>3, SetMemoryFacts DEF MemorySet
<1>5. /\ sym["high"] = With(m.sym["high"], o, rs)
      /\ sym["low"] = clearSymRegion(m.sym["low"], o, rs)
  BY <1>1, <1>3, SetSymFacts
<1> HIDE DEF n, memory, sym
<1>6. clearRegion(rs, <<>>) = <<>>
  BY NothingToClear
<1>7. At(memory["high"][s], o) = rs /\ At(sym["high"], o) = rs
  BY <1>1, <1>3, <1>4, <1>5, AddedFacts
<1>8. At(memory["low"][s], o) = <<>>
  BY <1>1, <1>3, <1>4, <1>6, ClearMemoryFacts
<1>9. At(sym["low"], o) = <<>>
  BY <1>1, <1>3, <1>5, <1>6, ClearSymFacts
<1>10. QED
  BY <1>2, <1>7, <1>8, <1>9 DEF n

\* The result of a function has no other marks than those of the rules.
LEMMA ResultsPreserves ==
  ASSUME IInv, NEW s \in Live, NEW o \in Objects, NEW rs \in Seq(RegionSet),
         NEW d \in Declarations, Known(rs, d), Results(s, o, rs, d)
  PROVE  IInv'
<1> DEFINE n == IF rs = <<>> THEN Marks ELSE setRegion(Marks, "high", s, o, rs)
<1>1. o \notin named
  BY DEF Results, Fresh
<1>2. MemoryMatches(Marks, s, o) /\ SymMatches(Marks, o) /\ Keeps(Marks, s) /\ Marks \in MarkRecords
  BY <1>1, MatchesBefore
<1>3. Marked(Marks, n, s, o)
  BY <1>2, MarkedNothing, SetRegionFacts DEF Levels
<1>4. \A level \in Levels : At(Marks.memory[level][s], o) = <<>> /\ At(Marks.sym[level], o) = <<>>
  BY <1>1 DEF IInv, UnnamedIsUnmarked, Marks
<1>5. /\ At(n.memory["high"][s], o) = rs /\ At(n.memory["low"][s], o) = <<>>
      /\ At(n.sym["high"], o) = rs /\ At(n.sym["low"], o) = <<>>
  <2>1. CASE rs = <<>>
    BY <1>4, <2>1 DEF Levels
  <2>2. CASE rs # <<>>
    BY <1>2, <1>4, <2>2, NewIsHigh
  <2>3. QED  BY <2>1, <2>2
<1> HIDE DEF n
<1>6. Matches(rs, d, "high") /\ Matches(<<>>, d, "low")
  <2>1. CASE d = AnyMarks
    BY <2>1, FitsNone DEF AnyMarks, NothingDeclared, Matches
  <2>2. CASE d # AnyMarks
    <3>1. PICK bits \in SUBSET Bits(rs) :
            d = [high |-> bits, low |-> {}, wide |-> IF bits = Bits(rs) THEN {} ELSE {"high"}]
      BY <2>2 DEF Known
    <3>2. QED  BY <3>1, FitsNone, BitsOfNone DEF Matches
  <2>3. QED  BY <2>1, <2>2
<1>7. Marked(n, Claiming(n, s, o, d), s, o)
  <2>1. n \in MarkRecords /\ Keeps(n, s)
    BY <1>2, <1>3 DEF Marked, Same, Keeps
  <2>2. \A level \in Levels : /\ Matches(At(n.memory[level][s], o), d, level)
                             /\ Matches(At(n.sym[level], o), d, level)
    BY <1>5, <1>6 DEF Levels
  <2>3. QED  BY <2>1, <2>2, ClaimedFacts
<1>8. Marked(Marks, Claiming(n, s, o, d), s, o)
  BY <1>3, <1>7, MarkedCompose
<1>9. BecomesMarked(s, o, Claiming(n, s, o, d))
  BY DEF Results, n
<1>10. QED
  BY <1>8, <1>9, BecomesMarkedPreserves

\* A copy of a state has its objects and its marks.
LEMMA CopiedPreserves ==
  ASSUME IInv, NEW s \in Live, NEW t \in Addresses \ Live, Copied(s, t)
  PROVE  IInv'
<1>1. /\ objects' = With(objects, t, objects[s]) /\ symRegions' = symRegions /\ named' = named
      /\ memoryRegions' = [level \in Levels |-> With(memoryRegions[level], t, memoryRegions[level][s])]
      /\ declared' = [declared EXCEPT !.memory[t] = declared.memory[s]]
  BY DEF Copied
<1>2. /\ named \subseteq Objects /\ Live \subseteq Addresses
      /\ \A u \in Live : /\ objects[u] \subseteq named /\ u \in Addresses
                        /\ \A level \in Levels : u \in DOMAIN memoryRegions[level]
  BY DEF IInv, ObjectsAreNamed, Keeps, Marks
<1>3. /\ Live' = Live \cup {t} /\ objects' = [u \in Live \cup {t} |-> objects'[u]]
      /\ objects'[t] = objects[s] /\ \A u \in Live : objects'[u] = objects[u]
  BY <1>1 DEF Live, With
<1>4. /\ memoryRegions \in [Levels -> MemoryMarks] /\ symRegions \in [Levels -> Named]
      /\ declared.memory \in [Addresses -> [Objects -> Declarations]]
      /\ declared \in [memory : [Addresses -> [Objects -> Declarations]], sym : [Objects -> Declarations]]
  BY DEF IInv, MarkRecords, Marks
<1>5. \A level \in Levels :
        /\ DOMAIN memoryRegions'[level] = DOMAIN memoryRegions[level] \cup {t}
        /\ memoryRegions'[level][t] = memoryRegions[level][s]
        /\ \A u \in Live : memoryRegions'[level][u] = memoryRegions[level][u]
  BY <1>1, <1>2 DEF With
<1>6. /\ declared'.sym = declared.sym /\ declared'.memory[t] = declared.memory[s]
      /\ \A u \in Live : declared'.memory[u] = declared.memory[u]
  BY <1>1, <1>2, <1>4
<1>7. Marks' \in MarkRecords
  <2>1. ASSUME NEW level \in Levels
        PROVE  With(memoryRegions[level], t, memoryRegions[level][s]) \in MemoryMarks
    <3>1. PICK A \in SUBSET Addresses : memoryRegions[level] \in [A -> Named]
      BY <1>4 DEF MemoryMarks
    <3>2. s \in A
      BY <1>2, <3>1
    <3>3. With(memoryRegions[level], t, memoryRegions[level][s]) \in [A \cup {t} -> Named]
      BY <3>1, <3>2 DEF With
    <3>4. QED  BY <3>3 DEF MemoryMarks
  <2>2. memoryRegions' \in [Levels -> MemoryMarks]
    BY <1>1, <2>1
  <2>3. declared' \in [memory : [Addresses -> [Objects -> Declarations]], sym : [Objects -> Declarations]]
    BY <1>1, <1>2, <1>4
  <2>4. QED  BY <1>1, <1>4, <2>2, <2>3 DEF Marks, MarkRecords
<1>8. ObjectsAreNamed'
  <2>1. \A u \in Live' : Keeps(Marks, u)'
    BY <1>2, <1>3, <1>5 DEF Keeps, Marks
  <2>2. \A u \in Live' : objects'[u] \subseteq named'
    BY <1>1, <1>2, <1>3
  <2>3. QED  BY <1>1, <1>2, <1>3, <2>1, <2>2 DEF ObjectsAreNamed
<1>9. UnnamedIsUnmarked'
  <2>1. ASSUME NEW o \in Objects \ named, NEW u \in Live'
        PROVE  /\ declared'.memory[u][o] = NothingDeclared
               /\ \A level \in Levels : At(memoryRegions'[level][u], o) = <<>>
    <3>1. CASE u = t
      BY <1>5, <1>6, <3>1 DEF IInv, UnnamedIsUnmarked
    <3>2. CASE u \in Live
      BY <1>5, <1>6, <3>2 DEF IInv, UnnamedIsUnmarked
    <3>3. QED  BY <1>3, <3>1, <3>2
  <2>2. \A o \in Objects \ named : /\ declared'.sym[o] = NothingDeclared
                                 /\ \A level \in Levels : At(symRegions'[level], o) = <<>>
    BY <1>1, <1>6 DEF IInv, UnnamedIsUnmarked
  <2>3. QED  BY <1>1, <2>1, <2>2 DEF UnnamedIsUnmarked
<1>10. MarksAreTheDeclarations'
  <2>1. ASSUME NEW o \in named, NEW level \in Levels, NEW u \in Live', o \in objects'[u]
        PROVE  Matches(At(memoryRegions'[level][u], o), declared'.memory[u][o], level)
    <3>1. CASE u = t
      BY <1>3, <1>5, <1>6, <2>1, <3>1 DEF IInv, MarksAreTheDeclarations
    <3>2. CASE u \in Live
      BY <1>3, <1>5, <1>6, <2>1, <3>2 DEF IInv, MarksAreTheDeclarations
    <3>3. QED  BY <1>3, <3>1, <3>2
  <2>2. \A o \in named, level \in Levels : Matches(At(symRegions'[level], o), declared'.sym[o], level)
    BY <1>1, <1>6 DEF IInv, MarksAreTheDeclarations
  <2>3. QED  BY <1>1, <2>1, <2>2 DEF MarksAreTheDeclarations
<1>11. QED
  BY <1>7, <1>8, <1>9, <1>10 DEF IInv

\* The marks of a state that has terminated say nothing of the others.
LEMMA ForgottenPreserves ==
  ASSUME IInv, NEW s \in Live, Forgotten(s)
  PROVE  IInv'
<1>1. /\ objects' = [t \in Live \ {s} |-> objects[t]]
      /\ memoryRegions' = memoryRegions /\ symRegions' = symRegions
      /\ named' = named /\ declared' = declared
  BY DEF Forgotten
<1>2. Marks' = Marks
  BY <1>1 DEF Marks
<1>3. Live' = Live \ {s} /\ \A t \in Live \ {s} : objects'[t] = objects[t]
  BY <1>1 DEF Live
<1>4. ObjectsAreNamed'
  BY <1>1, <1>2, <1>3 DEF IInv, ObjectsAreNamed, Keeps
<1>5. UnnamedIsUnmarked'
  BY <1>1, <1>3 DEF IInv, UnnamedIsUnmarked
<1>6. MarksAreTheDeclarations'
  BY <1>1, <1>3 DEF IInv, MarksAreTheDeclarations
<1>7. QED
  BY <1>2, <1>4, <1>5, <1>6 DEF IInv

\* Every step preserves the invariant.
LEMMA StepPreserves ==
  ASSUME IInv, [MarksNext]_marks
  PROVE  IInv'
<1>1. CASE Label
  BY <1>1, LabelPreserves
<1>2. CASE Counted /\ \E s \in Live, arg \in Sensitive : \E o \in objects[s] : MarkArgument(s, o, arg)
  BY <1>2, MarkArgumentPreserves
<1>3. CASE Counted /\ \E s \in Live, o \in Objects, at \in Nat : \E c \in objects[s] : LazyInit(s, c, o, at)
  BY <1>3, LazyInitPreserves
<1>4. CASE Counted /\ \E s \in Live, o \in Objects, rs \in Seq(RegionSet) :
             \E d \in {d \in [high : SUBSET Nat, low : SUBSET Nat, wide : SUBSET Levels] : Known(rs, d)} :
               Results(s, o, rs, d)
  BY <1>4, ResultsPreserves DEF Declarations
<1>5. CASE Counted /\ \E s \in Live, t \in Addresses \ Live : Copied(s, t)
  BY <1>5, CopiedPreserves
<1>6. CASE \E s \in Live : Forgotten(s)
  BY <1>6, ForgottenPreserves
<1>7. CASE UNCHANGED marks
  BY <1>7 DEF marks, IInv, Marks, Live, ObjectsAreNamed, Keeps, UnnamedIsUnmarked, MarksAreTheDeclarations
<1>8. QED
  BY <1>1, <1>2, <1>3, <1>4, <1>5, <1>6, <1>7 DEF MarksNext

\* The invariant, of every specification of objects, types and sensitive arguments.
THEOREM Invariance == MarksSpec => []IInv
<1>1. MarksInit => IInv
  BY InitIsMarked
<1>2. IInv /\ [MarksNext]_marks => IInv'
  BY StepPreserves
<1>3. QED
  BY <1>1, <1>2, PTL DEF MarksSpec

\* The marks are what was declared last: setting and clearing regions, lazy initialization,
\* results of functions and copies of states forget no secret and mark nothing else.
THEOREM MarksFollowDeclarations == MarksSpec => []MarksAreTheDeclarations
<1>1. IInv => MarksAreTheDeclarations
  BY DEF IInv
<1>2. QED
  BY <1>1, Invariance, PTL

=============================================================================
