------------------------- MODULE ReaggregationProofs -------------------------
(***************************************************************************)
(* reaggregateNumberDataPoints on a slice of any length, with any numbers, *)
(* timestamps and word size.                                               *)
(*                                                                         *)
(* The argument: of the points visited so far, each group's leader is what *)
(* the group makes (Result), the leaders are the points that are not       *)
(* marked, and the compaction keeps the unmarked points in order.  What    *)
(* is returned is then one Result for each group (Returns), from which     *)
(* the properties follow.  A total does not depend on the order in which   *)
(* its members are added (SumIsSums), and a wrapped one differs from it by *)
(* whole words (TotalAdds).                                                *)
(***************************************************************************)
EXTENDS Reaggregation, SequenceTheorems, FiniteSetTheorems, WellFoundedInduction, TLAPS

H(j) == hashAttributes(received[j].attrs)

\* The first n points that have the identity h.
Members(h, n) == {k \in 1..n : H(k) = h}

\* The points that came in, each with an exemplar of its own.
Fits(p) == p.num.kind = "int" => p.num.val \in IntRange
CameIn ==
  /\ received \in Seq(AnyPoint)
  /\ \A k \in 1..Len(received) : received[k].exemplars = <<k>> /\ Fits(received[k])

InOrder(e, S) ==
  /\ {e[n] : n \in DOMAIN e} = S
  /\ \A m, n \in DOMAIN e : m < n => e[m] < e[n]

LatestOf(p, S) ==
  \E k \in S :
    /\ \A m \in S : received[m].ts <= received[k].ts
    /\ p.ts = received[k].ts
    /\ received[k].num.kind # "empty" => p.num = received[k].num
    /\ received[k].start > 0 => p.start = received[k].start

HullOf(p, S) ==
  /\ \A k \in S : p.start <= received[k].start /\ received[k].ts <= p.ts
  /\ \E k \in S : p.start = received[k].start
  /\ \E k \in S : p.ts = received[k].ts

\* But for the wrapping, p has what the points S add up to.
Values == [k \in DOMAIN received |-> numberDataPointToDouble(received[k].num)]
Total(S) == SumFunctionOnSet(Values, S)
AddsUp(p, S) ==
  \E q \in Int : numberDataPointToDouble(p.num) = Total(S) + q * Word

\* p is what the points S make, the first of which is f.
Result(p, f, S) ==
  /\ f \in S /\ \A k \in S : f <= k
  /\ p.attrs = received[f].attrs
  /\ S = {f} => p = received[f]
  /\ InOrder(p.exemplars, S)
  /\ metric = "gauge" => LatestOf(p, S)
  /\ metric = "delta_sum" => HullOf(p, S) /\ AddsUp(p, S)

\* Points keep their identity, and those to come are as they came in.
Unmerged ==
  /\ Len(dps) = Len(received)
  /\ \A j \in 1..Len(received) : dps[j].attrs = received[j].attrs
  /\ \A j \in i..Len(received) : dps[j] = received[j]

Leaders ==
  /\ DOMAIN seen = {H(j) : j \in 1..i - 1}
  /\ \A h \in DOMAIN seen :
       /\ seen[h] \in 1..i - 1 /\ H(seen[h]) = h
       /\ Result(dps[seen[h]], seen[h], Members(h, i - 1))

Marked == remove = {j \in 1..i - 1 : seen[H(j)] # j}

Merging == Unmerged /\ Leaders /\ Marked

\* The points kept are the unmarked ones that the compaction has passed.
KeptFrom(from) ==
  /\ \A m, n \in 1..Len(kept) : m < n => from[m] < from[n]
  /\ \A j \in (1..idx - 1) \ remove : \E m \in 1..Len(kept) : from[m] = j
  /\ \A m \in 1..Len(kept) : kept[m] = dps[from[m]]

Compacting ==
  /\ i = Len(received) + 1
  /\ \E from \in [1..Len(kept) -> (1..idx - 1) \ remove] : KeptFrom(from)

Returns ==
  \E from \in [1..Len(dps) -> 1..Len(received)] :
    /\ \A m, n \in 1..Len(dps) : m < n => from[m] < from[n]
    /\ \A m, n \in 1..Len(dps) : H(from[m]) = H(from[n]) => m = n
    /\ \A k \in 1..Len(received) : \E m \in 1..Len(dps) : H(from[m]) = H(k)
    /\ \A m \in 1..Len(dps) : Result(dps[m], from[m], Members(H(from[m]), Len(received)))

ReaggregationInv ==
  /\ TypeOK
  /\ CameIn
  /\ pc = "detect" => dps = received /\ i = 1
  /\ pc \in {"detect", "merge"} => idx = 1 /\ kept = <<>>
  /\ pc \in {"detect", "merge", "compact"} => Merging
  /\ pc = "compact" => Compacting
  /\ pc = "done" => Returns

-----------------------------------------------------------------------------

\* The remainder is that of the sum, in the range of the machine's integers.
LEMMA WrapInRange == ASSUME NEW x \in Int PROVE Wrap(x) \in IntRange
<1> USE ReaggregationAssumption
<1> DEFINE half == Word \div 2
<1>1. half \in Int /\ Word \in Nat \ {0}
  OBVIOUS
<1> HIDE DEF half
<1>2. (x + half) % Word \in 0..Word - 1
  BY <1>1
<1> QED
  BY <1>1, <1>2 DEF Wrap, IntRange, half

\* Timestamps are numbers.
LEMMA PointFields ==
  ASSUME NEW p \in AnyPoint
  PROVE  /\ p.ts \in Nat /\ p.start \in Nat /\ p.num \in Number
         /\ p.exemplars \in Seq(Nat) /\ p.num.val \in Int /\ p.num.kind \in Kinds
<1>1. p.ts \in Times /\ p.start \in Starts /\ p.num \in Number /\ p.exemplars \in Seq(Nat)
  BY DEF AnyPoint
<1>2. p.num.val \in Int /\ p.num.kind \in Kinds
  BY <1>1 DEF Number
<1> QED
  BY <1>1, <1>2, ReaggregationAssumption

\* A sum of two numbers is a number, and one of integers an integer that fits.
LEMMA SumIsNumber ==
  ASSUME NEW a \in Number, NEW b \in Number, NEW s, s = addNumberValue(a, b)
  PROVE  s \in Number /\ (s.kind = "int" => s.val \in IntRange)
<1>1. a.val \in Int /\ b.val \in Int
  BY DEF Number
<1>2. a.val + b.val \in Int /\ b.val + a.val \in Int
  BY <1>1
<1>3. CASE a.kind = "int" /\ b.kind = "int"
  <2> DEFINE w == Wrap(b.val + a.val)
  <2>1. s = [kind |-> "int", val |-> w]
    BY <1>3 DEF addNumberValue
  <2>2. w \in IntRange
    BY <1>2, WrapInRange
  <2>3. IntRange \subseteq Int
    BY ReaggregationAssumption DEF IntRange
  <2> HIDE DEF w
  <2> QED
    BY <2>1, <2>2, <2>3 DEF Number, Kinds
<1>4. CASE ~(a.kind = "int" /\ b.kind = "int")
  <2> DEFINE v == numberDataPointToDouble(b) + numberDataPointToDouble(a)
  <2>1. v \in Int
    BY <1>1 DEF numberDataPointToDouble
  <2>2. s = [kind |-> "double", val |-> v]
    BY <1>4 DEF addNumberValue
  <2> HIDE DEF v
  <2> QED
    BY <2>1, <2>2 DEF Number, Kinds
<1> QED
  BY <1>3, <1>4

\* A merged point is a point.
LEMMA MergedIsPoint ==
  ASSUME NEW p \in AnyPoint, NEW c \in AnyPoint, Fits(p), Fits(c)
  PROVE  /\ MergeGauge(c, p) \in AnyPoint /\ Fits(MergeGauge(c, p))
         /\ MergeDelta(c, p) \in AnyPoint /\ Fits(MergeDelta(c, p))
<1>1. p.exemplars \o c.exemplars \in Seq(Nat)
  BY PointFields, ConcatProperties
<1>2. /\ p.attrs \in Attributes /\ {p.ts, c.ts} \subseteq Times /\ {p.start, c.start} \subseteq Starts
      /\ {p.num, c.num} \subseteq Number
  BY DEF AnyPoint
<1>3. MergeGauge(c, p) \in AnyPoint /\ Fits(MergeGauge(c, p))
  <2>1. copyNumberValue(c.num, p.num) \in {c.num, p.num}
    BY DEF copyNumberValue
  <2> QED
    BY <1>1, <1>2, <2>1 DEF MergeGauge, AnyPoint, Fits
<1>4. MergeDelta(c, p) \in AnyPoint /\ Fits(MergeDelta(c, p))
  <2>1. PICK s \in Number : s = addNumberValue(c.num, p.num) /\ (s.kind = "int" => s.val \in IntRange)
    BY <1>2, SumIsNumber
  <2>2. Larger(p.ts, c.ts) \in Times /\ Smaller(p.start, c.start) \in Starts
    BY <1>2 DEF Larger, Smaller
  <2> QED
    BY <1>1, <1>2, <2>1, <2>2 DEF MergeDelta, AnyPoint, Fits
<1> QED
  BY <1>3, <1>4

-----------------------------------------------------------------------------

\* A set of numbers that is not empty has a least one: what an induction over a
\* function of the model comes down to.
LEMMA LeastNumber ==
  ASSUME NEW S \in SUBSET Nat, S # {}
  PROVE  \E m \in S : \A n \in S : m <= n
<1>1. PICK m \in S : \A n \in S : <<n, m>> \notin OpToRel(<, Nat)
  BY NatLessThanWellFounded, WFMin
<1>2. ASSUME NEW n \in S, n < m
      PROVE  FALSE
  BY <1>1, <1>2 DEF OpToRel
<1> QED
  BY <1>2

\* G sums v over the subsets of S, whichever element is taken out first.
Sums(G, v, S) ==
  /\ G \in [SUBSET S -> Int]
  /\ G[{}] = 0
  /\ \A s \in SUBSET S : \A x \in s : G[s] = v[x] + G[s \ {x}]

\* There are such sums over the first n numbers.
LEMMA SumsExist ==
  ASSUME NEW n \in Nat, NEW v, \A k \in 1..n : v[k] \in Int
  PROVE  \E G : Sums(G, v, 1..n)
<1> DEFINE Bad == {m \in 0..n : ~ \E G : Sums(G, v, 1..m)}
<1>1. \E G : Sums(G, v, 1..0)
  <2> DEFINE G == [s \in SUBSET (1..0) |-> 0]
  <2>1. 1..0 = {} /\ SUBSET {} = {{}}
    OBVIOUS
  <2>2. Sums(G, v, 1..0)
    BY <2>1 DEF Sums
  <2> QED
    BY <2>2
<1>2. ASSUME NEW m \in 1..n, NEW G, Sums(G, v, 1..m - 1)
      PROVE  \E F : Sums(F, v, 1..m)
  <2> DEFINE F == [s \in SUBSET (1..m) |-> IF m \in s THEN v[m] + G[s \ {m}] ELSE G[s]]
  <2>1. /\ v[m] \in Int /\ m \notin 1..m - 1 /\ 1..m = (1..m - 1) \union {m}
    OBVIOUS
  <2>2. \A s \in SUBSET (1..m) : s \ {m} \in SUBSET (1..m - 1) /\ (m \notin s => s \in SUBSET (1..m - 1))
    BY <2>1
  <2>3. /\ G \in [SUBSET (1..m - 1) -> Int] /\ G[{}] = 0
        /\ \A s \in SUBSET (1..m - 1) : \A x \in s : G[s] = v[x] + G[s \ {x}]
    BY <1>2 DEF Sums
  <2>4. \A s \in SUBSET (1..m) : F[s] = IF m \in s THEN v[m] + G[s \ {m}] ELSE G[s]
    OBVIOUS
  <2>5. \A s \in SUBSET (1..m) : F[s] \in Int
    BY <2>1, <2>2, <2>3, <2>4
  <2>6. F \in [SUBSET (1..m) -> Int]
    BY <2>5
  <2> HIDE DEF F
  <2>7. F[{}] = 0
    BY <2>3, <2>4
  <2>8. ASSUME NEW s \in SUBSET (1..m), NEW x \in s
        PROVE  F[s] = v[x] + F[s \ {x}]
    <3>1. v[x] \in Int /\ s \ {x} \in SUBSET (1..m)
      OBVIOUS
    <3>2. CASE m \notin s
      <4>1. s \in SUBSET (1..m - 1) /\ m \notin s \ {x}
        BY <2>2, <3>2
      <4>2. F[s] = G[s] /\ F[s \ {x}] = G[s \ {x}]
        BY <2>4, <3>1, <3>2, <4>1
      <4>3. G[s] = v[x] + G[s \ {x}]
        BY <2>3, <4>1
      <4> QED
        BY <4>2, <4>3
    <3>3. CASE x = m
      BY <2>4, <3>1, <3>3
    <3>4. CASE m \in s /\ x # m
      <4>1. s \ {m} \in SUBSET (1..m - 1) /\ x \in s \ {m} /\ (s \ {m}) \ {x} = (s \ {x}) \ {m}
        BY <2>2, <3>4
      <4>2. G[s \ {m}] = v[x] + G[(s \ {x}) \ {m}]
        BY <2>3, <4>1
      <4>3. F[s] = v[m] + G[s \ {m}] /\ F[s \ {x}] = v[m] + G[(s \ {x}) \ {m}]
        BY <2>4, <3>1, <3>4
      <4>4. G[(s \ {x}) \ {m}] \in Int
        BY <2>2, <2>3, <3>1
      <4> QED
        BY <2>1, <3>1, <4>2, <4>3, <4>4
    <3> QED
      BY <3>2, <3>3, <3>4
  <2> QED
    BY <2>6, <2>7, <2>8 DEF Sums
<1>3. Bad = {}
  <2> SUFFICES ASSUME Bad # {} PROVE FALSE
    OBVIOUS
  <2>1. PICK b \in Bad : \A m \in Bad : b <= m
    <3>1. Bad \in SUBSET Nat
      OBVIOUS
    <3> QED
      BY <3>1, LeastNumber
  <2>2. b \in 1..n
    BY <1>1, <2>1
  <2>3. b - 1 \in 0..n /\ b - 1 \notin Bad
    BY <2>1, <2>2
  <2> QED
    BY <1>2, <2>1, <2>2, <2>3
<1> QED
  BY <1>3

\* SumFunctionOnSet, which takes out one element after the other, is such a sum.
LEMMA SumIsSums ==
  ASSUME NEW S, IsFiniteSet(S), NEW v, NEW G, Sums(G, v, S)
  PROVE  SumFunctionOnSet(v, S) = G[S]
<1> DEFINE first(s) == CHOOSE x \in s : TRUE
           Iterates(iter) ==
             iter = [s \in SUBSET S |-> IF s = {} THEN 0 ELSE v[first(s)] + iter[s \ {first(s)}]]
           sum == CHOOSE iter : Iterates(iter)
<1>1. SumFunctionOnSet(v, S) = sum[S]
  BY Zenon DEF SumFunctionOnSet, FoldFunctionOnSet, MapThenFoldSet
<1>2. \A s \in SUBSET S : s # {} => first(s) \in s
  OBVIOUS
<1> HIDE DEF first
<1>3. /\ G = [s \in SUBSET S |-> G[s]] /\ G[{}] = 0
      /\ \A s \in SUBSET S : \A x \in s : G[s] = v[x] + G[s \ {x}]
  BY DEF Sums
<1>4. Iterates(sum)
  <2>1. \A s \in SUBSET S : G[s] = IF s = {} THEN 0 ELSE v[first(s)] + G[s \ {first(s)}]
    BY <1>2, <1>3
  <2>2. Iterates(G)
    BY <1>3, <2>1
  <2> QED
    BY <2>2
<1>5. \A s \in SUBSET S : sum[s] = IF s = {} THEN 0 ELSE v[first(s)] + sum[s \ {first(s)}]
  BY <1>4
<1> HIDE DEF sum
<1> DEFINE Bad == {Cardinality(s) : s \in {t \in SUBSET S : sum[t] # G[t]}}
<1>6. Bad = {}
  <2> SUFFICES ASSUME Bad # {} PROVE FALSE
    OBVIOUS
  <2>1. \A s \in SUBSET S : IsFiniteSet(s) /\ Cardinality(s) \in Nat
    BY FS_Subset, FS_CardinalityType
  <2>2. PICK b \in Bad : \A m \in Bad : b <= m
    <3>1. Bad \in SUBSET Nat
      BY <2>1
    <3> QED
      BY <3>1, LeastNumber
  <2>3. PICK s \in SUBSET S : sum[s] # G[s] /\ b = Cardinality(s)
    BY <2>2
  <2>4. s # {}
    BY <1>3, <1>5, <2>3
  <2> DEFINE x == first(s)
  <2>5. x \in s
    BY <1>2, <2>4
  <2>6. sum[s] = v[x] + sum[s \ {x}] /\ G[s] = v[x] + G[s \ {x}]
    BY <1>3, <1>5, <2>4, <2>5
  <2> HIDE DEF x
  <2>7. s \ {x} \in SUBSET S /\ sum[s \ {x}] # G[s \ {x}]
    BY <2>3, <2>6
  <2>8. Cardinality(s \ {x}) = b - 1 /\ b \in Nat
    BY <2>1, <2>3, <2>5, FS_RemoveElement
  <2>9. Cardinality(s \ {x}) \in Bad
    BY <2>7
  <2>10. b <= Cardinality(s \ {x})
    BY <2>2, <2>9
  <2> QED
    BY <2>8, <2>10
<1> QED
  BY <1>1, <1>6

\* The total grows by the element that comes in.
LEMMA SumAdds ==
  ASSUME NEW n \in Nat, NEW v, \A k \in 1..n : v[k] \in Int,
         NEW S \in SUBSET (1..n)
  PROVE  /\ SumFunctionOnSet(v, S) \in Int /\ SumFunctionOnSet(v, {}) = 0
         /\ \A j \in (1..n) \ S : SumFunctionOnSet(v, S \union {j}) = v[j] + SumFunctionOnSet(v, S)
<1>1. PICK G : Sums(G, v, 1..n)
  BY SumsExist
<1>2. \A T \in SUBSET (1..n) : SumFunctionOnSet(v, T) = G[T] /\ G[T] \in Int
  <2> TAKE T \in SUBSET (1..n)
  <2> DEFINE F == [s \in SUBSET T |-> G[s]]
  <2>1. IsFiniteSet(T)
    <3>1. IsFiniteSet(1..n)
      BY FS_Interval
    <3> QED
      BY <3>1, FS_Subset
  <2>2. Sums(F, v, T)
    <3>1. /\ \A s \in SUBSET (1..n) : G[s] \in Int
          /\ G[{}] = 0 /\ \A s \in SUBSET (1..n) : \A x \in s : G[s] = v[x] + G[s \ {x}]
      BY <1>1 DEF Sums
    <3>2. \A s \in SUBSET T : s \in SUBSET (1..n) /\ \A x \in s : s \ {x} \in SUBSET T
      OBVIOUS
    <3> QED
      BY <3>1, <3>2 DEF Sums
  <2>3. F[T] = G[T] /\ G[T] \in Int
    BY <1>1 DEF Sums
  <2> HIDE DEF F
  <2> QED
    BY <2>1, <2>2, <2>3, SumIsSums
<1>3. \A j \in (1..n) \ S :
        S \union {j} \in SUBSET (1..n) /\ j \in S \union {j} /\ (S \union {j}) \ {j} = S
  OBVIOUS
<1>4. G[{}] = 0 /\ \A j \in (1..n) \ S : G[S \union {j}] = v[j] + G[S]
  BY <1>1, <1>3 DEF Sums
<1> QED
  BY <1>2, <1>3, <1>4

\* Where the range is left, whole words are added or taken away.
LEMMA WrapTurns ==
  ASSUME NEW x \in Int
  PROVE  \E q \in Int : Wrap(x) = x + q * Word
<1> USE ReaggregationAssumption
<1> DEFINE half == Word \div 2
           d == (x + half) \div Word
<1>1. half \in Int /\ Word \in Nat \ {0}
  OBVIOUS
<1>2. Wrap(x) = ((x + half) % Word) - half
  BY DEF Wrap
<1> HIDE DEF half
<1>3. d \in Int /\ x + half = Word * d + ((x + half) % Word)
  BY <1>1
<1> HIDE DEF d
<1>4. -d \in Int /\ (-d) * Word = -(Word * d)
  BY <1>1, <1>3
<1>5. Wrap(x) = x + (-d) * Word
  BY <1>1, <1>2, <1>3, <1>4
<1> QED
  BY <1>4, <1>5

\* Whole words leave no remainder.
LEMMA NoRemainder ==
  ASSUME NEW q \in Int
  PROVE  (q * Word) % Word = 0
<1> USE ReaggregationAssumption
<1> DEFINE d == (q * Word) \div Word
           r == (q * Word) % Word
<1>1. q * Word \in Int /\ d \in Int /\ r \in 0..Word - 1 /\ q * Word = Word * d + r
  OBVIOUS
<1> HIDE DEF d, r
<1>2. r = Word * (q - d) /\ q - d \in Int
  BY <1>1
<1>3. q - d >= 1 => Word * (q - d) >= Word
  BY <1>2
<1>4. q - d <= -1 => Word * (q - d) <= -Word
  BY <1>2
<1>5. q - d = 0
  BY <1>1, <1>2, <1>3, <1>4
<1>6. r = 0
  BY <1>2, <1>5
<1> QED
  BY <1>6 DEF r

\* The points' values are numbers, and the total grows with each.
LEMMA TotalAdds ==
  ASSUME CameIn, NEW S \in SUBSET (1..Len(received))
  PROVE  /\ Total(S) \in Int /\ Total({}) = 0
         /\ \A j \in (1..Len(received)) \ S :
              Total(S \union {j}) = numberDataPointToDouble(received[j].num) + Total(S)
<1>1. Len(received) \in Nat /\ DOMAIN received = 1..Len(received)
  BY LenProperties DEF CameIn
<1>2. \A k \in 1..Len(received) : Values[k] = numberDataPointToDouble(received[k].num) /\ Values[k] \in Int
  <2> TAKE k \in 1..Len(received)
  <2>1. received[k].num.val \in Int
    BY ElementOfSeq, PointFields DEF CameIn
  <2> QED
    BY <1>1, <2>1 DEF Values, numberDataPointToDouble
<1> DEFINE v == Values
           n == Len(received)
<1>3. n \in Nat /\ \A k \in 1..n : v[k] \in Int
  BY <1>1, <1>2
<1> HIDE DEF v
<1>4. /\ SumFunctionOnSet(v, S) \in Int /\ SumFunctionOnSet(v, {}) = 0
      /\ \A j \in (1..n) \ S : SumFunctionOnSet(v, S \union {j}) = v[j] + SumFunctionOnSet(v, S)
  BY <1>3, SumAdds
<1> QED
  BY <1>2, <1>4 DEF Total, v

\* Delta sum: a point adds its value, as an integer or as a double.
LEMMA DeltaAdds ==
  ASSUME CameIn, NEW S \in SUBSET (1..Len(received)), NEW p \in AnyPoint, AddsUp(p, S),
         NEW j \in (1..Len(received)) \ S, NEW c \in AnyPoint, c = received[j]
  PROVE  AddsUp(MergeDelta(c, p), S \union {j})
<1> DEFINE a == numberDataPointToDouble(p.num)
           b == numberDataPointToDouble(c.num)
           m == numberDataPointToDouble(MergeDelta(c, p).num)
           t == Total(S)
           w == Word
<1>1. Total(S \union {j}) = b + t /\ t \in Int
  BY TotalAdds
<1>2. c.num.val \in Int /\ p.num.val \in Int
  BY PointFields
<1>3. a \in Int /\ b \in Int
  BY <1>2 DEF numberDataPointToDouble
<1>4. PICK q \in Int : a = t + q * w
  BY DEF AddsUp
<1>5. MergeDelta(c, p).num = addNumberValue(c.num, p.num)
  BY DEF MergeDelta, AnyPoint
<1>6. \E e \in Int : m = a + b + e * w
  <2>1. CASE c.num.kind = "int" /\ p.num.kind = "int"
    <3>1. m = Wrap(p.num.val + c.num.val) /\ a = p.num.val /\ b = c.num.val
      BY <1>5, <2>1 DEF addNumberValue, numberDataPointToDouble
    <3>2. p.num.val + c.num.val \in Int
      BY <1>2
    <3> QED
      BY <3>1, <3>2, WrapTurns
  <2>2. CASE ~(c.num.kind = "int" /\ p.num.kind = "int")
    <3>1. m = a + b
      BY <1>5, <2>2 DEF addNumberValue, numberDataPointToDouble
    <3>2. 0 \in Int /\ 0 * w = 0
      BY ReaggregationAssumption
    <3> QED
      BY <1>3, <3>1, <3>2
  <2> QED
    BY <2>1, <2>2
<1>7. PICK e \in Int : m = a + b + e * w
  BY <1>6
<1>8. w \in Nat
  BY ReaggregationAssumption
<1> HIDE DEF a, b, m, t, w
<1>9. q + e \in Int /\ (q + e) * w = q * w + e * w /\ q * w \in Int /\ e * w \in Int
  BY <1>8
<1>10. m = b + t + (q + e) * w
  BY <1>1, <1>3, <1>4, <1>7, <1>9
<1> QED
  BY <1>1, <1>9, <1>10 DEF AddsUp, m, w

-----------------------------------------------------------------------------

\* A point alone is what its group makes.
LEMMA Alone ==
  ASSUME CameIn, NEW j \in 1..Len(received)
  PROVE  Result(received[j], j, {j})
<1>1. received[j].exemplars = <<j>> /\ received[j].ts \in Nat /\ received[j].start \in Nat
  BY ElementOfSeq, PointFields DEF CameIn
<1>2. InOrder(received[j].exemplars, {j})
  BY <1>1 DEF InOrder
<1>3. LatestOf(received[j], {j}) /\ HullOf(received[j], {j})
  BY <1>1 DEF LatestOf, HullOf
<1>4. AddsUp(received[j], {j})
  <2>1. /\ {} \in SUBSET (1..Len(received)) /\ j \in (1..Len(received)) \ {}
        /\ {} \union {j} = {j}
    OBVIOUS
  <2>2. Total({j}) = numberDataPointToDouble(received[j].num) + 0
    BY <2>1, TotalAdds
  <2>3. numberDataPointToDouble(received[j].num) \in Int
    BY ElementOfSeq, PointFields DEF CameIn, numberDataPointToDouble
  <2>4. 0 \in Int /\ 0 * Word = 0
    BY ReaggregationAssumption
  <2> QED
    BY <2>2, <2>3, <2>4 DEF AddsUp
<1> QED
  BY <1>2, <1>3, <1>4 DEF Result

LEMMA OneIsLess ==
  ASSUME NEW m \in Nat, NEW n \in Nat
  PROVE  m < n \/ n < m \/ m = n
OBVIOUS

LEMMA LastOrBefore ==
  ASSUME NEW len \in Nat, NEW n \in 1..len + 1
  PROVE  n \in 1..len \/ n = len + 1
OBVIOUS

\* The exemplars of a later point go behind the others.
LEMMA ExemplarsGrow ==
  ASSUME NEW S \in SUBSET Nat, NEW e \in Seq(Nat), InOrder(e, S),
         NEW j \in Nat, \A k \in S : k < j
  PROVE  InOrder(e \o <<j>>, S \union {j})
<1>1. Len(e) \in Nat /\ DOMAIN e = 1..Len(e)
  BY LenProperties
<1>2. PICK g \in Seq(Nat) :
        /\ g = e \o <<j>>
        /\ DOMAIN g = 1..Len(e) + 1
        /\ \A n \in 1..Len(e) : g[n] = e[n]
        /\ g[Len(e) + 1] = j
  <2>1. e \o <<j>> = Append(e, j)
    BY AppendIsConcat
  <2>2. /\ Append(e, j) \in Seq(Nat) /\ Len(Append(e, j)) = Len(e) + 1
        /\ \A n \in 1..Len(e) : Append(e, j)[n] = e[n]
        /\ Append(e, j)[Len(e) + 1] = j
    BY AppendProperties
  <2>3. DOMAIN Append(e, j) = 1..Len(e) + 1
    BY <2>2, LenProperties
  <2> QED
    BY <2>1, <2>2, <2>3, Zenon
<1>3. \A n \in 1..Len(e) : g[n] \in S /\ g[n] \in Nat /\ g[n] < j
  BY <1>1, <1>2 DEF InOrder
<1>4. {g[n] : n \in 1..Len(e) + 1} = S \union {j}
  <2>1. 1..Len(e) + 1 = 1..Len(e) \union {Len(e) + 1}
    BY <1>1
  <2>2. {g[n] : n \in 1..Len(e)} = S
    BY <1>1, <1>2 DEF InOrder
  <2> QED
    BY <1>2, <2>1, <2>2
<1>5. \A m, n \in 1..Len(e) + 1 : m < n => g[m] < g[n]
  <2> SUFFICES ASSUME NEW m \in 1..Len(e) + 1, NEW n \in 1..Len(e) + 1, m < n
               PROVE  g[m] < g[n]
    OBVIOUS
  <2>1. m \in 1..Len(e)
    BY <1>1
  <2>2. CASE n \in 1..Len(e)
    BY <1>1, <1>2, <2>1, <2>2 DEF InOrder
  <2>3. CASE n = Len(e) + 1
    BY <1>2, <1>3, <2>1, <2>3
  <2>4. n \in 1..Len(e) \/ n = Len(e) + 1
    BY <1>1, LastOrBefore, Zenon
  <2> QED
    BY <2>2, <2>3, <2>4, Zenon
<1> QED
  BY <1>2, <1>4, <1>5 DEF InOrder

\* Gauge: of what the group made so far and a later point the later in time
\* prevails, but for a value or a start that it does not have.
LEMMA GaugeTakesLatest ==
  ASSUME CameIn, NEW S \in SUBSET (1..Len(received)), NEW p \in AnyPoint, LatestOf(p, S),
         NEW j \in 1..Len(received), NEW c \in AnyPoint, c = received[j]
  PROVE  LatestOf(MergeGauge(c, p), S \union {j})
<1>1. \A k \in S \union {j} : received[k].ts \in Nat /\ received[k].start \in Nat
  BY ElementOfSeq, PointFields DEF CameIn
<1>2. PICK k \in S :
        /\ \A m \in S : received[m].ts <= received[k].ts
        /\ p.ts = received[k].ts
        /\ received[k].num.kind # "empty" => p.num = received[k].num
        /\ received[k].start > 0 => p.start = received[k].start
  BY DEF LatestOf
<1>3. DOMAIN p = {"attrs", "num", "ts", "start", "exemplars"}
  BY DEF AnyPoint
<1>4. CASE c.ts > p.ts
  <2>1. /\ MergeGauge(c, p).ts = c.ts
        /\ MergeGauge(c, p).num = copyNumberValue(c.num, p.num)
        /\ c.start > 0 => MergeGauge(c, p).start = c.start
    BY <1>3, <1>4 DEF MergeGauge, AnyPoint
  <2>2. c.num.kind # "empty" => copyNumberValue(c.num, p.num) = c.num
    BY DEF copyNumberValue
  <2>3. \A m \in S \union {j} : received[m].ts <= received[j].ts
    BY <1>1, <1>2, <1>4
  <2> QED
    BY <2>1, <2>2, <2>3 DEF LatestOf
<1>5. CASE ~(c.ts > p.ts)
  <2>1. /\ MergeGauge(c, p).ts = p.ts /\ MergeGauge(c, p).num = p.num
        /\ MergeGauge(c, p).start = p.start
    BY <1>3, <1>5 DEF MergeGauge, AnyPoint
  <2>2. \A m \in S \union {j} : received[m].ts <= received[k].ts
    BY <1>1, <1>2, <1>5
  <2> QED
    BY <1>2, <2>1, <2>2 DEF LatestOf
<1> QED
  BY <1>4, <1>5

\* Delta sum: the interval is widened as far as the point reaches.
LEMMA DeltaWidens ==
  ASSUME CameIn, NEW S \in SUBSET (1..Len(received)), NEW p \in AnyPoint, HullOf(p, S),
         NEW j \in 1..Len(received), NEW c \in AnyPoint, c = received[j]
  PROVE  HullOf(MergeDelta(c, p), S \union {j})
<1>1. \A k \in S \union {j} : received[k].ts \in Nat /\ received[k].start \in Nat
  BY ElementOfSeq, PointFields DEF CameIn
<1>2. p.ts \in Nat /\ p.start \in Nat
  BY PointFields
<1>3. /\ MergeDelta(c, p).ts = Larger(p.ts, c.ts)
      /\ MergeDelta(c, p).start = Smaller(p.start, c.start)
  BY DEF MergeDelta, AnyPoint
<1>4. /\ Larger(p.ts, c.ts) \in {p.ts, c.ts} /\ Larger(p.ts, c.ts) >= p.ts
      /\ Larger(p.ts, c.ts) >= c.ts
      /\ Smaller(p.start, c.start) \in {p.start, c.start} /\ Smaller(p.start, c.start) <= p.start
      /\ Smaller(p.start, c.start) <= c.start
  BY <1>1, <1>2 DEF Larger, Smaller
<1>5. \A k \in S \union {j} :
        MergeDelta(c, p).start <= received[k].start /\ received[k].ts <= MergeDelta(c, p).ts
  <2> SUFFICES ASSUME NEW k \in S \union {j}
               PROVE  Smaller(p.start, c.start) <= received[k].start /\ received[k].ts <= Larger(p.ts, c.ts)
    BY <1>3
  <2>1. CASE k = j
    BY <1>4, <2>1
  <2>2. CASE k \in S
    <3>1. p.start <= received[k].start /\ received[k].ts <= p.ts
      BY <2>2 DEF HullOf
    <3>2. Smaller(p.start, c.start) \in Nat /\ Larger(p.ts, c.ts) \in Nat
      BY <1>1, <1>2, <1>4
    <3> QED
      BY <1>1, <1>2, <1>4, <3>1, <3>2
  <2> QED
    BY <2>1, <2>2
<1>6. /\ \E k \in S \union {j} : MergeDelta(c, p).start = received[k].start
      /\ \E k \in S \union {j} : MergeDelta(c, p).ts = received[k].ts
  BY <1>3, <1>4 DEF HullOf
<1> QED
  BY <1>5, <1>6 DEF HullOf

\* What the first points of a group made, and the next one.
LEMMA MergeExtends ==
  ASSUME CameIn, NEW S \in SUBSET (1..Len(received)), NEW f \in 1..Len(received),
         NEW p \in AnyPoint, Result(p, f, S),
         NEW j \in 1..Len(received), \A k \in S : k < j,
         metric \in {"gauge", "delta_sum"}, NEW c \in AnyPoint, c = received[j]
  PROVE  /\ metric = "gauge" => Result(MergeGauge(c, p), f, S \union {j})
         /\ metric = "delta_sum" => Result(MergeDelta(c, p), f, S \union {j})
<1>1. c.exemplars = <<j>>
  BY DEF CameIn
<1>2. InOrder(p.exemplars \o <<j>>, S \union {j})
  <2>1. S \in SUBSET Nat /\ j \in Nat /\ p.exemplars \in Seq(Nat) /\ InOrder(p.exemplars, S)
    BY PointFields DEF Result
  <2> QED
    BY <2>1, ExemplarsGrow
<1>3. f \in S \union {j} /\ (\A k \in S \union {j} : f <= k) /\ S \union {j} # {f}
  BY DEF Result
<1>4. ASSUME metric = "gauge"
      PROVE  Result(MergeGauge(c, p), f, S \union {j})
  <2>1. MergeGauge(c, p).attrs = p.attrs /\ MergeGauge(c, p).exemplars = p.exemplars \o <<j>>
    BY <1>1 DEF MergeGauge, AnyPoint
  <2>2. LatestOf(MergeGauge(c, p), S \union {j})
    BY <1>4, GaugeTakesLatest DEF Result
  <2> QED
    BY <1>2, <1>3, <1>4, <2>1, <2>2 DEF Result
<1>5. ASSUME metric = "delta_sum"
      PROVE  Result(MergeDelta(c, p), f, S \union {j})
  <2>1. MergeDelta(c, p).attrs = p.attrs /\ MergeDelta(c, p).exemplars = p.exemplars \o <<j>>
    BY <1>1 DEF MergeDelta, AnyPoint
  <2>2. HullOf(MergeDelta(c, p), S \union {j})
    BY <1>5, DeltaWidens DEF Result
  <2>3. AddsUp(MergeDelta(c, p), S \union {j})
    <3>1. j \in (1..Len(received)) \ S /\ AddsUp(p, S)
      BY <1>5 DEF Result
    <3> QED
      BY <3>1, DeltaAdds
  <2> QED
    BY <1>2, <1>3, <1>5, <2>1, <2>2, <2>3 DEF Result
<1> QED
  BY <1>4, <1>5

-----------------------------------------------------------------------------

\* The slice as it comes in.
LEMMA UntouchedPoints ==
  ASSUME Untouched
  PROVE  /\ CameIn /\ dps = received /\ i = 1 /\ idx = 1
         /\ seen = [h \in {} |-> 0] /\ remove = {} /\ kept = <<>>
<1> USE ReaggregationAssumption
<1>1. PICK n \in 0..MaxPoints : \E shape \in [1..n -> Shapes] : dps = [j \in 1..n |-> Point(shape[j], j)]
  BY DEF Untouched
<1>2. PICK shape \in [1..n -> Shapes] : dps = [j \in 1..n |-> Point(shape[j], j)]
  BY <1>1
<1>3. n \in Nat
  BY <1>1
<1>4. ASSUME NEW j \in 1..n
      PROVE  Point(shape[j], j) \in AnyPoint /\ Point(shape[j], j).exemplars = <<j>> /\ Fits(Point(shape[j], j))
  <2>1. /\ shape[j].attrs \in Attributes /\ shape[j].num \in Numbers
        /\ shape[j].ts \in Times /\ shape[j].start \in Starts
    BY DEF Shapes
  <2>2. shape[j].num \in Number /\ (shape[j].num.kind = "int" => shape[j].num.val \in IntRange)
    BY <2>1
  <2>3. <<j>> \in Seq(Nat)
    BY <1>3
  <2> QED
    BY <2>1, <2>2, <2>3 DEF Point, AnyPoint, Fits
<1>5. dps \in Seq(AnyPoint) /\ Len(dps) = n /\ \A j \in 1..n : dps[j].exemplars = <<j>> /\ Fits(dps[j])
  <2>1. \A j \in 1..n : dps[j] = Point(shape[j], j)
    BY <1>2
  <2>2. dps \in [1..n -> AnyPoint]
    BY <1>2, <1>4
  <2>3. dps \in Seq(AnyPoint) /\ Len(dps) = n
    BY <1>3, <2>2, SeqDef, LenProperties
  <2> QED
    BY <1>4, <2>1, <2>3
<1>6. /\ received = dps /\ i = 1 /\ idx = 1
      /\ seen = [h \in {} |-> 0] /\ remove = {} /\ kept = <<>>
  BY DEF Untouched
<1>7. CameIn
  BY <1>5, <1>6 DEF CameIn
<1> QED
  BY <1>6, <1>7

\* Before the first phase there is nothing to say of leaders.
LEMMA FreshInv ==
  ASSUME CameIn, dps = received, i = 1, idx = 1, seen = [h \in {} |-> 0], remove = {}, kept = <<>>,
         metric \in {"gauge", "delta_sum"}, pc = "detect"
  PROVE  ReaggregationInv
<1>1. Len(received) \in Nat /\ DOMAIN dps = 1..Len(received) /\ received \in Seq(AnyPoint)
  BY LenProperties DEF CameIn
<1>2. TypeOK
  BY <1>1 DEF CameIn, TypeOK, Fits
<1>3. Merging
  BY <1>1 DEF Merging, Unmerged, Leaders, Marked
<1> QED
  BY <1>2, <1>3 DEF ReaggregationInv

\* The slice a call starts with.
LEMMA InitInv == Init => ReaggregationInv
BY UntouchedPoints, FreshInv DEF Init

\* What a group makes does not depend on what the merge does.
LEMMA SameResult ==
  ASSUME UNCHANGED <<metric, received>>,
         NEW p, NEW f, NEW S
  PROVE  Result(p, f, S)' <=> Result(p, f, S)
<1>1. LatestOf(p, S)' <=> LatestOf(p, S)
  BY DEF LatestOf
<1>2. HullOf(p, S)' <=> HullOf(p, S)
  BY DEF HullOf
<1>3. AddsUp(p, S)' <=> AddsUp(p, S)
  <2>1. Total(S)' = Total(S)
    BY DEF Total, Values
  <2> QED
    BY <2>1 DEF AddsUp
<1> QED
  BY <1>1, <1>2, <1>3 DEF Result, InOrder

\* Where only the phase changes, what is known of the rest stays.
LEMMA SameFacts ==
  ASSUME UNCHANGED <<metric, dps, i, seen, remove, idx, kept, received>>,
         pc' \in {"detect", "merge", "compact", "done"}
  PROVE  /\ TypeOK => TypeOK'
         /\ CameIn => CameIn'
         /\ Merging => Merging'
         /\ Returns => Returns'
<1>1. TypeOK => TypeOK'
  BY DEF TypeOK
<1>2. CameIn => CameIn'
  BY DEF CameIn
<1>3. \A j : H(j)' = H(j)
  BY DEF H
<1>4. \A h, n : Members(h, n)' = Members(h, n)
  BY <1>3 DEF Members
<1>5. \A q, f, S : Result(q, f, S)' <=> Result(q, f, S)
  BY SameResult
<1>6. Merging => Merging'
  <2>1. Unmerged => Unmerged'
    BY DEF Unmerged
  <2>2. Leaders => Leaders'
    BY <1>3, <1>4, <1>5 DEF Leaders
  <2>3. Marked => Marked'
    BY <1>3 DEF Marked
  <2> QED
    BY <2>1, <2>2, <2>3 DEF Merging
<1>7. Returns => Returns'
  BY <1>3, <1>4, <1>5 DEF Returns
<1> QED
  BY <1>1, <1>2, <1>6, <1>7

\* Without a collision each point is what its group makes.
LEMMA ReturnEarlyKeepsInv ==
  ASSUME ReaggregationInv, ReturnEarly
  PROVE  ReaggregationInv'
<1> DEFINE n == Len(received)
<1>1. /\ pc = "detect" /\ dps = received /\ CameIn /\ TypeOK /\ n \in Nat
      /\ DOMAIN dps = 1..n /\ Len(dps) = n /\ pc' = "done"
      /\ UNCHANGED <<metric, dps, i, seen, remove, idx, kept, received>>
  BY LenProperties DEF ReaggregationInv, ReturnEarly, CameIn
<1>2. \A j, k \in 1..n : H(j) = H(k) => j = k
  BY <1>1 DEF ReturnEarly, hasCollisions, Hash, H
<1> DEFINE from == [m \in 1..n |-> m]
<1>3. \A m \in 1..n : Result(dps[m], from[m], Members(H(from[m]), n))
  <2> TAKE m \in 1..n
  <2>1. Members(H(m), n) = {m}
    BY <1>2 DEF Members
  <2> QED
    BY <1>1, <2>1, Alone
<1>4. Returns
  <2>1. from \in [1..Len(dps) -> 1..n]
    BY <1>1
  <2>2. \A m \in 1..n : from[m] = m
    OBVIOUS
  <2> HIDE DEF from
  <2> QED
    BY <1>1, <1>2, <1>3, <2>1, <2>2 DEF Returns
<1>5. TypeOK' /\ CameIn' /\ Returns'
  BY <1>1, <1>4, SameFacts
<1> QED
  BY <1>1, <1>5 DEF ReaggregationInv

\* The first loop has changed nothing.
LEMMA BeginMergeKeepsInv ==
  ASSUME ReaggregationInv, BeginMerge
  PROVE  ReaggregationInv'
<1>1. /\ pc = "detect" /\ pc' = "merge" /\ TypeOK /\ CameIn /\ Merging /\ idx = 1 /\ kept = <<>>
      /\ UNCHANGED <<metric, dps, i, seen, remove, idx, kept, received>>
  BY DEF ReaggregationInv, BeginMerge
<1>2. TypeOK' /\ CameIn' /\ Merging'
  BY <1>1, SameFacts
<1> QED
  BY <1>1, <1>2 DEF ReaggregationInv

\* Before the compaction nothing is kept.
LEMMA BeginCompactKeepsInv ==
  ASSUME ReaggregationInv, BeginCompact
  PROVE  ReaggregationInv'
<1>1. /\ pc = "merge" /\ pc' = "compact" /\ idx = 1 /\ kept = <<>> /\ TypeOK /\ CameIn /\ Merging
      /\ i > Len(dps)
      /\ UNCHANGED <<metric, dps, i, seen, remove, idx, kept, received>>
  BY DEF ReaggregationInv, BeginCompact
<1>2. TypeOK' /\ CameIn' /\ Merging'
  BY <1>1, SameFacts
<1>3. i = Len(received) + 1
  BY <1>1, LenProperties DEF TypeOK, Merging, Unmerged
<1>4. Compacting'
  <2> DEFINE from == [m \in 1..0 |-> 0]
  <2>1. Len(kept') = 0 /\ (1..idx' - 1) = {} /\ 1..0 = {}
    BY <1>1
  <2>2. from \in [1..Len(kept') -> (1..idx' - 1) \ remove']
    BY <2>1
  <2> HIDE DEF from
  <2>3. KeptFrom(from)'
    BY <2>1 DEF KeptFrom
  <2> QED
    BY <1>1, <1>3, <2>2, <2>3 DEF Compacting
<1> QED
  BY <1>1, <1>2, <1>4 DEF ReaggregationInv

\* The first of an identity: no group but its own has it.
LEMMA LeadKeepsInv ==
  ASSUME ReaggregationInv, Lead
  PROVE  ReaggregationInv'
<1>1. /\ pc = "merge" /\ pc' = "merge" /\ TypeOK /\ CameIn /\ Merging /\ idx = 1 /\ kept = <<>>
      /\ i <= Len(dps) /\ Hash(i) \notin DOMAIN seen /\ i' = i + 1
      /\ seen' = [h \in DOMAIN seen \union {Hash(i)} |-> IF h = Hash(i) THEN i ELSE seen[h]]
      /\ UNCHANGED <<metric, dps, remove, idx, kept, pc, received>>
  BY DEF ReaggregationInv, Lead
<1>2. /\ Len(received) \in Nat /\ i \in 1..Len(received) /\ i' \in 2..Len(received) + 1
      /\ 1..i' - 1 = (1..i - 1) \union {i} /\ i \notin 1..i - 1
      /\ dps[i] = received[i] /\ Hash(i) = H(i)
  BY <1>1, LenProperties DEF Merging, Unmerged, TypeOK, H, Hash
<1>3. \A j : H(j)' = H(j)
  BY <1>1 DEF H
<1>4. DOMAIN seen = {H(j) : j \in 1..i - 1} /\ H(i) \notin DOMAIN seen
  BY <1>1, <1>2 DEF Merging, Leaders
<1>5. /\ DOMAIN seen' = {H(j) : j \in 1..i' - 1}
      /\ seen'[H(i)] = i
      /\ \A h \in DOMAIN seen : seen'[h] = seen[h]
  BY <1>1, <1>2, <1>4
<1>6. TypeOK'
  <2>1. \A h \in DOMAIN seen' : seen'[h] \in 1..i' - 1
    BY <1>1, <1>2, <1>4, <1>5 DEF TypeOK
  <2>2. remove' \subseteq 1..i' - 1
    BY <1>1, <1>2 DEF TypeOK
  <2> QED
    BY <1>1, <1>2, <2>1, <2>2 DEF TypeOK
<1>7. CameIn'
  BY <1>1 DEF CameIn
<1>8. ASSUME NEW h \in DOMAIN seen'
      PROVE  /\ seen'[h] \in 1..i' - 1 /\ H(seen'[h]) = h
             /\ Result(dps[seen'[h]], seen'[h], Members(h, i' - 1))
  <2>1. CASE h = H(i)
    <3>1. Members(h, i' - 1) = {i}
      BY <1>2, <1>4, <2>1 DEF Members
    <3> QED
      BY <1>1, <1>2, <1>5, <2>1, <3>1, Alone
  <2>2. CASE h # H(i)
    <3>1. h \in DOMAIN seen /\ seen'[h] = seen[h]
      BY <1>2, <1>4, <1>5, <2>2
    <3>2. Members(h, i' - 1) = Members(h, i - 1)
      BY <1>2, <2>2 DEF Members
    <3> QED
      BY <1>1, <1>2, <3>1, <3>2 DEF Merging, Leaders
  <2> QED
    BY <2>1, <2>2
<1>9. remove = {j \in 1..i' - 1 : seen'[H(j)] # j}
  <2>1. remove = {j \in 1..i - 1 : seen[H(j)] # j}
    BY <1>1 DEF Merging, Marked
  <2>2. \A j \in 1..i - 1 : seen'[H(j)] = seen[H(j)]
    BY <1>4, <1>5
  <2> QED
    BY <1>2, <1>5, <2>1, <2>2
<1>10. Merging'
  <2>1. \A h, n : Members(h, n)' = Members(h, n)
    BY <1>3 DEF Members
  <2>2. \A q, f, S : Result(q, f, S)' <=> Result(q, f, S)
    BY <1>1, SameResult
  <2>3. Unmerged'
    BY <1>1, <1>2 DEF Merging, Unmerged
  <2>4. Leaders'
    <3>1. \A h \in DOMAIN seen' :
            /\ seen'[h] \in 1..i' - 1 /\ H(seen[h])' = h
            /\ Result(dps[seen[h]], seen[h], Members(h, i - 1))'
      BY <1>1, <1>3, <1>8, <2>1, <2>2
    <3>2. DOMAIN seen' = {H(j)' : j \in 1..i' - 1}
      BY <1>3, <1>5
    <3> QED
      BY <3>1, <3>2 DEF Leaders
  <2>5. Marked'
    BY <1>1, <1>3, <1>9 DEF Marked
  <2> QED
    BY <2>3, <2>4, <2>5 DEF Merging
<1> QED
  BY <1>1, <1>6, <1>7, <1>10 DEF ReaggregationInv

\* A later one of an identity goes into its leader and is marked.
LEMMA MergeKeepsInv ==
  ASSUME ReaggregationInv, Merge
  PROVE  ReaggregationInv'
<1> DEFINE h == H(i)
           l == seen[h]
           p == dps[l]
           S == Members(h, i - 1)
<1>1. /\ pc = "merge" /\ pc' = "merge" /\ TypeOK /\ CameIn /\ Merging /\ idx = 1 /\ kept = <<>>
      /\ i <= Len(dps) /\ Hash(i) \in DOMAIN seen /\ i' = i + 1
      /\ remove' = remove \union {i}
      /\ UNCHANGED <<metric, seen, idx, kept, pc, received>>
  BY DEF ReaggregationInv, Merge, Mark
<1>2. /\ Len(received) \in Nat /\ i \in 1..Len(received) /\ i' \in 2..Len(received) + 1
      /\ 1..i' - 1 = (1..i - 1) \union {i} /\ i \notin 1..i - 1
      /\ dps[i] = received[i] /\ Hash(i) = h /\ Len(dps) = Len(received)
      /\ DOMAIN dps = 1..Len(received) /\ metric \in {"gauge", "delta_sum"}
  BY <1>1, LenProperties DEF Merging, Unmerged, TypeOK, H, Hash
<1>3. /\ \A j : H(j)' = H(j)
      /\ \A g, n : Members(g, n)' = Members(g, n)
      /\ \A q, f, T : Result(q, f, T)' <=> Result(q, f, T)
  <2>1. \A j : H(j)' = H(j)
    BY <1>1 DEF H
  <2> QED
    BY <1>1, <2>1, SameResult DEF Members
<1>4. /\ l = seen[h] /\ p = dps[l] /\ S = Members(h, i - 1) /\ h = H(i)
      /\ l \in 1..i - 1 /\ H(l) = h /\ Result(p, l, S)
  BY <1>1, <1>2 DEF Merging, Leaders
<1> HIDE DEF h, l, p, S
<1>5. /\ p \in AnyPoint /\ Fits(p) /\ dps[i] \in AnyPoint /\ Fits(dps[i])
      /\ l \in 1..Len(received) /\ l # i
  <2>1. l \in 1..Len(received) /\ l # i
    BY <1>2, <1>4
  <2> QED
    BY <1>1, <1>2, <1>4, <2>1, ElementOfSeq DEF TypeOK, Fits
<1> DEFINE merged == IF metric = "gauge" THEN MergeGauge(dps[i], p) ELSE MergeDelta(dps[i], p)
           rest == [dps[i] EXCEPT !.exemplars = <<>>]
<1>6. merged \in AnyPoint /\ Fits(merged) /\ merged.attrs = p.attrs
  <2>1. /\ MergeGauge(dps[i], p).attrs = p.attrs /\ MergeDelta(dps[i], p).attrs = p.attrs
    BY <1>5 DEF MergeGauge, MergeDelta, AnyPoint
  <2> QED
    BY <1>5, <2>1, MergedIsPoint
<1>7. rest \in AnyPoint /\ Fits(rest) /\ rest.attrs = received[i].attrs
  <2>1. rest.num = dps[i].num /\ rest.attrs = dps[i].attrs
    BY <1>5 DEF AnyPoint
  <2>2. rest \in AnyPoint
    <3>1. <<>> \in Seq(Nat)
      OBVIOUS
    <3> QED
      BY <1>5, <3>1 DEF AnyPoint
  <2> QED
    BY <1>2, <1>5, <2>1, <2>2 DEF Fits
<1>8. Result(merged, l, Members(h, i' - 1))
  <2>1. Members(h, i' - 1) = S \union {i}
    BY <1>2, <1>4 DEF Members
  <2>2. S \in SUBSET (1..Len(received)) /\ \A k \in S : k < i
    BY <1>2, <1>4 DEF Members
  <2>3. /\ metric = "gauge" => Result(MergeGauge(dps[i], p), l, S \union {i})
        /\ metric = "delta_sum" => Result(MergeDelta(dps[i], p), l, S \union {i})
    BY <1>1, <1>2, <1>4, <1>5, <2>2, MergeExtends
  <2> QED
    BY <1>2, <2>1, <2>3
<1>9. dps' = [dps EXCEPT ![l] = merged, ![i] = rest]
  <2>1. MergeInto(p) = merged
    BY <1>2 DEF MergeInto
  <2>2. dps' = [dps EXCEPT ![seen[Hash(i)]] = MergeInto(@), ![i].exemplars = <<>>]
    BY DEF Merge
  <2> QED
    BY <1>1, <1>2, <1>4, <1>5, <2>1, <2>2
<1> HIDE DEF merged, rest
<1>10. /\ dps' \in Seq(AnyPoint) /\ Len(dps') = Len(received) /\ DOMAIN dps' = 1..Len(received)
       /\ dps'[l] = merged /\ dps'[i] = rest
       /\ \A j \in 1..Len(received) : j # l /\ j # i => dps'[j] = dps[j]
  <2>1. dps \in Seq(AnyPoint)
    BY <1>1 DEF TypeOK
  <2>2. dps' \in [1..Len(received) -> AnyPoint]
    BY <1>2, <1>5, <1>6, <1>7, <1>9, <2>1
  <2>3. dps' \in Seq(AnyPoint) /\ Len(dps') = Len(received)
    BY <1>2, <2>2, SeqDef, LenProperties
  <2> QED
    BY <1>2, <1>5, <1>9, <2>2, <2>3
<1>11. TypeOK'
  <2>1. \A j \in DOMAIN dps' : Fits(dps'[j])
    <3>1. \A j \in 1..Len(received) : Fits(dps[j])
      BY <1>1, <1>2 DEF TypeOK, Fits
    <3> QED
      BY <1>6, <1>7, <1>10, <3>1
  <2>2. /\ remove' \subseteq 1..i' - 1
        /\ \A g \in DOMAIN seen' : seen'[g] \in 1..i' - 1
    BY <1>1, <1>2 DEF TypeOK
  <2>3. i' \in 1..Len(received) + 1
    BY <1>2
  <2> QED
    BY <1>1, <1>10, <2>1, <2>2, <2>3 DEF TypeOK, Fits
<1>12. CameIn'
  BY <1>1 DEF CameIn
<1>13. ASSUME NEW g \in DOMAIN seen
       PROVE  /\ seen[g] \in 1..i' - 1 /\ H(seen[g]) = g
              /\ Result(dps'[seen[g]], seen[g], Members(g, i' - 1))
  <2>1. seen[g] \in 1..i - 1 /\ H(seen[g]) = g /\ Result(dps[seen[g]], seen[g], Members(g, i - 1))
    BY <1>1 DEF Merging, Leaders
  <2>2. CASE g = h
    BY <1>1, <1>2, <1>4, <1>8, <1>10, <2>1, <2>2
  <2>3. CASE g # h
    <3>1. seen[g] # l /\ seen[g] # i /\ seen[g] \in 1..Len(received)
      <4>1. seen[g] # l
        BY <1>4, <2>1, <2>3
      <4> QED
        BY <1>2, <2>1, <4>1
    <3>2. Members(g, i' - 1) = Members(g, i - 1)
      BY <1>2, <1>4, <2>3 DEF Members
    <3> QED
      BY <1>2, <1>10, <2>1, <3>1, <3>2
  <2> QED
    BY <2>2, <2>3
<1>14. remove' = {j \in 1..i' - 1 : seen[H(j)] # j}
  <2>1. remove = {j \in 1..i - 1 : seen[H(j)] # j}
    BY <1>1 DEF Merging, Marked
  <2>2. seen[H(i)] # i
    BY <1>4, <1>5
  <2> QED
    BY <1>1, <1>2, <2>1, <2>2
<1>15. Unmerged'
  <2>1. Unmerged
    BY <1>1 DEF Merging
  <2>2. \A j \in 1..Len(received) : dps'[j].attrs = received[j].attrs
    BY <1>4, <1>5, <1>6, <1>7, <1>10, <2>1 DEF Unmerged
  <2>3. \A j \in i'..Len(received) : dps'[j] = received[j]
    <3>1. \A j \in i'..Len(received) : j # l /\ j # i /\ j \in 1..Len(received) /\ j \in i..Len(received)
      BY <1>1, <1>2, <1>4
    <3> QED
      BY <1>10, <2>1, <3>1 DEF Unmerged
  <2> QED
    BY <1>1, <1>10, <2>2, <2>3 DEF Unmerged
<1>16. Leaders'
  <2>1. DOMAIN seen = {H(j) : j \in 1..i - 1} /\ H(i) \in DOMAIN seen
    BY <1>1, <1>2, <1>4 DEF Merging, Leaders
  <2>2. DOMAIN seen = {H(j) : j \in 1..i' - 1}
    BY <1>2, <2>1
  <2> QED
    BY <1>1, <1>3, <1>13, <2>2 DEF Leaders
<1>17. Marked'
  BY <1>1, <1>3, <1>14 DEF Marked
<1> QED
  BY <1>1, <1>11, <1>12, <1>15, <1>16, <1>17 DEF ReaggregationInv, Merging

\* An unmarked point goes behind those kept.
LEMMA CompactKeepsInv ==
  ASSUME ReaggregationInv, Compact
  PROVE  ReaggregationInv'
<1>1. /\ pc = "compact" /\ pc' = "compact" /\ TypeOK /\ CameIn /\ Merging /\ Compacting
      /\ idx <= Len(dps) /\ idx' = idx + 1
      /\ kept' = IF idx \in remove THEN kept ELSE Append(kept, dps[idx])
      /\ UNCHANGED <<metric, dps, i, seen, remove, pc, received>>
  BY DEF ReaggregationInv, Compact, shouldRemove
<1>2. /\ Len(received) \in Nat /\ Len(dps) = Len(received) /\ idx \in 1..Len(received)
      /\ dps \in Seq(AnyPoint) /\ dps[idx] \in AnyPoint
      /\ kept \in Seq(AnyPoint) /\ Len(kept) \in Nat
  BY <1>1, LenProperties, ElementOfSeq DEF Merging, Unmerged, TypeOK
<1>3. Merging' /\ CameIn'
  <2>1. (\A j : H(j)' = H(j)) /\ \A q, f, S : Result(q, f, S)' <=> Result(q, f, S)
    BY <1>1, SameResult DEF H
  <2>2. \A h, n : Members(h, n)' = Members(h, n)
    BY <2>1 DEF Members
  <2>3. Unmerged'
    BY <1>1 DEF Merging, Unmerged
  <2>4. Leaders'
    BY <1>1, <2>1, <2>2 DEF Merging, Leaders
  <2>5. Marked'
    BY <1>1, <2>1 DEF Merging, Marked
  <2>6. CameIn'
    BY <1>1 DEF CameIn
  <2> QED
    BY <2>3, <2>4, <2>5, <2>6 DEF Merging
<1>4. PICK from \in [1..Len(kept) -> (1..idx - 1) \ remove] : KeptFrom(from)
  BY <1>1 DEF Compacting
<1>5. CASE idx \in remove
  <2>1. kept' = kept
    BY <1>1, <1>5
  <2>2. (1..idx' - 1) \ remove' = (1..idx - 1) \ remove
    BY <1>1, <1>2, <1>5
  <2>3. KeptFrom(from)'
    BY <1>1, <1>4, <2>1, <2>2 DEF KeptFrom
  <2>4. Compacting'
    BY <1>1, <1>4, <2>1, <2>2, <2>3 DEF Compacting
  <2>5. TypeOK'
    BY <1>1, <1>2, <2>1 DEF TypeOK
  <2> QED
    BY <1>1, <1>3, <2>4, <2>5 DEF ReaggregationInv
<1>6. CASE idx \notin remove
  <2> DEFINE n == Len(kept) + 1
  <2> PICK g : g = [m \in 1..n |-> IF m = n THEN idx ELSE from[m]]
    OBVIOUS
  <2>1. /\ kept' \in Seq(AnyPoint) /\ Len(kept') = n
        /\ \A m \in 1..Len(kept) : kept'[m] = kept[m]
        /\ kept'[n] = dps[idx]
    BY <1>1, <1>2, <1>6, AppendProperties
  <2>2. (1..idx' - 1) \ remove' = ((1..idx - 1) \ remove) \union {idx}
    BY <1>1, <1>2, <1>6
  <2>3. n \in Nat /\ 1..n = (1..Len(kept)) \union {n} /\ n \notin 1..Len(kept)
    BY <1>2
  <2> HIDE DEF n
  <2>4. g \in [1..n -> (1..idx' - 1) \ remove']
    BY <2>2, <2>3
  <2>5. g[n] = idx /\ \A m \in 1..Len(kept) : g[m] = from[m] /\ from[m] \in (1..idx - 1) \ remove
    BY <2>3
  <2>6. \A l, m \in 1..n : l < m => g[l] < g[m]
    <3> SUFFICES ASSUME NEW l \in 1..n, NEW m \in 1..n, l < m
                 PROVE  g[l] < g[m]
      OBVIOUS
    <3>1. l \in 1..Len(kept)
      BY <1>2, <2>3 DEF n
    <3>2. CASE m = n
      BY <1>2, <2>5, <3>1, <3>2
    <3>3. CASE m # n
      BY <1>4, <2>3, <2>5, <3>1, <3>3 DEF KeptFrom
    <3> QED
      BY <3>2, <3>3
  <2>7. \A j \in (1..idx' - 1) \ remove' : \E m \in 1..n : g[m] = j
    BY <1>4, <2>2, <2>3, <2>5 DEF KeptFrom
  <2>8. \A m \in 1..n : kept'[m] = dps[g[m]]
    BY <1>4, <2>1, <2>3, <2>5 DEF KeptFrom
  <2>9. KeptFrom(g)'
    BY <1>1, <2>1, <2>6, <2>7, <2>8 DEF KeptFrom
  <2>10. Compacting'
    BY <1>1, <2>1, <2>4, <2>9 DEF Compacting
  <2>11. TypeOK'
    BY <1>1, <1>2, <2>1 DEF TypeOK
  <2> QED
    BY <1>1, <1>3, <2>10, <2>11 DEF ReaggregationInv
<1> QED
  BY <1>5, <1>6

\* What is left is the leaders.
LEMMA TruncateKeepsInv ==
  ASSUME ReaggregationInv, Truncate
  PROVE  ReaggregationInv'
<1> DEFINE n == Len(received)
<1>1. /\ pc = "compact" /\ pc' = "done" /\ TypeOK /\ CameIn /\ Merging /\ Compacting
      /\ idx > Len(dps) /\ dps' = kept
      /\ UNCHANGED <<metric, i, seen, remove, idx, kept, received>>
  BY DEF ReaggregationInv, Truncate
<1>2. n \in Nat /\ Len(dps) = n /\ idx = n + 1 /\ i = n + 1
  BY <1>1, LenProperties DEF Merging, Unmerged, TypeOK, Compacting
<1>3. PICK from \in [1..Len(kept) -> (1..n) \ remove] : KeptFrom(from)
  BY <1>1, <1>2 DEF Compacting
<1>4. kept \in Seq(AnyPoint) /\ Len(kept) \in Nat /\ DOMAIN kept = 1..Len(kept)
  BY <1>1, LenProperties DEF TypeOK
<1>5. \A j \in (1..n) \ remove : seen[H(j)] = j
  BY <1>1, <1>2 DEF Merging, Marked
<1>6. \A j \in 1..n : H(j) \in DOMAIN seen
  BY <1>1, <1>2 DEF Merging, Leaders
<1>7. \A l, m \in 1..Len(kept) : l < m => from[l] < from[m]
  BY <1>3 DEF KeptFrom
<1>8. \A l, m \in 1..Len(kept) : H(from[l]) = H(from[m]) => l = m
  <2> SUFFICES ASSUME NEW l \in 1..Len(kept), NEW m \in 1..Len(kept), H(from[l]) = H(from[m])
               PROVE  l = m
    OBVIOUS
  <2>1. from[l] = from[m] /\ from[l] \in 1..n
    BY <1>3, <1>5
  <2>2. ~(l < m) /\ ~(m < l)
    BY <1>2, <1>7, <2>1
  <2>3. l \in Nat /\ m \in Nat
    BY <1>4
  <2> QED
    BY <2>2, <2>3, OneIsLess, Zenon
<1>9. \A k \in 1..n : \E m \in 1..Len(kept) : H(from[m]) = H(k)
  <2> TAKE k \in 1..n
  <2>1. seen[H(k)] \in 1..n /\ H(seen[H(k)]) = H(k)
    <3>1. \A h \in DOMAIN seen : seen[h] \in 1..i - 1 /\ H(seen[h]) = h
      BY <1>1 DEF Merging, Leaders
    <3>2. i - 1 = n
      BY <1>2
    <3> QED
      BY <1>6, <3>1, <3>2, Zenon
  <2>2. seen[H(k)] \notin remove
    BY <1>1, <2>1 DEF Merging, Marked
  <2>3. PICK m \in 1..Len(kept) : from[m] = seen[H(k)]
    BY <1>2, <1>3, <2>1, <2>2 DEF KeptFrom
  <2> QED
    BY <2>1, <2>3
<1>10. \A m \in 1..Len(kept) : Result(kept[m], from[m], Members(H(from[m]), n))
  <2> TAKE m \in 1..Len(kept)
  <2>1. from[m] \in (1..n) \ remove /\ kept[m] = dps[from[m]]
    BY <1>3 DEF KeptFrom
  <2>2. H(from[m]) \in DOMAIN seen /\ seen[H(from[m])] = from[m]
    BY <1>5, <1>6, <2>1
  <2>3. i - 1 = n
    BY <1>2
  <2> QED
    BY <1>1, <2>1, <2>2, <2>3 DEF Merging, Leaders
<1>11. Returns'
  <2>1. (\A j : H(j)' = H(j)) /\ \A q, f, S : Result(q, f, S)' <=> Result(q, f, S)
    BY <1>1, SameResult DEF H
  <2>2. \A h, m : Members(h, m)' = Members(h, m)
    BY <1>1, <2>1 DEF Members
  <2>3. from \in [1..Len(kept) -> 1..n]
    BY <1>3
  <2> QED
    BY <1>1, <1>7, <1>8, <1>9, <1>10, <2>1, <2>2, <2>3 DEF Returns
<1>12. TypeOK' /\ CameIn'
  <2>1. \A m \in 1..Len(kept) : Fits(kept[m])
    <3>1. \A m \in 1..Len(kept) : from[m] \in 1..n /\ kept[m] = dps[from[m]]
      BY <1>3 DEF KeptFrom
    <3>2. \A j \in 1..n : Fits(dps[j])
      BY <1>1, <1>2, LenProperties DEF TypeOK, Fits
    <3> QED
      BY <3>1, <3>2
  <2> QED
    BY <1>1, <1>4, <2>1 DEF TypeOK, CameIn, Fits
<1> QED
  BY <1>1, <1>11, <1>12 DEF ReaggregationInv

\* Without a step nothing changes.
LEMMA StutterKeepsInv ==
  ASSUME ReaggregationInv, UNCHANGED vars
  PROVE  ReaggregationInv'
<1>1. UNCHANGED <<metric, dps, i, seen, remove, idx, kept, received>> /\ pc' = pc
  BY DEF vars
<1>2. pc' \in {"detect", "merge", "compact", "done"}
  BY <1>1 DEF ReaggregationInv, TypeOK
<1>3. Compacting => Compacting'
  BY <1>1 DEF Compacting, KeptFrom
<1> QED
  BY <1>1, <1>2, <1>3, SameFacts DEF ReaggregationInv

\* Each of the seven steps preserves the invariant.
LEMMA InvStep == ReaggregationInv /\ [Next]_vars => ReaggregationInv'
BY ReturnEarlyKeepsInv, BeginMergeKeepsInv, LeadKeepsInv, MergeKeepsInv, BeginCompactKeepsInv,
   CompactKeepsInv, TruncateKeepsInv, StutterKeepsInv
DEF Next

\* The invariant holds throughout every call.
LEMMA InvAlways == Spec => []ReaggregationInv
BY InitInv, InvStep, PTL DEF Spec

-----------------------------------------------------------------------------

\* The group of a result is the points of its source's identity.
LEMMA GroupOf ==
  ASSUME NEW from \in [1..Len(dps) -> 1..Len(received)], CameIn, TypeOK,
         NEW m \in 1..Len(dps),
         Result(dps[m], from[m], Members(H(from[m]), Len(received)))
  PROVE  Hash(m) = H(from[m]) /\ Group(m) = Members(H(from[m]), Len(received))
<1>1. Hash(m) = H(from[m])
  BY DEF Result, Hash, H
<1>2. DOMAIN received = 1..Len(received)
  BY LenProperties DEF CameIn
<1> QED
  BY <1>1, <1>2 DEF Group, Members, H

\* What is returned, in the words of the properties.
LEMMA ReturnedIs ==
  ASSUME ReaggregationInv, Returned
  PROVE  /\ TypeOK /\ CameIn
         /\ DOMAIN dps = 1..Len(dps) /\ DOMAIN received = 1..Len(received)
         /\ \E from \in [1..Len(dps) -> 1..Len(received)] :
              /\ \A m, n \in 1..Len(dps) : m < n => from[m] < from[n]
              /\ \A m, n \in 1..Len(dps) : Hash(m) = Hash(n) => m = n
              /\ \A k \in 1..Len(received) : \E m \in 1..Len(dps) : Hash(m) = H(k)
              /\ \A m \in 1..Len(dps) : Result(dps[m], from[m], Group(m))
<1>1. TypeOK /\ CameIn /\ Returns
  BY DEF ReaggregationInv, Returned
<1>2. DOMAIN dps = 1..Len(dps) /\ DOMAIN received = 1..Len(received)
  BY <1>1, LenProperties DEF TypeOK
<1>3. PICK from \in [1..Len(dps) -> 1..Len(received)] :
        /\ \A m, n \in 1..Len(dps) : m < n => from[m] < from[n]
        /\ \A m, n \in 1..Len(dps) : H(from[m]) = H(from[n]) => m = n
        /\ \A k \in 1..Len(received) : \E m \in 1..Len(dps) : H(from[m]) = H(k)
        /\ \A m \in 1..Len(dps) : Result(dps[m], from[m], Members(H(from[m]), Len(received)))
  BY <1>1 DEF Returns
<1>4. \A m \in 1..Len(dps) :
        Hash(m) = H(from[m]) /\ Group(m) = Members(H(from[m]), Len(received))
  BY <1>1, <1>3, GroupOf
<1> QED
  BY <1>1, <1>2, <1>3, <1>4

\* The variables keep to their types, and addNumberValue's integers to the
\* machine's range.
THEOREM TypeCorrect == Spec => []TypeOK
<1>1. ReaggregationInv => TypeOK
  BY DEF ReaggregationInv
<1> QED
  BY <1>1, InvAlways, PTL

\* What is returned has one point for each identity.
LEMMA InvWriter == ReaggregationInv => SingleWriter
<1> SUFFICES ASSUME ReaggregationInv, Returned
             PROVE  /\ \A j, k \in DOMAIN dps : Hash(j) = Hash(k) => j = k
                    /\ \A k \in DOMAIN received :
                         \E j \in DOMAIN dps : Hash(j) = hashAttributes(received[k].attrs)
  BY DEF SingleWriter
<1> QED
  BY ReturnedIs, Zenon DEF H

\* After the merge and the compaction each identity has exactly one point, for
\* any slice.
THEOREM OneWriter == Spec => []SingleWriter
BY InvWriter, InvAlways, PTL

\* The sources of the results come in order, each the first of its group.
LEMMA InvLeaders == ReaggregationInv => LeadersKept
<1> SUFFICES ASSUME ReaggregationInv, Returned
             PROVE  LeadersKept
  BY DEF LeadersKept
<1>1. PICK from \in [1..Len(dps) -> 1..Len(received)] :
        /\ \A m, n \in 1..Len(dps) : m < n => from[m] < from[n]
        /\ \A m \in 1..Len(dps) : Result(dps[m], from[m], Group(m))
  BY ReturnedIs
<1>2. DOMAIN dps = 1..Len(dps) /\ DOMAIN received = 1..Len(received) /\ Len(received) \in Nat
  BY ReturnedIs, LenProperties DEF CameIn
<1>3. ASSUME NEW j \in DOMAIN dps, NEW k \in DOMAIN dps, j < k
      PROVE  \E f \in Group(j) : \A m \in Group(k) : f < m
  <2>1. from[j] \in Group(j) /\ from[j] < from[k] /\ \A m \in Group(k) : from[k] <= m
    BY <1>1, <1>2, <1>3 DEF Result
  <2>2. Group(k) \subseteq 1..Len(received) /\ from[j] \in 1..Len(received) /\ from[k] \in 1..Len(received)
    BY <1>1, <1>2 DEF Group
  <2>3. \A m \in Group(k) : from[j] < m
    BY <1>2, <2>1, <2>2
  <2> QED
    BY <2>1, <2>3
<1>4. ASSUME NEW j \in DOMAIN dps, NEW k \in Group(j), \A m \in Group(j) : k <= m
      PROVE  dps[j].attrs = received[k].attrs /\ (Group(j) = {k} => dps[j] = received[k])
  <2>1. from[j] \in Group(j) /\ from[j] <= k
    BY <1>1, <1>2, <1>4 DEF Result
  <2>2. from[j] \in Nat /\ k \in Nat
    BY <1>1, <1>2, <1>4 DEF Group
  <2>3. from[j] = k
    BY <1>4, <2>1, <2>2
  <2> QED
    BY <1>1, <1>2, <1>4, <2>3 DEF Result
<1> QED
  BY <1>3, <1>4 DEF LeadersKept

\* The points left are the first of their groups, in order, and those that were
\* alone are untouched.
THEOREM FirstsKept == Spec => []LeadersKept
BY InvLeaders, InvAlways, PTL

\* Each of a gauge's results has been through GaugeTakesLatest.
LEMMA InvLatest == ReaggregationInv => LatestWins
<1> SUFFICES ASSUME ReaggregationInv, Returned, metric = "gauge", NEW j \in DOMAIN dps
             PROVE  \E k \in Latest(j) :
                      /\ dps[j].ts = received[k].ts
                      /\ received[k].num.kind # "empty" => dps[j].num = received[k].num
                      /\ received[k].start > 0 => dps[j].start = received[k].start
  BY DEF LatestWins
<1>1. LatestOf(dps[j], Group(j))
  BY ReturnedIs, Zenon DEF Result
<1> QED
  BY <1>1, Zenon DEF LatestOf, Latest

\* A gauge's result has the latest timestamp of its group, and value and start
\* of a point of that timestamp unless it has none.
THEOREM LastValueWins == Spec => []LatestWins
BY InvLatest, InvAlways, PTL

\* Each of a delta sum's results has been through DeltaWidens.
LEMMA InvHull == ReaggregationInv => IntervalIsHull
<1> SUFFICES ASSUME ReaggregationInv, Returned, metric = "delta_sum", NEW j \in DOMAIN dps
             PROVE  HullOf(dps[j], Group(j))
  BY DEF IntervalIsHull, HullOf
<1> QED
  BY ReturnedIs, Zenon DEF Result

\* A delta sum's result covers the intervals of its group and no more.
THEOREM HullCovered == Spec => []IntervalIsHull
BY InvHull, InvAlways, PTL

\* Each of a delta sum's results has been through DeltaAdds.
LEMMA InvTotals == ReaggregationInv => TotalsPreserved
<1> SUFFICES ASSUME ReaggregationInv, Returned, metric = "delta_sum", NEW j \in DOMAIN dps
             PROVE  (numberDataPointToDouble(dps[j].num) - Total(Group(j))) % Word = 0
  BY DEF TotalsPreserved, Total, Values
<1> DEFINE t == Total(Group(j))
           d == numberDataPointToDouble(dps[j].num)
<1>1. AddsUp(dps[j], Group(j))
  BY ReturnedIs, Zenon DEF Result
<1>2. PICK q \in Int : d = t + q * Word
  BY <1>1 DEF AddsUp
<1>3. t \in Int
  <2>1. Group(j) \in SUBSET (1..Len(received)) /\ CameIn
    BY ReturnedIs DEF Group
  <2> QED
    BY <2>1, TotalAdds
<1> HIDE DEF t, d
<1>4. q * Word \in Int /\ d - t = q * Word
  BY <1>2, <1>3, ReaggregationAssumption
<1> QED
  BY <1>4, NoRemainder DEF t, d

\* What a delta sum's group adds up to is what its result says, but for whole
\* words that were left out where integers are added.
THEOREM TotalsKept == Spec => []TotalsPreserved
BY InvTotals, InvAlways, PTL

\* Each result has been through ExemplarsGrow.
LEMMA InvExemplars == ReaggregationInv => ExemplarsPreserved
<1> SUFFICES ASSUME ReaggregationInv, Returned, NEW j \in DOMAIN dps
             PROVE  InOrder(dps[j].exemplars, Group(j))
  BY DEF ExemplarsPreserved, InOrder
<1> QED
  BY ReturnedIs, Zenon DEF Result

\* No exemplar is lost, doubled or moved to another group.
THEOREM ExemplarsKept == Spec => []ExemplarsPreserved
BY InvExemplars, InvAlways, PTL
=============================================================================
