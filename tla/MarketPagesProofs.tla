-------------------------- MODULE MarketPagesProofs --------------------------
(***************************************************************************)
(* What holds of the searches and the pages of MarketAnswers for any       *)
(* quotes, queries and refinements: a hit opens and shows what the run of  *)
(* its search published for the family, and an article that is narrowed    *)
(* answers what was asked.                                                 *)
(*                                                                         *)
(* The first sections are about the operators: what sorting, choosing and  *)
(* adding keep of a sequence, and what narrowing keeps of an article.  The *)
(* next ones follow a run from its quotes over the candidates and the hits *)
(* to the branches of an article.  The invariant, Opening, is about the    *)
(* run of a key: it stays published whichever run is live.                 *)
(***************************************************************************)
EXTENDS MarketAnswersProofs

-----------------------------------------------------------------------------
(* Lists *)

IsSeq(s) == s \in Seq(ToSet(s))

\* A function on 1..n is a sequence of its values.
LEMMA ListOf ==
    ASSUME NEW n \in Nat, NEW s, DOMAIN s = 1..n, s = [i \in 1..n |-> s[i]]
    PROVE  IsSeq(s) /\ Len(s) = n /\ (s = <<>> <=> n = 0)
<1>1. \A i \in 1..n : s[i] \in ToSet(s)
  BY DEF ToSet
<1>. QED
  BY <1>1 DEF IsSeq

\* What a sequence has at its places
LEMMA SeqHas ==
    ASSUME NEW s, IsSeq(s)
    PROVE  /\ Len(s) \in Nat /\ DOMAIN s = 1..Len(s) /\ s = [i \in 1..Len(s) |-> s[i]]
           /\ s = <<>> <=> Len(s) = 0
           /\ s = <<>> <=> ToSet(s) = {}
           /\ \A i \in DOMAIN s : s[i] \in ToSet(s)
           /\ \A x \in ToSet(s) : \E i \in DOMAIN s : s[i] = x
           /\ IsFiniteSet(DOMAIN s)
<1>1. Len(s) \in Nat /\ DOMAIN s = 1..Len(s) /\ s = [i \in 1..Len(s) |-> s[i]] /\ (s = <<>> <=> Len(s) = 0)
  BY DEF IsSeq
<1>2. ToSet(s) = {s[i] : i \in DOMAIN s}
  BY DEF ToSet
<1>3. (s = <<>>) <=> (ToSet(s) = {})
  <2>1. ASSUME Len(s) # 0 PROVE 1 \in DOMAIN s
    BY <1>1, <2>1
  <2>2. ASSUME Len(s) = 0 PROVE DOMAIN s = {}
    BY <1>1, <2>2
  <2>. QED
    BY <1>1, <1>2, <2>1, <2>2
<1>4. IsFiniteSet(DOMAIN s)
  BY <1>1, FS_Interval
<1>. QED
  BY <1>1, <1>2, <1>3, <1>4

\* A list of what a list has at its places
LEMMA MappedList ==
    ASSUME NEW s, IsSeq(s), NEW t, t = [i \in DOMAIN s |-> t[i]]
    PROVE  IsSeq(t) /\ Len(t) = Len(s) /\ DOMAIN t = DOMAIN s /\ ToSet(t) = {t[i] : i \in DOMAIN s} /\ (t = <<>> <=> s = <<>>)
<1>1. Len(s) \in Nat /\ DOMAIN s = 1..Len(s) /\ (s = <<>> <=> Len(s) = 0)
  BY SeqHas
<1>2. DOMAIN t = 1..Len(s) /\ t = [i \in 1..Len(s) |-> t[i]]
  BY <1>1
<1>. QED
  BY <1>1, <1>2, ListOf DEF ToSet

\* The elements at some places, in a strict order of these
LEMMA RankedPlaces ==
    ASSUME NEW s, IsSeq(s), NEW at, at \subseteq DOMAIN s, NEW order, StrictTotal(at, order),
           NEW t, t = [k \in DOMAIN Ranked(at, order) |-> s[Ranked(at, order)[k]]]
    PROVE  IsSeq(t) /\ ToSet(t) = {s[i] : i \in at} /\ (t = <<>> <=> at = {}) /\ Len(t) = Cardinality(at)
<1>. DEFINE n == Cardinality(at)
            r == Ranked(at, order)
<1>1. IsFiniteSet(at)
  BY SeqHas, FS_Subset
<1>2. /\ n \in Nat /\ r \in [1..n -> at]
      /\ \A i \in at : \E k \in 1..n : r[k] = i
  BY <1>1, RankedSorted
<1>3. n = 0 <=> at = {}
  BY <1>1, FS_EmptySet
<1>. HIDE DEF r, n
<1>4. t = [k \in 1..n |-> s[r[k]]]
  BY <1>2 DEF r
<1>5. DOMAIN t = 1..n /\ t = [k \in 1..n |-> t[k]]
  BY <1>4
<1>6. IsSeq(t) /\ Len(t) = n /\ (t = <<>> <=> n = 0)
  BY <1>2, <1>5, ListOf
<1>7. ToSet(t) = {s[i] : i \in at}
  <2>1. \A k \in 1..n : r[k] \in at /\ t[k] = s[r[k]]
    BY <1>2, <1>4
  <2>2. ToSet(t) = {t[k] : k \in 1..n}
    BY <1>5 DEF ToSet
  <2>3. ASSUME NEW i \in at PROVE \E k \in 1..n : t[k] = s[i]
    <3>1. PICK k \in 1..n : r[k] = i
      BY <1>2
    <3>. QED
      BY <2>1, <3>1
  <2>. QED
    BY <2>1, <2>2, <2>3
<1>. QED
  BY <1>3, <1>6, <1>7 DEF n

\* The elements at some places of a sequence
LEMMA PickedList ==
    ASSUME NEW s, IsSeq(s), NEW at, at \subseteq DOMAIN s
    PROVE  /\ IsSeq(Picked(s, at)) /\ ToSet(Picked(s, at)) = {s[i] : i \in at}
           /\ Picked(s, at) = <<>> <=> at = {}
<1>. DEFINE order == {p \in at \X at : p[1] < p[2]}
<1>1. DOMAIN s = 1..Len(s) /\ Len(s) \in Nat
  BY SeqHas
<1>2. \A i, j \in at : <<i, j>> \in order <=> i < j
  OBVIOUS
<1>3. \A i \in at : i \in Int
  BY <1>1
<1>4. Picked(s, at) = [k \in DOMAIN Ranked(at, order) |-> s[Ranked(at, order)[k]]]
  BY DEF Picked, Ordered, Mapped
<1>. HIDE DEF order
<1>5. StrictTotal(at, order)
  BY <1>2, <1>3 DEF StrictTotal
<1>. QED
  BY <1>4, <1>5, RankedPlaces

-----------------------------------------------------------------------------
(* Keys *)

\* Some places have a first one: induction over places by a minimal one.
LEMMA FirstPlace ==
    ASSUME NEW n \in Nat, NEW D, D \subseteq 1..n, D # {}
    PROVE  \E i \in D : \A j \in 1..(i - 1) : j \notin D
<1>. DEFINE order == {p \in D \X D : p[1] < p[2]}
<1>1. IsFiniteSet(D)
  <2>1. IsFiniteSet(1..n)
    BY FS_Interval
  <2>. QED
    BY <2>1, FS_Subset
<1>2. \A i, j \in D : <<i, j>> \in order <=> i < j
  OBVIOUS
<1>. HIDE DEF order
<1>3. StrictTotal(D, order)
  BY <1>2 DEF StrictTotal
<1>4. PICK i \in D : \A j \in D \ {i} : <<i, j>> \in order
  BY <1>1, <1>3, FirstExists
<1>5. ASSUME NEW j \in 1..(i - 1), j \in D PROVE FALSE
  <2>1. i \in Int /\ j \in Int /\ j < i
    BY <1>5
  <2>2. i < j
    BY <1>2, <1>4, <1>5, <2>1
  <2>. QED
    BY <2>1, <2>2
<1>. QED
  BY <1>5

\* Comparing tuples of numbers of one length is a strict total order.
LEMMA ExceedsTotal ==
    ASSUME NEW n \in Nat, NEW S, S \subseteq [1..n -> Int]
    PROVE  /\ \A a \in S : ~Exceeds(a, a)
           /\ \A a, b \in S : a # b => Exceeds(a, b) \/ Exceeds(b, a)
           /\ \A a, b, c \in S : Exceeds(a, b) /\ Exceeds(b, c) => Exceeds(a, c)
<1>1. \A a, b \in S : Exceeds(a, b) <=> \E i \in 1..n : a[i] > b[i] /\ \A j \in 1..(i - 1) : a[j] = b[j]
  BY DEF Exceeds
<1>2. \A a \in S, i \in 1..n : a[i] \in Int
  OBVIOUS
<1>3. ASSUME NEW a \in S PROVE ~Exceeds(a, a)
  BY <1>1, <1>2
<1>4. ASSUME NEW a \in S, NEW b \in S, a # b PROVE Exceeds(a, b) \/ Exceeds(b, a)
  <2>. DEFINE D == {i \in 1..n : a[i] # b[i]}
  <2>1. D # {}
    <3>1. (\A i \in 1..n : a[i] = b[i]) => a = b
      OBVIOUS
    <3>. QED
      BY <1>4, <3>1
  <2>2. PICK i \in D : \A j \in 1..(i - 1) : j \notin D
    BY <2>1, FirstPlace
  <2>3. \A j \in 1..(i - 1) : a[j] = b[j] /\ b[j] = a[j]
    BY <2>2
  <2>4. a[i] > b[i] \/ b[i] > a[i]
    BY <1>2
  <2>. QED
    BY <1>1, <2>2, <2>3, <2>4
<1>5. ASSUME NEW a \in S, NEW b \in S, NEW c \in S, Exceeds(a, b), Exceeds(b, c) PROVE Exceeds(a, c)
  <2>1. PICK i \in 1..n : a[i] > b[i] /\ \A j \in 1..(i - 1) : a[j] = b[j]
    BY <1>1, <1>5
  <2>2. PICK k \in 1..n : b[k] > c[k] /\ \A j \in 1..(k - 1) : b[j] = c[j]
    BY <1>1, <1>5
  <2>3. CASE i = k
    <3>1. a[i] > c[i]
      BY <1>2, <2>1, <2>2, <2>3
    <3>. QED
      BY <1>1, <2>1, <2>2, <2>3, <3>1
  <2>4. CASE i < k
    <3>1. i \in 1..(k - 1) /\ \A j \in 1..(i - 1) : j \in 1..(k - 1)
      BY <2>4
    <3>2. a[i] > c[i] /\ \A j \in 1..(i - 1) : a[j] = c[j]
      BY <2>1, <2>2, <3>1
    <3>. QED
      BY <1>1, <3>2
  <2>5. CASE k < i
    <3>1. k \in 1..(i - 1) /\ \A j \in 1..(k - 1) : j \in 1..(i - 1)
      BY <2>5
    <3>2. a[k] > c[k] /\ \A j \in 1..(k - 1) : a[j] = c[j]
      BY <2>1, <2>2, <3>1
    <3>. QED
      BY <1>1, <3>2
  <2>. QED
    BY <2>3, <2>4, <2>5
<1>. QED
  BY <1>3, <1>4, <1>5

\* The greatest and the least of some numbers
LEMMA Extremes ==
    ASSUME NEW S, IsFiniteSet(S), S # {}, S \subseteq Int
    PROVE  /\ Max(S) \in S /\ \A y \in S : y <= Max(S)
           /\ Min(S) \in S /\ \A y \in S : Min(S) <= y
<1>. DEFINE up == {p \in S \X S : p[1] < p[2]}
            down == {p \in S \X S : p[1] > p[2]}
<1>1. \A x, y \in S : (<<x, y>> \in up <=> x < y) /\ (<<x, y>> \in down <=> x > y)
  OBVIOUS
<1>. HIDE DEF up, down
<1>2. StrictTotal(S, up) /\ StrictTotal(S, down)
  BY <1>1 DEF StrictTotal
<1>3. \E z \in S : \A y \in S \ {z} : <<z, y>> \in down
  BY <1>2, FirstExists
<1>4. \E z \in S : \A y \in S \ {z} : <<z, y>> \in up
  BY <1>2, FirstExists
<1>5. \E z \in S : \A y \in S : z >= y
  <2>1. PICK z \in S : \A y \in S \ {z} : <<z, y>> \in down
    BY <1>3
  <2>2. \A y \in S : y = z \/ z > y
    BY <1>1, <2>1
  <2>. QED
    BY <2>2
<1>6. \E z \in S : \A y \in S : z <= y
  <2>1. PICK z \in S : \A y \in S \ {z} : <<z, y>> \in up
    BY <1>4
  <2>2. \A y \in S : y = z \/ z < y
    BY <1>1, <2>1
  <2>. QED
    BY <2>2
<1>. QED
  BY <1>5, <1>6 DEF Max, Min

\* Places by their keys, the larger ones first
KeyOrder(D, keys) ==
    {p \in D \X D : Exceeds(keys[p[1]], keys[p[2]]) \/ (keys[p[1]] = keys[p[2]] /\ p[1] < p[2])}

\* Places are in a strict total order of their keys.
LEMMA KeyOrderTotal ==
    ASSUME NEW D, D \subseteq Int, NEW n \in Nat, NEW keys, \A i \in D : keys[i] \in [1..n -> Int]
    PROVE  StrictTotal(D, KeyOrder(D, keys))
<1>. DEFINE before(i, j) == Exceeds(keys[i], keys[j]) \/ (keys[i] = keys[j] /\ i < j)
            order == KeyOrder(D, keys)
<1>1. \A i \in D : i \in Int
  OBVIOUS
<1>2. \A i, j \in D : <<i, j>> \in order <=> before(i, j)
  BY DEF KeyOrder
<1>3. /\ \A i \in D : ~Exceeds(keys[i], keys[i])
      /\ \A i, j \in D : keys[i] # keys[j] => Exceeds(keys[i], keys[j]) \/ Exceeds(keys[j], keys[i])
      /\ \A i, j, k \in D : Exceeds(keys[i], keys[j]) /\ Exceeds(keys[j], keys[k]) => Exceeds(keys[i], keys[k])
  <2>. DEFINE S == {keys[i] : i \in D}
  <2>1. S \subseteq [1..n -> Int] /\ \A i \in D : keys[i] \in S
    OBVIOUS
  <2>. HIDE DEF S
  <2>2. /\ \A a \in S : ~Exceeds(a, a)
        /\ \A a, b \in S : a # b => Exceeds(a, b) \/ Exceeds(b, a)
        /\ \A a, b, c \in S : Exceeds(a, b) /\ Exceeds(b, c) => Exceeds(a, c)
    BY <2>1, ExceedsTotal
  <2>. QED
    BY <2>1, <2>2
<1>. HIDE DEF order
<1>4. \A i \in D : ~before(i, i)
  BY <1>1, <1>3
<1>5. \A i, j \in D : i # j => before(i, j) \/ before(j, i)
  BY <1>1, <1>3
<1>6. ASSUME NEW i \in D, NEW j \in D, NEW k \in D, before(i, j), before(j, k) PROVE before(i, k)
  <2>1. i \in Int /\ j \in Int /\ k \in Int
    BY <1>1
  <2>2. Exceeds(keys[i], keys[j]) /\ Exceeds(keys[j], keys[k]) => Exceeds(keys[i], keys[k])
    BY <1>3
  <2>. QED
    BY <1>6, <2>1, <2>2
<1>. HIDE DEF before
<1>7. StrictTotal(D, order)
  BY <1>2, <1>4, <1>5, <1>6 DEF StrictTotal
<1>. QED
  BY <1>7 DEF order

\* Some of the places have a key that no other one exceeds.
LEMMA BestPlace ==
    ASSUME NEW D, D \subseteq Int, IsFiniteSet(D), D # {},
           NEW n \in Nat, NEW keys, \A i \in D : keys[i] \in [1..n -> Int]
    PROVE  Max({i \in D : \A j \in D : ~Exceeds(keys[j], keys[i])}) \in {i \in D : \A j \in D : ~Exceeds(keys[j], keys[i])}
<1>. DEFINE best == {i \in D : \A j \in D : ~Exceeds(keys[j], keys[i])}
            order == KeyOrder(D, keys)
<1>1. StrictTotal(D, order)
  BY KeyOrderTotal
<1>2. PICK i \in D : \A j \in D \ {i} : <<i, j>> \in order
  <2>. HIDE DEF order
  <2>. QED
    BY <1>1, FirstExists
<1>3. ASSUME NEW j \in D, Exceeds(keys[j], keys[i]) PROVE FALSE
  <2>1. keys[i] \in [1..n -> Int] /\ keys[j] \in [1..n -> Int]
    OBVIOUS
  <2>2. ~Exceeds(keys[i], keys[i])
    <3>1. {keys[i]} \subseteq [1..n -> Int]
      BY <2>1
    <3>. QED
      BY <3>1, ExceedsTotal
  <2>3. j # i
    BY <1>3, <2>2
  <2>4. i < j \/ Exceeds(keys[i], keys[j])
    BY <1>2, <2>3 DEF KeyOrder
  <2>5. <<j, i>> \in order
    BY <1>3 DEF KeyOrder
  <2>6. <<i, j>> \in order
    BY <1>2, <2>3
  <2>. HIDE DEF order
  <2>. QED
    BY <1>1, <2>5, <2>6 DEF StrictTotal
<1>4. best # {} /\ best \subseteq Int /\ IsFiniteSet(best)
  BY <1>3, FS_Subset
<1>. HIDE DEF best
<1>5. Max(best) \in best
  BY <1>4, Extremes
<1>. QED
  BY <1>5 DEF best

\* Sorting by keys of numbers keeps what is sorted.
LEMMA InOrderList ==
    ASSUME NEW s, IsSeq(s), NEW n \in Nat, NEW keys, \A i \in DOMAIN s : keys[i] \in [1..n -> Int]
    PROVE  IsSeq(InOrder(s, keys)) /\ ToSet(InOrder(s, keys)) = ToSet(s)
           /\ (InOrder(s, keys) = <<>> <=> s = <<>>) /\ Len(InOrder(s, keys)) = Len(s)
<1>. DEFINE order == KeyOrder(DOMAIN s, keys)
            t == InOrder(s, keys)
<1>1. DOMAIN s = 1..Len(s) /\ Len(s) \in Nat
  BY SeqHas
<1>2. t = [k \in DOMAIN Ranked(DOMAIN s, order) |-> s[Ranked(DOMAIN s, order)[k]]]
  BY DEF InOrder, Ordered, Mapped, KeyOrder
<1>3. DOMAIN s \subseteq Int
  BY <1>1
<1>4. StrictTotal(DOMAIN s, order)
  BY <1>3, KeyOrderTotal
<1>. HIDE DEF order, t
<1>5. Cardinality(DOMAIN s) = Len(s)
  BY <1>1, FS_Interval
<1>6. IsSeq(t) /\ ToSet(t) = {s[i] : i \in DOMAIN s} /\ (t = <<>> <=> DOMAIN s = {}) /\ Len(t) = Len(s)
  BY <1>2, <1>4, <1>5, RankedPlaces
<1>7. (s = <<>>) <=> (DOMAIN s = {})
  BY <1>1, SeqHas
<1>. QED
  BY <1>6, <1>7 DEF t, ToSet

\* Without repetitions a sequence has the same elements.
LEMMA DistinctList ==
    ASSUME NEW s, IsSeq(s)
    PROVE  IsSeq(Distinct(s)) /\ ToSet(Distinct(s)) = ToSet(s) /\ (Distinct(s) = <<>> <=> s = <<>>)
<1>. DEFINE at == {i \in DOMAIN s : \A j \in 1..(i - 1) : s[j] # s[i]}
<1>1. DOMAIN s = 1..Len(s) /\ Len(s) \in Nat
  BY SeqHas
<1>2. ASSUME NEW k \in DOMAIN s PROVE \E i \in at : s[i] = s[k]
  <2>. DEFINE D == {i \in DOMAIN s : s[i] = s[k]}
  <2>1. D \subseteq 1..Len(s) /\ D # {}
    BY <1>1
  <2>2. PICK i \in D : \A j \in 1..(i - 1) : j \notin D
    BY <1>1, <2>1, FirstPlace
  <2>3. \A j \in 1..(i - 1) : j \in DOMAIN s
    BY <1>1
  <2>. QED
    BY <2>2, <2>3
<1>3. IsSeq(Picked(s, at)) /\ ToSet(Picked(s, at)) = {s[i] : i \in at}
  BY PickedList
<1>4. ToSet(s) = {s[i] : i \in DOMAIN s}
  BY DEF ToSet
<1>5. Distinct(s) = Picked(s, at)
  BY DEF Distinct
<1>. HIDE DEF at
<1>6. {s[i] : i \in at} = {s[i] : i \in DOMAIN s}
  BY <1>2 DEF at
<1>. QED
  BY <1>3, <1>4, <1>5, <1>6, SeqHas

-----------------------------------------------------------------------------
(* Sums *)

\* The sums of a sequence, from its beginning to each place
SumsOf(s, n, sum) == sum = [i \in 0..n |-> IF i = 0 THEN 0 ELSE sum[i - 1] + s[i]]

\* The sums of a sequence exist up to every place: otherwise there is a first
\* place without them.
LEMMA SumsExist ==
    ASSUME NEW s, NEW n \in Nat
    PROVE  \E sum : SumsOf(s, n, sum)
<1>. DEFINE bad == {i \in 0..n : ~\E sum : SumsOf(s, i, sum)}
<1>1. SUFFICES ASSUME bad # {} PROVE FALSE
  OBVIOUS
<1>0. bad \subseteq 0..n /\ \A i \in 0..n : i \notin bad => \E sum : SumsOf(s, i, sum)
  OBVIOUS
<1>. HIDE DEF bad
<1>2. PICK i \in bad : \A j \in bad : i <= j
  <2>. DEFINE D == {k \in 1..(n + 1) : k - 1 \in bad}
  <2>1. PICK b \in bad : TRUE
    BY <1>1
  <2>2. b + 1 \in D
    BY <1>0
  <2>3. PICK k \in D : \A j \in 1..(k - 1) : j \notin D
    <3>1. n + 1 \in Nat /\ D \subseteq 1..(n + 1) /\ D # {}
      BY <2>2
    <3>. HIDE DEF D
    <3>. QED
      BY <3>1, FirstPlace
  <2>4. k - 1 \in bad /\ \A j \in bad : j + 1 \in D
    BY <1>0
  <2>5. ASSUME NEW j \in bad PROVE k - 1 <= j
    <3>1. j \in Int /\ j + 1 \in D /\ k \in Int
      BY <1>0, <2>4
    <3>2. j + 1 \notin 1..(k - 1)
      BY <2>3, <3>1
    <3>. QED
      BY <1>0, <3>1, <3>2
  <2>. QED
    BY <2>4, <2>5
<1>3. CASE i = 0
  <2>1. SumsOf(s, 0, [j \in 0..0 |-> 0])
    BY DEF SumsOf
  <2>. QED
    BY <1>3, <2>1 DEF bad
<1>4. CASE i # 0
  <2>1. i - 1 \in 0..n /\ i - 1 \notin bad
    BY <1>0, <1>2, <1>4
  <2>2. PICK sum : SumsOf(s, i - 1, sum)
    BY <1>0, <2>1
  <2>. DEFINE more == [j \in 0..i |-> IF j = i THEN sum[i - 1] + s[i] ELSE sum[j]]
  <2>3. sum = [j \in 0..(i - 1) |-> IF j = 0 THEN 0 ELSE sum[j - 1] + s[j]]
    BY <2>2 DEF SumsOf
  <2>4. \A j \in 0..(i - 1) : sum[j] = IF j = 0 THEN 0 ELSE sum[j - 1] + s[j]
    BY <2>3
  <2>5. \A j \in 0..i : more[j] = IF j = 0 THEN 0 ELSE more[j - 1] + s[j]
    <3>1. ASSUME NEW j \in 0..i PROVE more[j] = IF j = 0 THEN 0 ELSE more[j - 1] + s[j]
      <4>1. CASE j = i
        BY <1>0, <1>4, <4>1
      <4>2. CASE j # i
        <5>1. j \in 0..(i - 1) /\ (j # 0 => j - 1 \in 0..i /\ j - 1 # i)
          BY <1>0, <4>2
        <5>. QED
          BY <2>4, <4>2, <5>1
      <4>. QED
        BY <4>1, <4>2
    <3>. QED
      BY <3>1
  <2>6. SumsOf(s, i, more)
    <3>1. more = [j \in 0..i |-> more[j]]
      OBVIOUS
    <3>. HIDE DEF more
    <3>. QED
      BY <2>5, <3>1 DEF SumsOf
  <2>. QED
    BY <2>6 DEF bad
<1>. QED
  BY <1>3, <1>4

\* The sum of counts is a count, positive if one of them is.
LEMMA TotalCounts ==
    ASSUME NEW s, IsSeq(s), \A i \in DOMAIN s : s[i] \in Nat
    PROVE  Total(s) \in Nat /\ ((\E i \in DOMAIN s : s[i] > 0) => Total(s) > 0)
<1>. DEFINE n == Len(s)
            sum == CHOOSE sum : SumsOf(s, n, sum)
<1>1. n \in Nat /\ DOMAIN s = 1..n
  BY SeqHas
<1>2. SumsOf(s, n, sum)
  BY <1>1, SumsExist
<1>3. Total(s) = sum[n]
  BY DEF Total, SumsOf
<1>. HIDE DEF sum, n
<1>4. \A i \in 0..n : sum[i] = IF i = 0 THEN 0 ELSE sum[i - 1] + s[i]
  BY <1>2 DEF SumsOf
<1>5. ASSUME NEW m \in 0..n
      PROVE  sum[m] \in Nat /\ \A i \in 1..m : sum[m] >= s[i]
  <2>. DEFINE right(i) == sum[i] \in Nat /\ \A j \in 1..i : sum[i] >= s[j]
              D == {i \in 1..n : ~right(i)}
  <2>1. right(0)
    BY <1>1, <1>4
  <2>2. ASSUME D # {} PROVE FALSE
    <3>1. PICK i \in D : \A j \in 1..(i - 1) : j \notin D
      BY <1>1, <2>2, FirstPlace
    <3>2. i - 1 = 0 \/ (i - 1 \in 1..(i - 1) /\ i - 1 \in 1..n)
      BY <1>1
    <3>3. right(i - 1)
      BY <2>1, <3>1, <3>2
    <3>4. sum[i] = sum[i - 1] + s[i] /\ s[i] \in Nat
      <4>1. i \in 1..n /\ i \in 0..n /\ i # 0
        BY <1>1
      <4>. QED
        BY <1>1, <1>4, <4>1
    <3>5. \A j \in 1..i : j \in 1..(i - 1) \/ j = i
      OBVIOUS
    <3>6. \A j \in 1..(i - 1) : s[j] \in Nat
      BY <1>1
    <3>. QED
      BY <3>3, <3>4, <3>5, <3>6
  <2>. QED
    BY <2>1, <2>2
<1>6. sum[n] \in Nat /\ \A i \in 1..n : sum[n] >= s[i]
  BY <1>1, <1>5
<1>. QED
  BY <1>1, <1>3, <1>6

-----------------------------------------------------------------------------
(* Narrowing *)

\* A colour of a group of some capacity
IsColour(c, capacity) ==
    /\ IsSeq(c.group) /\ c.group # <<>>
    /\ c.label = SplitGroupSpec(c.group).variant /\ capacity = SplitGroupSpec(c.group).capacity
    /\ c.price \in Int /\ c.low \in Int /\ c.high \in Int /\ c.low <= c.price /\ c.price <= c.high

IsCapacityGroup(g) ==
    /\ {"capacity", "price", "low", "high", "days", "colours"} \subseteq DOMAIN g
    /\ IsSeq(g.colours) /\ g.colours # <<>>
    /\ \A c \in ToSet(g.colours) : IsColour(c, g.capacity)
    /\ \E c \in ToSet(g.colours) : c.price = g.price

IsBranch(b) ==
    /\ {"title", "groups"} \subseteq DOMAIN b /\ IsSeq(b.groups) /\ b.groups # <<>>
    /\ \A g \in ToSet(b.groups) : IsCapacityGroup(g)

IsArticle(a) ==
    /\ "branches" \in DOMAIN a /\ IsSeq(a.branches)
    /\ \A b \in ToSet(a.branches) : IsBranch(b)

\* The words of two texts one after the other, and of a text around a word
LEMMA WordsOfParts ==
    ASSUME NEW S, NEW text \in Seq(S), NEW other \in Seq(S)
    PROVE  /\ text \o other \in Seq(S) /\ ToSet(text \o other) = ToSet(text) \cup ToSet(other)
           /\ text # <<>> => text \o other # <<>> /\ 1 \in DOMAIN text /\ (text \o other)[1] = text[1]
           /\ \A i \in DOMAIN text : /\ SubSeq(text, 1, i - 1) \in Seq(S) /\ ToSet(SubSeq(text, 1, i - 1)) \subseteq ToSet(text)
                                     /\ SubSeq(text, i + 1, Len(text)) \in Seq(S) /\ ToSet(SubSeq(text, i + 1, Len(text))) \subseteq ToSet(text)
<1>1. /\ DOMAIN text = 1..Len(text) /\ Len(text) \in Nat /\ DOMAIN other = 1..Len(other) /\ Len(other) \in Nat
      /\ text \o other \in Seq(S) /\ DOMAIN (text \o other) = 1..(Len(text) + Len(other))
      /\ \A i \in 1..Len(text) : (text \o other)[i] = text[i]
      /\ \A i \in 1..Len(other) : (text \o other)[Len(text) + i] = other[i]
  OBVIOUS
<1>. DEFINE both == text \o other
<1>. HIDE DEF both
<1>2. \A i \in DOMAIN both : i \in 1..Len(text) \/ \E j \in 1..Len(other) : i = Len(text) + j
  <2>1. \A i \in DOMAIN both : i \in 1..Len(text) \/ (i - Len(text) \in 1..Len(other) /\ i = Len(text) + (i - Len(text)))
    BY <1>1 DEF both
  <2>. QED
    BY <2>1
<1>3. \A j \in 1..Len(other) : Len(text) + j \in DOMAIN both
  BY <1>1 DEF both
<1>4. \A j \in 1..Len(text) : j \in DOMAIN both
  BY <1>1 DEF both
<1>5. (\A i \in 1..Len(text) : both[i] = text[i]) /\ (\A i \in 1..Len(other) : both[Len(text) + i] = other[i])
  BY <1>1 DEF both
<1>6. ToSet(both) = ToSet(text) \cup ToSet(other)
  <2>1. \A i \in DOMAIN both : both[i] \in ToSet(text) \cup ToSet(other)
    <3>1. \A i \in 1..Len(text) : both[i] \in ToSet(text)
      BY <1>1, <1>5 DEF ToSet
    <3>2. \A i \in 1..Len(other) : both[Len(text) + i] \in ToSet(other)
      BY <1>1, <1>5 DEF ToSet
    <3>. QED
      BY <1>2, <3>1, <3>2
  <2>2. ToSet(text) \subseteq ToSet(both)
    BY <1>1, <1>4, <1>5 DEF ToSet
  <2>3. ToSet(other) \subseteq ToSet(both)
    BY <1>1, <1>3, <1>5 DEF ToSet
  <2>. QED
    BY <2>1, <2>2, <2>3 DEF ToSet
<1>7. ASSUME NEW i \in DOMAIN text
      PROVE  /\ SubSeq(text, 1, i - 1) \in Seq(S) /\ ToSet(SubSeq(text, 1, i - 1)) \subseteq ToSet(text)
             /\ SubSeq(text, i + 1, Len(text)) \in Seq(S) /\ ToSet(SubSeq(text, i + 1, Len(text))) \subseteq ToSet(text)
  <2>1. SubSeq(text, 1, i - 1) \in Seq(S) /\ SubSeq(text, i + 1, Len(text)) \in Seq(S)
    BY <1>1
  <2>2. /\ DOMAIN SubSeq(text, 1, i - 1) = 1..(i - 1)
        /\ \A j \in 1..(i - 1) : SubSeq(text, 1, i - 1)[j] = text[j] /\ j \in DOMAIN text
    BY <1>1
  <2>3. /\ DOMAIN SubSeq(text, i + 1, Len(text)) = 1..(Len(text) - i)
        /\ \A j \in 1..(Len(text) - i) : SubSeq(text, i + 1, Len(text))[j] = text[j + i] /\ j + i \in DOMAIN text
    BY <1>1
  <2>. QED
    BY <2>1, <2>2, <2>3 DEF ToSet
<1>8. ASSUME text # <<>> PROVE both # <<>> /\ 1 \in DOMAIN text /\ both[1] = text[1]
  <2>1. Len(text) # 0 /\ 1 \in 1..Len(text)
    BY <1>1, <1>8
  <2>2. DOMAIN both # {}
    BY <1>4, <2>1
  <2>. QED
    BY <1>1, <1>5, <2>1, <2>2
<1>. QED
  BY <1>1, <1>6, <1>7, <1>8 DEF both

\* The word of a text of one word
LEMMA OneWord == ASSUME NEW w PROVE ToSet(<<w>>) = {w}
<1>1. DOMAIN <<w>> = {1} /\ <<w>>[1] = w
  OBVIOUS
<1>. DEFINE t == <<w>>
<1>. HIDE DEF t
<1>2. DOMAIN t = {1} /\ t[1] = w
  BY <1>1 DEF t
<1>3. ToSet(t) = {w}
  BY <1>2 DEF ToSet
<1>. QED
  BY <1>3 DEF t

\* The capacity and the label of a group title are words of it, or stand for none.
LEMMA SplitWords ==
    ASSUME NEW group, IsSeq(group), group # <<>>
    PROVE  LET s == SplitGroupSpec(group)
           IN  /\ s.variant \in Seq(ToSet(group) \cup {"plain", "standard"})
               /\ s.capacity = "default" \/ s.capacity \in ToSet(group)
<1>. DEFINE words == ToSet(group) \cup {"plain", "standard"}
            at == {i \in DOMAIN group : group[i] \in Sizes}
            first == SubSeq(group, 1, Min(at) - 1)
            last == SubSeq(group, Min(at) + 1, Len(group))
            s == SplitGroupSpec(group)
            rest == IF Len(group) = 1 THEN <<"standard">> ELSE first \o last
<1>0. group \in Seq(words) /\ "standard" \in words
  BY DEF IsSeq
<1>1. CASE at = {}
  BY <1>0, <1>1 DEF SplitGroupSpec
<1>2. CASE at # {}
  <2>1. at \subseteq Int /\ IsFiniteSet(at)
    <3>1. DOMAIN group = 1..Len(group) /\ Len(group) \in Nat
      BY SeqHas
    <3>2. IsFiniteSet(1..Len(group)) /\ at \subseteq 1..Len(group)
      BY <3>1, FS_Interval
    <3>. QED
      BY <3>2, FS_Subset
  <2>2. Min(at) \in DOMAIN group
    <3>. HIDE DEF at
    <3>1. Min(at) \in at
      BY <1>2, <2>1, Extremes
    <3>. QED
      BY <3>1 DEF at
  <2>3. first \o last \in Seq(words)
    <3>1. first \in Seq(words) /\ last \in Seq(words)
      <4>. HIDE DEF words, at
      <4>. QED
        BY <1>0, <2>2, WordsOfParts
    <3>. HIDE DEF first, last, words
    <3>. QED
      BY <3>1, WordsOfParts
  <2>4. <<"standard">> \in Seq(words)
    <3>1. \A S : \A x \in S : <<x>> \in Seq(S)
      OBVIOUS
    <3>. HIDE DEF words
    <3>. QED
      BY <1>0, <3>1
  <2>5. group[Min(at)] \in ToSet(group)
    BY <2>2 DEF ToSet
  <2>6. s = [capacity |-> group[Min(at)], variant |-> rest]
    BY <1>2 DEF SplitGroupSpec
  <2>7. rest \in Seq(words)
    BY <2>3, <2>4
  <2>8. s.capacity = group[Min(at)] /\ s.variant = rest
    <3>. HIDE DEF s, rest, at
    <3>. QED
      BY <2>6
  <2>. HIDE DEF at, first, last, s, rest, words
  <2>9. s.variant \in Seq(words) /\ s.capacity \in ToSet(group)
    BY <2>5, <2>7, <2>8
  <2>. QED
    BY <2>9 DEF s, words
<1>. QED
  BY <1>1, <1>2

Hints == Capacities \cup Colours

\* A hint is a word of its own, or stands in a longer one.
LEMMA HintsAreNoNames ==
    ASSUME NEW h \in Hints
    PROVE  /\ ~Same(h, "default") /\ ~Same(h, "plain") /\ ~Same(h, "standard")
           /\ h \in Colours => \A w : Same(w, h) \/ Same(h, w) => w = h
  BY DEF Hints, Capacities, Sizes, Colours, Same, Within, Beginnings

\* A text has a word if one of its words has it.
LEMMA HasWordOf ==
    ASSUME NEW text, NEW word
    PROVE  HasWord(text, word) <=> \E w \in ToSet(text) : Same(word, w)
  BY DEF HasWord, ToSet

\* What is found about a colour is found in its group title.
LEMMA SurfaceHas ==
    ASSUME NEW c, NEW capacity, IsColour(c, capacity), NEW h \in Hints
    PROVE  /\ HasWord(VariantSearchSurface(c), h) <=> HasWord(c.group, h)
           /\ HasWord(<<capacity>>, h) => HasWord(c.group, h)
           /\ h \in Colours => (Touches(VariantSearchSurface(c), h) => HasWord(c.group, h))
<1>. DEFINE surface == VariantSearchSurface(c)
            words == ToSet(c.group) \cup {"plain", "standard"}
<1>0. c.group # <<>> /\ c.label \in Seq(words) /\ (capacity = "default" \/ capacity \in ToSet(c.group))
  BY SplitWords DEF IsColour
<1>1. c.group \in Seq(words) /\ ToSet(c.label) \subseteq words
  BY <1>0 DEF IsColour, IsSeq, ToSet
<1>2. surface = c.group \o c.label /\ ToSet(surface) = ToSet(c.group) \cup ToSet(c.label)
  <2>1. ToSet(c.group \o c.label) = ToSet(c.group) \cup ToSet(c.label)
    <3>. HIDE DEF words
    <3>. QED
      BY <1>0, <1>1, WordsOfParts
  <2>. QED
    BY <2>1 DEF VariantSearchSurface
<1>3. HasWord(surface, h) <=> HasWord(c.group, h)
  BY <1>0, <1>1, <1>2, HasWordOf, HintsAreNoNames
<1>4. HasWord(<<capacity>>, h) => HasWord(c.group, h)
  <2>1. ToSet(<<capacity>>) = {capacity}
    BY OneWord
  <2>. QED
    BY <1>0, <2>1, HasWordOf, HintsAreNoNames
<1>5. ASSUME h \in Colours, Touches(surface, h) PROVE HasWord(c.group, h)
  <2>1. surface # <<>> /\ surface[1] = c.group[1] /\ 1 \in DOMAIN c.group
    <3>1. c.group \o c.label # <<>> /\ 1 \in DOMAIN c.group /\ (c.group \o c.label)[1] = c.group[1]
      <4>. HIDE DEF words
      <4>. QED
        BY <1>0, <1>1, WordsOfParts
    <3>. QED
      BY <1>2, <3>1
  <2>2. CASE HasWord(surface, h)
    BY <1>3, <2>2
  <2>3. CASE Same(surface[1], h)
    <3>1. c.group[1] = h /\ Same(h, h)
      BY <1>5, <2>1, <2>3, HintsAreNoNames DEF Same
    <3>. QED
      BY <2>1, <3>1 DEF HasWord
  <2>. QED
    BY <1>5, <2>1, <2>2, <2>3 DEF Touches
<1>. QED
  BY <1>3, <1>4, <1>5

\* Texts are scored by numbers that are not negative.
LEMMA ScoresAreNumbers ==
    ASSUME NEW text, NEW query \in Seq(STRING)
    PROVE  /\ ScoreTextMatch(text, query) \in Nat
           /\ TokenMatchScore(text, query) \in Nat
           /\ \A w \in ToSet(query) : HasWord(text, w) => TokenMatchScore(text, query) > 0
<1>. DEFINE points(w) == IF text = <<w>> THEN 320 ELSE IF StartsWith(text, <<w>>) THEN 220
                         ELSE IF Touches(text, w) THEN 140 ELSE 0
            t == [i \in DOMAIN query |-> points(query[i])]
<1>1. TokenMatchScore(text, query) = Total(t)
  BY DEF TokenMatchScore, Mapped
<1>2. \A w : points(w) \in Nat /\ (HasWord(text, w) => points(w) > 0)
  BY DEF Touches
<1>3. \A i \in DOMAIN query : t[i] = points(query[i])
  OBVIOUS
<1>4. t = [i \in DOMAIN query |-> t[i]]
  OBVIOUS
<1>5. IsSeq(query)
  BY DEF IsSeq, ToSet
<1>. HIDE DEF points, t
<1>6. IsSeq(t) /\ DOMAIN t = DOMAIN query
  BY <1>4, <1>5, MappedList
<1>7. \A i \in DOMAIN t : t[i] \in Nat
  BY <1>2, <1>3, <1>6
<1>8. Total(t) \in Nat /\ ((\E i \in DOMAIN t : t[i] > 0) => Total(t) > 0)
  BY <1>6, <1>7, TotalCounts
<1>9. ASSUME NEW w \in ToSet(query), HasWord(text, w) PROVE Total(t) > 0
  <2>1. PICK i \in DOMAIN query : query[i] = w
    BY <1>5, SeqHas
  <2>. QED
    BY <1>2, <1>3, <1>6, <1>8, <1>9, <2>1
<1>10. ScoreTextMatch(text, query) \in Nat
  BY DEF ScoreTextMatch
<1>. QED
  BY <1>1, <1>8, <1>9, <1>10

\* Colours are scored by numbers.
LEMMA ColourScoreIsNumber ==
    ASSUME NEW c, NEW query \in Seq(STRING), NEW group
    PROVE  ColourScore(c, query, group) \in Nat
<1>. DEFINE surface == VariantSearchSurface(c)
<1>1. ScoreTextMatch(surface, query) \in Nat /\ TokenMatchScore(surface, query) \in Nat
  BY ScoresAreNumbers
<1>. HIDE DEF surface
<1>. QED
  BY <1>1 DEF ColourScore, surface

Hinted(query) == CapacityHints(query) \cup ColourHints(query) # {}

Fits(c, query) ==
    /\ \A h \in CapacityHints(query) : HasWord(c.group, h)
    /\ ColourHints(query) = {} \/ \E h \in ColourHints(query) : HasWord(c.group, h)

Bare(c) == ToSet(c.group) \cap ComponentVariantHints = {}

\* A colour is matched exactly if it is of the capacity and of one of the
\* colours that the query names; so is every one, if all of a group are kept.
LEMMA MatchedFits ==
    ASSUME NEW c, NEW query \in Seq(STRING), NEW group, IsColour(c, group.capacity), Hinted(query)
    PROVE  /\ ColourMatched(c, query, group) <=> Fits(c, query)
           /\ ColourHints(query) = {} /\ ~FiltersByText(query, group) => Fits(c, query)
<1>. DEFINE surface == VariantSearchSurface(c)
            capacities == CapacityHints(query)
            colours == ColourHints(query)
<1>1. capacities \subseteq Hints /\ colours \subseteq Hints /\ colours \subseteq Colours
      /\ capacities \subseteq ToSet(query)
  BY DEF CapacityHints, ColourHints, Hints
<1>2. \A h \in Hints : /\ HasWord(surface, h) <=> HasWord(c.group, h)
                       /\ HasWord(<<group.capacity>>, h) => HasWord(c.group, h)
                       /\ h \in Colours => (Touches(surface, h) => HasWord(c.group, h))
  BY SurfaceHas
<1>. HIDE DEF surface, capacities, colours
<1>3. (\A h \in capacities : HasWord(c.group, h)) <=> ContainsCapacityHints(surface, capacities)
  BY <1>1, <1>2 DEF ContainsCapacityHints
<1>4. ContainsCapacityHints(<<group.capacity>>, capacities) => \A h \in capacities : HasWord(c.group, h)
  BY <1>1, <1>2 DEF ContainsCapacityHints
<1>5. ColourHintMatches(surface, colours) <=> colours = {} \/ \E h \in colours : HasWord(c.group, h)
  BY <1>1, <1>2 DEF ColourHintMatches, Touches
<1>6. ASSUME FiltersByText(query, group), Fits(c, query) PROVE TokenMatchScore(surface, query) > 0
  <2>1. colours = {} /\ capacities # {}
    BY <1>6 DEF FiltersByText, Hinted, capacities, colours
  <2>2. PICK h \in capacities : HasWord(surface, h)
    BY <1>1, <1>2, <1>6, <2>1 DEF Fits, capacities
  <2>. QED
    BY <1>1, <2>2, ScoresAreNumbers
<1>7. ColourMatched(c, query, group) <=> Fits(c, query)
  BY <1>3, <1>4, <1>5, <1>6 DEF ColourMatched, Fits, surface, capacities, colours
<1>8. ASSUME colours = {}, ~FiltersByText(query, group) PROVE Fits(c, query)
  BY <1>4, <1>8 DEF FiltersByText, Fits, Hinted, capacities, colours
<1>. QED
  BY <1>7, <1>8 DEF colours

\* The colours that are left of a group
LEMMA ColoursLeft ==
    ASSUME NEW query \in Seq(STRING), NEW group, IsCapacityGroup(group)
    PROVE  LET left == FilteredColours(query, group)
           IN  /\ IsSeq(left) /\ ToSet(left) \subseteq ToSet(group.colours)
               /\ Hinted(query) => /\ GroupMatched(query, group, left) <=> left # <<>>
                                   /\ \A c \in ToSet(left) : Fits(c, query)
                                   /\ \A c \in ToSet(group.colours) : Fits(c, query) /\ Bare(c) => c \in ToSet(left)
<1>. DEFINE all == ColourHints(query) = {} /\ ~FiltersByText(query, group)
            at == {i \in DOMAIN group.colours : all \/ ColourMatched(group.colours[i], query, group)}
            kept == Picked(group.colours, at)
            keys == [i \in DOMAIN kept |-> <<ColourScore(kept[i], query, group)>>]
            sorted == InOrder(kept, keys)
            whole == {i \in DOMAIN sorted : ~IsComponent(sorted[i])}
            left == FilteredColours(query, group)
<1>1. left = WithoutComponents(sorted, query)
  BY DEF FilteredColours, Descending, Mapped
<1>2. IsSeq(group.colours) /\ group.colours # <<>> /\ \A c \in ToSet(group.colours) : IsColour(c, group.capacity)
  BY DEF IsCapacityGroup
<1>3. IsSeq(kept) /\ ToSet(kept) = {group.colours[i] : i \in at} /\ (kept = <<>> <=> at = {})
  BY <1>2, PickedList
<1>4. \A i \in DOMAIN kept : keys[i] \in [1..1 -> Int]
  <2>1. \A i \in DOMAIN kept : ColourScore(kept[i], query, group) \in Int
    BY ColourScoreIsNumber
  <2>. HIDE DEF kept
  <2>. QED
    BY <2>1
<1>5. IsSeq(sorted) /\ ToSet(sorted) = ToSet(kept) /\ (sorted = <<>> <=> kept = <<>>)
  <2>. HIDE DEF kept, keys
  <2>. QED
    BY <1>3, <1>4, InOrderList
<1>6. ToSet(sorted) = {group.colours[i] : i \in {i \in DOMAIN group.colours : all \/ ColourMatched(group.colours[i], query, group)}}
  BY <1>3, <1>5
<1>7. ToSet(sorted) \subseteq ToSet(group.colours)
  BY <1>6 DEF ToSet
<1>8. IsSeq(Picked(sorted, whole)) /\ ToSet(Picked(sorted, whole)) = {sorted[i] : i \in whole} /\ (Picked(sorted, whole) = <<>> <=> whole = {})
  <2>1. whole \subseteq DOMAIN sorted
    OBVIOUS
  <2>. HIDE DEF sorted, whole
  <2>. QED
    BY <1>5, <2>1, PickedList
<1>9. left = sorted \/ (left = Picked(sorted, whole) /\ left # <<>>)
  BY <1>1 DEF WithoutComponents
<1>10. IsSeq(left) /\ ToSet(left) \subseteq ToSet(sorted) /\ (left = <<>> <=> sorted = <<>>)
  <2>1. {sorted[i] : i \in whole} \subseteq ToSet(sorted)
    BY DEF ToSet
  <2>2. whole # {} => ToSet(sorted) # {}
    BY DEF ToSet
  <2>. HIDE DEF left, sorted, whole
  <2>. QED
    BY <1>5, <1>8, <1>9, <2>1, <2>2, SeqHas
<1>11. \A c \in ToSet(sorted) : ~IsComponent(c) => c \in ToSet(left)
  <2>1. ASSUME NEW c \in ToSet(sorted), ~IsComponent(c) PROVE c \in {sorted[i] : i \in whole}
    BY <2>1 DEF ToSet
  <2>. HIDE DEF left, sorted, whole
  <2>. QED
    BY <1>8, <1>9, <2>1
<1>12. ASSUME Hinted(query)
       PROVE  /\ \A c \in ToSet(sorted) : Fits(c, query)
              /\ \A c \in ToSet(group.colours) : Fits(c, query) => c \in ToSet(sorted)
  <2>1. \A c \in ToSet(group.colours) : /\ ColourMatched(c, query, group) <=> Fits(c, query)
                                        /\ all => Fits(c, query)
    BY <1>2, <1>12, MatchedFits
  <2>2. \A i \in DOMAIN group.colours : group.colours[i] \in ToSet(group.colours)
    BY DEF ToSet
  <2>3. \A c \in ToSet(group.colours) : \E i \in DOMAIN group.colours : group.colours[i] = c
    BY DEF ToSet
  <2>. HIDE DEF sorted, all
  <2>. QED
    BY <1>6, <2>1, <2>2, <2>3
<1>13. ASSUME Hinted(query), GroupMatched(query, group, left) PROVE left # <<>>
  <2>1. SUFFICES ASSUME left = <<>> PROVE FALSE
    OBVIOUS
  <2>2. ColourHints(query) = {} /\ ContainsCapacityHints(<<group.capacity>>, CapacityHints(query)) /\ CapacityHints(query) # {}
    BY <1>13, <2>1 DEF GroupMatched, Hinted
  <2>3. all
    BY <2>2 DEF FiltersByText
  <2>4. ToSet(sorted) = ToSet(group.colours)
    BY <1>6, <2>3 DEF ToSet
  <2>. HIDE DEF left, sorted
  <2>. QED
    BY <1>2, <1>5, <1>10, <2>1, <2>4, SeqHas
<1>14. \A c \in ToSet(group.colours) : Bare(c) => ~IsComponent(c)
  <2>1. ASSUME NEW c \in ToSet(group.colours), Bare(c) PROVE ~IsComponent(c)
    <3>1. IsColour(c, group.capacity)
      BY <1>2
    <3>. DEFINE words == ToSet(c.group) \cup {"plain", "standard"}
    <3>2. c.group \in Seq(words) /\ c.label \in Seq(words) /\ ToSet(c.label) \subseteq words
      <4>1. c.label \in Seq(words)
        BY <3>1, SplitWords DEF IsColour
      <4>. QED
        BY <3>1, <4>1 DEF IsColour, IsSeq, ToSet
    <3>3. ToSet(c.group \o c.label) = ToSet(c.group) \cup ToSet(c.label)
      <4>. HIDE DEF words
      <4>. QED
        BY <3>2, WordsOfParts
    <3>. QED
      BY <2>1, <3>2, <3>3 DEF IsComponent, Bare, VariantSearchSurface, ComponentVariantHints
  <2>. QED
    BY <2>1
<1>15. left # <<>> => GroupMatched(query, group, left)
  BY DEF GroupMatched
<1>. HIDE DEF left, sorted
<1>16. IsSeq(left) /\ ToSet(left) \subseteq ToSet(group.colours)
  BY <1>7, <1>10
<1>17. ASSUME Hinted(query)
       PROVE  /\ \A c \in ToSet(left) : Fits(c, query)
              /\ \A c \in ToSet(group.colours) : Fits(c, query) /\ Bare(c) => c \in ToSet(left)
  BY <1>10, <1>11, <1>12, <1>14, <1>17
<1>. QED
  BY <1>13, <1>15, <1>16, <1>17 DEF left

\* What is shown of a group that a query narrowed
GroupAnswers(g, query) ==
    /\ (\E c \in ToSet(g.colours) : c.price = g.price) \/ (\A c \in ToSet(g.colours) : c.price = 0)
    /\ Hinted(query) => \A c \in ToSet(g.colours) : Fits(c, query) /\ g.low <= c.price /\ c.price <= g.high

\* The least and the greatest price of some colours bound the prices of all.
LEMMA BoundsOfColours ==
    ASSUME NEW left, IsSeq(left), left # <<>>, \A c \in ToSet(left) : c.price \in Int /\ c.low \in Int /\ c.high \in Int /\ c.low <= c.price /\ c.price <= c.high
    PROVE  /\ \A c \in ToSet(left) : Min({x.low : x \in ToSet(left)}) <= c.price /\ c.price <= Max({x.high : x \in ToSet(left)})
           /\ left[1] \in ToSet(left)
<1>. DEFINE C == ToSet(left)
            lows == {x.low : x \in C}
            highs == {x.high : x \in C}
<1>1. C # {} /\ IsFiniteSet(C) /\ left[1] \in C
  <2>1. DOMAIN left = 1..Len(left) /\ Len(left) \in Nat /\ Len(left) # 0 /\ C # {} /\ \A i \in DOMAIN left : left[i] \in C
    BY SeqHas
  <2>2. left \in Surjection(1..Len(left), C)
    BY <2>1, SeqHas DEF Surjection
  <2>3. IsFiniteSet(C)
    BY <2>1, <2>2, FS_Interval, FS_Surjection
  <2>4. 1 \in DOMAIN left
    BY <2>1
  <2>. QED
    BY <2>1, <2>3, <2>4
<1>2. lows # {} /\ highs # {} /\ lows \subseteq Int /\ highs \subseteq Int
  BY <1>1
<1>3. IsFiniteSet(lows) /\ IsFiniteSet(highs)
  <2>1. [x \in C |-> x.low] \in Surjection(C, lows) /\ [x \in C |-> x.high] \in Surjection(C, highs)
    BY DEF Surjection
  <2>. HIDE DEF C, lows, highs
  <2>. QED
    BY <1>1, <2>1, FS_Surjection
<1>4. (\A y \in lows : Min(lows) <= y) /\ Min(lows) \in Int /\ (\A y \in highs : y <= Max(highs)) /\ Max(highs) \in Int
  <2>. HIDE DEF lows, highs
  <2>. QED
    BY <1>2, <1>3, Extremes
<1>5. \A c \in C : Min(lows) <= c.low /\ c.high <= Max(highs)
  BY <1>4
<1>. HIDE DEF lows, highs
<1>6. \A c \in C : Min(lows) <= c.price /\ c.price <= Max(highs)
  BY <1>4, <1>5
<1>. QED
  BY <1>1, <1>6 DEF lows, highs

\* Narrowing a group leaves an answer, and all that fits.
LEMMA GroupNarrowed ==
    ASSUME NEW query \in Seq(STRING), NEW group, IsCapacityGroup(group)
    PROVE  LET r == RefinedGroup(query, group, FilteredColours(query, group))
           IN  /\ r.score \in Nat /\ r.group.capacity = group.capacity
               /\ ~Hinted(query) \/ r.matched => GroupAnswers(r.group, query)
               /\ Hinted(query) => \A c \in ToSet(group.colours) : Fits(c, query) /\ Bare(c) => r.matched /\ c \in ToSet(r.group.colours)
<1>. DEFINE left == FilteredColours(query, group)
            r == RefinedGroup(query, group, left)
            C == ToSet(left)
            at == {i \in DOMAIN left : left[i].price # 0}
            priced == Picked(left, at)
            new == [[group EXCEPT !.colours = left] EXCEPT
                      !.low = Min({x.low : x \in C}), !.high = Max({x.high : x \in C}),
                      !.price = IF priced = <<>> THEN @ ELSE priced[1].price, !.days = UNION {x.days : x \in C}]
<1>1. /\ {"capacity", "price", "low", "high", "days", "colours"} \subseteq DOMAIN group
      /\ IsSeq(group.colours) /\ group.colours # <<>>
      /\ \A c \in ToSet(group.colours) : IsColour(c, group.capacity)
      /\ \E c \in ToSet(group.colours) : c.price = group.price
  BY DEF IsCapacityGroup
<1>2. /\ IsSeq(left) /\ C \subseteq ToSet(group.colours)
      /\ Hinted(query) => /\ GroupMatched(query, group, left) <=> left # <<>>
                          /\ \A c \in C : Fits(c, query)
                          /\ \A c \in ToSet(group.colours) : Fits(c, query) /\ Bare(c) => c \in C
  BY ColoursLeft
<1>3. ToSet(left) # {} <=> left # <<>>
  <2>. HIDE DEF left
  <2>. QED
    BY <1>2, SeqHas
<1>. HIDE DEF left
<1>4. r.matched = GroupMatched(query, group, left) /\ r.score = GroupScore(query, group, left)
      /\ r.group = IF left = <<>> THEN group ELSE RefreshGroupSummary([group EXCEPT !.colours = left])
  BY DEF RefinedGroup
<1>5. GroupScore(query, group, left) \in Nat
  <2>1. ColourScore(left[1], query, group) \in Nat
    BY ColourScoreIsNumber
  <2>. DEFINE n == ColourScore(left[1], query, group)
  <2>2. GroupScore(query, group, left) \in {0, 80, 120, 200, 220, 300, 340, 420} \cup {m + n : m \in {0, 80, 120, 200, 220, 300, 340, 420}}
    BY <2>1 DEF GroupScore
  <2>. HIDE DEF n
  <2>. QED
    BY <2>1, <2>2 DEF n
<1>6. RefreshGroupSummary([group EXCEPT !.colours = left]) = new
  <2>1. [group EXCEPT !.colours = left].colours = left
    BY <1>1
  <2>. QED
    BY <2>1 DEF RefreshGroupSummary
<1>7. /\ new.colours = left /\ new.capacity = group.capacity /\ (priced # <<>> => new.price = priced[1].price)
      /\ new.low = Min({x.low : x \in C}) /\ new.high = Max({x.high : x \in C})
  <2>. HIDE DEF C, priced
  <2>. QED
    BY <1>1
<1>8. IF priced = <<>> THEN \A c \in C : c.price = 0 ELSE priced[1] \in C
  <2>1. IsSeq(priced) /\ ToSet(priced) = {left[i] : i \in at} /\ (priced = <<>> <=> at = {})
    BY <1>2, PickedList
  <2>2. \A i \in DOMAIN left : left[i] \in C
    BY <1>2, SeqHas
  <2>3. \A c \in C : \E i \in DOMAIN left : left[i] = c
    BY <1>2, SeqHas
  <2>4. priced = <<>> => \A c \in C : c.price = 0
    BY <2>1, <2>3
  <2>. HIDE DEF priced, C
  <2>5. priced # <<>> => priced[1] \in ToSet(priced)
    BY <2>1, SeqHas
  <2>. QED
    BY <2>1, <2>2, <2>4, <2>5
<1>. HIDE DEF r, new, priced
<1>9. CASE left = <<>>
  <2>1. r.group = group
    BY <1>4, <1>9
  <2>2. ~Hinted(query) => GroupAnswers(group, query)
    BY <1>1 DEF GroupAnswers
  <2>. QED
    BY <1>2, <1>3, <1>4, <1>5, <1>9, <2>1, <2>2 DEF r, left
<1>10. CASE left # <<>>
  <2>1. r.group = new
    BY <1>4, <1>6, <1>10
  <2>2. \A c \in C : c.price \in Int /\ c.low \in Int /\ c.high \in Int /\ c.low <= c.price /\ c.price <= c.high
    BY <1>1, <1>2 DEF IsColour
  <2>3. left[1] \in C /\ \A c \in C : new.low <= c.price /\ c.price <= new.high
    BY <1>2, <1>7, <1>10, <2>2, BoundsOfColours
  <2>4. GroupAnswers(new, query)
    <3>1. new.colours = left /\ (priced # <<>> => new.price = priced[1].price)
      BY <1>7
    <3>2. (\E c \in C : c.price = new.price) \/ (\A c \in C : c.price = 0)
      BY <1>8, <3>1
    <3>. QED
      BY <1>2, <2>3, <3>1, <3>2 DEF GroupAnswers
  <2>5. Hinted(query) => \A c \in ToSet(group.colours) : Fits(c, query) /\ Bare(c) => r.matched /\ c \in ToSet(new.colours)
    BY <1>2, <1>4, <1>7, <1>10
  <2>. QED
    BY <1>4, <1>5, <1>7, <2>1, <2>4, <2>5 DEF r, left
<1>. QED
  BY <1>9, <1>10

CapacityIsOrdered == \A label : CapacityOrder(label) \in Int

\* Every capacity has a place in the order of capacities.
LEMMA CapacitiesAreOrdered == CapacityIsOrdered
  BY DEF CapacityOrder, CapacityIsOrdered

\* What is shown of a branch that a query narrowed, and is a part of another one
BranchAnswers(b, query) ==
    /\ IsSeq(b.groups)
    /\ \A g \in ToSet(b.groups) : GroupAnswers(g, query)

\* Narrowing a branch leaves groups that answer, and all that fits.
LEMMA BranchNarrowed ==
    ASSUME NEW query \in Seq(STRING), NEW b, IsBranch(b)
    PROVE  LET r == RefinedBranch(query, b)
           IN  /\ r.score \in Nat /\ r.branch.title = b.title /\ BranchAnswers(r.branch, query)
               /\ Hinted(query) => \A g \in ToSet(b.groups) : \A c \in ToSet(g.colours) :
                    Fits(c, query) /\ Bare(c) => r.found = TRUE /\ \E h \in ToSet(r.branch.groups) : c \in ToSet(h.colours)
<1>. DEFINE of(g) == RefinedGroup(query, g, FilteredColours(query, g))
            all == [i \in DOMAIN b.groups |-> of(b.groups[i])]
            at == {i \in DOMAIN all : IF Hinted(query) THEN all[i].matched ELSE all[i].score > 0}
            kept == Picked(all, at)
            scores == [i \in DOMAIN kept |-> kept[i].score]
            keys == [i \in DOMAIN kept |-> <<kept[i].score, -CapacityOrder(kept[i].group.capacity)>>]
            sorted == InOrder(kept, keys)
            groups == [i \in DOMAIN sorted |-> sorted[i].group]
            r == RefinedBranch(query, b)
            title == ScoreTextMatch(b.title, query)
<1>1. r = RefinedBranchOf(query, b, kept)
  BY DEF RefinedBranch, Mapped, Hinted
<1>2. RefinedBranchOf(query, b, kept) =
        [score |-> title + Total(scores), found |-> kept # <<>> \/ title > 0, branch |-> [b EXCEPT !.groups = groups]]
  BY DEF RefinedBranchOf, SortCapacityGroups, Descending, Mapped
<1>3. /\ {"title", "groups"} \subseteq DOMAIN b /\ IsSeq(b.groups) /\ b.groups # <<>>
      /\ \A g \in ToSet(b.groups) : IsCapacityGroup(g)
  BY DEF IsBranch
<1>4. \A g \in ToSet(b.groups) :
        /\ of(g).score \in Nat /\ of(g).group.capacity = g.capacity
        /\ ~Hinted(query) \/ of(g).matched => GroupAnswers(of(g).group, query)
        /\ Hinted(query) => \A c \in ToSet(g.colours) : Fits(c, query) /\ Bare(c) => of(g).matched /\ c \in ToSet(of(g).group.colours)
  BY <1>3, GroupNarrowed
<1>5. \A i \in DOMAIN b.groups : b.groups[i] \in ToSet(b.groups) /\ all[i] = of(b.groups[i])
  BY DEF ToSet
<1>6. title \in Nat
  BY ScoresAreNumbers
<1>7. all = [i \in DOMAIN b.groups |-> all[i]]
  OBVIOUS
<1>. HIDE DEF of, all
<1>8. IsSeq(all) /\ DOMAIN all = DOMAIN b.groups /\ ToSet(all) = {all[i] : i \in DOMAIN b.groups}
  BY <1>3, <1>7, MappedList
<1>9. at \subseteq DOMAIN all
  OBVIOUS
<1>10. \A i \in DOMAIN all : i \in at <=> (IF Hinted(query) THEN all[i].matched ELSE all[i].score > 0)
  OBVIOUS
<1>. HIDE DEF at
<1>11. IsSeq(kept) /\ ToSet(kept) = {all[i] : i \in at} /\ (kept = <<>> <=> at = {})
  BY <1>8, <1>9, PickedList
<1>12. \A x \in ToSet(kept) : x.score \in Nat /\ GroupAnswers(x.group, query)
  <2>1. ASSUME NEW i \in at PROVE all[i].score \in Nat /\ GroupAnswers(all[i].group, query)
    BY <1>4, <1>5, <1>8, <1>9, <1>10
  <2>. QED
    BY <1>11, <2>1
<1>. HIDE DEF kept
<1>13. \A i \in DOMAIN kept : kept[i] \in ToSet(kept)
  BY DEF ToSet
<1>14. Total(scores) \in Nat
  <2>1. scores = [i \in DOMAIN kept |-> scores[i]] /\ \A i \in DOMAIN kept : scores[i] \in Nat
    BY <1>12, <1>13
  <2>. HIDE DEF scores
  <2>2. IsSeq(scores) /\ DOMAIN scores = DOMAIN kept
    BY <1>11, <2>1, MappedList
  <2>. QED
    BY <2>1, <2>2, TotalCounts
<1>15. \A i \in DOMAIN kept : keys[i] \in [1..2 -> Int]
  <2>1. ASSUME NEW i \in DOMAIN kept PROVE keys[i] \in [1..2 -> Int]
    <3>1. kept[i].score \in Int /\ CapacityOrder(kept[i].group.capacity) \in Int
      BY <1>12, <1>13, CapacitiesAreOrdered DEF CapacityIsOrdered
    <3>. DEFINE m == kept[i].score
                n == -CapacityOrder(kept[i].group.capacity)
    <3>2. keys[i] = <<m, n>> /\ m \in Int /\ n \in Int
      BY <3>1
    <3>. HIDE DEF m, n, keys
    <3>. QED
      BY <3>2
  <2>. QED
    BY <2>1
<1>16. IsSeq(sorted) /\ ToSet(sorted) = ToSet(kept)
  <2>. HIDE DEF keys
  <2>. QED
    BY <1>11, <1>15, InOrderList
<1>. HIDE DEF sorted, scores
<1>17. groups = [i \in DOMAIN sorted |-> groups[i]] /\ \A i \in DOMAIN sorted : groups[i] = sorted[i].group
  OBVIOUS
<1>. HIDE DEF groups
<1>18. IsSeq(groups) /\ ToSet(groups) = {groups[i] : i \in DOMAIN sorted}
  BY <1>16, <1>17, MappedList
<1>19. ToSet(groups) = {x.group : x \in ToSet(kept)}
  <2>1. ToSet(groups) = {sorted[i].group : i \in DOMAIN sorted}
    BY <1>17, <1>18
  <2>2. ToSet(sorted) = {sorted[i] : i \in DOMAIN sorted}
    BY DEF ToSet
  <2>. QED
    BY <1>16, <2>1, <2>2
<1>20. r.score = title + Total(scores) /\ r.found = (kept # <<>> \/ title > 0) /\ r.branch = [b EXCEPT !.groups = groups]
  BY <1>1, <1>2
<1>. HIDE DEF r, title
<1>21. r.score \in Nat
  BY <1>6, <1>14, <1>20
<1>22. r.branch.title = b.title /\ r.branch.groups = groups
  BY <1>3, <1>20
<1>23. BranchAnswers(r.branch, query)
  BY <1>12, <1>18, <1>19, <1>22 DEF BranchAnswers
<1>24. ASSUME Hinted(query), NEW g \in ToSet(b.groups), NEW c \in ToSet(g.colours), Fits(c, query), Bare(c)
       PROVE  r.found = TRUE /\ \E h \in ToSet(r.branch.groups) : c \in ToSet(h.colours)
  <2>1. PICK i \in DOMAIN b.groups : b.groups[i] = g
    BY DEF ToSet
  <2>2. all[i].matched /\ c \in ToSet(all[i].group.colours)
    BY <1>4, <1>5, <1>24, <2>1
  <2>3. i \in at
    BY <1>8, <1>10, <1>24, <2>1, <2>2
  <2>4. all[i] \in ToSet(kept) /\ kept # <<>>
    BY <1>11, <2>3
  <2>5. all[i].group \in ToSet(groups)
    BY <1>19, <2>4
  <2>. QED
    BY <1>20, <1>22, <2>2, <2>4, <2>5
<1>. QED
  BY <1>21, <1>22, <1>23, <1>24 DEF r

\* What RefinementAnswersTheQuestion and CapacityPriceIsShown ask of an article
\* that was narrowed by a query
Answers(full, refined, query) ==
    refined.reason = "applied" =>
        /\ \A b \in ToSet(refined.article.branches) : BranchAnswers(b, query)
        /\ Hinted(query) => \A b \in ToSet(full.branches) : \A g \in ToSet(b.groups) : \A c \in ToSet(g.colours) :
              Fits(c, query) /\ Bare(c) =>
                \E d \in ToSet(refined.article.branches) : d.title = b.title /\ \E h \in ToSet(d.groups) : c \in ToSet(h.colours)

\* Narrowing an article answers the query.
LEMMA SnapshotAnswers ==
    ASSUME NEW query \in Seq(STRING), NEW article, IsArticle(article)
    PROVE  Answers(article, RefineSnapshot(article, query), query)
<1>. DEFINE all == [i \in DOMAIN article.branches |-> RefinedBranch(query, article.branches[i])]
            at == {i \in DOMAIN all : all[i].found}
            found == Picked(all, at)
            keys == [i \in DOMAIN found |-> <<found[i].score>>]
            sorted == InOrder(found, keys)
            branches == [i \in DOMAIN sorted |-> sorted[i].branch]
            r == RefineSnapshot(article, query)
<1>. SUFFICES ASSUME r.reason = "applied" PROVE Answers(article, r, query)
  BY DEF Answers
<1>1. "branches" \in DOMAIN article /\ IsSeq(article.branches) /\ \A b \in ToSet(article.branches) : IsBranch(b)
  BY DEF IsArticle
<1>2. r.article.branches = branches
  <2>1. r = Refined(article, found)
    BY DEF RefineSnapshot, Unrefined, Mapped
  <2>2. r.article = [article EXCEPT !.branches = branches]
    <3>. HIDE DEF r, found
    <3>1. found # <<>>
      BY <2>1 DEF Refined, Unrefined
    <3>2. Refined(article, found).article = [article EXCEPT !.branches = branches]
      BY <3>1 DEF Refined, Descending, Mapped
    <3>. QED
      BY <2>1, <3>2
  <2>. HIDE DEF r, branches
  <2>. QED
    BY <1>1, <2>2
<1>3. \A i \in DOMAIN article.branches : article.branches[i] \in ToSet(article.branches)
  BY DEF ToSet
<1>4. ASSUME NEW i \in DOMAIN article.branches
      PROVE  LET b == article.branches[i]
             IN  /\ all[i].score \in Nat /\ all[i].branch.title = b.title /\ BranchAnswers(all[i].branch, query)
                 /\ Hinted(query) => \A g \in ToSet(b.groups) : \A c \in ToSet(g.colours) :
                      Fits(c, query) /\ Bare(c) => all[i].found = TRUE /\ \E h \in ToSet(all[i].branch.groups) : c \in ToSet(h.colours)
  <2>. DEFINE b == article.branches[i]
              n == RefinedBranch(query, b)
  <2>1. IsBranch(b) /\ all[i] = n
    BY <1>1, <1>3
  <2>. HIDE DEF all, b
  <2>2. /\ n.score \in Nat /\ n.branch.title = b.title /\ BranchAnswers(n.branch, query)
        /\ Hinted(query) => \A g \in ToSet(b.groups) : \A c \in ToSet(g.colours) :
              Fits(c, query) /\ Bare(c) => n.found = TRUE /\ \E h \in ToSet(n.branch.groups) : c \in ToSet(h.colours)
    BY <2>1, BranchNarrowed
  <2>. HIDE DEF n
  <2>. QED
    BY <2>1, <2>2 DEF b
<1>5. all = [i \in DOMAIN article.branches |-> all[i]]
  OBVIOUS
<1>. HIDE DEF all, r
<1>6. IsSeq(all) /\ DOMAIN all = DOMAIN article.branches
  BY <1>1, <1>5, MappedList
<1>7. at \subseteq DOMAIN all /\ \A i \in DOMAIN all : i \in at <=> all[i].found
  OBVIOUS
<1>. HIDE DEF at
<1>8. IsSeq(found) /\ ToSet(found) = {all[i] : i \in at}
  BY <1>6, <1>7, PickedList
<1>9. \A x \in ToSet(found) : x.score \in Nat /\ BranchAnswers(x.branch, query)
  BY <1>4, <1>6, <1>7, <1>8
<1>. HIDE DEF found
<1>10. \A i \in DOMAIN found : keys[i] \in [1..1 -> Int]
  <2>1. \A i \in DOMAIN found : found[i].score \in Int
    BY <1>9 DEF ToSet
  <2>. QED
    BY <2>1
<1>11. IsSeq(sorted) /\ ToSet(sorted) = ToSet(found)
  <2>. HIDE DEF keys
  <2>. QED
    BY <1>8, <1>10, InOrderList
<1>. HIDE DEF sorted
<1>12. branches = [i \in DOMAIN sorted |-> branches[i]] /\ \A i \in DOMAIN sorted : branches[i] = sorted[i].branch
  OBVIOUS
<1>. HIDE DEF branches
<1>13. IsSeq(branches) /\ ToSet(branches) = {x.branch : x \in ToSet(found)}
  <2>1. IsSeq(branches) /\ ToSet(branches) = {branches[i] : i \in DOMAIN sorted}
    BY <1>11, <1>12, MappedList
  <2>2. ToSet(sorted) = {sorted[i] : i \in DOMAIN sorted}
    BY DEF ToSet
  <2>. QED
    BY <1>11, <1>12, <2>1, <2>2
<1>14. \A b \in ToSet(branches) : BranchAnswers(b, query)
  BY <1>9, <1>13
<1>15. ASSUME Hinted(query), NEW b \in ToSet(article.branches), NEW g \in ToSet(b.groups), NEW c \in ToSet(g.colours),
              Fits(c, query), Bare(c)
       PROVE  \E d \in ToSet(branches) : d.title = b.title /\ \E h \in ToSet(d.groups) : c \in ToSet(h.colours)
  <2>1. PICK i \in DOMAIN article.branches : article.branches[i] = b
    BY DEF ToSet
  <2>2. all[i].branch.title = b.title /\ all[i].found = TRUE /\ \E h \in ToSet(all[i].branch.groups) : c \in ToSet(h.colours)
    BY <1>4, <1>15, <2>1
  <2>3. all[i] \in ToSet(found)
    BY <1>6, <1>7, <1>8, <2>2
  <2>4. all[i].branch \in ToSet(branches)
    BY <1>13, <2>3
  <2>. QED
    BY <2>2, <2>4
<1>. QED
  BY <1>2, <1>14, <1>15 DEF Answers

-----------------------------------------------------------------------------
(* What a run publishes of its articles *)

\* The condition that counts for a brand
TargetOf(brand) == IF brand = "apple" THEN "apple_company_pure_sealed_target" ELSE "non_apple_allowed"

Price(run, a) == PricedBy(run, a, TargetOf(Articles[a].brand))

PricedIn(run) == {a \in DOMAIN Articles : CountingIn(run, a, TargetOf(Articles[a].brand)) # {}}

\* A snapshot of an article in a run
IsPriced(s, run) ==
    /\ s.article \in PricedIn(run) /\ s = Price(run, s.article) /\ s.run = run /\ s.bucket = TargetOf(s.brand)
    /\ s.brand = Articles[s.article].brand /\ s.series = Articles[s.article].series
    /\ s.model = Articles[s.article].model /\ s.group = Articles[s.article].group /\ s.place = Articles[s.article].place
    /\ s.market \in Int /\ s.low \in Int /\ s.high \in Int /\ s.low <= s.market /\ s.market <= s.high
    /\ s.rows \in Nat /\ s.sources \in Nat /\ s.latest \in Nat /\ s.samples \in Nat

\* A quote counts only in the condition that counts for its brand.
LEMMA CountingIsTarget ==
    ASSUME scenario \in Scenarios, NEW run \in Runs, NEW a, NEW b, CountingIn(run, a, b) # {}
    PROVE  b = TargetOf(Articles[a].brand) /\ a \in PricedIn(run)
<1>1. PICK q \in CountingIn(run, a, b) : TRUE
  OBVIOUS
<1>2. q \in Quoted(run, a, b) /\ ConditionBucket(Articles[a].brand, q.status) \in TargetBuckets
  BY EligibleRowsCount DEF CountingIn, Counting
<1>3. b = ConditionBucket(Articles[a].brand, q.status) /\ a \in DOMAIN Articles
  BY <1>2, QuotedAreRows DEF Quoted, Bucket
<1>4. \A brand, status : ConditionBucket(brand, status) \in TargetBuckets => ConditionBucket(brand, status) = TargetOf(brand)
  BY DEF ConditionBucket, TargetBuckets, TargetOf
<1>5. b = TargetOf(Articles[a].brand)
  BY <1>2, <1>3, <1>4
<1>. QED
  BY <1>3, <1>5 DEF PricedIn

\* The price of an article in a run is its snapshot.
LEMMA PriceIsPriced ==
    ASSUME scenario \in Scenarios, NEW run \in Runs, NEW a \in PricedIn(run)
    PROVE  IsPriced(Price(run, a), run) /\ Price(run, a).article = a
<1>. DEFINE b == TargetOf(Articles[a].brand)
            s == Price(run, a)
            rows == Quoted(run, a, b)
            times == {q.at : q \in rows}
            sellers == {q.seller : q \in rows}
<1>1. a \in DOMAIN Articles /\ CountingIn(run, a, b) # {}
  BY DEF PricedIn
<1>2. /\ s.run = run /\ s.article = a /\ s.bucket = b
      /\ s.market \in Int /\ s.low \in Int /\ s.high \in Int
      /\ s.low <= s.market /\ s.market <= s.high /\ s.samples \in 1..s.sources
  BY <1>1, PriceOfArticle DEF Price
<1>3. /\ s.brand = Articles[a].brand /\ s.series = Articles[a].series /\ s.model = Articles[a].model
      /\ s.group = Articles[a].group /\ s.place = Articles[a].place
      /\ s.rows = Cardinality(rows) + Articles[a].replaced /\ s.sources = Cardinality(sellers) /\ s.latest = Max(times)
  BY DEF Price, PricedBy, Snapshot
<1>4. IsFiniteSet(rows) /\ rows # {} /\ \A q \in rows : q.at \in Nat
  <2>1. AreRows(rows)
    BY QuotedAreRows
  <2>2. CountingIn(run, a, b) \subseteq rows
    BY DEF CountingIn, Counting
  <2>. QED
    BY <1>1, <2>1, <2>2 DEF AreRows
<1>5. Articles[a].replaced \in Nat
  BY <1>1, ArticleAssumption
<1>6. IsFiniteSet(sellers) /\ IsFiniteSet(times)
  <2>1. [q \in rows |-> q.seller] \in Surjection(rows, sellers) /\ [q \in rows |-> q.at] \in Surjection(rows, times)
    BY DEF Surjection
  <2>. HIDE DEF rows, sellers, times
  <2>. QED
    BY <1>4, <2>1, FS_Surjection
<1>7. Max(times) \in Nat
  <2>1. times # {} /\ times \subseteq Int /\ times \subseteq Nat
    BY <1>4
  <2>. HIDE DEF times
  <2>. QED
    BY <1>6, <2>1, Extremes
<1>8. Cardinality(rows) \in Nat /\ Cardinality(sellers) \in Nat
  BY <1>4, <1>6, FS_CardinalityType
<1>. HIDE DEF rows, sellers, times
<1>. HIDE DEF s
<1>9. s.rows \in Nat /\ s.sources \in Nat /\ s.latest \in Nat /\ s.samples \in Nat
  BY <1>2, <1>3, <1>5, <1>7, <1>8
<1>. QED
  BY <1>2, <1>3, <1>9 DEF s, IsPriced

\* A run publishes the articles of which a quote counts, each once.
LEMMA RunPublishes ==
    ASSUME scenario \in Scenarios, NEW run \in Runs
    PROVE  /\ SnapshotsOf(run) = {Price(run, a) : a \in PricedIn(run)} /\ IsFiniteSet(SnapshotsOf(run))
           /\ \A s \in SnapshotsOf(run) : IsPriced(s, run)
           /\ \A s, t \in SnapshotsOf(run) : s.place = t.place \/ (s.brand = t.brand /\ s.series = t.series /\ s.model = t.model /\ s.group = t.group) => s = t
<1>1. \A s \in SnapshotsOf(run) : \E a \in PricedIn(run) : s = Price(run, a)
  <2>1. ASSUME NEW s \in SnapshotsOf(run) PROVE \E a \in PricedIn(run) : s = Price(run, a)
    <3>1. PICK a \in DOMAIN Articles, b \in TargetBuckets : CountingIn(run, a, b) # {} /\ s = PricedBy(run, a, b)
      BY PublishedByRun
    <3>2. b = TargetOf(Articles[a].brand) /\ a \in PricedIn(run)
      BY <3>1, CountingIsTarget
    <3>. QED
      BY <3>1, <3>2 DEF Price
  <2>. QED
    BY <2>1
<1>2. \A a \in PricedIn(run) : Price(run, a) \in SnapshotsOf(run)
  BY PublishedByRun DEF PricedIn, Price
<1>3. SnapshotsOf(run) = {Price(run, a) : a \in PricedIn(run)}
  BY <1>1, <1>2
<1>4. IsFiniteSet(SnapshotsOf(run))
  <2>1. IsFiniteSet(PricedIn(run))
    <3>1. PricedIn(run) \subseteq DOMAIN Articles
      BY DEF PricedIn
    <3>. QED
      BY <3>1, ArticleAssumption, FS_Subset
  <2>2. [a \in PricedIn(run) |-> Price(run, a)] \in Surjection(PricedIn(run), SnapshotsOf(run))
    BY <1>3 DEF Surjection
  <2>. QED
    BY <2>1, <2>2, FS_Surjection
<1>5. \A s \in SnapshotsOf(run) : IsPriced(s, run)
  BY <1>1, PriceIsPriced
<1>6. ASSUME NEW s \in SnapshotsOf(run), NEW t \in SnapshotsOf(run),
             s.place = t.place \/ (s.brand = t.brand /\ s.series = t.series /\ s.model = t.model /\ s.group = t.group)
      PROVE  s = t
  <2>1. IsPriced(s, run) /\ IsPriced(t, run)
    BY <1>5
  <2>2. s.article \in DOMAIN Articles /\ t.article \in DOMAIN Articles
    BY <2>1 DEF IsPriced, PricedIn
  <2>3. s.article = t.article
    BY <1>6, <2>1, <2>2, ArticleAssumption DEF IsPriced, OfModel
  <2>. QED
    BY <2>1, <2>3 DEF IsPriced
<1>. QED
  BY <1>3, <1>4, <1>5, <1>6

-----------------------------------------------------------------------------
(* The candidates of the live run *)

\* Comparing pairs
LEMMA PairExceeds == ASSUME NEW a, NEW b, NEW c, NEW d PROVE Exceeds(<<a, b>>, <<c, d>>) <=> a > c \/ (b > d /\ a = c)
<1>. DEFINE s == <<a, b>>
            t == <<c, d>>
<1>1. DOMAIN s = 1..2 /\ (\A i \in 1..2 : i = 1 \/ i = 2) /\ s[1] = a /\ s[2] = b /\ t[1] = c /\ t[2] = d
  OBVIOUS
<1>2. (\A j \in 1..(1 - 1) : FALSE) /\ (\A j \in 1..(2 - 1) : j = 1) /\ 1 \in 1..(2 - 1) /\ 1 \in 1..2 /\ 2 \in 1..2
  OBVIOUS
<1>. HIDE DEF s, t
<1>3. Exceeds(s, t) <=> s[1] > t[1] \/ (s[2] > t[2] /\ s[1] = t[1])
  BY <1>1, <1>2 DEF Exceeds
<1>. QED
  BY <1>1, <1>3 DEF s, t

\* All of a finite set, in a strict order of it
LEMMA RankedList ==
    ASSUME NEW S, IsFiniteSet(S), NEW order, StrictTotal(S, order)
    PROVE  IsSeq(Ranked(S, order)) /\ ToSet(Ranked(S, order)) = S
<1>. DEFINE n == Cardinality(S)
            r == Ranked(S, order)
<1>1. n \in Nat /\ r \in [1..n -> S] /\ \A x \in S : \E i \in 1..n : r[i] = x
  BY RankedSorted
<1>. HIDE DEF n, r
<1>2. DOMAIN r = 1..n /\ r = [i \in 1..n |-> r[i]]
  BY <1>1
<1>3. IsSeq(r)
  BY <1>1, <1>2, ListOf
<1>4. ToSet(r) = S
  BY <1>1, <1>2 DEF ToSet
<1>. QED
  BY <1>3, <1>4 DEF r

\* The candidates of the live run, as a set: what it publishes.
LEMMA Listed ==
    ASSUME Published
    PROVE  LET listed == ListMarketSnapshotCandidates(snapshots, live)
           IN  /\ IsSeq(listed)
               /\ ToSet(listed) = IF live \in Runs THEN SnapshotsOf(live) ELSE {}
<1>. DEFINE S == {s \in snapshots : s.run = live}
            order == {p \in S \X S : MoreQuoted(p[1], p[2])}
<1>1. scenario \in Scenarios /\ (\A s \in snapshots : s.run \in Runs /\ s \in SnapshotsOf(s.run))
      /\ live \in Runs \cup {NoRun} /\ (live # NoRun => SnapshotsOf(live) \subseteq snapshots)
  BY DEF Published
<1>2. NoRun \notin Runs
  BY <1>1, ScenarioAssumption DEF Runs
<1>3. S = IF live \in Runs THEN SnapshotsOf(live) ELSE {}
  <2>1. CASE live \in Runs
    <3>1. \A s \in SnapshotsOf(live) : s.run = live
      BY <1>1, <2>1, RunPublishes DEF IsPriced
    <3>. QED
      BY <1>1, <1>2, <2>1, <3>1
  <2>2. CASE live \notin Runs
    BY <1>1, <2>2
  <2>. QED
    BY <2>1, <2>2
<1>. HIDE DEF S
<1>4. IsFiniteSet(S) /\ \A s \in S : s.rows \in Nat /\ s.latest \in Nat /\ s.place \in Nat
  <2>1. CASE live \in Runs
    <3>1. ASSUME NEW s \in SnapshotsOf(live) PROVE s.rows \in Nat /\ s.latest \in Nat /\ s.place \in Nat
      <4>1. IsPriced(s, live)
        BY <1>1, <2>1, RunPublishes
      <4>. QED
        BY <4>1, ArticleAssumption DEF IsPriced, PricedIn
    <3>2. IsFiniteSet(SnapshotsOf(live))
      BY <1>1, <2>1, RunPublishes
    <3>. QED
      BY <1>3, <2>1, <3>1, <3>2
  <2>2. CASE live \notin Runs
    BY <1>3, <2>2, FS_EmptySet
  <2>. QED
    BY <2>1, <2>2
<1>5. \A s, t \in S : s.place = t.place => s = t
  <2>1. CASE live \in Runs
    BY <1>1, <1>3, <2>1, RunPublishes
  <2>. QED
    BY <1>3, <2>1
<1>. DEFINE before(s, t) == \/ s.rows > t.rows
                            \/ s.rows = t.rows /\ s.latest > t.latest
                            \/ s.rows = t.rows /\ s.latest = t.latest /\ s.place < t.place
<1>6. ASSUME NEW s, NEW t PROVE MoreQuoted(s, t) <=> before(s, t)
  <2>1. Exceeds(<<s.rows, s.latest>>, <<t.rows, t.latest>>) <=> s.rows > t.rows \/ (s.latest > t.latest /\ s.rows = t.rows)
    BY PairExceeds
  <2>. QED
    BY <2>1 DEF MoreQuoted
<1>7. \A s, t \in S : <<s, t>> \in order <=> before(s, t)
  BY <1>6
<1>8. ListMarketSnapshotCandidates(snapshots, live) = Ranked(S, order)
  BY DEF ListMarketSnapshotCandidates, Ordered, S
<1>. HIDE DEF order
<1>9. StrictTotal(S, order)
  <2>1. \A s \in S : <<s, s>> \notin order
    BY <1>4, <1>7
  <2>2. \A s, t \in S : s # t => <<s, t>> \in order \/ <<t, s>> \in order
    <3>1. ASSUME NEW s \in S, NEW t \in S, s # t PROVE before(s, t) \/ before(t, s)
      <4>1. s.rows \in Nat /\ s.latest \in Nat /\ s.place \in Nat /\ t.rows \in Nat /\ t.latest \in Nat /\ t.place \in Nat
        BY <1>4
      <4>2. s.place # t.place
        BY <1>5, <3>1
      <4>. QED
        BY <4>1, <4>2
    <3>. QED
      BY <1>7, <3>1
  <2>3. ASSUME NEW s \in S, NEW t \in S, NEW u \in S, <<s, t>> \in order, <<t, u>> \in order PROVE <<s, u>> \in order
    <3>1. /\ s.rows \in Nat /\ s.latest \in Nat /\ s.place \in Nat
          /\ t.rows \in Nat /\ t.latest \in Nat /\ t.place \in Nat
          /\ u.rows \in Nat /\ u.latest \in Nat /\ u.place \in Nat
      BY <1>4
    <3>. QED
      BY <1>7, <2>3, <3>1
  <2>. QED
    BY <2>1, <2>2, <2>3 DEF StrictTotal
<1>. QED
  BY <1>3, <1>4, <1>8, <1>9, RankedList

-----------------------------------------------------------------------------
(* Candidates and hits *)

OfFamily(S, of) == {s \in S : Identity(s) = <<of.brand, of.series, of.family>>}

\* What is known of a listed snapshot
IsListed(s) ==
    /\ s.rows \in Nat /\ s.sources \in Nat /\ s.latest \in Nat /\ s.bucket = TargetOf(s.brand)

\* A candidate of a family that some snapshots are of
IsOffered(c, S) ==
    /\ OfFamily(S, c) # {} /\ IsSeq(c.models) /\ ToSet(c.models) = {s.model : s \in OfFamily(S, c)}
    /\ c.bucket = TargetOf(c.brand)
    /\ c.rows \in Nat /\ c.sources \in Nat /\ c.latest \in Nat /\ Cardinality(c.groups) \in Nat

\* What a sequence is mapped to is finite.
LEMMA ImagesAreFinite ==
    ASSUME NEW s, IsSeq(s), NEW t, t = [i \in DOMAIN s |-> t[i]]
    PROVE  IsFiniteSet({t[i] : i \in DOMAIN s})
<1>1. IsFiniteSet(DOMAIN s)
  BY SeqHas
<1>2. t \in Surjection(DOMAIN s, {t[i] : i \in DOMAIN s})
  BY DEF Surjection
<1>. QED
  BY <1>1, <1>2, FS_Surjection

\* The conditions are ranked by numbers.
LEMMA PrioritiesAreNumbers == \A bucket : CandidateBucketPriority(bucket) \in Nat
  BY DEF CandidateBucketPriority

\* The candidate of the snapshots of a family
LEMMA CandidateOfAll ==
    ASSUME NEW all, IsSeq(all), all # <<>>, \A s \in ToSet(all) : IsListed(s),
           NEW k, \A s \in ToSet(all) : Identity(s) = k
    PROVE  LET c == Candidate(all)
           IN  /\ <<c.brand, c.series, c.family>> = k /\ IsSeq(c.models) /\ ToSet(c.models) = {s.model : s \in ToSet(all)}
               /\ c.bucket = TargetOf(c.brand)
               /\ c.rows \in Nat /\ c.sources \in Nat /\ c.latest \in Nat /\ Cardinality(c.groups) \in Nat
<1>. DEFINE c == Candidate(all)
            D == DOMAIN all
            models == [i \in D |-> all[i].model]
            rows == [i \in D |-> all[i].rows]
            sources == [i \in D |-> all[i].sources]
            latest == [i \in D |-> all[i].latest]
            surfaces == [i \in D |-> Surface(all[i].group)]
            keys == [i \in D |-> CandidatePreference(all[i])]
            best == Max({i \in D : \A j \in D : ~Exceeds(keys[j], keys[i])})
<1>1. /\ c.brand = all[1].brand /\ c.series = all[1].series /\ c.family = FamilyOf(all[1])
      /\ c.models = Distinct(models) /\ c.rows = Total(rows)
      /\ c.sources = Max({sources[i] : i \in D}) /\ c.latest = Max({latest[i] : i \in D})
      /\ c.groups = {surfaces[i] : i \in D} \ {<<>>}
  <2>1. {sources[i] : i \in D} = {all[i].sources : i \in D} /\ {latest[i] : i \in D} = {all[i].latest : i \in D}
        /\ {surfaces[i] : i \in D} = {Surface(all[i].group) : i \in D}
    OBVIOUS
  <2>. QED
    BY <2>1 DEF Candidate, Mapped
<1>2. c.bucket = all[best].bucket
  <2>1. {i \in D : \A j \in D : ~Exceeds(keys[j], keys[i])}
          = {i \in D : \A j \in D : ~Exceeds(CandidatePreference(all[j]), CandidatePreference(all[i]))}
    OBVIOUS
  <2>2. c.bucket = all[Max({i \in D : \A j \in D : ~Exceeds(CandidatePreference(all[j]), CandidatePreference(all[i]))})].bucket
    BY DEF Candidate
  <2>. QED
    BY <2>1, <2>2
<1>3. D = 1..Len(all) /\ Len(all) \in Nat /\ Len(all) # 0 /\ IsFiniteSet(D) /\ \A i \in D : all[i] \in ToSet(all)
  BY SeqHas
<1>4. 1 \in D /\ D # {} /\ D \subseteq Int
  BY <1>3
<1>5. \A i \in D : /\ IsListed(all[i]) /\ Identity(all[i]) = k
  BY <1>3
<1>6. best \in D
  <2>1. \A i \in D : keys[i] \in [1..5 -> Int]
    <3>1. ASSUME NEW i \in D PROVE keys[i] \in [1..5 -> Int]
      <4>1. all[i].rows \in Int /\ all[i].sources \in Int /\ all[i].latest \in Int /\ CandidateBucketPriority(all[i].bucket) \in Int
        BY <1>5, PrioritiesAreNumbers DEF IsListed
      <4>2. keys[i] = <<CandidateBucketPriority(all[i].bucket), all[i].rows, 0, all[i].sources, all[i].latest>>
        BY DEF CandidatePreference
      <4>. HIDE DEF keys
      <4>. QED
        BY <4>1, <4>2
    <3>. QED
      BY <3>1
  <2>. HIDE DEF keys, D
  <2>. QED
    BY <1>3, <1>4, <2>1, BestPlace
<1>7. c.bucket = TargetOf(c.brand)
  <2>1. all[best].bucket = TargetOf(all[best].brand) /\ all[best].brand = all[1].brand
    BY <1>4, <1>5, <1>6 DEF IsListed, Identity
  <2>. QED
    BY <1>1, <1>2, <2>1
<1>8. <<c.brand, c.series, c.family>> = k
  BY <1>1, <1>4, <1>5 DEF Identity
<1>9. IsSeq(c.models) /\ ToSet(c.models) = {s.model : s \in ToSet(all)}
  <2>1. models = [i \in DOMAIN all |-> models[i]] /\ \A i \in D : models[i] = all[i].model
    OBVIOUS
  <2>. HIDE DEF models
  <2>2. IsSeq(models) /\ ToSet(models) = {models[i] : i \in D}
    BY <2>1, MappedList
  <2>3. IsSeq(Distinct(models)) /\ ToSet(Distinct(models)) = ToSet(models)
    BY <2>2, DistinctList
  <2>4. ToSet(models) = {all[i].model : i \in D} /\ ToSet(all) = {all[i] : i \in D}
    BY <2>1, <2>2 DEF ToSet
  <2>. QED
    BY <1>1, <2>3, <2>4
<1>10. c.rows \in Nat
  <2>1. rows = [i \in DOMAIN all |-> rows[i]] /\ \A i \in D : rows[i] \in Nat
    BY <1>5 DEF IsListed
  <2>. HIDE DEF rows
  <2>2. IsSeq(rows) /\ DOMAIN rows = D
    BY <2>1, MappedList
  <2>. QED
    BY <1>1, <2>1, <2>2, TotalCounts
<1>11. c.sources \in Nat /\ c.latest \in Nat
  <2>1. /\ sources = [i \in DOMAIN all |-> sources[i]] /\ \A i \in D : sources[i] \in Nat
        /\ latest = [i \in DOMAIN all |-> latest[i]] /\ \A i \in D : latest[i] \in Nat
    BY <1>5 DEF IsListed
  <2>. HIDE DEF sources, latest
  <2>. DEFINE A == {sources[i] : i \in D}
              B == {latest[i] : i \in D}
  <2>2. IsFiniteSet(A) /\ IsFiniteSet(B)
    BY <2>1, ImagesAreFinite
  <2>3. A # {} /\ B # {} /\ A \subseteq Nat /\ B \subseteq Nat /\ A \subseteq Int /\ B \subseteq Int
    BY <1>4, <2>1
  <2>4. c.sources = Max(A) /\ c.latest = Max(B)
    BY <1>1
  <2>. HIDE DEF A, B
  <2>5. Max(A) \in A /\ Max(B) \in B
    BY <2>2, <2>3, Extremes
  <2>. QED
    BY <2>3, <2>4, <2>5
<1>12. Cardinality(c.groups) \in Nat
  <2>1. surfaces = [i \in DOMAIN all |-> surfaces[i]]
    OBVIOUS
  <2>. HIDE DEF surfaces
  <2>2. IsFiniteSet({surfaces[i] : i \in D})
    BY <2>1, ImagesAreFinite
  <2>3. IsFiniteSet(c.groups)
    BY <1>1, <2>2, FS_Subset
  <2>. QED
    BY <2>3, FS_CardinalityType
<1>. QED
  BY <1>7, <1>8, <1>9, <1>10, <1>11, <1>12

\* There is a candidate of every family, and nothing else.
LEMMA Aggregated ==
    ASSUME NEW listed, IsSeq(listed), \A s \in ToSet(listed) : IsListed(s)
    PROVE  LET candidates == AggregateModelCandidates(listed)
           IN  /\ IsSeq(candidates) /\ \A c \in ToSet(candidates) : IsOffered(c, ToSet(listed))
               /\ \A s \in ToSet(listed) : \E c \in ToSet(candidates) : Identity(s) = <<c.brand, c.series, c.family>>
<1>. DEFINE of(k) == {i \in DOMAIN listed : Identity(listed[i]) = k}
            ids == [i \in DOMAIN listed |-> Identity(listed[i])]
            families == Distinct(ids)
            candidates == [i \in DOMAIN families |-> Candidate(Picked(listed, of(families[i])))]
<1>1. AggregateModelCandidates(listed) = candidates
  BY DEF AggregateModelCandidates, Mapped
<1>2. IsSeq(families) /\ ToSet(families) = {Identity(s) : s \in ToSet(listed)}
  <2>1. ids = [i \in DOMAIN listed |-> ids[i]] /\ \A i \in DOMAIN listed : ids[i] = Identity(listed[i])
    OBVIOUS
  <2>. HIDE DEF ids
  <2>2. IsSeq(ids) /\ ToSet(ids) = {ids[i] : i \in DOMAIN listed}
    BY <2>1, MappedList
  <2>3. ToSet(ids) = {Identity(s) : s \in ToSet(listed)}
    BY <2>1, <2>2 DEF ToSet
  <2>. QED
    BY <2>2, <2>3, DistinctList
<1>. HIDE DEF families
<1>3. candidates = [i \in DOMAIN families |-> candidates[i]]
  OBVIOUS
<1>4. ASSUME NEW i \in DOMAIN families
      PROVE  IsOffered(candidates[i], ToSet(listed)) /\ <<candidates[i].brand, candidates[i].series, candidates[i].family>> = families[i]
  <2>. DEFINE k == families[i]
              all == Picked(listed, of(k))
              c == Candidate(all)
  <2>1. candidates[i] = c
    OBVIOUS
  <2>2. k \in ToSet(families)
    BY DEF ToSet
  <2>. HIDE DEF k
  <2>3. of(k) \subseteq DOMAIN listed
    OBVIOUS
  <2>4. of(k) # {} /\ {listed[j] : j \in of(k)} = {s \in ToSet(listed) : Identity(s) = k}
    BY <1>2, <2>2 DEF ToSet
  <2>. HIDE DEF of
  <2>5. IsSeq(all) /\ all # <<>> /\ ToSet(all) = {s \in ToSet(listed) : Identity(s) = k}
    BY <2>3, <2>4, PickedList
  <2>. HIDE DEF all
  <2>6. /\ <<c.brand, c.series, c.family>> = k /\ IsSeq(c.models) /\ ToSet(c.models) = {s.model : s \in ToSet(all)}
        /\ c.bucket = TargetOf(c.brand)
        /\ c.rows \in Nat /\ c.sources \in Nat /\ c.latest \in Nat /\ Cardinality(c.groups) \in Nat
    BY <2>5, CandidateOfAll
  <2>. HIDE DEF c, candidates
  <2>7. OfFamily(ToSet(listed), c) = ToSet(all)
    BY <2>5, <2>6 DEF OfFamily
  <2>8. ToSet(all) # {}
    BY <2>5, SeqHas
  <2>. QED
    BY <2>1, <2>6, <2>7, <2>8 DEF IsOffered, k
<1>. HIDE DEF candidates
<1>5. IsSeq(candidates) /\ ToSet(candidates) = {candidates[i] : i \in DOMAIN families}
  BY <1>2, <1>3, MappedList
<1>6. ASSUME NEW s \in ToSet(listed) PROVE \E c \in ToSet(candidates) : Identity(s) = <<c.brand, c.series, c.family>>
  <2>1. PICK i \in DOMAIN families : families[i] = Identity(s)
    BY <1>2 DEF ToSet
  <2>. QED
    BY <1>4, <1>5, <2>1
<1>. QED
  BY <1>1, <1>4, <1>5, <1>6

\* The hits are some of the candidates.
LEMMA Chosen ==
    ASSUME NEW query, NEW candidates, IsSeq(candidates), NEW S, \A c \in ToSet(candidates) : IsOffered(c, S)
    PROVE  IsSeq(RankCandidates(query, candidates)) /\ ToSet(RankCandidates(query, candidates)) \subseteq ToSet(candidates)
<1>. DEFINE ctx == QueryContext(query)
            scored == [i \in DOMAIN candidates |-> [score |-> ScoreCandidate(candidates[i], ctx), of |-> candidates[i]]]
            at == {i \in DOMAIN scored : scored[i].score \in Nat}
            kept == Picked(scored, at)
            keys == [i \in DOMAIN kept |-> Rank(kept[i], ctx)]
            sorted == InOrder(kept, keys)
            ranked == [i \in DOMAIN sorted |-> sorted[i].of]
<1>1. RankCandidates(query, candidates) = IF ctx.onlyRefinement THEN <<>> ELSE ranked
  BY DEF RankCandidates, RankFor, Descending, Mapped
<1>2. scored = [i \in DOMAIN candidates |-> scored[i]] /\ \A i \in DOMAIN candidates : scored[i].of = candidates[i]
  OBVIOUS
<1>. HIDE DEF ctx, scored
<1>3. IsSeq(scored) /\ DOMAIN scored = DOMAIN candidates
  BY <1>2, MappedList
<1>4. at \subseteq DOMAIN scored /\ \A i \in at : scored[i].score \in Nat
  OBVIOUS
<1>. HIDE DEF at
<1>5. IsSeq(kept) /\ ToSet(kept) = {scored[i] : i \in at}
  BY <1>3, <1>4, PickedList
<1>6. \A x \in ToSet(kept) : x.score \in Nat /\ x.of \in ToSet(candidates) /\ IsOffered(x.of, S)
  BY <1>2, <1>3, <1>4, <1>5 DEF ToSet
<1>. HIDE DEF kept
<1>7. \A i \in DOMAIN kept : keys[i] \in [1..7 -> Int]
  <2>1. ASSUME NEW i \in DOMAIN kept PROVE Rank(kept[i], ctx) \in [1..7 -> Int]
    <3>. DEFINE x == kept[i]
                c == x.of
                first == IF ctx.brands # {} /\ c.brand \in ctx.brands THEN 1 ELSE 0
    <3>1. x \in ToSet(kept)
      BY DEF ToSet
    <3>2. /\ x.score \in Int /\ CandidateBucketPriority(c.bucket) \in Int /\ c.rows \in Int
          /\ Cardinality(c.groups) \in Int /\ c.sources \in Int /\ c.latest \in Int /\ first \in Int
      BY <1>6, <3>1, PrioritiesAreNumbers DEF IsOffered
    <3>3. Rank(x, ctx) = <<first, x.score, CandidateBucketPriority(c.bucket), c.rows, Cardinality(c.groups), c.sources, c.latest>>
      BY DEF Rank
    <3>. HIDE DEF first
    <3>. QED
      BY <3>2, <3>3
  <2>. QED
    BY <2>1
<1>8. IsSeq(sorted) /\ ToSet(sorted) = ToSet(kept)
  <2>. HIDE DEF keys
  <2>. QED
    BY <1>5, <1>7, InOrderList
<1>. HIDE DEF sorted
<1>9. ranked = [i \in DOMAIN sorted |-> ranked[i]] /\ \A i \in DOMAIN sorted : ranked[i] = sorted[i].of
  OBVIOUS
<1>. HIDE DEF ranked
<1>10. IsSeq(ranked) /\ ToSet(ranked) = {ranked[i] : i \in DOMAIN sorted}
  BY <1>8, <1>9, MappedList
<1>11. ToSet(ranked) \subseteq ToSet(candidates)
  <2>1. \A i \in DOMAIN sorted : sorted[i] \in ToSet(sorted)
    BY DEF ToSet
  <2>. QED
    BY <1>6, <1>8, <1>9, <1>10, <2>1
<1>12. IsSeq(<<>>) /\ ToSet(<<>>) = {}
  BY DEF IsSeq, ToSet
<1>. QED
  BY <1>1, <1>10, <1>11, <1>12

\* A detail key of a family that a run has published
IsHit(key, run) ==
    /\ run \in Runs
    /\ key = [run |-> run, brand |-> key.brand, series |-> key.series, family |-> key.family,
              bucket |-> key.bucket, models |-> key.models]
    /\ OfFamily(SnapshotsOf(run), key) # {} /\ key.bucket = TargetOf(key.brand)
    /\ IsSeq(key.models) /\ ToSet(key.models) = {s.model : s \in OfFamily(SnapshotsOf(run), key)}

\* What a run publishes can be listed.
LEMMA PricedAreListed ==
    ASSUME scenario \in Scenarios, NEW run \in Runs
    PROVE  \A s \in SnapshotsOf(run) : IsListed(s)
  BY RunPublishes DEF IsPriced, IsListed

\* A search finds families of the live run.
LEMMA HitsOfTheLiveRun ==
    ASSUME Published, NEW query
    PROVE  LET ranked == RankCandidates(query, AggregateModelCandidates(ListMarketSnapshotCandidates(snapshots, live)))
           IN  \A i \in DOMAIN ranked : IsHit(DetailRef(live, ranked[i]), live)
<1>. DEFINE listed == ListMarketSnapshotCandidates(snapshots, live)
            candidates == AggregateModelCandidates(listed)
            ranked == RankCandidates(query, candidates)
<1>1. IsSeq(listed) /\ ToSet(listed) = IF live \in Runs THEN SnapshotsOf(live) ELSE {}
  BY Listed
<1>2. \A s \in ToSet(listed) : IsListed(s)
  BY <1>1, PricedAreListed DEF Published
<1>. HIDE DEF listed
<1>3. IsSeq(candidates) /\ \A c \in ToSet(candidates) : IsOffered(c, ToSet(listed))
  BY <1>1, <1>2, Aggregated
<1>. HIDE DEF candidates
<1>4. IsSeq(ranked) /\ ToSet(ranked) \subseteq ToSet(candidates)
  BY <1>3, Chosen
<1>. HIDE DEF ranked
<1>5. ASSUME NEW i \in DOMAIN ranked PROVE IsHit(DetailRef(live, ranked[i]), live)
  <2>. DEFINE c == ranked[i]
              key == DetailRef(live, c)
  <2>1. IsOffered(c, ToSet(listed))
    BY <1>3, <1>4 DEF ToSet
  <2>2. live \in Runs /\ ToSet(listed) = SnapshotsOf(live)
    BY <1>1, <2>1 DEF IsOffered, OfFamily
  <2>3. /\ key.brand = c.brand /\ key.series = c.series /\ key.family = c.family /\ key.models = c.models /\ key.bucket = c.bucket
        /\ key = [run |-> live, brand |-> c.brand, series |-> c.series, family |-> c.family, bucket |-> c.bucket, models |-> c.models]
    BY DEF DetailRef
  <2>. HIDE DEF key, c
  <2>4. OfFamily(SnapshotsOf(live), key) = OfFamily(SnapshotsOf(live), c)
    BY <2>3 DEF OfFamily
  <2>. QED
    BY <2>1, <2>2, <2>3, <2>4 DEF IsHit, IsOffered, key, c
<1>. QED
  BY <1>5 DEF ranked, candidates, listed

-----------------------------------------------------------------------------
(* The variants of a model *)

\* Choosing a condition changes nothing if there is but one.
LEMMA OfOneBucket ==
    ASSUME NEW s, IsSeq(s), NEW bucket, \A x \in ToSet(s) : x.bucket = bucket
    PROVE  IsSeq(OfBucket(s, bucket)) /\ ToSet(OfBucket(s, bucket)) = ToSet(s) /\ (OfBucket(s, bucket) = <<>> <=> s = <<>>)
<1>. DEFINE at == {i \in DOMAIN s : s[i].bucket = bucket}
            matched == Picked(s, at)
<1>1. OfBucket(s, bucket) = IF matched = <<>> THEN s ELSE matched
  BY DEF OfBucket
<1>2. at \subseteq DOMAIN s /\ {s[i] : i \in at} = ToSet(s)
  BY DEF ToSet
<1>. HIDE DEF at
<1>3. IsSeq(matched) /\ ToSet(matched) = ToSet(s)
  BY <1>2, PickedList
<1>. HIDE DEF matched
<1>. QED
  BY <1>1, <1>3, SeqHas

\* The snapshots of a model
OfModelIn(S, key, model) == {s \in S : OfModel(s, key, model)}

\* The snapshots that a branch is built from are those of the live run with a
\* group title.
LEMMA BranchesFound ==
    ASSUME Published, NEW run \in Runs, NEW key, NEW model
    PROVE  LET found == BranchCandidates(ListMarketSnapshotCandidates(snapshots, live), run, key, model, TargetOf(key.brand))
           IN  /\ IsSeq(found)
               /\ ToSet(found) = IF run = live THEN {s \in OfModelIn(SnapshotsOf(run), key, model) : s.group # <<>>} ELSE {}
<1>. DEFINE listed == ListMarketSnapshotCandidates(snapshots, live)
            bucket == TargetOf(key.brand)
            fits(s) == s.run = run /\ OfModel(s, key, model) /\ s.group # <<>>
            at == {i \in DOMAIN listed : fits(listed[i])}
            picked == Picked(listed, at)
            source == OfBucket(picked, bucket)
            firsts == {i \in DOMAIN source : \A j \in 1..(i - 1) : source[j].group # source[i].group}
            wanted == IF run = live THEN {s \in OfModelIn(SnapshotsOf(run), key, model) : s.group # <<>>} ELSE {}
<1>1. scenario \in Scenarios
  BY DEF Published
<1>2. IsSeq(listed) /\ ToSet(listed) = IF live \in Runs THEN SnapshotsOf(live) ELSE {}
  BY Listed
<1>3. BranchCandidates(listed, run, key, model, bucket) = Picked(source, firsts)
  BY DEF BranchCandidates
<1>. HIDE DEF listed
<1>4. at \subseteq DOMAIN listed /\ {listed[i] : i \in at} = {s \in ToSet(listed) : fits(s)}
  BY DEF ToSet
<1>5. {s \in ToSet(listed) : fits(s)} = wanted
  <2>1. CASE live \in Runs
    <3>1. \A s \in SnapshotsOf(live) : s.run = live
      BY <1>1, <2>1, RunPublishes DEF IsPriced
    <3>. QED
      BY <1>2, <2>1, <3>1 DEF OfModelIn
  <2>2. CASE live \notin Runs
    BY <1>2, <2>2
  <2>. QED
    BY <2>1, <2>2
<1>6. \A s \in wanted : s \in SnapshotsOf(run) /\ OfModel(s, key, model) /\ s.bucket = bucket
  <2>1. \A s \in SnapshotsOf(run) : OfModel(s, key, model) => s.bucket = bucket
    BY <1>1, RunPublishes DEF IsPriced, OfModel
  <2>. QED
    BY <2>1 DEF OfModelIn
<1>. HIDE DEF at, wanted, bucket
<1>7. IsSeq(picked) /\ ToSet(picked) = wanted
  BY <1>2, <1>4, <1>5, PickedList
<1>. HIDE DEF picked
<1>8. IsSeq(source) /\ ToSet(source) = wanted
  BY <1>6, <1>7, OfOneBucket
<1>. HIDE DEF source
<1>9. \A i, j \in DOMAIN source : source[i].group = source[j].group => source[i] = source[j]
  <2>1. ASSUME NEW i \in DOMAIN source, NEW j \in DOMAIN source, source[i].group = source[j].group
        PROVE  source[i] = source[j]
    <3>1. source[i] \in wanted /\ source[j] \in wanted
      BY <1>8 DEF ToSet
    <3>. QED
      BY <1>1, <1>6, <2>1, <3>1, RunPublishes DEF OfModel
  <2>. QED
    BY <2>1
<1>10. ASSUME NEW k \in DOMAIN source PROVE \E i \in firsts : source[i] = source[k]
  <2>. DEFINE D == {i \in DOMAIN source : source[i].group = source[k].group}
  <2>1. DOMAIN source = 1..Len(source) /\ Len(source) \in Nat
    BY <1>8, SeqHas
  <2>2. D \subseteq 1..Len(source) /\ D # {}
    BY <2>1
  <2>3. PICK i \in D : \A j \in 1..(i - 1) : j \notin D
    BY <2>1, <2>2, FirstPlace
  <2>4. \A j \in 1..(i - 1) : j \in DOMAIN source
    BY <2>1
  <2>5. i \in firsts
    BY <2>3, <2>4
  <2>. QED
    BY <1>9, <2>5
<1>11. firsts \subseteq DOMAIN source /\ {source[i] : i \in firsts} = ToSet(source)
  BY <1>10 DEF ToSet
<1>. HIDE DEF firsts
<1>12. IsSeq(Picked(source, firsts)) /\ ToSet(Picked(source, firsts)) = wanted
  BY <1>8, <1>11, PickedList
<1>. QED
  BY <1>3, <1>12 DEF listed, bucket, wanted

\* The newest quote of an article
NewestQuote(rows) == CHOOSE q \in rows : \A p \in rows \ {q} : Exceeds(<<q.at, q.id>>, <<p.at, p.id>>)

\* There is a newest quote.
LEMMA NewestQuoteIsOne ==
    ASSUME NEW rows, AreRows(rows), rows # {}
    PROVE  NewestQuote(rows) \in rows
<1>. DEFINE order == {p \in rows \X rows : Exceeds(<<p[1].at, p[1].id>>, <<p[2].at, p[2].id>>)}
<1>1. \A q, p : Exceeds(<<q.at, q.id>>, <<p.at, p.id>>) <=> q.at > p.at \/ (q.id > p.id /\ q.at = p.at)
  BY PairExceeds
<1>2. \A q, p \in rows : <<q, p>> \in order <=> q.at > p.at \/ (q.id > p.id /\ q.at = p.at)
  BY <1>1
<1>3. \A q \in rows : q.at \in Nat /\ q.id \in Nat
  BY DEF AreRows
<1>4. \A q, p \in rows : <<q, p>> \in order => Exceeds(<<q.at, q.id>>, <<p.at, p.id>>)
  OBVIOUS
<1>. HIDE DEF order
<1>5. StrictTotal(rows, order)
  <2>1. \A q \in rows : <<q, q>> \notin order
    BY <1>2, <1>3
  <2>2. \A q, p \in rows : q # p => <<q, p>> \in order \/ <<p, q>> \in order
    <3>1. \A q, p \in rows : q # p => q.id # p.id
      BY DEF AreRows
    <3>. QED
      BY <1>2, <1>3, <3>1
  <2>3. \A q, p, r \in rows : <<q, p>> \in order /\ <<p, r>> \in order => <<q, r>> \in order
    BY <1>2, <1>3
  <2>. QED
    BY <2>1, <2>2, <2>3 DEF StrictTotal
<1>6. \E q \in rows : \A p \in rows \ {q} : <<q, p>> \in order
  BY <1>5, FirstExists DEF AreRows
<1>7. \E q \in rows : \A p \in rows \ {q} : Exceeds(<<q.at, q.id>>, <<p.at, p.id>>)
  BY <1>4, <1>6
<1>. QED
  BY <1>7 DEF NewestQuote

\* The articles of a model that a run quotes, each once
LEMMA GroupsOfModel ==
    ASSUME scenario \in Scenarios, NEW run \in Runs, NEW key, NEW model, NEW bucket
    PROVE  /\ IsSeq(FamilyGroups(run, key, model, bucket))
           /\ ToSet(FamilyGroups(run, key, model, bucket))
                = {a \in DOMAIN Articles : OfModel(Articles[a], key, model) /\ Quoted(run, a, bucket) # {}}
<1>. DEFINE quoted == {a \in DOMAIN Articles : OfModel(Articles[a], key, model) /\ Quoted(run, a, bucket) # {}}
            newest(a) == NewestQuote(Quoted(run, a, bucket))
            order == {p \in quoted \X quoted : Exceeds(<<newest(p[1]).at, newest(p[1]).id>>, <<newest(p[2]).at, newest(p[2]).id>>)}
<1>1. FamilyGroups(run, key, model, bucket) = Ranked(quoted, order)
  BY DEF FamilyGroups, Ordered, NewestQuote
<1>2. IsFiniteSet(quoted)
  BY ArticleAssumption, FS_Subset
<1>3. ASSUME NEW a \in quoted
      PROVE  newest(a) \in scenario.quotes[run] /\ newest(a).article = a /\ newest(a).at \in Nat /\ newest(a).id \in Nat
  <2>1. AreRows(Quoted(run, a, bucket)) /\ Quoted(run, a, bucket) # {}
    BY QuotedAreRows
  <2>. HIDE DEF newest
  <2>2. newest(a) \in Quoted(run, a, bucket)
    BY <2>1, NewestQuoteIsOne DEF newest
  <2>. QED
    BY <2>1, <2>2 DEF Quoted, AreRows
<1>4. \A a, b \in quoted : newest(a).id = newest(b).id => a = b
  <2>1. ASSUME NEW a \in quoted, NEW b \in quoted, newest(a).id = newest(b).id PROVE a = b
    <3>1. newest(a) \in scenario.quotes[run] /\ newest(b) \in scenario.quotes[run] /\ newest(a).article = a /\ newest(b).article = b
      BY <1>3
    <3>2. newest(a) = newest(b)
      <4>1. \A q, p \in scenario.quotes[run] : q.id = p.id => q = p
        BY ScenarioAssumption DEF Runs
      <4>. HIDE DEF newest
      <4>. QED
        BY <2>1, <3>1, <4>1
    <3>. QED
      BY <3>1, <3>2
  <2>. QED
    BY <2>1
<1>. DEFINE before(a, b) == newest(a).at > newest(b).at \/ (newest(a).id > newest(b).id /\ newest(a).at = newest(b).at)
<1>5. \A a, b \in quoted : <<a, b>> \in order <=> before(a, b)
  <2>1. \A a, b : Exceeds(<<newest(a).at, newest(a).id>>, <<newest(b).at, newest(b).id>>) <=> before(a, b)
    BY PairExceeds
  <2>. QED
    BY <2>1
<1>. HIDE DEF order, quoted, newest
<1>6. StrictTotal(quoted, order)
  <2>1. \A a \in quoted : <<a, a>> \notin order
    BY <1>3, <1>5
  <2>2. \A a, b \in quoted : a # b => <<a, b>> \in order \/ <<b, a>> \in order
    BY <1>3, <1>4, <1>5
  <2>3. \A a, b, c \in quoted : <<a, b>> \in order /\ <<b, c>> \in order => <<a, c>> \in order
    BY <1>3, <1>5
  <2>. QED
    BY <2>1, <2>2, <2>3 DEF StrictTotal
<1>7. IsSeq(Ranked(quoted, order)) /\ ToSet(Ranked(quoted, order)) = quoted
  BY <1>2, <1>6, RankedList
<1>. QED
  BY <1>1, <1>7 DEF quoted

\* A variant of an article, with the prices of its run
VariantIs(v, s) ==
    /\ v.group = NormalizeVariantTitle(s.group) /\ v.price = s.market /\ v.low = s.low /\ v.high = s.high
    /\ v.samples = s.samples /\ v.latest = s.latest

\* A variant that is built from rows has the price that its run publishes.
LEMMA VariantOfRun ==
    ASSUME Published, NEW run \in Runs, SnapshotsOf(run) \subseteq snapshots, NEW a \in DOMAIN Articles
    PROVE  LET found == VariantFromRows(run, a, TargetOf(Articles[a].brand))
           IN  /\ found # {} <=> a \in PricedIn(run)
               /\ \A v \in found : VariantIs(v, Price(run, a))
<1>. DEFINE b == TargetOf(Articles[a].brand)
            rows == Quoted(run, a, b)
            m == MarketNow(a, rows)
            published == {s \in snapshots : s.run = run /\ s.article = a /\ s.bucket = b}
            found == VariantFromRows(run, a, b)
<1>1. scenario \in Scenarios
  BY DEF Published
<1>2. \A s \in published : a \in PricedIn(run) /\ s = Price(run, a)
  <2>1. \A s \in published : s \in SnapshotsOf(run)
    BY DEF Published
  <2>. QED
    BY <1>1, <2>1, RunPublishes DEF IsPriced
<1>3. a \in PricedIn(run) <=> CountingIn(run, a, b) # {}
  BY DEF PricedIn
<1>4. (a \in PricedIn(run) => m.ok = TRUE) /\ (a \notin PricedIn(run) => m.ok = FALSE)
  <2>1. AreRows(rows) /\ scenario.reference \in Nat
    BY <1>1, QuotedAreRows
  <2>2. (CountingIn(run, a, b) = {} => m.ok = FALSE) /\ (CountingIn(run, a, b) # {} => m.ok = TRUE)
    BY <2>1, MarketIsOfTheLatestDay DEF MarketNow, CountingIn
  <2>. QED
    BY <1>3, <2>2
<1>5. Snapshot(run, a, b, rows, m) = Price(run, a)
  BY DEF Price, PricedBy
<1>6. SnapshotIfAny(run, a, b, rows, m) = IF a \in PricedIn(run) THEN {Price(run, a)} ELSE {}
  BY <1>4, <1>5 DEF SnapshotIfAny
<1>7. found = IF published # {} THEN {VariantFromSnapshotRow(s) : s \in published}
              ELSE {VariantOfMarket(s, rows) : s \in SnapshotIfAny(run, a, b, rows, m)}
  BY DEF VariantFromRows
<1>8. \A s : VariantIs(VariantFromSnapshotRow(s), s)
  BY DEF VariantIs, VariantFromSnapshotRow
<1>9. a \in PricedIn(run) => published # {}
  <2>1. a \in PricedIn(run) => IsPriced(Price(run, a), run) /\ Price(run, a).article = a /\ Price(run, a) \in SnapshotsOf(run)
    BY <1>1, PriceIsPriced, RunPublishes
  <2>. QED
    BY <2>1 DEF IsPriced
<1>. HIDE DEF m, rows, found, published
<1>10. CASE published # {}
  BY <1>2, <1>7, <1>8, <1>10 DEF found, b
<1>11. CASE published = {}
  BY <1>6, <1>7, <1>9, <1>11 DEF found, b
<1>. QED
  BY <1>10, <1>11

\* The variants of a model are those that its run publishes, or those with a
\* group title of them.
VariantsOf(variants, P) ==
    /\ IsSeq(variants) /\ (variants = <<>> <=> P = {})
    /\ \A v \in ToSet(variants) : \E s \in P : VariantIs(v, s)
    /\ \A s \in P : s.group # <<>> \/ (\A t \in P : t.group = <<>>) => \E v \in ToSet(variants) : VariantIs(v, s)

\* From snapshots or from rows, the variants are those of the run.
LEMMA VariantsOfModel ==
    ASSUME Published, NEW run \in Runs, SnapshotsOf(run) \subseteq snapshots, NEW key, NEW model
    PROVE  LET bucket == TargetOf(key.brand)
               found == BranchCandidates(ListMarketSnapshotCandidates(snapshots, live), run, key, model, bucket)
           IN  VariantsOf(BranchVariants(found, run, key, model, bucket), OfModelIn(SnapshotsOf(run), key, model))
<1>. DEFINE bucket == TargetOf(key.brand)
            found == BranchCandidates(ListMarketSnapshotCandidates(snapshots, live), run, key, model, bucket)
            P == OfModelIn(SnapshotsOf(run), key, model)
            variants == BranchVariants(found, run, key, model, bucket)
            groups == FamilyGroups(run, key, model, bucket)
            priced == {i \in DOMAIN groups : VariantFromRows(run, groups[i], bucket) # {}}
            picked == Picked(groups, priced)
            snap == [i \in DOMAIN found |-> VariantFromSnapshotRow(found[i])]
            own == [i \in DOMAIN picked |-> CHOOSE v \in VariantFromRows(run, picked[i], bucket) : TRUE]
<1>1. scenario \in Scenarios
  BY DEF Published
<1>2. /\ IsSeq(found)
      /\ ToSet(found) = IF run = live THEN {s \in P : s.group # <<>>} ELSE {}
  BY BranchesFound
<1>. HIDE DEF found
<1>3. variants = IF found # <<>> THEN snap ELSE own
  BY DEF BranchVariants, Mapped
<1>. HIDE DEF P, variants
<1>4. CASE found # <<>>
  <2>1. snap = [i \in DOMAIN found |-> snap[i]] /\ \A i \in DOMAIN found : VariantIs(snap[i], found[i])
    BY DEF VariantIs, VariantFromSnapshotRow
  <2>. HIDE DEF snap
  <2>2. IsSeq(snap) /\ ToSet(snap) = {snap[i] : i \in DOMAIN found} /\ snap # <<>>
    BY <1>2, <1>4, <2>1, MappedList
  <2>3. ToSet(found) # {} /\ ToSet(found) = {s \in P : s.group # <<>>} /\ ToSet(found) = {found[i] : i \in DOMAIN found}
    BY <1>2, <1>4, SeqHas DEF ToSet
  <2>4. \A v \in ToSet(snap) : \E s \in P : VariantIs(v, s)
    BY <2>1, <2>2, <2>3
  <2>5. \A s \in P : s.group # <<>> => \E v \in ToSet(snap) : VariantIs(v, s)
    BY <2>1, <2>2, <2>3
  <2>6. \A s \in P : ~\A t \in P : t.group = <<>>
    BY <2>3
  <2>. QED
    BY <1>3, <1>4, <2>2, <2>3, <2>4, <2>5, <2>6 DEF VariantsOf, variants, P, found
<1>5. CASE found = <<>>
  <2>1. IsSeq(groups) /\ ToSet(groups) = {a \in DOMAIN Articles : OfModel(Articles[a], key, model) /\ Quoted(run, a, bucket) # {}}
    BY <1>1, GroupsOfModel
  <2>. HIDE DEF groups
  <2>2. priced \subseteq DOMAIN groups /\ {groups[i] : i \in priced} = {a \in ToSet(groups) : VariantFromRows(run, a, bucket) # {}}
    BY DEF ToSet
  <2>. HIDE DEF priced
  <2>3. IsSeq(picked) /\ ToSet(picked) = {a \in ToSet(groups) : VariantFromRows(run, a, bucket) # {}}
    BY <2>1, <2>2, PickedList
  <2>. HIDE DEF picked
  <2>4. own = [i \in DOMAIN picked |-> own[i]] /\ \A i \in DOMAIN picked : own[i] = CHOOSE v \in VariantFromRows(run, picked[i], bucket) : TRUE
    OBVIOUS
  <2>. HIDE DEF own
  <2>5. IsSeq(own) /\ ToSet(own) = {own[i] : i \in DOMAIN picked} /\ (own = <<>> <=> picked = <<>>)
    BY <2>3, <2>4, MappedList
  <2>6. ASSUME NEW a \in DOMAIN Articles, OfModel(Articles[a], key, model)
        PROVE  /\ bucket = TargetOf(Articles[a].brand)
               /\ VariantFromRows(run, a, bucket) # {} <=> a \in PricedIn(run)
               /\ \A v \in VariantFromRows(run, a, bucket) : VariantIs(v, Price(run, a))
               /\ a \in PricedIn(run) => Quoted(run, a, bucket) # {}
    <3>1. Articles[a].brand = key.brand
      BY <2>6 DEF OfModel
    <3>2. a \in PricedIn(run) => Quoted(run, a, bucket) # {}
      BY <3>1 DEF PricedIn, CountingIn, Counting
    <3>. QED
      BY <3>1, <3>2, VariantOfRun
  <2>7. ToSet(picked) = {a \in PricedIn(run) : OfModel(Articles[a], key, model)}
    <3>1. \A a \in PricedIn(run) : a \in DOMAIN Articles
      BY DEF PricedIn
    <3>. HIDE DEF bucket
    <3>. QED
      BY <2>1, <2>3, <2>6, <3>1
  <2>8. P = {Price(run, a) : a \in {a \in PricedIn(run) : OfModel(Articles[a], key, model)}}
    <3>1. \A a \in PricedIn(run) : Price(run, a) \in SnapshotsOf(run) /\ (OfModel(Price(run, a), key, model) <=> OfModel(Articles[a], key, model))
      <4>1. \A a \in PricedIn(run) : IsPriced(Price(run, a), run) /\ Price(run, a).article = a
        BY <1>1, PriceIsPriced
      <4>. QED
        BY <1>1, <4>1, RunPublishes DEF IsPriced, OfModel
    <3>2. \A s \in SnapshotsOf(run) : \E a \in PricedIn(run) : s = Price(run, a)
      BY <1>1, RunPublishes
    <3>. QED
      BY <3>1, <3>2 DEF P, OfModelIn
  <2>9. \A i \in DOMAIN picked : /\ picked[i] \in ToSet(picked)
                                 /\ VariantIs(own[i], Price(run, picked[i]))
    <3>1. ASSUME NEW i \in DOMAIN picked PROVE picked[i] \in ToSet(picked) /\ VariantIs(own[i], Price(run, picked[i]))
      <4>1. picked[i] \in ToSet(picked)
        BY DEF ToSet
      <4>2. picked[i] \in DOMAIN Articles /\ OfModel(Articles[picked[i]], key, model) /\ VariantFromRows(run, picked[i], bucket) # {}
        BY <2>1, <2>3, <4>1
      <4>3. own[i] \in VariantFromRows(run, picked[i], bucket)
        BY <2>4, <4>2
      <4>. QED
        BY <2>6, <4>1, <4>2, <4>3
    <3>. QED
      BY <3>1
  <2>10. \A v \in ToSet(own) : \E s \in P : VariantIs(v, s)
    BY <2>5, <2>7, <2>8, <2>9
  <2>11. \A s \in P : \E v \in ToSet(own) : VariantIs(v, s)
    <3>1. ASSUME NEW a \in ToSet(picked) PROVE \E v \in ToSet(own) : VariantIs(v, Price(run, a))
      <4>1. PICK i \in DOMAIN picked : picked[i] = a
        BY DEF ToSet
      <4>. QED
        BY <2>5, <2>9, <4>1
    <3>. QED
      BY <2>7, <2>8, <3>1
  <2>12. own = <<>> <=> P = {}
    BY <2>3, <2>5, <2>7, <2>8, SeqHas
  <2>. QED
    BY <1>3, <1>5, <2>5, <2>10, <2>11, <2>12 DEF VariantsOf, variants, P, found
<1>. QED
  BY <1>4, <1>5

-----------------------------------------------------------------------------
(* Capacities and branches *)

\* A variant that can be shown
IsVariant(v) ==
    /\ IsSeq(v.group) /\ v.group # <<>>
    /\ v.price \in Int /\ v.low \in Int /\ v.high \in Int /\ v.low <= v.price /\ v.price <= v.high
    /\ v.samples \in Nat /\ v.latest \in Nat

\* What a run publishes can be shown.
LEMMA VariantsAreShown ==
    ASSUME scenario \in Scenarios, NEW run \in Runs, NEW s \in SnapshotsOf(run), NEW v, VariantIs(v, s)
    PROVE  IsVariant(v)
<1>1. IsPriced(s, run) /\ s.article \in DOMAIN Articles
  BY RunPublishes DEF IsPriced, PricedIn
<1>2. s.group \in Seq(STRING)
  BY <1>1, ArticleAssumption DEF IsPriced
<1>3. IsSeq(NormalizeVariantTitle(s.group)) /\ NormalizeVariantTitle(s.group) # <<>>
  <2>1. CASE s.group = <<>>
    <3>1. <<"plain">> \in Seq({"plain"}) /\ <<"plain">> # <<>> /\ ToSet(<<"plain">>) = {"plain"}
      BY OneWord
    <3>. QED
      BY <2>1, <3>1 DEF NormalizeVariantTitle, IsSeq
  <2>2. CASE s.group # <<>>
    BY <1>2, <2>2 DEF NormalizeVariantTitle, IsSeq, ToSet
  <2>. QED
    BY <2>1, <2>2
<1>. QED
  BY <1>1, <1>3 DEF IsVariant, VariantIs, IsPriced

\* A group of the variants of one capacity
LEMMA GroupOfVariants ==
    ASSUME NEW all, IsSeq(all), all # <<>>, NEW capacity, \A v \in ToSet(all) : IsVariant(v) /\ CapacityOf(v) = capacity
    PROVE  LET g == CapacityGroup(capacity, all)
           IN  /\ IsCapacityGroup(g) /\ g.samples \in Nat /\ g.latest \in Nat
               /\ ToSet(g.colours) = {Colour(v) : v \in ToSet(all)}
<1>. DEFINE D == DOMAIN all
            ranks == [i \in D |-> VariantRank(all[i])]
            best == Max({i \in D : \A j \in D : ~Exceeds(ranks[j], ranks[i])})
            colours == [i \in D |-> Colour(all[i])]
            keys == [i \in DOMAIN colours |-> VariantRank(colours[i])]
            sorted == InOrder(colours, keys)
            g == CapacityGroup(capacity, all)
<1>1. g = [capacity |-> capacity, price |-> all[best].price, low |-> all[best].low, high |-> all[best].high,
           samples |-> all[best].samples, latest |-> all[best].latest, days |-> all[best].days, colours |-> sorted]
  <2>1. {i \in D : \A j \in D : ~Exceeds(ranks[j], ranks[i])}
          = {i \in D : \A j \in D : ~Exceeds(VariantRank(all[j]), VariantRank(all[i]))}
    OBVIOUS
  <2>. DEFINE top == Max({i \in D : \A j \in D : ~Exceeds(VariantRank(all[j]), VariantRank(all[i]))})
  <2>2. best = top
    BY <2>1
  <2>3. sorted = Descending(Mapped(all, Colour), VariantRank)
    BY DEF Descending, Mapped
  <2>4. g = [capacity |-> capacity, price |-> all[top].price, low |-> all[top].low, high |-> all[top].high,
             samples |-> all[top].samples, latest |-> all[top].latest, days |-> all[top].days,
             colours |-> Descending(Mapped(all, Colour), VariantRank)]
    BY DEF CapacityGroup
  <2>. HIDE DEF best, top, sorted, g
  <2>. QED
    BY <2>2, <2>3, <2>4
<1>2. D = 1..Len(all) /\ IsFiniteSet(D) /\ Len(all) \in Nat /\ Len(all) # 0 /\ ToSet(all) # {}
  BY SeqHas
<1>3. D \subseteq Int /\ D # {} /\ \A i \in D : all[i] \in ToSet(all)
  BY <1>2 DEF ToSet
<1>4. \A i \in D : IsVariant(all[i]) /\ CapacityOf(all[i]) = capacity
  BY <1>3
<1>5. \A v : IsVariant(v) => VariantRank(v) \in [1..2 -> Int]
  <2>1. ASSUME NEW v, IsVariant(v) PROVE VariantRank(v) \in [1..2 -> Int]
    <3>1. v.samples \in Int /\ v.latest \in Int /\ VariantRank(v) = <<v.samples, v.latest>>
      BY <2>1 DEF IsVariant, VariantRank
    <3>. QED
      BY <3>1
  <2>. QED
    BY <2>1
<1>6. best \in D
  <2>1. \A i \in D : ranks[i] \in [1..2 -> Int]
    BY <1>4, <1>5
  <2>. HIDE DEF ranks, D
  <2>. QED
    BY <1>2, <1>3, <2>1, BestPlace
<1>7. colours = [i \in DOMAIN all |-> colours[i]] /\ \A i \in D : colours[i] = Colour(all[i])
  OBVIOUS
<1>. HIDE DEF colours, best
<1>8. IsSeq(colours) /\ DOMAIN colours = D /\ ToSet(colours) = {colours[i] : i \in D} /\ colours # <<>>
  BY <1>7, MappedList
<1>9. \A i \in DOMAIN colours : keys[i] \in [1..2 -> Int]
  <2>1. \A v : VariantRank(Colour(v)) = VariantRank(v)
    BY DEF VariantRank, Colour
  <2>. QED
    BY <1>4, <1>5, <1>7, <1>8, <2>1
<1>10. IsSeq(sorted) /\ ToSet(sorted) = ToSet(colours) /\ sorted # <<>>
  <2>. HIDE DEF keys
  <2>. QED
    BY <1>8, <1>9, InOrderList
<1>11. ToSet(sorted) = {Colour(v) : v \in ToSet(all)}
  <2>1. ToSet(all) = {all[i] : i \in D}
    BY DEF ToSet
  <2>. QED
    BY <1>7, <1>8, <1>10, <2>1
<1>12. \A v \in ToSet(all) : IsColour(Colour(v), capacity) /\ Colour(v).price = v.price
  BY DEF IsVariant, CapacityOf, IsColour, Colour
<1>. HIDE DEF sorted, g
<1>13. /\ DOMAIN g = {"capacity", "price", "low", "high", "samples", "latest", "days", "colours"}
       /\ g.capacity = capacity /\ g.price = all[best].price /\ g.colours = sorted
       /\ g.samples = all[best].samples /\ g.latest = all[best].latest
  BY <1>1
<1>14. all[best] \in ToSet(all)
  BY <1>3, <1>6
<1>15. g.samples \in Nat /\ g.latest \in Nat
  BY <1>13, <1>14 DEF IsVariant
<1>16. \E c \in ToSet(sorted) : c.price = g.price
  BY <1>11, <1>12, <1>13, <1>14
<1>17. IsCapacityGroup(g)
  BY <1>10, <1>11, <1>12, <1>13, <1>16 DEF IsCapacityGroup
<1>. QED
  BY <1>11, <1>13, <1>15, <1>17 DEF g

\* The groups of some variants show them all, and nothing else.
LEMMA GroupsOfVariants ==
    ASSUME NEW variants, IsSeq(variants), \A v \in ToSet(variants) : IsVariant(v)
    PROVE  LET groups == CapacityGroups(variants)
           IN  /\ IsSeq(groups) /\ (groups = <<>> <=> variants = <<>>)
               /\ \A g \in ToSet(groups) : IsCapacityGroup(g) /\ g.samples \in Nat /\ g.latest \in Nat
               /\ UNION {ToSet(g.colours) : g \in ToSet(groups)} = {Colour(v) : v \in ToSet(variants)}
<1>. DEFINE capacities == [i \in DOMAIN variants |-> CapacityOf(variants[i])]
            each == Distinct(capacities)
            of(c) == {i \in DOMAIN variants : CapacityOf(variants[i]) = c}
            group(c) == CapacityGroup(c, Picked(variants, of(c)))
            all == [i \in DOMAIN each |-> group(each[i])]
            keys == [i \in DOMAIN all |-> <<-CapacityOrder(all[i].capacity)>>]
            groups == InOrder(all, keys)
<1>1. CapacityGroups(variants) = groups
  BY DEF CapacityGroups, Descending, Mapped
<1>2. capacities = [i \in DOMAIN variants |-> capacities[i]] /\ \A i \in DOMAIN variants : capacities[i] = CapacityOf(variants[i])
  OBVIOUS
<1>. HIDE DEF capacities
<1>3. IsSeq(capacities) /\ ToSet(capacities) = {capacities[i] : i \in DOMAIN variants} /\ (capacities = <<>> <=> variants = <<>>)
  BY <1>2, MappedList
<1>4. /\ IsSeq(each) /\ (each = <<>> <=> variants = <<>>)
      /\ ToSet(each) = {CapacityOf(v) : v \in ToSet(variants)}
  <2>1. ToSet(capacities) = {CapacityOf(v) : v \in ToSet(variants)}
    BY <1>2, <1>3 DEF ToSet
  <2>. QED
    BY <1>3, <2>1, DistinctList
<1>. HIDE DEF each
<1>5. ASSUME NEW c \in ToSet(each)
      PROVE  /\ IsCapacityGroup(group(c)) /\ group(c).samples \in Nat /\ group(c).latest \in Nat
             /\ ToSet(group(c).colours) = {Colour(v) : v \in {v \in ToSet(variants) : CapacityOf(v) = c}}
  <2>. DEFINE picked == Picked(variants, of(c))
  <2>1. of(c) \subseteq DOMAIN variants /\ of(c) # {} /\ {variants[i] : i \in of(c)} = {v \in ToSet(variants) : CapacityOf(v) = c}
    BY <1>4 DEF ToSet
  <2>. HIDE DEF of
  <2>2. IsSeq(picked) /\ picked # <<>> /\ ToSet(picked) = {v \in ToSet(variants) : CapacityOf(v) = c}
    BY <2>1, PickedList
  <2>. HIDE DEF picked
  <2>3. \A v \in ToSet(picked) : IsVariant(v) /\ CapacityOf(v) = c
    BY <2>2
  <2>. DEFINE g == CapacityGroup(c, picked)
  <2>4. /\ IsCapacityGroup(g) /\ g.samples \in Nat /\ g.latest \in Nat
        /\ ToSet(g.colours) = {Colour(v) : v \in ToSet(picked)}
    BY <2>2, <2>3, GroupOfVariants
  <2>. QED
    BY <2>2, <2>4 DEF picked
<1>6. all = [i \in DOMAIN each |-> all[i]] /\ \A i \in DOMAIN each : all[i] = group(each[i])
  OBVIOUS
<1>. HIDE DEF group, all
<1>7. IsSeq(all) /\ ToSet(all) = {all[i] : i \in DOMAIN each} /\ (all = <<>> <=> each = <<>>)
  BY <1>4, <1>6, MappedList
<1>8. ToSet(all) = {group(c) : c \in ToSet(each)}
  BY <1>6, <1>7 DEF ToSet
<1>9. \A i \in DOMAIN all : keys[i] \in [1..1 -> Int]
  <2>1. \A i \in DOMAIN all : -CapacityOrder(all[i].capacity) \in Int
    BY CapacitiesAreOrdered DEF CapacityIsOrdered
  <2>. QED
    BY <2>1
<1>10. IsSeq(groups) /\ ToSet(groups) = ToSet(all) /\ (groups = <<>> <=> all = <<>>)
  <2>. HIDE DEF keys
  <2>. QED
    BY <1>7, <1>9, InOrderList
<1>. HIDE DEF groups
<1>11. UNION {ToSet(g.colours) : g \in ToSet(groups)} = {Colour(v) : v \in ToSet(variants)}
  <2>1. ASSUME NEW g \in ToSet(groups), NEW c \in ToSet(g.colours) PROVE c \in {Colour(v) : v \in ToSet(variants)}
    BY <1>5, <1>8, <1>10, <2>1
  <2>2. ASSUME NEW v \in ToSet(variants) PROVE \E g \in ToSet(groups) : Colour(v) \in ToSet(g.colours)
    <3>1. CapacityOf(v) \in ToSet(each)
      BY <1>4
    <3>2. group(CapacityOf(v)) \in ToSet(groups) /\ Colour(v) \in ToSet(group(CapacityOf(v)).colours)
      BY <1>5, <1>8, <1>10, <3>1
    <3>. QED
      BY <3>2
  <2>. QED
    BY <2>1, <2>2
<1>12. \A g \in ToSet(groups) : IsCapacityGroup(g) /\ g.samples \in Nat /\ g.latest \in Nat
  BY <1>5, <1>8, <1>10
<1>. QED
  BY <1>1, <1>4, <1>7, <1>10, <1>11, <1>12

\* What of a branch is shown
ColoursOfBranch(b) ==
    UNION {{[model |-> b.title, group |-> c.group, market |-> c.price, low |-> c.low, high |-> c.high] : c \in ToSet(g.colours)}
           : g \in ToSet(b.groups)}

\* Those that have a group title, and those of which none in the model has one
Grouped(P) == {s \in P : s.group # <<>> \/ \A t \in P : t.group = <<>>}

\* A branch shows what its run publishes of its model.
LEMMA BranchOfRun ==
    ASSUME Published, NEW run \in Runs, SnapshotsOf(run) \subseteq snapshots, NEW key, NEW model
    PROVE  LET b == Branch(ListMarketSnapshotCandidates(snapshots, live), run, key, model, TargetOf(key.brand))
               P == OfModelIn(SnapshotsOf(run), key, model)
           IN  /\ IsSeq(b.groups) /\ b.samples \in Nat /\ b.latest \in Nat
               /\ b.groups = <<>> <=> P = {}
               /\ b.groups # <<>> => IsBranch(b)
               /\ ColoursOfBranch(b) \subseteq {ShownOf(s) : s \in P}
               /\ {ShownOf(s) : s \in Grouped(P)} \subseteq ColoursOfBranch(b)
               /\ \A g \in ToSet(b.groups) : \E s \in P : g.price = s.market
<1>. DEFINE listed == ListMarketSnapshotCandidates(snapshots, live)
            bucket == TargetOf(key.brand)
            variants == BranchVariants(BranchCandidates(listed, run, key, model, bucket), run, key, model, bucket)
            P == OfModelIn(SnapshotsOf(run), key, model)
            groups == CapacityGroups(variants)
            samples == [i \in DOMAIN groups |-> groups[i].samples]
            latest == [i \in DOMAIN groups |-> groups[i].latest]
            b == Branch(listed, run, key, model, bucket)
<1>1. b = [title |-> model, groups |-> groups, samples |-> Total(samples), latest |-> Max({0} \cup {latest[i] : i \in DOMAIN groups})]
  <2>1. {groups[i].latest : i \in DOMAIN groups} = {latest[i] : i \in DOMAIN groups}
    OBVIOUS
  <2>2. b = BranchOf(model, groups)
    BY DEF Branch
  <2>3. BranchOf(model, groups) = [title |-> model, groups |-> groups, samples |-> Total(samples),
                                   latest |-> Max({0} \cup {groups[i].latest : i \in DOMAIN groups})]
    BY DEF BranchOf, Mapped
  <2>. HIDE DEF groups, b
  <2>. QED
    BY <2>1, <2>2, <2>3
<1>2. VariantsOf(variants, P)
  BY VariantsOfModel
<1>. HIDE DEF b, variants
<1>3. \A s \in P : s \in SnapshotsOf(run) /\ s.model = model
  BY DEF OfModelIn, OfModel
<1>4. \A v \in ToSet(variants) : IsVariant(v)
  BY <1>2, <1>3, VariantsAreShown DEF VariantsOf, Published
<1>5. /\ IsSeq(groups) /\ (groups = <<>> <=> variants = <<>>)
      /\ \A g \in ToSet(groups) : IsCapacityGroup(g) /\ g.samples \in Nat /\ g.latest \in Nat
      /\ UNION {ToSet(g.colours) : g \in ToSet(groups)} = {Colour(v) : v \in ToSet(variants)}
  BY <1>2, <1>4, GroupsOfVariants DEF VariantsOf
<1>. HIDE DEF groups, P
<1>6. \A i \in DOMAIN groups : groups[i].samples \in Nat /\ groups[i].latest \in Nat
  BY <1>5 DEF ToSet
<1>7. Total(samples) \in Nat
  <2>1. samples = [i \in DOMAIN groups |-> samples[i]] /\ \A i \in DOMAIN groups : samples[i] \in Nat
    BY <1>6
  <2>. HIDE DEF samples
  <2>2. IsSeq(samples) /\ DOMAIN samples = DOMAIN groups
    BY <1>5, <2>1, MappedList
  <2>. QED
    BY <2>1, <2>2, TotalCounts
<1>8. Max({0} \cup {latest[i] : i \in DOMAIN groups}) \in Nat
  <2>1. latest = [i \in DOMAIN groups |-> latest[i]] /\ \A i \in DOMAIN groups : latest[i] \in Nat
    BY <1>6
  <2>. HIDE DEF latest
  <2>. DEFINE A == {latest[i] : i \in DOMAIN groups}
              B == {0} \cup A
  <2>2. IsFiniteSet(A) /\ A \subseteq Nat
    BY <1>5, <2>1, ImagesAreFinite
  <2>. HIDE DEF A
  <2>3. IsFiniteSet(B) /\ B # {} /\ B \subseteq Int /\ B \subseteq Nat
    <3>1. IsFiniteSet({0}) /\ 0 \in B
      BY FS_Singleton
    <3>2. IsFiniteSet({0} \cup A)
      BY <2>2, <3>1, FS_Union
    <3>. QED
      BY <2>2, <3>1, <3>2
  <2>. HIDE DEF B
  <2>4. Max(B) \in Nat
    BY <2>3, Extremes
  <2>. QED
    BY <2>4 DEF A, B
<1>9. /\ b.title = model /\ b.groups = groups /\ b.samples \in Nat /\ b.latest \in Nat
      /\ DOMAIN b = {"title", "groups", "samples", "latest"}
  BY <1>1, <1>7, <1>8
<1>10. groups # <<>> => IsBranch(b)
  BY <1>5, <1>9 DEF IsBranch
<1>. DEFINE shown(c) == [model |-> b.title, group |-> c.group, market |-> c.price, low |-> c.low, high |-> c.high]
<1>11. \A v, s : VariantIs(v, s) /\ s.model = model => shown(Colour(v)) = ShownOf(s) /\ Colour(v).price = s.market
  BY <1>9 DEF VariantIs, ShownOf, Colour
<1>12. ColoursOfBranch(b) = {shown(c) : c \in UNION {ToSet(g.colours) : g \in ToSet(groups)}}
  BY <1>9 DEF ColoursOfBranch
<1>. HIDE DEF shown
<1>13. ColoursOfBranch(b) = {shown(Colour(v)) : v \in ToSet(variants)}
  BY <1>5, <1>12
<1>14. ColoursOfBranch(b) \subseteq {ShownOf(s) : s \in P}
  <2>1. ASSUME NEW v \in ToSet(variants) PROVE shown(Colour(v)) \in {ShownOf(s) : s \in P}
    <3>1. PICK s \in P : VariantIs(v, s)
      BY <1>2 DEF VariantsOf
    <3>. QED
      BY <1>3, <1>11, <3>1
  <2>. QED
    BY <1>13, <2>1
<1>15. {ShownOf(s) : s \in Grouped(P)} \subseteq ColoursOfBranch(b)
  <2>1. ASSUME NEW s \in Grouped(P) PROVE ShownOf(s) \in ColoursOfBranch(b)
    <3>1. s \in P /\ \E v \in ToSet(variants) : VariantIs(v, s)
      BY <1>2 DEF VariantsOf, Grouped
    <3>. QED
      BY <1>3, <1>11, <1>13, <3>1
  <2>. QED
    BY <2>1
<1>16. \A g \in ToSet(groups) : \E s \in P : g.price = s.market
  <2>1. ASSUME NEW g \in ToSet(groups) PROVE \E s \in P : g.price = s.market
    <3>1. PICK c \in ToSet(g.colours) : c.price = g.price
      BY <1>5 DEF IsCapacityGroup
    <3>2. PICK v \in ToSet(variants) : c = Colour(v)
      BY <1>5
    <3>3. PICK s \in P : VariantIs(v, s)
      BY <1>2 DEF VariantsOf
    <3>. QED
      BY <1>3, <1>11, <3>1, <3>2, <3>3
  <2>. QED
    BY <2>1
<1>17. groups = <<>> <=> P = {}
  BY <1>2, <1>5 DEF VariantsOf
<1>. QED
  BY <1>5, <1>9, <1>10, <1>14, <1>15, <1>16, <1>17 DEF b, P

\* What a run has of some models
OfModelsIn(S, key, models) == UNION {OfModelIn(S, key, m) : m \in models}

\* An article shows what its run publishes of its models.
LEMMA AssembledOfRun ==
    ASSUME Published, NEW run \in Runs, SnapshotsOf(run) \subseteq snapshots, NEW key, NEW models, IsSeq(models)
    PROVE  LET full == Assembled(ListMarketSnapshotCandidates(snapshots, live), run, key, models, TargetOf(key.brand))
               P == OfModelsIn(SnapshotsOf(run), key, ToSet(models))
           IN  /\ IsArticle(full)
               /\ full.branches = <<>> <=> P = {}
               /\ ColoursOf(full) \subseteq {ShownOf(s) : s \in P}
               /\ \A m \in ToSet(models) : {ShownOf(s) : s \in Grouped(OfModelIn(SnapshotsOf(run), key, m))} \subseteq ColoursOf(full)
               /\ full.branches # <<>> => full.price \in {s.market : s \in P}
<1>. DEFINE listed == ListMarketSnapshotCandidates(snapshots, live)
            bucket == TargetOf(key.brand)
            of(m) == OfModelIn(SnapshotsOf(run), key, m)
            branch(m) == Branch(listed, run, key, m, bucket)
            all == [i \in DOMAIN models |-> branch(models[i])]
            at == {i \in DOMAIN all : all[i].groups # <<>>}
            priced == Picked(all, at)
            keys == [i \in DOMAIN priced |-> <<priced[i].samples, Len(priced[i].groups), priced[i].latest>>]
            branches == InOrder(priced, keys)
            full == Assembled(listed, run, key, models, bucket)
            P == OfModelsIn(SnapshotsOf(run), key, ToSet(models))
<1>1. full = [title |-> key.family, branches |-> branches, price |-> IF branches = <<>> THEN 0 ELSE branches[1].groups[1].price]
  <2>1. full = ArticleOf(key.family, branches)
    BY DEF Assembled, Descending, Mapped
  <2>. HIDE DEF full, branches
  <2>. QED
    BY <2>1 DEF ArticleOf
<1>2. \A m \in ToSet(models) :
        /\ IsSeq(branch(m).groups) /\ branch(m).samples \in Nat /\ branch(m).latest \in Nat
        /\ branch(m).groups = <<>> <=> of(m) = {}
        /\ branch(m).groups # <<>> => IsBranch(branch(m))
        /\ ColoursOfBranch(branch(m)) \subseteq {ShownOf(s) : s \in of(m)}
        /\ {ShownOf(s) : s \in Grouped(of(m))} \subseteq ColoursOfBranch(branch(m))
        /\ \A g \in ToSet(branch(m).groups) : \E s \in of(m) : g.price = s.market
  BY BranchOfRun
<1>3. all = [i \in DOMAIN models |-> all[i]] /\ \A i \in DOMAIN models : all[i] = branch(models[i])
  OBVIOUS
<1>. HIDE DEF branch, all, full
<1>4. IsSeq(all) /\ DOMAIN all = DOMAIN models /\ ToSet(all) = {all[i] : i \in DOMAIN models}
  BY <1>3, MappedList
<1>5. at \subseteq DOMAIN all /\ {all[i] : i \in at} = {b \in ToSet(all) : b.groups # <<>>}
  BY DEF ToSet
<1>6. ToSet(all) = {branch(m) : m \in ToSet(models)}
  BY <1>3, <1>4 DEF ToSet
<1>. HIDE DEF at
<1>7. IsSeq(priced) /\ ToSet(priced) = {b \in {branch(m) : m \in ToSet(models)} : b.groups # <<>>}
  BY <1>4, <1>5, <1>6, PickedList
<1>. HIDE DEF priced
<1>8. \A i \in DOMAIN priced : keys[i] \in [1..3 -> Int]
  <2>1. ASSUME NEW i \in DOMAIN priced PROVE keys[i] \in [1..3 -> Int]
    <3>1. priced[i] \in ToSet(priced)
      BY DEF ToSet
    <3>2. priced[i].samples \in Int /\ Len(priced[i].groups) \in Int /\ priced[i].latest \in Int
      BY <1>2, <1>7, <3>1, SeqHas
    <3>3. keys[i] = <<priced[i].samples, Len(priced[i].groups), priced[i].latest>>
      OBVIOUS
    <3>. HIDE DEF keys
    <3>. QED
      BY <3>2, <3>3
  <2>. QED
    BY <2>1
<1>9. IsSeq(branches) /\ ToSet(branches) = ToSet(priced)
  <2>. HIDE DEF keys
  <2>. QED
    BY <1>7, <1>8, InOrderList
<1>. HIDE DEF branches
<1>10. ToSet(branches) = {b \in {branch(m) : m \in ToSet(models)} : b.groups # <<>>}
  BY <1>7, <1>9
<1>11. DOMAIN full = {"title", "branches", "price"} /\ full.branches = branches
       /\ (branches # <<>> => full.price = branches[1].groups[1].price)
  BY <1>1
<1>12. IsArticle(full)
  BY <1>2, <1>9, <1>10, <1>11 DEF IsArticle
<1>13. P = UNION {of(m) : m \in ToSet(models)}
  BY DEF OfModelsIn
<1>. HIDE DEF P, of
<1>14. branches = <<>> <=> P = {}
  <2>1. branches = <<>> <=> ToSet(branches) = {}
    BY <1>9, SeqHas
  <2>2. \A m \in ToSet(models) : of(m) # {} <=> branch(m) \in ToSet(branches)
    BY <1>2, <1>10
  <2>3. \A b \in ToSet(branches) : \E m \in ToSet(models) : b = branch(m)
    BY <1>10
  <2>4. ToSet(branches) = {} => P = {}
    BY <1>13, <2>2
  <2>5. ToSet(branches) # {} => P # {}
    BY <1>13, <2>2, <2>3
  <2>. QED
    BY <2>1, <2>4, <2>5
<1>15. ColoursOf(full) = UNION {ColoursOfBranch(b) : b \in ToSet(branches)}
  BY <1>11 DEF ColoursOf, ColoursOfBranch
<1>16. ColoursOf(full) \subseteq {ShownOf(s) : s \in P}
  BY <1>2, <1>10, <1>13, <1>15
<1>17. ASSUME NEW m \in ToSet(models) PROVE {ShownOf(s) : s \in Grouped(of(m))} \subseteq ColoursOf(full)
  <2>1. CASE of(m) = {}
    BY <2>1 DEF Grouped
  <2>2. CASE of(m) # {}
    <3>1. branch(m) \in ToSet(branches)
      BY <1>2, <1>10, <2>2
    <3>. QED
      BY <1>2, <1>15, <3>1
  <2>. QED
    BY <2>1, <2>2
<1>18. ASSUME branches # <<>> PROVE full.price \in {s.market : s \in P}
  <2>1. branches[1] \in ToSet(branches)
    <3>1. DOMAIN branches = 1..Len(branches) /\ Len(branches) \in Nat /\ Len(branches) # 0 /\ \A i \in DOMAIN branches : branches[i] \in ToSet(branches)
      BY <1>9, <1>18, SeqHas
    <3>2. 1 \in DOMAIN branches
      BY <3>1
    <3>. QED
      BY <3>1, <3>2
  <2>2. PICK m \in ToSet(models) : branches[1] = branch(m) /\ branch(m).groups # <<>>
    BY <1>10, <2>1
  <2>. DEFINE groups == branch(m).groups
  <2>. HIDE DEF groups
  <2>3. IsSeq(groups) /\ groups # <<>>
    BY <1>2, <2>2 DEF groups
  <2>4. groups[1] \in ToSet(groups)
    <3>1. DOMAIN groups = 1..Len(groups) /\ Len(groups) \in Nat /\ Len(groups) # 0 /\ \A i \in DOMAIN groups : groups[i] \in ToSet(groups)
      BY <2>3, SeqHas
    <3>2. 1 \in DOMAIN groups
      BY <3>1
    <3>. QED
      BY <3>1, <3>2
  <2>5. PICK s \in of(m) : groups[1].price = s.market
    BY <1>2, <2>4 DEF groups
  <2>. QED
    BY <1>11, <1>13, <1>18, <2>2, <2>5 DEF groups
<1>. QED
  BY <1>11, <1>12, <1>14, <1>16, <1>17, <1>18 DEF full, P, of

-----------------------------------------------------------------------------
(* What an opened page shows *)

\* The models that are found for titles that come without them
LEMMA ModelsOfFamily ==
    ASSUME NEW listed, IsSeq(listed), \A s \in ToSet(listed) : IsListed(s), NEW key
    PROVE  LET bucket == PreferredBucket(AggregateModelCandidates(listed), key)
               models == ResolveFamilyModels(listed, key, bucket)
               F == OfFamily(ToSet(listed), key)
           IN  /\ IsSeq(models) /\ ToSet(models) = {s.model : s \in F}
               /\ F = {} \/ bucket = TargetOf(key.brand)
<1>. DEFINE candidates == AggregateModelCandidates(listed)
            found == {i \in DOMAIN candidates : /\ candidates[i].brand = key.brand
                                                /\ candidates[i].series = key.series
                                                /\ candidates[i].family = key.family}
            bucket == PreferredBucket(candidates, key)
            F == OfFamily(ToSet(listed), key)
            at == {i \in DOMAIN listed : Identity(listed[i]) = <<key.brand, key.series, key.family>>}
            family == Picked(listed, at)
            source == OfBucket(family, bucket)
            all == [i \in DOMAIN source |-> source[i].model]
            models == ResolveFamilyModels(listed, key, bucket)
<1>1. models = Distinct(all)
  BY DEF ResolveFamilyModels, Mapped
<1>2. /\ IsSeq(candidates) /\ \A c \in ToSet(candidates) : IsOffered(c, ToSet(listed))
      /\ \A s \in ToSet(listed) : \E c \in ToSet(candidates) : Identity(s) = <<c.brand, c.series, c.family>>
  BY Aggregated
<1>3. bucket = IF found = {} THEN key.bucket ELSE candidates[Min(found)].bucket
  BY DEF PreferredBucket
<1>. HIDE DEF candidates, bucket, models
<1>4. \A s \in F : s \in ToSet(listed) /\ s.brand = key.brand /\ s.bucket = TargetOf(key.brand)
                   /\ Identity(s) = <<key.brand, key.series, key.family>>
  BY DEF OfFamily, IsListed, Identity
<1>5. F = {} \/ bucket = TargetOf(key.brand)
  <2>. SUFFICES ASSUME NEW s \in F PROVE bucket = TargetOf(key.brand)
    OBVIOUS
  <2>1. PICK c \in ToSet(candidates) : Identity(s) = <<c.brand, c.series, c.family>>
    BY <1>2, <1>4
  <2>2. c.brand = key.brand /\ c.series = key.series /\ c.family = key.family
    BY <1>4, <2>1
  <2>3. found # {}
    BY <2>1, <2>2 DEF ToSet
  <2>4. IsFiniteSet(found) /\ found \subseteq Int
    <3>1. DOMAIN candidates = 1..Len(candidates) /\ Len(candidates) \in Nat /\ IsFiniteSet(DOMAIN candidates)
      BY <1>2, SeqHas
    <3>2. found \subseteq DOMAIN candidates
      OBVIOUS
    <3>. HIDE DEF found
    <3>. QED
      BY <3>1, <3>2, FS_Subset
  <2>5. \A i \in found : candidates[i].bucket = TargetOf(key.brand)
    BY <1>2 DEF IsOffered, ToSet
  <2>. HIDE DEF found
  <2>6. Min(found) \in found
    BY <2>3, <2>4, Extremes
  <2>. QED
    BY <1>3, <2>3, <2>5, <2>6
<1>6. at \subseteq DOMAIN listed /\ {listed[i] : i \in at} = F
  BY DEF OfFamily, ToSet
<1>. HIDE DEF at, F
<1>7. IsSeq(family) /\ ToSet(family) = F
  BY <1>6, PickedList
<1>. HIDE DEF family
<1>8. IsSeq(source) /\ ToSet(source) = F
  <2>1. CASE F = {}
    <3>1. \A x \in ToSet(family) : x.bucket = bucket
      BY <1>7, <2>1
    <3>. QED
      BY <1>7, <3>1, OfOneBucket
  <2>2. CASE F # {}
    <3>1. \A x \in ToSet(family) : x.bucket = bucket
      BY <1>4, <1>5, <1>7, <2>2
    <3>. QED
      BY <1>7, <3>1, OfOneBucket
  <2>. QED
    BY <2>1, <2>2
<1>. HIDE DEF source
<1>9. all = [i \in DOMAIN source |-> all[i]] /\ \A i \in DOMAIN source : all[i] = source[i].model
  OBVIOUS
<1>. HIDE DEF all
<1>10. IsSeq(all) /\ ToSet(all) = {all[i] : i \in DOMAIN source}
  BY <1>8, <1>9, MappedList
<1>11. ToSet(all) = {s.model : s \in F}
  BY <1>8, <1>9, <1>10 DEF ToSet
<1>12. IsSeq(models) /\ ToSet(models) = {s.model : s \in F}
  BY <1>1, <1>10, <1>11, DistinctList
<1>. QED
  BY <1>5, <1>12 DEF candidates, bucket, models, F

\* The models of a family have no snapshots of another family.
LEMMA FamilyOfModels ==
    ASSUME NEW S, NEW key, NEW models, models = {s.model : s \in OfFamily(S, key)}
    PROVE  /\ OfModelsIn(S, key, models) = OfFamily(S, key)
           /\ \A s \in OfFamily(S, key) : s \in OfModelIn(S, key, s.model) /\ \A t \in OfModelIn(S, key, s.model) : t \in OfFamily(S, key) /\ t.model = s.model
<1>1. \A s \in OfFamily(S, key) : s \in S /\ s.brand = key.brand /\ s.series = key.series
                                  /\ DeriveFamilyTitle(s.brand, s.series, s.model) = key.family
  BY DEF OfFamily, Identity, FamilyOf
<1>2. \A s \in S : s.brand = key.brand /\ s.series = key.series /\ DeriveFamilyTitle(s.brand, s.series, s.model) = key.family
                     => s \in OfFamily(S, key)
  BY DEF OfFamily, Identity, FamilyOf
<1>3. \A m : \A s : s \in OfModelIn(S, key, m) <=> s \in S /\ s.brand = key.brand /\ s.series = key.series /\ s.model = m
  BY DEF OfModelIn, OfModel
<1>4. \A s \in OfFamily(S, key) : s \in OfModelIn(S, key, s.model)
  BY <1>1, <1>3
<1>5. \A s \in OfFamily(S, key) : \A t \in OfModelIn(S, key, s.model) : t \in OfFamily(S, key) /\ t.model = s.model
  BY <1>1, <1>2, <1>3
<1>6. OfModelsIn(S, key, models) = OfFamily(S, key)
  BY <1>4, <1>5 DEF OfModelsIn
<1>. QED
  BY <1>4, <1>5, <1>6

\* A page that tells what the run of its key published
ShowsRun(p) ==
    LET P == OfFamily(SnapshotsOf(p.key.run), p.key)
    IN  \/ P = {} /\ p.reason = "model_not_found"
        \/ /\ P # {}
           /\ p.reason \notin {"model_not_found", "no_usable_price"}
           /\ {ShownOf(s) : s \in {s \in P : s.group # <<>> \/ \A t \in P : t.model = s.model => t.group = <<>>}} \subseteq ColoursOf(p.full)
           /\ ColoursOf(p.full) \subseteq {ShownOf(s) : s \in P}
           /\ p.full.price \in {s.market : s \in P}
           /\ Answers(p.full, [reason |-> p.reason, article |-> p.shown], p.query)

\* How a refinement ends
LEMMA RefinementEnds ==
    ASSUME NEW article, NEW query
    PROVE  RefineSnapshot(article, query).reason \in {"empty_query", "not_applicable", "no_match", "applied"}
<1>1. \A reason : Unrefined(article, reason).reason = reason
  BY DEF Unrefined
<1>2. \A found : Refined(article, found).reason \in {"no_match", "applied"}
  BY <1>1 DEF Refined
<1>. QED
  BY <1>1, <1>2 DEF RefineSnapshot

\* The models of the family of a key
AreModels(models, key) ==
    IsSeq(models) /\ ToSet(models) = {s.model : s \in OfFamily(SnapshotsOf(key.run), key)}

\* A key with its models opens with what its run published of its family.
LEMMA OpenedShows ==
    ASSUME Published, NEW key, key.run \in Runs, SnapshotsOf(key.run) \subseteq snapshots, NEW refinement \in Seq(STRING),
           NEW models, AreModels(models, key),
           NEW bucket, models = <<>> \/ bucket = TargetOf(key.brand)
    PROVE  LET p == Opened(key, refinement, ListMarketSnapshotCandidates(snapshots, live), models, bucket)
           IN  ShowsRun(p) /\ p.key = key
<1>. DEFINE listed == ListMarketSnapshotCandidates(snapshots, live)
            p == Opened(key, refinement, listed, models, bucket)
            run == key.run
            S == SnapshotsOf(run)
            P == OfFamily(S, key)
            full == Assembled(listed, run, key, models, TargetOf(key.brand))
            refined == RefineSnapshot(full, refinement)
<1>. IsSeq(models) /\ ToSet(models) = {s.model : s \in P}
  BY DEF AreModels
<1>1. models = <<>> <=> P = {}
  <2>1. models = <<>> <=> ToSet(models) = {}
    BY SeqHas
  <2>. HIDE DEF P
  <2>2. ToSet(models) = {} <=> P = {}
    <3>1. ToSet(models) = {s.model : s \in P}
      BY DEF P
    <3>. QED
      BY <3>1
  <2>. QED
    BY <2>1, <2>2
<1>2. CASE P = {}
  <2>1. p = Failure("model_not_found", key)
    BY <1>1, <1>2 DEF Opened
  <2>. HIDE DEF p
  <2>2. p.reason = "model_not_found" /\ p.key = key
    BY <2>1 DEF Failure, Closed
  <2>. QED
    BY <1>2, <2>2 DEF ShowsRun, p
<1>3. CASE P # {}
  <2>1. p = PageOf(key, refinement, full)
    BY <1>1, <1>3 DEF Opened
  <2>2. OfModelsIn(S, key, ToSet(models)) = P
        /\ \A s \in P : s \in OfModelIn(S, key, s.model) /\ \A t \in OfModelIn(S, key, s.model) : t \in P /\ t.model = s.model
    BY FamilyOfModels
  <2>3. /\ IsArticle(full)
        /\ full.branches = <<>> <=> P = {}
        /\ ColoursOf(full) \subseteq {ShownOf(s) : s \in P}
        /\ \A m \in ToSet(models) : {ShownOf(s) : s \in Grouped(OfModelIn(S, key, m))} \subseteq ColoursOf(full)
        /\ full.branches # <<>> => full.price \in {s.market : s \in P}
    BY <2>2, AssembledOfRun
  <2>. DEFINE grouped == {s \in P : s.group # <<>> \/ \A t \in P : t.model = s.model => t.group = <<>>}
  <2>4. {ShownOf(s) : s \in grouped} \subseteq ColoursOf(full)
    <3>1. ASSUME NEW s \in grouped PROVE ShownOf(s) \in ColoursOf(full)
      <4>1. s.model \in ToSet(models)
        OBVIOUS
      <4>. HIDE DEF P, S, full
      <4>2. s \in Grouped(OfModelIn(S, key, s.model))
        BY <2>2 DEF Grouped
      <4>. QED
        BY <2>3, <4>1, <4>2
    <3>. QED
      BY <3>1
  <2>. HIDE DEF full, p
  <2>5. p = Shown(key, full, refined, refinement)
    BY <1>3, <2>1, <2>3 DEF PageOf
  <2>6. Answers(full, refined, refinement)
    BY <2>3, SnapshotAnswers
  <2>7. refined.reason \in {"empty_query", "not_applicable", "no_match", "applied"}
    BY RefinementEnds
  <2>. HIDE DEF refined
  <2>8. p.key = key /\ p.full = full /\ p.query = refinement /\ p.reason = refined.reason /\ p.shown = refined.article
    BY <2>5 DEF Shown
  <2>9. Answers(p.full, [reason |-> p.reason, article |-> p.shown], p.query)
    BY <2>6, <2>8 DEF Answers
  <2>. HIDE DEF P
  <2>10. /\ P # {} /\ p.reason \notin {"model_not_found", "no_usable_price"}
         /\ {ShownOf(s) : s \in grouped} \subseteq ColoursOf(p.full)
         /\ ColoursOf(p.full) \subseteq {ShownOf(s) : s \in P}
         /\ p.full.price \in {s.market : s \in P}
    BY <1>3, <2>3, <2>4, <2>7, <2>8
  <2>. QED
    BY <2>8, <2>9, <2>10 DEF ShowsRun, P, p
<1>. QED
  BY <1>2, <1>3

-----------------------------------------------------------------------------
(* What is opened *)

\* The hits of a search are families of its run, which stays published; a page
\* shows what the run of its key published, whichever run is live.
Opening ==
    /\ Published
    /\ answer.run \in Runs => SnapshotsOf(answer.run) \subseteq snapshots /\ live \in Runs
    /\ \A i \in DOMAIN answer.hits : IsHit(answer.hits[i], answer.run)
    /\ page # Closed => page.key.run \in Runs /\ SnapshotsOf(page.key.run) \subseteq snapshots /\ ShowsRun(page)

\* Before anything is published nothing is opened.
LEMMA OpeningInit == Init => Opening
<1>. SUFFICES ASSUME Init PROVE Opening
  OBVIOUS
<1>1. Published
  BY PublishedInit
<1>2. page = Closed /\ answer.run = NoRun /\ DOMAIN answer.hits = {} /\ scenario \in Scenarios
  BY DEF Init
<1>3. NoRun \notin Runs
  BY <1>2, ScenarioAssumption DEF Runs
<1>. QED
  BY <1>1, <1>2, <1>3 DEF Opening

\* A detail key, or the titles of one for the live run
IsKey(key) ==
    IsHit(key, key.run) \/ (key.run = live /\ key.models = <<>> /\ key.bucket = "")

\* A key of a family opens with the models that it names or that are found.
LEMMA OpenedInShows ==
    ASSUME Published, NEW key, key.run \in Runs, SnapshotsOf(key.run) \subseteq snapshots, NEW refinement \in Seq(STRING),
           IsKey(key)
    PROVE  LET p == OpenedIn(key, refinement, ListMarketSnapshotCandidates(snapshots, live))
           IN  ShowsRun(p) /\ p.key = key
<1>. DEFINE listed == ListMarketSnapshotCandidates(snapshots, live)
            P == OfFamily(SnapshotsOf(key.run), key)
            found == PreferredBucket(AggregateModelCandidates(listed), key)
            bucket == IF key.bucket # "" THEN key.bucket ELSE found
            models == IF key.models # <<>> THEN key.models ELSE ResolveFamilyModels(listed, key, bucket)
            shows == OpenedIn(key, refinement, listed)
<1>1. shows = Opened(key, refinement, listed, models, bucket)
  BY DEF OpenedIn
<1>2. IsSeq(models) /\ ToSet(models) = {s.model : s \in P} /\ (models = <<>> \/ bucket = TargetOf(key.brand))
  <2>1. CASE IsHit(key, key.run)
    <3>1. P # {} /\ key.bucket = TargetOf(key.brand) /\ IsSeq(key.models) /\ ToSet(key.models) = {s.model : s \in P}
      BY <2>1 DEF IsHit
    <3>2. key.models # <<>>
      <4>. HIDE DEF P
      <4>1. ToSet(key.models) # {}
        BY <3>1
      <4>. QED
        BY <3>1, <4>1, SeqHas
    <3>3. key.bucket # ""
      BY <3>1 DEF TargetOf
    <3>. QED
      BY <3>1, <3>2, <3>3
  <2>2. CASE key.run = live /\ key.models = <<>> /\ key.bucket = ""
    <3>1. IsSeq(listed) /\ ToSet(listed) = SnapshotsOf(live) /\ \A s \in ToSet(listed) : IsListed(s)
      BY <2>2, Listed, PricedAreListed DEF Published
    <3>2. models = ResolveFamilyModels(listed, key, found) /\ bucket = found
      BY <2>2
    <3>. HIDE DEF listed, models, bucket
    <3>3. IsSeq(models) /\ ToSet(models) = {s.model : s \in P} /\ (P = {} \/ bucket = TargetOf(key.brand))
      BY <2>2, <3>1, <3>2, ModelsOfFamily
    <3>. HIDE DEF P
    <3>4. P = {} => models = <<>>
      <4>1. P = {} => ToSet(models) = {}
        BY <3>3
      <4>. QED
        BY <3>3, <4>1, SeqHas
    <3>. QED
      BY <3>3, <3>4
  <2>. QED
    BY <2>1, <2>2 DEF IsKey
<1>. HIDE DEF models, bucket, shows
<1>. DEFINE q == Opened(key, refinement, listed, models, bucket)
<1>3. ShowsRun(q) /\ q.key = key
  <2>1. AreModels(models, key) /\ (models = <<>> \/ bucket = TargetOf(key.brand))
    BY <1>2 DEF AreModels
  <2>. QED
    BY <2>1, OpenedShows
<1>. QED
  BY <1>1, <1>3 DEF shows

\* What opening a key leads to
LEMMA OpensWhatIsShown ==
    ASSUME Opening, NEW key, key.run \in Runs, SnapshotsOf(key.run) \subseteq snapshots, NEW refinement \in Seq(STRING),
           IsKey(key),
           Open(key, refinement)
    PROVE  Opening'
<1>1. UNCHANGED <<scenario, snapshots, live, answer>>
      /\ page' = OpenedIn(key, refinement, ListMarketSnapshotCandidates(snapshots, live))
  BY DEF Open
<1>2. Published /\ ShowsRun(page') /\ page'.key = key
  BY <1>1, OpenedInShows DEF Opening
<1>3. Runs' = Runs /\ \A r : SnapshotsOf(r)' = SnapshotsOf(r)
  BY <1>1, SnapshotsUnchanged
<1>4. Published'
  BY <1>1, <1>2, <1>3 DEF Published
<1>5. ShowsRun(page)'
  BY <1>2, <1>3 DEF ShowsRun, OfFamily
<1>6. (page.key.run \in Runs /\ SnapshotsOf(page.key.run) \subseteq snapshots)'
  BY <1>1, <1>2, <1>3
<1>7. (\A i \in DOMAIN answer.hits : IsHit(answer.hits[i], answer.run))'
  BY <1>1, <1>3 DEF Opening, IsHit, OfFamily
<1>8. (answer.run \in Runs => SnapshotsOf(answer.run) \subseteq snapshots /\ live \in Runs)'
  BY <1>1, <1>3 DEF Opening
<1>. QED
  BY <1>4, <1>5, <1>6, <1>7, <1>8 DEF Opening

\* Publishing another run changes no page, a search finds the live run's
\* families, and an article opens with what the run of its key published.
LEMMA OpeningNext == Opening /\ [Next]_vars => Opening'
<1>. SUFFICES ASSUME Opening, [Next]_vars PROVE Opening'
  OBVIOUS
<1>1. /\ Published /\ Published' /\ scenario \in Scenarios
      /\ answer.run \in Runs => SnapshotsOf(answer.run) \subseteq snapshots /\ live \in Runs
      /\ live \in Runs => SnapshotsOf(live) \subseteq snapshots
  <2>1. NoRun \notin Runs
    BY ScenarioAssumption DEF Runs, Opening, Published
  <2>. QED
    BY <2>1, PublishedNext DEF Opening, Published
<1>2. ASSUME NEW run \in Runs, Publish(run) PROVE Opening'
  <2>1. scenario' = scenario /\ live' = run /\ answer' = answer /\ page' = page
        /\ snapshots' = {s \in snapshots : s.run # run} \cup SnapshotsOf(run)
    BY <1>2 DEF Publish
  <2>2. Runs' = Runs /\ \A r : SnapshotsOf(r)' = SnapshotsOf(r)
    BY <2>1, SnapshotsUnchanged
  <2>3. \A r \in Runs : \A s \in SnapshotsOf(r) : s.run = r
    BY <1>1, RunPublishes DEF IsPriced
  <2>4. \A r \in Runs : SnapshotsOf(r) \subseteq snapshots => SnapshotsOf(r) \subseteq snapshots'
    BY <2>1, <2>3
  <2>5. (answer.run \in Runs => SnapshotsOf(answer.run) \subseteq snapshots /\ live \in Runs)'
    BY <1>1, <2>1, <2>2, <2>4
  <2>6. (\A i \in DOMAIN answer.hits : IsHit(answer.hits[i], answer.run))'
    BY <2>1, <2>2 DEF Opening, IsHit, OfFamily
  <2>7. (page # Closed => page.key.run \in Runs /\ SnapshotsOf(page.key.run) \subseteq snapshots)'
    BY <2>1, <2>2, <2>4 DEF Opening, Closed
  <2>8. (page # Closed => ShowsRun(page))'
    BY <2>1, <2>2 DEF Opening, ShowsRun, OfFamily, Closed
  <2>. QED
    BY <1>1, <2>5, <2>6, <2>7, <2>8 DEF Opening
<1>3. ASSUME NEW query \in scenario.queries, Search(query) PROVE Opening'
  <2>. DEFINE ranked == RankCandidates(query, AggregateModelCandidates(ListMarketSnapshotCandidates(snapshots, live)))
              hits == [i \in DOMAIN ranked \cap (1..Limit) |-> DetailRef(live, ranked[i])]
  <2>1. UNCHANGED <<scenario, snapshots, live>> /\ page' = Closed
    BY <1>3 DEF Search
  <2>2. Runs' = Runs /\ \A r : SnapshotsOf(r)' = SnapshotsOf(r)
    BY <2>1, SnapshotsUnchanged
  <2>3. answer' = [query |-> query, run |-> live, hits |-> hits]
    BY <1>3 DEF Search
  <2>4. \A i \in DOMAIN ranked : IsHit(DetailRef(live, ranked[i]), live)
    BY <1>1, HitsOfTheLiveRun
  <2>. HIDE DEF ranked
  <2>5. \A i \in DOMAIN hits : IsHit(hits[i], live)
    BY <2>4
  <2>. HIDE DEF hits
  <2>6. (\A i \in DOMAIN answer.hits : IsHit(answer.hits[i], answer.run))'
    <3>1. answer'.hits = hits /\ answer'.run = live
      BY <2>3
    <3>. QED
      BY <2>2, <2>5, <3>1 DEF IsHit, OfFamily
  <2>7. (answer.run \in Runs => SnapshotsOf(answer.run) \subseteq snapshots /\ live \in Runs)'
    BY <1>1, <2>1, <2>2, <2>3
  <2>8. (page = Closed)'
    BY <2>1 DEF Closed
  <2>. QED
    BY <1>1, <2>6, <2>7, <2>8 DEF Opening
<1>4. ASSUME NEW i \in DOMAIN answer.hits
      PROVE  /\ IsHit(answer.hits[i], answer.run) /\ answer.run \in Runs /\ answer.hits[i].run = answer.run
             /\ [answer.hits[i] EXCEPT !.run = live, !.bucket = "", !.models = <<>>].run = live
             /\ [answer.hits[i] EXCEPT !.run = live, !.bucket = "", !.models = <<>>].bucket = ""
             /\ [answer.hits[i] EXCEPT !.run = live, !.bucket = "", !.models = <<>>].models = <<>>
  <2>1. IsHit(answer.hits[i], answer.run)
    BY DEF Opening
  <2>2. PICK brand, series, family, bucket, models :
          answer.hits[i] = [run |-> answer.run, brand |-> brand, series |-> series, family |-> family, bucket |-> bucket, models |-> models]
    BY <2>1 DEF IsHit
  <2>. QED
    BY <2>1, <2>2 DEF IsHit
<1>5. CASE OpenHit
  <2>1. PICK i \in DOMAIN answer.hits, r \in scenario.refinements : Open(answer.hits[i], r)
    BY <1>5 DEF OpenHit
  <2>2. r \in Seq(STRING)
    BY <1>1, ScenarioAssumption
  <2>3. PICK key : key = answer.hits[i]
    OBVIOUS
  <2>4. key.run \in Runs /\ SnapshotsOf(key.run) \subseteq snapshots /\ IsKey(key) /\ Open(key, r)
    BY <1>1, <1>4, <2>1, <2>3 DEF IsKey
  <2>. QED
    BY <2>2, <2>4, OpensWhatIsShown
<1>6. CASE OpenTitle
  <2>1. PICK i \in DOMAIN answer.hits : Open([answer.hits[i] EXCEPT !.run = live, !.bucket = "", !.models = <<>>], <<>>)
    BY <1>6 DEF OpenTitle
  <2>2. PICK key : key = [answer.hits[i] EXCEPT !.run = live, !.bucket = "", !.models = <<>>]
    OBVIOUS
  <2>3. key.run = live /\ key.models = <<>> /\ key.bucket = "" /\ Open(key, <<>>) /\ live \in Runs
    BY <1>1, <1>4, <2>1, <2>2
  <2>4. key.run \in Runs /\ SnapshotsOf(key.run) \subseteq snapshots
    BY <1>1, <2>3
  <2>5. IsKey(key)
    BY <2>3 DEF IsKey
  <2>6. <<>> \in Seq(STRING)
    OBVIOUS
  <2>. QED
    BY <2>3, <2>4, <2>5, <2>6, OpensWhatIsShown
<1>7. CASE UNCHANGED vars
  <2>1. UNCHANGED <<scenario, snapshots, live, answer, page>>
    BY <1>7 DEF vars
  <2>2. Runs' = Runs /\ \A r : SnapshotsOf(r)' = SnapshotsOf(r)
    BY <2>1, SnapshotsUnchanged
  <2>3. (\A i \in DOMAIN answer.hits : IsHit(answer.hits[i], answer.run))'
    BY <2>1, <2>2 DEF Opening, IsHit, OfFamily
  <2>4. (page # Closed => page.key.run \in Runs /\ SnapshotsOf(page.key.run) \subseteq snapshots)'
    BY <2>1, <2>2 DEF Opening, Closed
  <2>5. (page # Closed => ShowsRun(page))'
    BY <2>1, <2>2 DEF Opening, ShowsRun, OfFamily, Closed
  <2>. QED
    BY <1>1, <2>1, <2>2, <2>3, <2>4, <2>5 DEF Opening
<1>. QED
  BY <1>2, <1>3, <1>5, <1>6, <1>7 DEF Next

\* The invariant of what is opened
LEMMA AlwaysOpening == Spec => []Opening
  BY OpeningInit, OpeningNext, PTL DEF Spec

\* Whatever was quoted, searched and published meanwhile: a hit opens and shows
\* every price that the run of the search published for the family, and no
\* other one; only an article without a group title is left out while its run
\* is live, if its model has articles with one (_quote_snapshot_payload).
THEOREM HitSafe == Spec => []HitShowsItsRun
<1>1. Opening => HitShowsItsRun
  <2>. SUFFICES ASSUME Opening, page.key # <<>>, page.reason # "closed" PROVE HitShowsItsRun
    BY DEF HitShowsItsRun
  <2>. DEFINE key == page.key
              P == OfFamily(SnapshotsOf(key.run), key)
              published == {s \in snapshots : /\ s.run = key.run
                                              /\ Identity(s) = <<key.brand, key.series, key.family>>}
              grouped(S) == {s \in S : s.group # <<>> \/ \A t \in S : t.model = s.model => t.group = <<>>}
  <2>1. key.run \in Runs /\ SnapshotsOf(key.run) \subseteq snapshots /\ ShowsRun(page) /\ Published
    BY DEF Opening, Closed
  <2>2. \A s \in SnapshotsOf(key.run) : s.run = key.run
    BY <2>1, RunPublishes DEF Published, IsPriced
  <2>3. published = P
    <3>1. \A s \in snapshots : s.run = key.run => s \in SnapshotsOf(key.run)
      BY <2>1 DEF Published
    <3>. QED
      BY <2>1, <2>2, <3>1 DEF OfFamily
  <2>4. \/ P = {} /\ page.reason = "model_not_found"
        \/ /\ P # {} /\ page.reason \notin {"model_not_found", "no_usable_price"}
           /\ {ShownOf(s) : s \in grouped(P)} \subseteq ColoursOf(page.full)
           /\ ColoursOf(page.full) \subseteq {ShownOf(s) : s \in P}
           /\ page.full.price \in {s.market : s \in P}
    BY <2>1 DEF ShowsRun
  <2>. HIDE DEF P, published
  <2>5. IF published = {} THEN page.reason = "model_not_found"
        ELSE /\ page.reason \notin {"model_not_found", "no_usable_price"}
             /\ {ShownOf(s) : s \in grouped(published)} \subseteq ColoursOf(page.full)
             /\ ColoursOf(page.full) \subseteq {ShownOf(s) : s \in published}
             /\ page.full.price \in {s.market : s \in published}
    BY <2>3, <2>4
  <2>. QED
    BY <2>5 DEF HitShowsItsRun, published
<1>. QED
  BY <1>1, AlwaysOpening, PTL

\* What the page that was narrowed shows
LEMMA NarrowedAnswers ==
    ASSUME Opening, page.reason = "applied"
    PROVE  Answers(page.full, [reason |-> page.reason, article |-> page.shown], page.query)
<1>1. page # Closed
  BY DEF Closed
<1>. QED
  BY <1>1 DEF Opening, ShowsRun

\* Whatever an article was narrowed by, the price that is shown for a capacity
\* is one of a variant that is shown under it, unless these all have the price
\* 0, and a narrowed range spans them (refresh_group_summary_from_colors).
THEOREM CapacitySafe == Spec => []CapacityPriceIsShown
<1>1. Opening => CapacityPriceIsShown
  <2>. SUFFICES ASSUME Opening, page.reason = "applied", NEW b \in ToSet(page.shown.branches), NEW g \in ToSet(b.groups)
                PROVE  /\ (\E c \in ToSet(g.colours) : c.price = g.price) \/ (\A c \in ToSet(g.colours) : c.price = 0)
                       /\ CapacityHints(page.query) \cup ColourHints(page.query) # {} =>
                             \A c \in ToSet(g.colours) : g.low <= c.price /\ c.price <= g.high
    BY DEF CapacityPriceIsShown
  <2>1. BranchAnswers(b, page.query)
    BY NarrowedAnswers DEF Answers
  <2>2. GroupAnswers(g, page.query)
    BY <2>1 DEF BranchAnswers
  <2>. QED
    BY <2>2 DEF GroupAnswers, Hinted
<1>. QED
  BY <1>1, AlwaysOpening, PTL

\* Whatever is asked: an article that was narrowed to a capacity or a colour
\* shows the variants of it, and all of them (refine_snapshot).
THEOREM RefinementSafe == Spec => []RefinementAnswersTheQuestion
<1>1. Opening => RefinementAnswersTheQuestion
  <2>. SUFFICES ASSUME Opening, page.reason = "applied", CapacityHints(page.query) \cup ColourHints(page.query) # {}
                PROVE  RefinementAnswersTheQuestion
    BY DEF RefinementAnswersTheQuestion
  <2>. DEFINE query == page.query
              entry(b, c) == [model |-> b.title, group |-> c.group, market |-> c.price, low |-> c.low, high |-> c.high]
              fits(c) == /\ \A h \in CapacityHints(query) : HasWord(c.group, h)
                         /\ ColourHints(query) = {} \/ \E h \in ColourHints(query) : HasWord(c.group, h)
              component(c) == ToSet(c.group) \cap ComponentVariantHints # {}
  <2>1. Answers(page.full, [reason |-> page.reason, article |-> page.shown], query) /\ Hinted(query)
    BY NarrowedAnswers DEF Hinted
  <2>2. \A x : \A article : x \in ColoursOf(article) <=>
          \E b \in ToSet(article.branches) : \E g \in ToSet(b.groups) : \E c \in ToSet(g.colours) : x = entry(b, c)
    BY DEF ColoursOf
  <2>3. \A b, c : (fits(entry(b, c)) <=> Fits(c, query)) /\ (component(entry(b, c)) <=> ~Bare(c))
    BY DEF Fits, Bare
  <2>4. ASSUME NEW x \in ColoursOf(page.shown) PROVE fits(x)
    <3>1. PICK b \in ToSet(page.shown.branches) : \E g \in ToSet(b.groups) : \E c \in ToSet(g.colours) : x = entry(b, c)
      BY <2>2
    <3>2. PICK g \in ToSet(b.groups) : \E c \in ToSet(g.colours) : x = entry(b, c)
      BY <3>1
    <3>3. PICK c \in ToSet(g.colours) : x = entry(b, c)
      BY <3>2
    <3>4. Fits(c, query)
      <4>1. BranchAnswers(b, query)
        BY <2>1 DEF Answers
      <4>2. GroupAnswers(g, query)
        BY <4>1 DEF BranchAnswers
      <4>. QED
        BY <2>1, <4>2 DEF GroupAnswers
    <3>. QED
      BY <2>3, <3>3, <3>4
  <2>5. ASSUME NEW x \in ColoursOf(page.full), fits(x), ~component(x) PROVE x \in ColoursOf(page.shown)
    <3>1. PICK b \in ToSet(page.full.branches) : \E g \in ToSet(b.groups) : \E c \in ToSet(g.colours) : x = entry(b, c)
      BY <2>2
    <3>2. PICK g \in ToSet(b.groups) : \E c \in ToSet(g.colours) : x = entry(b, c)
      BY <3>1
    <3>3. PICK c \in ToSet(g.colours) : x = entry(b, c)
      BY <3>2
    <3>4. Fits(c, query) /\ Bare(c)
      BY <2>3, <2>5, <3>3
    <3>5. PICK d \in ToSet(page.shown.branches) : d.title = b.title /\ \E h \in ToSet(d.groups) : c \in ToSet(h.colours)
      BY <2>1, <3>4 DEF Answers
    <3>6. x = entry(d, c)
      BY <3>3, <3>5
    <3>. QED
      BY <2>2, <3>5, <3>6
  <2>. QED
    BY <2>4, <2>5 DEF RefinementAnswersTheQuestion
<1>. QED
  BY <1>1, AlwaysOpening, PTL
==============================================================================
