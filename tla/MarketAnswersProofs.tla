------------------------ MODULE MarketAnswersProofs ------------------------
(***************************************************************************)
(* What holds of MarketAnswers for any quotes, any reference price and any *)
(* queries: the types of what is published, that the price of an article   *)
(* is of the latest day on which a merchant's last word counts, and that   *)
(* the majority of the merchants makes it.                                 *)
(***************************************************************************)
EXTENDS MarketAnswers, FiniteSetTheorems, TLAPS

-----------------------------------------------------------------------------
(* Ranks *)

StrictTotal(S, order) ==
    /\ \A x \in S : <<x, x>> \notin order
    /\ \A x, y \in S : x # y => <<x, y>> \in order \/ <<y, x>> \in order
    /\ \A x, y, z \in S : <<x, y>> \in order /\ <<y, z>> \in order => <<x, z>> \in order

\* The elements before another one are fewer than those before a later one.
LEMMA RankGrows ==
    ASSUME NEW S, IsFiniteSet(S), NEW order, StrictTotal(S, order),
           NEW x \in S, NEW z \in S, <<x, z>> \in order
    PROVE  LET rank == [u \in S |-> Cardinality({y \in S : <<y, u>> \in order})]
           IN  rank[x] \in Nat /\ rank[z] \in Nat /\ rank[x] < rank[z] /\ rank[z] < Cardinality(S)
<1>. DEFINE B(u) == {y \in S : <<y, u>> \in order}
<1>1. B(x) \subseteq B(z) /\ x \in B(z) /\ x \notin B(x)
  BY DEF StrictTotal
<1>2. B(z) \subseteq S /\ z \notin B(z)
  BY DEF StrictTotal
<1>3. IsFiniteSet(B(z)) /\ Cardinality(B(z)) <= Cardinality(S) /\ Cardinality(B(z)) # Cardinality(S)
  BY <1>2, FS_Subset
<1>4. Cardinality(B(x)) <= Cardinality(B(z)) /\ Cardinality(B(x)) # Cardinality(B(z)) /\ IsFiniteSet(B(x))
  BY <1>1, <1>3, FS_Subset
<1>5. Cardinality(B(x)) \in Nat /\ Cardinality(B(z)) \in Nat /\ Cardinality(S) \in Nat
  BY <1>3, <1>4, FS_CardinalityType
<1>6. Cardinality(B(x)) < Cardinality(B(z)) /\ Cardinality(B(z)) < Cardinality(S)
  BY <1>3, <1>4, <1>5
<1>. QED
  BY <1>5, <1>6

\* Ranked lists every element of a finite set, each before those that come
\* after it in the order.
LEMMA RankedSorted ==
    ASSUME NEW S, IsFiniteSet(S), NEW order, StrictTotal(S, order)
    PROVE  /\ Cardinality(S) \in Nat
           /\ Ranked(S, order) \in [1..Cardinality(S) -> S]
           /\ \A x \in S : \E i \in 1..Cardinality(S) : Ranked(S, order)[i] = x
           /\ \A i, j \in 1..Cardinality(S) : i < j => <<Ranked(S, order)[i], Ranked(S, order)[j]>> \in order
<1>. DEFINE rank == [u \in S |-> Cardinality({y \in S : <<y, u>> \in order})]
            n == Cardinality(S)
<1>1. n \in Nat
  BY FS_CardinalityType
<1>2. \A x, z \in S : <<x, z>> \in order => rank[x] < rank[z]
  BY RankGrows
<1>3. \A x \in S : rank[x] \in 0..(n - 1)
  <2>1. SUFFICES ASSUME NEW x \in S PROVE rank[x] \in 0..(n - 1)
    OBVIOUS
  <2>. DEFINE B == {y \in S : <<y, x>> \in order}
  <2>2. B \subseteq S /\ x \notin B
    BY DEF StrictTotal
  <2>3. IsFiniteSet(B) /\ Cardinality(B) <= n /\ Cardinality(B) # n
    BY <2>2, FS_Subset
  <2>4. Cardinality(B) \in Nat
    BY <2>3, FS_CardinalityType
  <2>5. rank[x] = Cardinality(B)
    OBVIOUS
  <2>. QED
    BY <1>1, <2>3, <2>4, <2>5
<1>. HIDE DEF rank
<1>4. \A x, z \in S : x # z => rank[x] # rank[z]
  <2>1. SUFFICES ASSUME NEW x \in S, NEW z \in S, x # z PROVE rank[x] # rank[z]
    OBVIOUS
  <2>2. rank[x] < rank[z] \/ rank[z] < rank[x]
    BY <1>2, <2>1 DEF StrictTotal
  <2>3. rank[x] \in Int /\ rank[z] \in Int
    BY <1>1, <1>3
  <2>. QED
    BY <2>2, <2>3
<1>5. rank \in Injection(S, 0..(n - 1))
  <2>1. rank \in [S -> 0..(n - 1)]
    BY <1>3 DEF rank
  <2>. QED
    BY <1>4, <2>1 DEF Injection, IsInjective
<1>6. IsFiniteSet(0..(n - 1)) /\ Cardinality(0..(n - 1)) = n
  BY <1>1, FS_Interval
<1>7. rank \in Surjection(S, 0..(n - 1))
  BY <1>5, <1>6, FS_Injection
<1>8. \A i \in 1..n : \E x \in S : rank[x] = i - 1
  BY <1>1, <1>7 DEF Surjection
<1>9. Ranked(S, order) = [i \in 1..n |-> CHOOSE x \in S : rank[x] = i - 1]
  BY DEF Ranked, rank
<1>10. \A i \in 1..n : Ranked(S, order)[i] \in S /\ rank[Ranked(S, order)[i]] = i - 1
  BY <1>8, <1>9
<1>11. Ranked(S, order) \in [1..n -> S]
  BY <1>9, <1>10
<1>12. ASSUME NEW x \in S PROVE \E i \in 1..n : Ranked(S, order)[i] = x
  <2>1. rank[x] + 1 \in 1..n /\ (rank[x] + 1) - 1 = rank[x]
    BY <1>1, <1>3
  <2>. QED
    BY <1>4, <1>10, <2>1
<1>13. ASSUME NEW i \in 1..n, NEW j \in 1..n, i < j
       PROVE  <<Ranked(S, order)[i], Ranked(S, order)[j]>> \in order
  <2>. DEFINE x == Ranked(S, order)[i]
              z == Ranked(S, order)[j]
  <2>1. x \in S /\ z \in S /\ rank[x] = i - 1 /\ rank[z] = j - 1
    BY <1>10
  <2>. HIDE DEF x, z
  <2>2. rank[x] < rank[z] /\ ~(rank[z] < rank[x])
    BY <1>1, <1>13, <2>1
  <2>3. x # z /\ <<z, x>> \notin order
    BY <1>2, <2>1, <2>2
  <2>4. <<x, z>> \in order
    BY <2>1, <2>3 DEF StrictTotal
  <2>. QED
    BY <2>4 DEF x, z
<1>. QED
  BY <1>1, <1>11, <1>12, <1>13

\* A finite set that is not empty has an element before all others.
LEMMA FirstExists ==
    ASSUME NEW S, IsFiniteSet(S), S # {}, NEW order, StrictTotal(S, order)
    PROVE  \E x \in S : \A y \in S \ {x} : <<x, y>> \in order
<1>. DEFINE r == Ranked(S, order)
            n == Cardinality(S)
<1>1. /\ n \in Nat /\ r \in [1..n -> S]
      /\ \A x \in S : \E i \in 1..n : r[i] = x
      /\ \A i, j \in 1..n : i < j => <<r[i], r[j]>> \in order
  BY RankedSorted
<1>. HIDE DEF r, n
<1>2. 1 \in 1..n
  BY <1>1
<1>3. \A i \in 1..n : i # 1 => 1 < i
  BY <1>1
<1>4. \A y \in S \ {r[1]} : <<r[1], y>> \in order
  BY <1>1, <1>2, <1>3
<1>. QED
  BY <1>1, <1>2, <1>4

-----------------------------------------------------------------------------
(* Percentiles *)

LEMMA RoundedGrows ==
    ASSUME NEW a \in Int, NEW b \in Int, a <= b
    PROVE  Rounded(a, 4) \in Int /\ Rounded(a, 4) <= Rounded(b, 4)
  BY DEF Rounded

LEMMA RoundedExact == ASSUME NEW a \in Int PROVE Rounded(4 * a, 4) = a
  BY DEF Rounded

Between(a, b, weight) == a * (4 - weight) + b * weight

LEMMA BetweenCases ==
    ASSUME NEW a, NEW b, a \in Int, b \in Int
    PROVE  /\ \A u \in 0..3 : u = 0 \/ u = 1 \/ u = 2 \/ u = 3
           /\ Between(a, b, 0) = 4 * a /\ Between(a, b, 1) = 3 * a + b
           /\ Between(a, b, 2) = 2 * a + 2 * b /\ Between(a, b, 3) = a + 3 * b
  BY DEF Between

LEMMA BetweenBounds ==
    ASSUME NEW a, NEW b, a \in Int, b \in Int, a <= b, NEW v \in 0..3
    PROVE  Between(a, b, v) \in Int /\ 4 * a <= Between(a, b, v) /\ Between(a, b, v) <= 4 * b
  BY BetweenCases

LEMMA BetweenGrows ==
    ASSUME NEW a, NEW b, a \in Int, b \in Int, a <= b, NEW v \in 0..3, NEW w \in 0..3, v <= w
    PROVE  Between(a, b, v) <= Between(a, b, w)
  BY BetweenCases

\* Prices in their order
Ascending(p) ==
    /\ p \in Seq(Nat) /\ Len(p) # 0
    /\ \A i, j \in 1..Len(p) : i < j => p[i] <= p[j]

Lower(p, quarter) == ((Len(p) - 1) * quarter) \div 4
Weight(p, quarter) == ((Len(p) - 1) * quarter) % 4

LEMMA PlaceOfPercentile ==
    ASSUME NEW n \in Nat, NEW q \in 1..3, NEW s \in 1..3, q <= s
    PROVE  /\ (n * q) \div 4 \in 0..n /\ (n * q) % 4 \in 0..3
           /\ \/ (n * q) \div 4 < (n * s) \div 4
              \/ (n * q) \div 4 = (n * s) \div 4 /\ (n * q) % 4 <= (n * s) % 4
<1>1. \A u \in 1..3 : u = 1 \/ u = 2 \/ u = 3
  OBVIOUS
<1>2. n * 1 = n /\ n * 2 = n + n /\ n * 3 = n + n + n
  OBVIOUS
<1>3. ASSUME NEW a \in Nat, NEW b \in Nat, a <= b
      PROVE  a \div 4 < b \div 4 \/ (a \div 4 = b \div 4 /\ a % 4 <= b % 4)
  <2>1. ASSUME NEW e \in Nat PROVE e = 4 * (e \div 4) + (e % 4) /\ e \div 4 \in Int /\ e % 4 \in 0..3
    OBVIOUS
  <2>2. \A d, e \in Int, u, v \in 0..3 : 4 * d + u <= 4 * e + v => d < e \/ (d = e /\ u <= v)
    OBVIOUS
  <2>3. PICK d, e \in Int, u, v \in 0..3 :
          a \div 4 = d /\ b \div 4 = e /\ a % 4 = u /\ b % 4 = v /\ a = 4 * d + u /\ b = 4 * e + v
    BY <2>1
  <2>4. d < e \/ (d = e /\ u <= v)
    BY <2>2, <1>3, <2>3
  <2>. QED
    BY <2>3, <2>4
<1>4. \A a \in Nat : a <= n + n + n => a \div 4 \in 0..n /\ a % 4 \in 0..3
  OBVIOUS
<1>5. n * q \in Nat /\ n * s \in Nat /\ n * q <= n * s /\ n * q <= n + n + n
  BY <1>1, <1>2
<1>. QED
  BY <1>3, <1>4, <1>5

\* Where a percentile of prices is read
LEMMA PercentileAt ==
    ASSUME NEW p, Ascending(p), NEW q \in 1..3
    PROVE  LET l == Lower(p, q)
               w == Weight(p, q)
               u == Smaller(l + 2, Len(p))
           IN  /\ l \in 0..(Len(p) - 1) /\ w \in 0..3 /\ u \in 1..Len(p) /\ l + 1 \in 1..Len(p)
               /\ p[1] \in Int /\ p[l + 1] \in Int /\ p[u] \in Int /\ p[Len(p)] \in Int
               /\ p[1] <= p[l + 1] /\ p[l + 1] <= p[u] /\ p[u] <= p[Len(p)]
               /\ Percentile(p, q) = Rounded(Between(p[l + 1], p[u], w), 4)
<1>. DEFINE n == Len(p)
            l == Lower(p, q)
            w == Weight(p, q)
            u == Smaller(l + 2, n)
<1>1. n \in Nat /\ n >= 1 /\ n - 1 \in Nat
  BY DEF Ascending
<1>2. l \in 0..(n - 1) /\ w \in 0..3
  BY <1>1, PlaceOfPercentile DEF Lower, Weight
<1>. HIDE DEF n, l, w
<1>3. u \in 1..n /\ l + 1 \in 1..n /\ 1 \in 1..n /\ n \in 1..n /\ 1 <= l + 1 /\ l + 1 <= u /\ u <= n
  BY <1>1, <1>2 DEF Smaller
<1>4. \A i \in 1..n : p[i] \in Int
  BY DEF Ascending, n
<1>5. \A i, j \in 1..n : i <= j => p[i] <= p[j]
  <2>1. \A i, j \in 1..n : i <= j => i < j \/ i = j
    BY <1>1
  <2>. QED
    BY <1>4, <2>1 DEF Ascending, n
<1>6. p # <<>>
  BY <1>1 DEF n
<1>7. Percentile(p, q) = Rounded(Between(p[l + 1], p[u], w), 4)
  BY <1>6 DEF Percentile, Between, Lower, Weight, l, w, n
<1>8. p[1] <= p[l + 1] /\ p[l + 1] <= p[u] /\ p[u] <= p[n]
  BY <1>3, <1>5
<1>. HIDE DEF u
<1>9. p[1] \in Int /\ p[l + 1] \in Int /\ p[u] \in Int /\ p[n] \in Int
  BY <1>3, <1>4
<1>. QED
  BY <1>2, <1>3, <1>7, <1>8, <1>9 DEF n, l, w, u

\* A percentile of prices lies between the first and the last of them.
LEMMA PercentileBounds ==
    ASSUME NEW p, Ascending(p), NEW q \in 1..3
    PROVE  /\ Percentile(p, q) \in Int
           /\ p[1] <= Percentile(p, q) /\ Percentile(p, q) <= p[Len(p)]
<1>1. PICK a, b, f, z \in Int, w \in 0..3 :
        /\ Percentile(p, q) = Rounded(Between(a, b, w), 4)
        /\ f = p[1] /\ z = p[Len(p)] /\ f <= a /\ a <= b /\ b <= z
  BY PercentileAt
<1>2. Between(a, b, w) \in Int /\ 4 * a <= Between(a, b, w) /\ Between(a, b, w) <= 4 * b
  BY <1>1, BetweenBounds
<1>3. /\ Rounded(4 * a, 4) <= Rounded(Between(a, b, w), 4)
      /\ Rounded(Between(a, b, w), 4) \in Int
      /\ Rounded(Between(a, b, w), 4) <= Rounded(4 * b, 4)
  BY <1>2, RoundedGrows
<1>4. Rounded(4 * a, 4) = a /\ Rounded(4 * b, 4) = b
  BY RoundedExact
<1>. QED
  BY <1>1, <1>3, <1>4

\* A percentile is at most a later one.
LEMMA PercentileGrows ==
    ASSUME NEW p, Ascending(p), NEW q \in 1..3, NEW s \in 1..3, q <= s
    PROVE  Percentile(p, q) <= Percentile(p, s)
<1>. DEFINE n == Len(p)
            l == Lower(p, q)
            m == Lower(p, s)
            v == Weight(p, q)
            w == Weight(p, s)
            d == Smaller(l + 2, n)
            u == Smaller(m + 2, n)
<1>1. n \in Nat /\ n >= 1 /\ n - 1 \in Nat
  BY DEF Ascending
<1>2. /\ l \in 0..(n - 1) /\ v \in 0..3 /\ d \in 1..n /\ p[l + 1] \in Int /\ p[d] \in Int
      /\ p[l + 1] <= p[d] /\ Percentile(p, q) = Rounded(Between(p[l + 1], p[d], v), 4)
  BY PercentileAt
<1>3. /\ m \in 0..(n - 1) /\ w \in 0..3 /\ u \in 1..n /\ p[m + 1] \in Int /\ p[u] \in Int
      /\ p[m + 1] <= p[u] /\ Percentile(p, s) = Rounded(Between(p[m + 1], p[u], w), 4)
  BY PercentileAt
<1>4. l < m \/ (l = m /\ v <= w)
  BY <1>1, PlaceOfPercentile DEF Lower, Weight
<1>. HIDE DEF n, l, m, v, w
<1>5. Between(p[l + 1], p[d], v) \in Int /\ Between(p[l + 1], p[d], v) <= 4 * p[d]
  <2>. HIDE DEF d
  <2>. QED
    BY <1>2, BetweenBounds
<1>6. Between(p[m + 1], p[u], w) \in Int /\ 4 * p[m + 1] <= Between(p[m + 1], p[u], w)
  <2>. HIDE DEF u
  <2>. QED
    BY <1>3, BetweenBounds
<1>7. Between(p[l + 1], p[d], v) <= Between(p[m + 1], p[u], w)
  <2>1. CASE l < m
    <3>1. d \in 1..n /\ m + 1 \in 1..n /\ d <= m + 1
      BY <1>1, <1>2, <1>3, <2>1 DEF Smaller
    <3>2. p[d] <= p[m + 1]
      <4>1. d < m + 1 \/ d = m + 1
        BY <1>1, <1>3, <3>1
      <4>. QED
        BY <1>2, <3>1, <4>1 DEF Ascending, n
    <3>. HIDE DEF d, u
    <3>. QED
      BY <1>2, <1>3, <1>5, <1>6, <3>2
  <2>2. CASE l = m /\ v <= w
    <3>1. d = u
      BY <2>2
    <3>. HIDE DEF d, u
    <3>. QED
      BY <1>2, <1>3, <2>2, <3>1, BetweenGrows
  <2>. QED
    BY <1>4, <2>1, <2>2
<1>. HIDE DEF d, u
<1>8. Rounded(Between(p[l + 1], p[d], v), 4) <= Rounded(Between(p[m + 1], p[u], w), 4)
  BY <1>5, <1>6, <1>7, RoundedGrows
<1>. QED
  BY <1>2, <1>3, <1>8

-----------------------------------------------------------------------------
(* Rows, by price and by age *)

AreRows(S) ==
    /\ IsFiniteSet(S)
    /\ \A r \in S : r.id \in Nat /\ r.at \in Nat /\ r.day \in Nat /\ r.price \in Nat
    /\ \A r, q \in S : r.id = q.id => r = q

LEMMA SomeRows == ASSUME NEW S, AreRows(S), NEW T, T \subseteq S PROVE AreRows(T)
  BY FS_Subset DEF AreRows

\* The order of ByPrice
CheaperIn(S) == {p \in S \X S : Cheaper(p[1], p[2])}

LEMMA CheaperTotal == ASSUME NEW S, AreRows(S) PROVE StrictTotal(S, CheaperIn(S))
<1>1. \A x, y \in S : (<<x, y>> \in CheaperIn(S)) <=> Cheaper(x, y)
  BY DEF CheaperIn
<1>2. \A x \in S : ~Cheaper(x, x)
  BY DEF Cheaper, AreRows
<1>3. \A x, y \in S : x # y => Cheaper(x, y) \/ Cheaper(y, x)
  BY DEF Cheaper, AreRows
<1>4. \A x, y, z \in S : Cheaper(x, y) /\ Cheaper(y, z) => Cheaper(x, z)
  BY DEF Cheaper, AreRows
<1>. QED
  BY <1>1, <1>2, <1>3, <1>4 DEF StrictTotal

\* The prices of some rows are in order; the rows are those that the prices are of.
LEMMA PricesAscend ==
    ASSUME NEW S, AreRows(S), S # {}
    PROVE  /\ Cardinality(S) \in Nat /\ Cardinality(S) # 0
           /\ ByPrice(S) \in [1..Cardinality(S) -> S]
           /\ \A x \in S : \E i \in 1..Cardinality(S) : ByPrice(S)[i] = x
           /\ \A i, j \in 1..Cardinality(S) : i < j => Cheaper(ByPrice(S)[i], ByPrice(S)[j])
           /\ Ascending(Prices(S)) /\ Len(Prices(S)) = Cardinality(S)
           /\ \A i \in 1..Cardinality(S) : Prices(S)[i] = ByPrice(S)[i].price
<1>. DEFINE r == ByPrice(S)
            n == Cardinality(S)
            p == Prices(S)
<1>1. r = Ranked(S, CheaperIn(S))
  BY DEF ByPrice, Ordered, CheaperIn
<1>2. IsFiniteSet(S)
  BY DEF AreRows
<1>3. /\ n \in Nat /\ r \in [1..n -> S]
      /\ \A x \in S : \E i \in 1..n : r[i] = x
      /\ \A i, j \in 1..n : i < j => <<r[i], r[j]>> \in CheaperIn(S)
  <2>. DEFINE o == CheaperIn(S)
  <2>1. StrictTotal(S, o)
    BY CheaperTotal
  <2>2. r = Ranked(S, o)
    BY <1>1
  <2>. HIDE DEF o, r
  <2>3. /\ n \in Nat /\ Ranked(S, o) \in [1..n -> S]
        /\ \A x \in S : \E i \in 1..n : Ranked(S, o)[i] = x
        /\ \A i, j \in 1..n : i < j => <<Ranked(S, o)[i], Ranked(S, o)[j]>> \in o
    BY <1>2, <2>1, RankedSorted
  <2>4. /\ n \in Nat /\ r \in [1..n -> S]
        /\ \A x \in S : \E i \in 1..n : r[i] = x
        /\ \A i, j \in 1..n : i < j => <<r[i], r[j]>> \in o
    BY <2>2, <2>3
  <2>. QED
    BY <2>4 DEF o
<1>4. n # 0
  BY <1>2, FS_EmptySet
<1>5. p = [i \in DOMAIN r |-> r[i].price]
  BY DEF Prices, Mapped
<1>. HIDE DEF r, n, p
<1>6. \A i, j \in 1..n : i < j => Cheaper(r[i], r[j])
  BY <1>3 DEF CheaperIn
<1>7. p \in [1..n -> Nat] /\ \A i \in 1..n : p[i] = r[i].price
  BY <1>3, <1>5 DEF AreRows
<1>8. p \in Seq(Nat) /\ Len(p) = n
  BY <1>3, <1>7
<1>9. \A i, j \in 1..n : i < j => p[i] <= p[j]
  <2>1. SUFFICES ASSUME NEW i \in 1..n, NEW j \in 1..n, i < j PROVE p[i] <= p[j]
    OBVIOUS
  <2>2. r[i] \in S /\ r[j] \in S /\ Cheaper(r[i], r[j])
    BY <1>3, <1>6, <2>1
  <2>3. r[i].price \in Nat /\ r[j].price \in Nat /\ r[i].price <= r[j].price
    BY <2>2 DEF Cheaper, AreRows
  <2>. QED
    BY <1>7, <2>3
<1>10. Ascending(p)
  BY <1>4, <1>8, <1>9 DEF Ascending
<1>. QED
  BY <1>3, <1>4, <1>6, <1>7, <1>8, <1>10 DEF r, n, p

\* The order of age
NewerIn(S) == {p \in S \X S : Newer(p[1], p[2])}

LEMMA NewerTotal ==
    ASSUME NEW S, AreRows(S)
    PROVE  /\ \A x \in S : ~Newer(x, x)
           /\ \A x, y \in S : x # y => Newer(x, y) \/ Newer(y, x)
           /\ \A x, y, z \in S : Newer(x, y) /\ Newer(y, z) => Newer(x, z)
           /\ StrictTotal(S, NewerIn(S))
<1>1. \A x, y \in S : (<<x, y>> \in NewerIn(S)) <=> Newer(x, y)
  BY DEF NewerIn
<1>2. \A x \in S : ~Newer(x, x)
  BY DEF Newer, AreRows
<1>3. \A x, y \in S : x # y => Newer(x, y) \/ Newer(y, x)
  BY DEF Newer, AreRows
<1>4. \A x, y, z \in S : Newer(x, y) /\ Newer(y, z) => Newer(x, z)
  BY DEF Newer, AreRows
<1>. QED
  BY <1>1, <1>2, <1>3, <1>4 DEF StrictTotal

Newest(r, S) == r \in S /\ \A q \in S \ {r} : Newer(r, q)

LEMMA NewestExists ==
    ASSUME NEW S, AreRows(S), S # {}
    PROVE  /\ \E r \in S : Newest(r, S)
           /\ \A r, q \in S : Newest(r, S) /\ Newest(q, S) => r = q
<1>1. \E r \in S : \A q \in S \ {r} : <<r, q>> \in NewerIn(S)
  BY NewerTotal, FirstExists DEF AreRows
<1>2. \E r \in S : Newest(r, S)
  BY <1>1 DEF NewerIn, Newest
<1>3. \A r, q \in S : ~(Newer(r, q) /\ Newer(q, r))
  BY NewerTotal
<1>. QED
  BY <1>2, <1>3 DEF Newest

-----------------------------------------------------------------------------
(* Cleaning *)

LEMMA WidestGapExists ==
    ASSUME NEW p, Ascending(p), Len(p) > 1
    PROVE  WidestGap(p) \in 1..(Len(p) - 1)
<1>. DEFINE n == Len(p) - 1
            gap(i) == p[i + 1] - p[i]
            order == {e \in (1..n) \X (1..n) : gap(e[2]) < gap(e[1]) \/ (gap(e[2]) = gap(e[1]) /\ e[1] < e[2])}
<1>1. n \in Nat /\ n >= 1
  BY DEF Ascending
<1>2. \A i \in 1..n : gap(i) \in Int
  BY <1>1 DEF Ascending
<1>3. \A i, j \in 1..n : (<<i, j>> \in order) <=> (gap(j) < gap(i) \/ (gap(j) = gap(i) /\ i < j))
  OBVIOUS
<1>4. WidestGap(p) = CHOOSE i \in 1..n : \A j \in 1..n : gap(j) < gap(i) \/ (gap(j) = gap(i) /\ j >= i)
  BY DEF WidestGap
<1>. HIDE DEF n, gap, order
<1>5. StrictTotal(1..n, order)
  <2>1. \A i \in 1..n : <<i, i>> \notin order
    BY <1>1, <1>2, <1>3
  <2>2. \A i, j \in 1..n : i # j => <<i, j>> \in order \/ <<j, i>> \in order
    BY <1>1, <1>2, <1>3
  <2>3. \A i, j, k \in 1..n : <<i, j>> \in order /\ <<j, k>> \in order => <<i, k>> \in order
    BY <1>1, <1>2, <1>3
  <2>. QED
    BY <2>1, <2>2, <2>3 DEF StrictTotal
<1>6. IsFiniteSet(1..n) /\ 1 \in 1..n
  BY <1>1, FS_Interval
<1>7. PICK i \in 1..n : \A j \in (1..n) \ {i} : <<i, j>> \in order
  <2>. DEFINE all == 1..n
  <2>1. IsFiniteSet(all) /\ all # {} /\ StrictTotal(all, order)
    BY <1>5, <1>6
  <2>. HIDE DEF all
  <2>2. \E i \in all : \A j \in all \ {i} : <<i, j>> \in order
    BY <2>1, FirstExists
  <2>. QED
    BY <2>2 DEF all
<1>8. \A j \in 1..n : gap(j) < gap(i) \/ (gap(j) = gap(i) /\ j >= i)
  <2>1. SUFFICES ASSUME NEW j \in 1..n PROVE gap(j) < gap(i) \/ (gap(j) = gap(i) /\ j >= i)
    OBVIOUS
  <2>2. CASE j = i
    BY <2>2
  <2>3. CASE j # i
    <3>1. gap(j) < gap(i) \/ (gap(j) = gap(i) /\ i < j)
      BY <1>3, <1>7, <2>3
    <3>. QED
      BY <1>1, <3>1
  <2>. QED
    BY <2>2, <2>3
<1>9. WidestGap(p) \in 1..n
  BY <1>4, <1>8
<1>. QED
  BY <1>9 DEF n

LEMMA TailIsPart ==
    ASSUME NEW S, AreRows(S), Cardinality(S) > 1
    PROVE  WithoutTail(ByPrice(S), Prices(S), WidestGap(Prices(S))) \subseteq S
<1>1. S # {}
  BY FS_EmptySet DEF AreRows
<1>. DEFINE n == Cardinality(S)
            r == ByPrice(S)
            p == Prices(S)
            at == WidestGap(p)
<1>2. n \in Nat /\ r \in [1..n -> S] /\ Ascending(p) /\ Len(p) = n
  BY <1>1, PricesAscend
<1>3. at \in 1..(n - 1)
  BY <1>2, WidestGapExists
<1>. HIDE DEF n, r, p, at
<1>4. 1..at \subseteq 1..n /\ at + 1..Len(p) \subseteq 1..n /\ DOMAIN r = 1..n
  BY <1>2, <1>3
<1>5. \A I : I \subseteq 1..n => {r[i] : i \in I} \subseteq S
  BY <1>2
<1>6. WithoutTail(r, p, at) \subseteq S
  BY <1>4, <1>5 DEF WithoutTail
<1>. QED
  BY <1>6 DEF n, r, p, at

LEMMA TrimmedIsPart ==
    ASSUME NEW S, IsFiniteSet(S), S # {}, NEW T, T \subseteq S, NEW floor \in Nat, floor # 0
    PROVE  Trimmed(T, S, floor) \subseteq S /\ Trimmed(T, S, floor) # {}
<1>1. ~(Cardinality({}) >= floor) /\ Cardinality({}) < floor
  BY FS_EmptySet
<1>. QED
  BY <1>1 DEF Trimmed

LEMMA FloorIsPositive == ASSUME NEW n \in Nat, n # 0 PROVE RetainedFloor(n) \in Nat /\ RetainedFloor(n) # 0
<1>1. CASE n <= 4
  BY <1>1 DEF RetainedFloor
<1>2. CASE n > 4
  <2>1. Ceiling(65 * n, 100) \in Int /\ Ceiling(45 * n, 100) \in Int
    BY DEF Ceiling
  <2>2. Density(n) \in {"sparse", "balanced", "dense"}
    BY DEF Density
  <2>3. \A a \in Int : Larger(4, a) \in Nat /\ Larger(4, a) # 0 /\ Larger(5, a) \in Nat /\ Larger(5, a) # 0
    BY DEF Larger
  <2>4. n - 1 \in Int /\ ~(n <= 4)
    BY <1>2
  <2>. QED
    BY <2>1, <2>2, <2>3, <2>4 DEF RetainedFloor
<1>. QED
  BY <1>1, <1>2

\* Cleaning keeps some of the rows and adds none.
LEMMA CleanIsPart ==
    ASSUME NEW S, AreRows(S), S # {}
    PROVE  CleanPriceRows(S) \subseteq S /\ CleanPriceRows(S) # {}
<1>. DEFINE n == Cardinality(S)
            density == Density(n)
            floor == RetainedFloor(n)
            fenced(T) == Trimmed(TrimIqrRows(T, density), T, floor)
            tailed(T) == Trimmed(TrimClusterTailRows(T), T, floor)
            scored == Trimmed(TrimModifiedZscoreRows(S, density), S, floor)
<1>1. n \in Nat /\ n # 0
  BY FS_CardinalityType, FS_EmptySet DEF AreRows
<1>2. floor \in Nat /\ floor # 0
  BY <1>1, FloorIsPositive
<1>3. density \in {"sparse", "balanced", "dense"}
  BY DEF Density
<1>4. CleanPriceRows(S) = CASE density = "sparse"   -> S
                            [] density = "balanced" -> fenced(scored)
                            [] density = "dense"    -> tailed(fenced(scored))
  BY DEF CleanPriceRows
<1>. HIDE DEF n, density, floor
<1>5. scored \subseteq S /\ scored # {}
  <2>1. TrimModifiedZscoreRows(S, density) \subseteq S
    BY DEF TrimModifiedZscoreRows
  <2>. QED
    BY <1>2, <2>1, TrimmedIsPart DEF AreRows
<1>6. ASSUME NEW T, T \subseteq S, T # {} PROVE fenced(T) \subseteq T /\ fenced(T) # {}
  <2>1. TrimIqrRows(T, density) \subseteq T
    BY DEF TrimIqrRows
  <2>2. IsFiniteSet(T)
    BY <1>6, SomeRows DEF AreRows
  <2>. QED
    BY <1>2, <1>6, <2>1, <2>2, TrimmedIsPart
<1>7. ASSUME NEW T, T \subseteq S, T # {} PROVE tailed(T) \subseteq T /\ tailed(T) # {}
  <2>1. AreRows(T) /\ IsFiniteSet(T) /\ Cardinality(T) \in Nat
    BY <1>7, SomeRows, FS_CardinalityType DEF AreRows
  <2>2. TrimClusterTailRows(T) \subseteq T
    <3>1. CASE Cardinality(T) < 5
      BY <3>1 DEF TrimClusterTailRows
    <3>2. CASE ~(Cardinality(T) < 5)
      <4>1. Cardinality(T) > 1
        BY <2>1, <3>2
      <4>. QED
        BY <2>1, <3>2, <4>1, TailIsPart DEF TrimClusterTailRows
    <3>. QED
      BY <3>1, <3>2
  <2>. QED
    BY <1>2, <1>7, <2>1, <2>2, TrimmedIsPart
<1>. HIDE DEF fenced, tailed, scored
<1>8. fenced(scored) \subseteq S /\ fenced(scored) # {}
  BY <1>5, <1>6
<1>9. tailed(fenced(scored)) \subseteq S /\ tailed(fenced(scored)) # {}
  BY <1>7, <1>8
<1>. QED
  BY <1>3, <1>4, <1>8, <1>9

-----------------------------------------------------------------------------
(* Clusters *)

\* No wide gap lies between i and j.
Together(cuts, i, j) == \A k \in Smaller(i, j)..(Larger(i, j) - 1) : k \notin cuts

LEMMA TogetherIsEquivalence ==
    ASSUME NEW cuts, NEW i \in Int, NEW j \in Int, NEW k \in Int
    PROVE  /\ Together(cuts, i, i)
           /\ Together(cuts, i, j) => Together(cuts, j, i)
           /\ Together(cuts, i, j) /\ Together(cuts, j, k) => Together(cuts, i, k)
<1>1. Together(cuts, i, i)
  BY DEF Together, Smaller, Larger
<1>2. Together(cuts, i, j) => Together(cuts, j, i)
  <2>1. Smaller(i, j) = Smaller(j, i) /\ Larger(i, j) = Larger(j, i)
    BY DEF Smaller, Larger
  <2>. QED
    BY <2>1 DEF Together
<1>3. Together(cuts, i, j) /\ Together(cuts, j, k) => Together(cuts, i, k)
  <2>1. \A m \in Smaller(i, k)..(Larger(i, k) - 1) :
          m \in Smaller(i, j)..(Larger(i, j) - 1) \/ m \in Smaller(j, k)..(Larger(j, k) - 1)
    BY DEF Smaller, Larger
  <2>. QED
    BY <2>1 DEF Together
<1>. QED
  BY <1>1, <1>2, <1>3

\* The clusters of some rows are disjoint parts of them.
LEMMA ClustersArePartition ==
    ASSUME NEW S, AreRows(S), S # {}
    PROVE  /\ SplitPriceClusters(S) # {}
           /\ \A c \in SplitPriceClusters(S) : c \subseteq S /\ c # {}
           /\ \A c, d \in SplitPriceClusters(S) : c = d \/ c \cap d = {}
<1>. DEFINE n == Cardinality(S)
            r == ByPrice(S)
            p == Prices(S)
            cuts == {k \in Int : Len(p) > 2 /\ p[k + 1] - p[k] >= PriceGapThreshold(p)}
            part(i) == {r[j] : j \in {j \in DOMAIN r : Together(cuts, i, j)}}
<1>1. /\ n \in Nat /\ n # 0 /\ r \in [1..n -> S]
      /\ \A i, j \in 1..n : i < j => Cheaper(r[i], r[j])
  BY PricesAscend
<1>2. SplitPriceClusters(S) = {part(i) : i \in 1..n}
  <2>1. DOMAIN r = 1..n
    BY <1>1
  <2>2. \A i, j \in 1..n : (Together(cuts, i, j)) <=>
          \A k \in Smaller(i, j)..(Larger(i, j) - 1) : ~(Len(p) > 2 /\ p[k + 1] - p[k] >= PriceGapThreshold(p))
    <3>1. \A i, j \in 1..n : \A k \in Smaller(i, j)..(Larger(i, j) - 1) : k \in Int
      BY DEF Smaller, Larger
    <3>. QED
      BY <3>1 DEF Together
  <2>. DEFINE joined(i, j) == \A k \in Smaller(i, j)..(Larger(i, j) - 1) :
                                ~(Len(p) > 2 /\ p[k + 1] - p[k] >= PriceGapThreshold(p))
  <2>3. SplitPriceClusters(S) = {{r[j] : j \in {j \in DOMAIN r : joined(i, j)}} : i \in DOMAIN r}
    BY DEF SplitPriceClusters
  <2>4. \A i, j \in 1..n : Together(cuts, i, j) <=> joined(i, j)
    BY <2>2
  <2>. HIDE DEF joined, cuts, r, n, p
  <2>5. \A i \in 1..n : {j \in DOMAIN r : joined(i, j)} = {j \in DOMAIN r : Together(cuts, i, j)}
    BY <2>1, <2>4
  <2>. QED
    BY <2>1, <2>3, <2>5
<1>3. \A i, j \in 1..n : r[i] = r[j] => i = j
  <2>1. SUFFICES ASSUME NEW i \in 1..n, NEW j \in 1..n, r[i] = r[j], i < j PROVE FALSE
    BY <1>1
  <2>2. r[i] \in S /\ Cheaper(r[i], r[i])
    BY <1>1, <2>1
  <2>. QED
    BY <2>2 DEF Cheaper, AreRows
<1>. HIDE DEF n, r, p, cuts
<1>4. \A i, j \in 1..n : (r[j] \in part(i)) <=> Together(cuts, i, j)
  BY <1>1, <1>3
<1>5. \A i \in 1..n : \A x \in part(i) : \E j \in 1..n : x = r[j] /\ Together(cuts, i, j)
  BY <1>1
<1>6. \A i \in 1..n : part(i) \subseteq S /\ part(i) # {}
  <2>1. \A i \in 1..n : r[i] \in part(i)
    BY <1>4, TogetherIsEquivalence
  <2>. QED
    BY <1>1, <1>5, <2>1
<1>7. ASSUME NEW i \in 1..n, NEW j \in 1..n, NEW x, x \in part(i), x \in part(j) PROVE part(i) = part(j)
  <2>1. PICK k \in 1..n : x = r[k] /\ Together(cuts, i, k)
    BY <1>5, <1>7
  <2>2. Together(cuts, j, k)
    BY <1>4, <1>7, <2>1
  <2>3. Together(cuts, i, j) /\ Together(cuts, j, i)
    BY <1>1, <2>1, <2>2, TogetherIsEquivalence
  <2>4. \A m \in 1..n : Together(cuts, i, m) <=> Together(cuts, j, m)
    BY <1>1, <2>3, TogetherIsEquivalence
  <2>5. {m \in DOMAIN r : Together(cuts, i, m)} = {m \in DOMAIN r : Together(cuts, j, m)}
    BY <1>1, <2>4
  <2>. QED
    BY <2>5
<1>. HIDE DEF part
<1>8. 1 \in 1..n
  BY <1>1
<1>. QED
  BY <1>2, <1>6, <1>7, <1>8

-----------------------------------------------------------------------------
(* The latest day *)

LEMMA MinIsLeast == ASSUME NEW S, S \subseteq Int, NEW x, x \in S, \A y \in S : x <= y PROVE Min(S) = x
<1>1. \A z \in S : (\A y \in S : z <= y) => z = x
  OBVIOUS
<1>. QED
  BY <1>1 DEF Min

NewestOf(S, d) == CHOOSE r \in S : r.day = d /\ \A q \in S \ {r} : q.day = d => Newer(r, q)

LEMMA NewestOfDay ==
    ASSUME NEW S, AreRows(S), NEW d, d \in {r.day : r \in S}
    PROVE  /\ NewestOf(S, d) \in S /\ NewestOf(S, d).day = d
           /\ \A q \in S \ {NewestOf(S, d)} : q.day = d => Newer(NewestOf(S, d), q)
<1>. DEFINE T == {r \in S : r.day = d}
<1>1. AreRows(T) /\ T # {}
  BY SomeRows
<1>2. PICK r \in T : Newest(r, T)
  BY <1>1, NewestExists
<1>3. r \in S /\ r.day = d /\ \A q \in S \ {r} : q.day = d => Newer(r, q)
  BY <1>2 DEF Newest
<1>. QED
  BY <1>3 DEF NewestOf

\* The order of DayOrder
LaterDays(S) == {e \in {r.day : r \in S} \X {r.day : r \in S} : Newer(NewestOf(S, e[1]), NewestOf(S, e[2]))}

LEMMA LaterDaysTotal ==
    ASSUME NEW S, AreRows(S)
    PROVE  IsFiniteSet({r.day : r \in S}) /\ StrictTotal({r.day : r \in S}, LaterDays(S))
<1>. DEFINE D == {r.day : r \in S}
<1>1. IsFiniteSet(D)
  <2>. DEFINE f == [r \in S |-> r.day]
  <2>1. f \in Surjection(S, D)
    BY DEF Surjection
  <2>. QED
    BY <2>1, FS_Surjection DEF AreRows
<1>2. \A d \in D : NewestOf(S, d) \in S /\ NewestOf(S, d).day = d
  BY NewestOfDay
<1>3. \A d, e \in D : (<<d, e>> \in LaterDays(S)) <=> Newer(NewestOf(S, d), NewestOf(S, e))
  BY DEF LaterDays
<1>. HIDE DEF D
<1>4. \A d \in D : <<d, d>> \notin LaterDays(S)
  BY <1>2, <1>3, NewerTotal
<1>5. \A d, e \in D : d # e => <<d, e>> \in LaterDays(S) \/ <<e, d>> \in LaterDays(S)
  BY <1>2, <1>3, NewerTotal
<1>6. \A d, e, g \in D : <<d, e>> \in LaterDays(S) /\ <<e, g>> \in LaterDays(S) => <<d, g>> \in LaterDays(S)
  BY <1>2, <1>3, NewerTotal
<1>7. StrictTotal(D, LaterDays(S))
  BY <1>4, <1>5, <1>6 DEF StrictTotal
<1>. QED
  BY <1>1, <1>7 DEF D

\* One day is selected: that of the newest row.
LEMMA LatestDayIsSelected ==
    ASSUME NEW S, AreRows(S), NEW n, Newest(n, S)
    PROVE  SelectRecentDayWindow(S, 1, 1) = {r \in S : r.day = n.day}
<1>. DEFINE D == {r.day : r \in S}
            days == DayOrder(S)
            m == Cardinality(D)
<1>1. n \in S /\ n.day \in D
  BY DEF Newest
<1>2. days = Ranked(D, LaterDays(S))
  BY DEF DayOrder, Ordered, LaterDays, NewestOf
<1>3. /\ m \in Nat /\ days \in [1..m -> D]
      /\ \A x \in D : \E i \in 1..m : days[i] = x
      /\ \A i, j \in 1..m : i < j => <<days[i], days[j]>> \in LaterDays(S)
  <2>. DEFINE o == LaterDays(S)
  <2>1. IsFiniteSet(D) /\ StrictTotal(D, o) /\ days = Ranked(D, o)
    BY <1>2, LaterDaysTotal
  <2>. HIDE DEF D, o, days
  <2>2. /\ m \in Nat /\ Ranked(D, o) \in [1..m -> D]
        /\ \A x \in D : \E i \in 1..m : Ranked(D, o)[i] = x
        /\ \A i, j \in 1..m : i < j => <<Ranked(D, o)[i], Ranked(D, o)[j]>> \in o
    BY <2>1, RankedSorted
  <2>3. /\ m \in Nat /\ days \in [1..m -> D]
        /\ \A x \in D : \E i \in 1..m : days[i] = x
        /\ \A i, j \in 1..m : i < j => <<days[i], days[j]>> \in o
    BY <2>1, <2>2
  <2>. QED
    BY <2>3 DEF o
<1>4. NewestOf(S, n.day) = n
  <2>. DEFINE q == NewestOf(S, n.day)
  <2>1. q \in S /\ q.day = n.day /\ \A x \in S \ {q} : x.day = n.day => Newer(q, x)
    BY <1>1, NewestOfDay
  <2>. HIDE DEF q
  <2>2. ~(Newer(q, n) /\ Newer(n, q))
    BY <1>1, <2>1, NewerTotal
  <2>3. q = n
    BY <1>1, <2>1, <2>2 DEF Newest
  <2>. QED
    BY <2>3 DEF q
<1>. HIDE DEF days, m
<1>5. DOMAIN days = 1..m /\ 1 \in 1..m
  <2>1. \E i \in 1..m : days[i] = n.day
    BY <1>1, <1>3
  <2>. QED
    BY <1>3, <2>1
<1>6. days[1] = n.day
  <2>1. PICK i \in 1..m : days[i] = n.day
    BY <1>1, <1>3
  <2>2. CASE i # 1
    <3>. DEFINE q == NewestOf(S, days[1])
    <3>1. <<days[1], days[i]>> \in LaterDays(S)
      BY <1>3, <1>5, <2>2
    <3>2. Newer(q, NewestOf(S, days[i]))
      BY <3>1 DEF LaterDays
    <3>3. Newer(q, n)
      BY <1>4, <2>1, <3>2
    <3>4. days[1] \in D
      BY <1>3, <1>5
    <3>5. q \in S
      BY <3>4, NewestOfDay
    <3>. HIDE DEF q
    <3>6. q # n /\ ~(Newer(q, n) /\ Newer(n, q))
      BY <1>1, <3>3, <3>5, NewerTotal
    <3>. QED
      BY <3>3, <3>5, <3>6 DEF Newest
  <2>. QED
    BY <2>1, <2>2
<1>. DEFINE taken(k) == {r \in S : \E i \in 1..k : r.day = days[i]}
            enough(k) == Cardinality(taken(k)) >= 1 \/ k = 1 \/ k = Len(days)
            some == {k \in DOMAIN days : enough(k)}
<1>7. SelectRecentDayWindow(S, 1, 1) = taken(Min(some))
  <2>1. S # {}
    BY <1>1
  <2>. QED
    BY <2>1 DEF SelectRecentDayWindow, days
<1>8. some \subseteq 1..m /\ 1 \in some
  BY <1>5
<1>. HIDE DEF some
<1>9. Min(some) = 1
  <2>1. some \subseteq Int /\ \A y \in some : 1 <= y
    BY <1>8
  <2>. QED
    BY <1>8, <2>1, MinIsLeast
<1>10. taken(1) = {r \in S : r.day = n.day}
  BY <1>6
<1>. QED
  BY <1>7, <1>9, <1>10

-----------------------------------------------------------------------------
(* Candidates *)

LEMMA ScoreIsNumber ==
    ASSUME NEW p, Len(p) \in Nat, Interval(p)[1] \in Int, Interval(p)[2] \in Int, Median(p) \in Int,
           NEW brand, NEW status, NEW reference \in Nat
    PROVE  CandidateScore(p, brand, status, reference) \in Int
<1>. DEFINE n == Len(p)
            spread == Interval(p)[2] - Interval(p)[1]
            penalty == IF n = 1 THEN 14 ELSE IF n = 2 THEN 6 ELSE 0
            far == IF reference = 0 THEN 0 ELSE 2 * Smaller(Distance(Median(p), reference), 2000)
            priority == StatusPriority(brand, status)
<1>1. priority \in Int
  BY DEF StatusPriority
<1>2. far \in Int
  BY DEF Smaller, Distance
<1>3. Smaller(spread, 1600) \in Int
  BY DEF Smaller
<1>4. penalty \in Int /\ n \in Int
  OBVIOUS
<1>5. CandidateScore(p, brand, status, reference) = 90 * (14 * n + priority - penalty) - 5 * Smaller(spread, 1600) - far
  BY DEF CandidateScore
<1>. HIDE DEF n, spread, penalty, far, priority
<1>. QED
  BY <1>1, <1>2, <1>3, <1>4, <1>5

\* The market of a candidate lies in its range, which lies among its prices.
LEMMA CandidateRange ==
    ASSUME NEW T, AreRows(T), T # {}, NEW brand, NEW status, NEW reference \in Nat
    PROVE  LET c == PriceCandidate(T, Prices(T), brand, status, reference)
           IN  /\ c.rows = T /\ c.status = status
               /\ c.score \in Int /\ c.market \in Int /\ c.low \in Int /\ c.high \in Int
               /\ c.low <= c.market /\ c.market <= c.high
               /\ \E r \in T : r.price <= c.low
               /\ \E r \in T : c.high <= r.price
<1>. DEFINE p == Prices(T)
            n == Cardinality(T)
            c == PriceCandidate(T, p, brand, status, reference)
<1>1. /\ n \in Nat /\ n # 0 /\ Ascending(p) /\ Len(p) = n
      /\ \A i \in 1..n : ByPrice(T)[i] \in T /\ p[i] = ByPrice(T)[i].price
  BY PricesAscend
<1>2. 1 \in 1..n /\ n \in 1..n
  BY <1>1
<1>. HIDE DEF p, n
<1>3. PICK f \in T : p[1] = f.price
  BY <1>1, <1>2
<1>4. PICK z \in T : p[n] = z.price
  BY <1>1, <1>2
<1>5. f.price \in Nat /\ z.price \in Nat
  BY DEF AreRows
<1>6. /\ Percentile(p, 1) \in Int /\ Percentile(p, 2) \in Int /\ Percentile(p, 3) \in Int
      /\ p[1] <= Percentile(p, 1) /\ Percentile(p, 3) <= p[n]
      /\ p[1] <= Percentile(p, 2) /\ Percentile(p, 2) <= p[n]
  BY <1>1, PercentileBounds
<1>7. Percentile(p, 1) <= Percentile(p, 2) /\ Percentile(p, 2) <= Percentile(p, 3)
  BY <1>1, PercentileGrows
<1>8. /\ Median(p) \in Int /\ Interval(p)[1] \in Int /\ Interval(p)[2] \in Int
      /\ f.price <= Interval(p)[1] /\ Interval(p)[2] <= z.price
      /\ Interval(p)[1] <= Median(p) /\ Median(p) <= Interval(p)[2]
  BY <1>1, <1>3, <1>4, <1>5, <1>6, <1>7 DEF Interval, Median
<1>9. CandidateScore(p, brand, status, reference) \in Int
  BY <1>1, <1>8, ScoreIsNumber
<1>10. /\ c.rows = T /\ c.status = status /\ c.score = CandidateScore(p, brand, status, reference)
       /\ c.market = Median(p) /\ c.low = Interval(p)[1] /\ c.high = Interval(p)[2]
  BY DEF PriceCandidate
<1>. HIDE DEF c
<1>11. /\ c.rows = T /\ c.status = status
       /\ c.score \in Int /\ c.market \in Int /\ c.low \in Int /\ c.high \in Int
       /\ c.low <= c.market /\ c.market <= c.high
       /\ f.price <= c.low /\ c.high <= z.price
  BY <1>8, <1>9, <1>10
<1>. QED
  BY <1>11 DEF c, p

OfStatus(S, status) == {r \in S : r.status = status}

LEMMA ClustersOfStatus ==
    ASSUME NEW S, AreRows(S), NEW s, s \in {r.status : r \in S}
    PROVE  LET clusters == SplitPriceClusters(CleanPriceRows(OfStatus(S, s)))
           IN  /\ clusters # {}
               /\ \A c \in clusters : c \subseteq OfStatus(S, s) /\ c # {}
               /\ \A c, d \in clusters : c = d \/ c \cap d = {}
<1>. DEFINE T == CleanPriceRows(OfStatus(S, s))
<1>1. AreRows(OfStatus(S, s)) /\ OfStatus(S, s) # {}
  BY SomeRows DEF OfStatus
<1>2. T \subseteq OfStatus(S, s) /\ T # {}
  BY <1>1, CleanIsPart
<1>3. AreRows(T)
  BY <1>1, <1>2, SomeRows
<1>. HIDE DEF T
<1>4. /\ SplitPriceClusters(T) # {}
      /\ \A c \in SplitPriceClusters(T) : c \subseteq T /\ c # {}
      /\ \A c, d \in SplitPriceClusters(T) : c = d \/ c \cap d = {}
  BY <1>2, <1>3, ClustersArePartition
<1>5. \A c \in SplitPriceClusters(T) : c \subseteq OfStatus(S, s)
  BY <1>2, <1>4
<1>. QED
  BY <1>4, <1>5 DEF T

\* A candidate of some rows
IsCandidate(c, S, brand, reference) ==
    /\ c.status \in {r.status : r \in S}
    /\ c.rows \subseteq OfStatus(S, c.status) /\ c.rows # {}
    /\ c = PriceCandidate(c.rows, Prices(c.rows), brand, c.status, reference)

LEMMA CandidatesOfRows ==
    ASSUME NEW S, AreRows(S), S # {}, NEW brand, NEW reference \in Nat
    PROVE  /\ Candidates(S, brand, reference) # {} /\ IsFiniteSet(Candidates(S, brand, reference))
           /\ \A c \in Candidates(S, brand, reference) : IsCandidate(c, S, brand, reference)
           /\ \A c, d \in Candidates(S, brand, reference) :
                c.status = d.status => c = d \/ c.rows \cap d.rows = {}
<1>. DEFINE found == Candidates(S, brand, reference)
            statuses == {r.status : r \in S}
            clusters(s) == SplitPriceClusters(CleanPriceRows(OfStatus(S, s)))
            priced(c, s) == PriceCandidate(c, Prices(c), brand, s, reference)
<1>1. found = UNION {{priced(c, s) : c \in clusters(s)} : s \in statuses}
  BY DEF Candidates, OfStatus
<1>2. \A s \in statuses : /\ clusters(s) # {}
                          /\ \A c \in clusters(s) : c \subseteq OfStatus(S, s) /\ c # {}
                          /\ \A c, d \in clusters(s) : c = d \/ c \cap d = {}
  BY ClustersOfStatus
<1>3. \A c, s : priced(c, s).rows = c /\ priced(c, s).status = s
  BY DEF PriceCandidate
<1>. HIDE DEF found, clusters, priced
<1>4. \A x \in found : \E s \in statuses : \E c \in clusters(s) : x = priced(c, s)
  BY <1>1
<1>5. \A x \in found : x.status \in statuses /\ x.rows \in clusters(x.status) /\ x = priced(x.rows, x.status)
  BY <1>3, <1>4
<1>6. \A x \in found : IsCandidate(x, S, brand, reference)
  BY <1>2, <1>5 DEF IsCandidate, priced
<1>7. \A x, y \in found : x.status = y.status => x = y \/ x.rows \cap y.rows = {}
  BY <1>2, <1>5
<1>8. found # {}
  BY <1>1, <1>2
<1>9. IsFiniteSet(found)
  <2>. DEFINE pairs == statuses \X (SUBSET S)
              f == [x \in found |-> <<x.status, x.rows>>]
  <2>1. IsFiniteSet(statuses)
    <3>. DEFINE g == [r \in S |-> r.status]
    <3>1. g \in Surjection(S, statuses)
      BY DEF Surjection
    <3>. QED
      BY <3>1, FS_Surjection DEF AreRows
  <2>2. IsFiniteSet(SUBSET S)
    BY FS_SUBSET DEF AreRows
  <2>3. IsFiniteSet(pairs)
    BY <2>1, <2>2, FS_Product
  <2>4. \A x \in found : x.status \in statuses /\ x.rows \subseteq S
    BY <1>6 DEF IsCandidate, OfStatus
  <2>5. \A x, y \in found : <<x.status, x.rows>> = <<y.status, y.rows>> => x = y
    BY <1>5
  <2>6. f \in Injection(found, pairs)
    <3>. HIDE DEF statuses
    <3>1. f \in [found -> pairs]
      BY <2>4
    <3>. QED
      BY <2>5, <3>1 DEF Injection, IsInjective
  <2>. QED
    BY <2>3, <2>6, FS_Injection
<1>. QED
  BY <1>6, <1>7, <1>8, <1>9 DEF found

-----------------------------------------------------------------------------
(* The best candidate *)

NewestOfStatus(S, s) == CHOOSE r \in S : r.status = s /\ \A q \in S \ {r} : q.status = s => Newer(r, q)

LEMMA NewestOfStatusIsOfIt ==
    ASSUME NEW S, AreRows(S), NEW s, s \in {r.status : r \in S}
    PROVE  NewestOfStatus(S, s) \in S /\ NewestOfStatus(S, s).status = s
<1>. DEFINE T == {r \in S : r.status = s}
<1>1. AreRows(T) /\ T # {}
  BY SomeRows
<1>2. PICK r \in T : Newest(r, T)
  BY <1>1, NewestExists
<1>3. r \in S /\ r.status = s /\ \A q \in S \ {r} : q.status = s => Newer(r, q)
  BY <1>2 DEF Newest
<1>. QED
  BY <1>3 DEF NewestOfStatus

\* The order in which candidates are found
FoundFirst(a, b, S) ==
    IF a.status = b.status THEN Cheaper(ByPrice(a.rows)[1], ByPrice(b.rows)[1])
    ELSE Newer(NewestOfStatus(S, a.status), NewestOfStatus(S, b.status))

\* Candidates of some rows, of which no two of a status share a row
AreCandidates(found, S, brand, reference) ==
    /\ IsFiniteSet(found)
    /\ \A c \in found : IsCandidate(c, S, brand, reference)
    /\ \A c, d \in found : c.status = d.status => c = d \/ c.rows \cap d.rows = {}

LEMMA FoundFirstTotal ==
    ASSUME NEW S, AreRows(S), NEW brand, NEW reference, NEW found, AreCandidates(found, S, brand, reference)
    PROVE  /\ \A a \in found : ~FoundFirst(a, a, S)
           /\ \A a, b \in found : a # b => FoundFirst(a, b, S) \/ FoundFirst(b, a, S)
           /\ \A a, b, c \in found : FoundFirst(a, b, S) /\ FoundFirst(b, c, S) => FoundFirst(a, c, S)
<1>. DEFINE first(a) == ByPrice(a.rows)[1]
            newest(a) == NewestOfStatus(S, a.status)
<1>1. ASSUME NEW a \in found PROVE first(a) \in a.rows /\ first(a) \in S
  <2>1. a.rows \subseteq S /\ a.rows # {}
    BY DEF AreCandidates, IsCandidate, OfStatus
  <2>2. AreRows(a.rows)
    BY <2>1, SomeRows
  <2>3. /\ Cardinality(a.rows) \in Nat /\ Cardinality(a.rows) # 0
        /\ ByPrice(a.rows) \in [1..Cardinality(a.rows) -> a.rows]
    BY <2>1, <2>2, PricesAscend
  <2>4. 1 \in 1..Cardinality(a.rows)
    BY <2>3
  <2>. QED
    BY <2>1, <2>3, <2>4
<1>2. \A a \in found : newest(a) \in S /\ newest(a).status = a.status
  BY NewestOfStatusIsOfIt DEF AreCandidates, IsCandidate
<1>3. \A a, b \in found : FoundFirst(a, b, S) <=>
        IF a.status = b.status THEN Cheaper(first(a), first(b)) ELSE Newer(newest(a), newest(b))
  BY DEF FoundFirst
<1>4. \A a, b \in found : a # b /\ a.status = b.status => first(a) # first(b)
  BY <1>1 DEF AreCandidates
<1>5. /\ \A x \in S : ~Cheaper(x, x)
      /\ \A x, y \in S : x # y => Cheaper(x, y) \/ Cheaper(y, x)
      /\ \A x, y, z \in S : Cheaper(x, y) /\ Cheaper(y, z) => Cheaper(x, z)
  BY CheaperTotal DEF StrictTotal, CheaperIn
<1>6. /\ \A x \in S : ~Newer(x, x)
      /\ \A x, y \in S : x # y => Newer(x, y) \/ Newer(y, x)
      /\ \A x, y, z \in S : Newer(x, y) /\ Newer(y, z) => Newer(x, z)
  BY NewerTotal
<1>7. \A a, b \in found : (a.status = b.status) => newest(a) = newest(b)
  OBVIOUS
<1>. HIDE DEF first, newest
<1>8. \A a \in found : ~FoundFirst(a, a, S)
  BY <1>1, <1>3, <1>5
<1>9. \A a, b \in found : a # b => FoundFirst(a, b, S) \/ FoundFirst(b, a, S)
  BY <1>1, <1>2, <1>3, <1>4, <1>5, <1>6
<1>10. ASSUME NEW a \in found, NEW b \in found, NEW c \in found, FoundFirst(a, b, S), FoundFirst(b, c, S)
       PROVE  FoundFirst(a, c, S)
  <2>1. CASE a.status = b.status /\ b.status = c.status
    BY <1>1, <1>3, <1>5, <1>10, <2>1
  <2>2. CASE a.status = b.status /\ b.status # c.status
    BY <1>3, <1>7, <1>10, <2>2
  <2>3. CASE a.status # b.status /\ b.status = c.status
    BY <1>3, <1>7, <1>10, <2>3
  <2>4. CASE a.status # b.status /\ b.status # c.status
    <3>1. Newer(newest(a), newest(b)) /\ Newer(newest(b), newest(c))
      BY <1>3, <1>10, <2>4
    <3>2. Newer(newest(a), newest(c))
      BY <1>2, <1>6, <3>1
    <3>3. a.status # c.status
      BY <1>2, <1>6, <1>7, <3>2
    <3>. QED
      BY <1>3, <3>2, <3>3
  <2>. QED
    BY <2>1, <2>2, <2>3, <2>4
<1>. QED
  BY <1>8, <1>9, <1>10

BetterIn(found, S) == {e \in found \X found : Better(e[1], e[2], S)}

LEMMA BetterTotal ==
    ASSUME NEW S, AreRows(S), NEW brand, NEW reference \in Nat, NEW found, AreCandidates(found, S, brand, reference)
    PROVE  StrictTotal(found, BetterIn(found, S))
<1>. DEFINE n(c) == Cardinality(c.rows)
            width(c) == c.high - c.low
            F(a, b) == FoundFirst(a, b, S)
            B(a, b) == \/ a.score > b.score
                       \/ a.score = b.score /\ n(a) > n(b)
                       \/ a.score = b.score /\ n(a) = n(b) /\ width(a) < width(b)
                       \/ a.score = b.score /\ n(a) = n(b) /\ width(a) = width(b) /\ F(a, b)
<1>1. ASSUME NEW c \in found PROVE c.score \in Int /\ n(c) \in Int /\ width(c) \in Int
  <2>1. /\ c.rows # {} /\ c.rows \subseteq S
        /\ c = PriceCandidate(c.rows, Prices(c.rows), brand, c.status, reference)
    BY DEF AreCandidates, IsCandidate, OfStatus
  <2>2. AreRows(c.rows) /\ Cardinality(c.rows) \in Nat
    BY <2>1, SomeRows, FS_CardinalityType DEF AreRows
  <2>3. c.score \in Int /\ c.low \in Int /\ c.high \in Int
    <3>1. PICK T, s : T = c.rows /\ s = c.status
      OBVIOUS
    <3>2. c = PriceCandidate(T, Prices(T), brand, s, reference) /\ AreRows(T) /\ T # {}
      BY <2>1, <2>2, <3>1
    <3>. QED
      BY <3>2, CandidateRange
  <2>. QED
    BY <2>2, <2>3
<1>2. /\ \A a \in found : ~F(a, a)
      /\ \A a, b \in found : a # b => F(a, b) \/ F(b, a)
      /\ \A a, b, c \in found : F(a, b) /\ F(b, c) => F(a, c)
  BY FoundFirstTotal
<1>3. \A a, b : (Better(a, b, S)) <=> B(a, b)
  BY DEF Better, FoundFirst, NewestOfStatus
<1>4. \A a, b \in found : (<<a, b>> \in BetterIn(found, S)) <=> B(a, b)
  BY <1>3 DEF BetterIn
<1>. HIDE DEF n, width, F
<1>5. \A a \in found : ~B(a, a)
  BY <1>1, <1>2
<1>6. \A a, b \in found : a # b => B(a, b) \/ B(b, a)
  BY <1>1, <1>2
<1>7. \A a, b, c \in found : B(a, b) /\ B(b, c) => B(a, c)
  BY <1>1, <1>2
<1>. HIDE DEF B
<1>. QED
  BY <1>4, <1>5, <1>6, <1>7 DEF StrictTotal

Best(found, S) == CHOOSE c \in found : \A d \in found \ {c} : Better(c, d, S)

LEMMA BestIsFound ==
    ASSUME NEW S, AreRows(S), NEW brand, NEW reference \in Nat, NEW found, found # {},
           AreCandidates(found, S, brand, reference)
    PROVE  Best(found, S) \in found /\ \A d \in found \ {Best(found, S)} : Better(Best(found, S), d, S)
<1>1. StrictTotal(found, BetterIn(found, S)) /\ IsFiniteSet(found)
  BY BetterTotal DEF AreCandidates
<1>2. \E c \in found : \A d \in found \ {c} : <<c, d>> \in BetterIn(found, S)
  BY <1>1, FirstExists
<1>3. \E c \in found : \A d \in found \ {c} : Better(c, d, S)
  BY <1>2 DEF BetterIn
<1>. QED
  BY <1>3 DEF Best

-----------------------------------------------------------------------------
(* A group of prices that nearly all rows of a status belong to *)

\* More than three quarters of some rows, whose prices are less than 80 apart
IsGroup(M, S, lo, hi) ==
    /\ M \subseteq S
    /\ lo \in Int /\ hi \in Int /\ lo <= hi /\ hi < lo + 80
    /\ \A r \in M : lo <= r.price /\ r.price <= hi
    /\ 4 * Cardinality(M) > 3 * Cardinality(S)

LEMMA GroupSize ==
    ASSUME NEW S, AreRows(S), NEW M, NEW lo, NEW hi, IsGroup(M, S, lo, hi)
    PROVE  /\ Cardinality(M) \in Nat /\ Cardinality(S) \in Nat
           /\ 0 < Cardinality(M) /\ Cardinality(M) <= Cardinality(S)
           /\ M # {} /\ S # {}
<1>1. IsFiniteSet(M) /\ Cardinality(M) <= Cardinality(S)
  BY FS_Subset DEF AreRows, IsGroup
<1>2. Cardinality(M) \in Nat /\ Cardinality(S) \in Nat /\ 4 * Cardinality(M) > 3 * Cardinality(S)
  BY <1>1, FS_CardinalityType DEF AreRows, IsGroup
<1>3. 0 < Cardinality(M) /\ Cardinality(S) # 0
  BY <1>1, <1>2
<1>. QED
  BY <1>1, <1>2, <1>3, FS_EmptySet

LEMMA GroupOfFewer ==
    ASSUME NEW S, AreRows(S), NEW M, NEW lo, NEW hi, IsGroup(M, S, lo, hi), NEW T, M \subseteq T, T \subseteq S
    PROVE  AreRows(T) /\ IsGroup(M, T, lo, hi)
<1>1. AreRows(T) /\ Cardinality(T) <= Cardinality(S)
  BY SomeRows, FS_Subset DEF AreRows
<1>2. Cardinality(T) \in Nat /\ Cardinality(S) \in Nat /\ Cardinality(M) \in Nat
  BY <1>1, GroupSize, FS_CardinalityType DEF AreRows
<1>3. 4 * Cardinality(M) > 3 * Cardinality(T)
  BY <1>1, <1>2 DEF IsGroup
<1>. QED
  BY <1>1, <1>3 DEF IsGroup

\* By price, the places of a group are enough to hold all but the ends.
LEMMA MiddleIsOfTheGroup ==
    ASSUME NEW S, AreRows(S), NEW M, NEW lo, NEW hi, IsGroup(M, S, lo, hi), NEW i \in 1..Cardinality(S)
    PROVE  /\ Prices(S)[i] \in Nat
           /\ i + Cardinality(M) > Cardinality(S) => lo <= Prices(S)[i]
           /\ i <= Cardinality(M) => Prices(S)[i] <= hi
<1>. DEFINE n == Cardinality(S)
            m == Cardinality(M)
            r == ByPrice(S)
            p == Prices(S)
            At(a, b) == {r[j] : j \in a..b}
<1>1. /\ n \in Nat /\ r \in [1..n -> S]
      /\ \A x \in S : \E j \in 1..n : r[j] = x
      /\ \A j \in 1..n : p[j] = r[j].price /\ p[j] \in Nat
      /\ \A j, k \in 1..n : j < k => p[j] <= p[k]
  <2>1. S # {}
    BY GroupSize
  <2>. QED
    BY <2>1, PricesAscend DEF Ascending
<1>2. m \in Nat /\ M \subseteq S /\ \A x \in M : lo <= x.price /\ x.price <= hi
  BY GroupSize DEF IsGroup
<1>3. lo \in Int /\ hi \in Int
  BY DEF IsGroup
<1>4. ASSUME NEW a \in Nat, NEW b \in Nat, 1 <= a, b <= n, a <= b + 1, M \subseteq At(a, b)
      PROVE  m <= b + 1 - a
  <2>. DEFINE places == a..b
              f == [j \in places |-> r[j]]
              T == {r[j] : j \in places}
  <2>1. IsFiniteSet(places) /\ Cardinality(places) = IF a > b THEN 0 ELSE b - a + 1
    BY FS_Interval
  <2>2. f \in Surjection(places, T)
    BY DEF Surjection
  <2>. HIDE DEF places, f
  <2>3. IsFiniteSet(T) /\ Cardinality(T) <= Cardinality(places)
    BY <2>1, <2>2, FS_Surjection
  <2>4. m <= Cardinality(T) /\ Cardinality(T) \in Nat
    <3>1. M \subseteq T
      BY <1>4 DEF places
    <3>. HIDE DEF T
    <3>. QED
      BY <2>3, <3>1, FS_Subset, FS_CardinalityType
  <2>5. Cardinality(places) = b + 1 - a
    BY <1>4, <2>1
  <2>. HIDE DEF T
  <2>. QED
    BY <1>2, <2>3, <2>4, <2>5
<1>. HIDE DEF n, m, r, p
<1>5. ASSUME i + m > n PROVE lo <= p[i]
  <2>1. SUFFICES ASSUME p[i] < lo PROVE FALSE
    BY <1>1, <1>3 DEF n
  <2>2. \A x \in M : \E j \in (i + 1)..n : r[j] = x
    <3>1. SUFFICES ASSUME NEW x \in M PROVE \E j \in (i + 1)..n : r[j] = x
      OBVIOUS
    <3>2. PICK j \in 1..n : r[j] = x
      BY <1>1, <1>2
    <3>3. i \in 1..n /\ p[i] \in Nat /\ p[j] \in Nat /\ lo <= p[j]
      BY <1>1, <1>2, <3>2 DEF n
    <3>4. ~(j < i) /\ j # i
      BY <1>1, <1>3, <2>1, <3>3
    <3>. QED
      BY <1>1, <3>2, <3>3, <3>4
  <2>3. M \subseteq At(i + 1, n)
    BY <2>2
  <2>4. i \in Nat /\ 1 <= i /\ i <= n
    BY <1>1 DEF n
  <2>5. m <= n + 1 - (i + 1)
    <3>. HIDE DEF At
    <3>1. i + 1 \in Nat /\ 1 <= i + 1 /\ n <= n /\ i + 1 <= n + 1
      BY <1>1, <2>4
    <3>. QED
      BY <1>1, <1>4, <2>3, <3>1
  <2>. QED
    BY <1>1, <1>2, <1>5, <2>4, <2>5
<1>6. ASSUME i <= m PROVE p[i] <= hi
  <2>1. SUFFICES ASSUME p[i] > hi PROVE FALSE
    BY <1>1, <1>3 DEF n
  <2>2. i \in Nat /\ 1 <= i /\ i <= n /\ i - 1 \in Nat
    BY <1>1 DEF n
  <2>3. \A x \in M : \E j \in 1..(i - 1) : r[j] = x
    <3>1. SUFFICES ASSUME NEW x \in M PROVE \E j \in 1..(i - 1) : r[j] = x
      OBVIOUS
    <3>2. PICK j \in 1..n : r[j] = x
      BY <1>1, <1>2
    <3>3. i \in 1..n /\ p[i] \in Nat /\ p[j] \in Nat /\ p[j] <= hi
      BY <1>1, <1>2, <3>2 DEF n
    <3>4. ~(i < j) /\ j # i
      BY <1>1, <1>3, <2>1, <3>3
    <3>. QED
      BY <1>1, <2>2, <3>2, <3>3, <3>4
  <2>4. M \subseteq At(1, i - 1)
    BY <2>3
  <2>5. m <= (i - 1) + 1 - 1
    <3>. HIDE DEF At
    <3>1. 1 \in Nat /\ 1 <= 1 /\ i - 1 <= n /\ 1 <= (i - 1) + 1
      BY <1>1, <2>2
    <3>. QED
      BY <1>4, <2>2, <2>4, <3>1
  <2>. QED
    BY <1>2, <1>6, <2>2, <2>5
<1>. QED
  BY <1>1, <1>5, <1>6 DEF n, m, p

\* A percentile is read where its lower place and, unless its weight is 0, its
\* upper place are those of the group.
LEMMA PercentilePlaces ==
    ASSUME NEW n \in Nat, NEW m \in Nat, m <= n, 4 * m > 3 * n, NEW q \in 1..3
    PROVE  LET l == ((n - 1) * q) \div 4
               w == ((n - 1) * q) % 4
           IN  /\ l + 1 + m > n /\ l + 1 <= m
               /\ w = 0 \/ l + 2 <= m
<1>1. n - 1 \in Nat
  OBVIOUS
<1>2. PICK t \in Nat : t = (n - 1) * q /\ n - 1 <= t /\ t <= 3 * (n - 1)
  <2>1. q = 1 \/ q = 2 \/ q = 3
    OBVIOUS
  <2>2. (n - 1) * 1 = n - 1 /\ (n - 1) * 2 = 2 * (n - 1) /\ (n - 1) * 3 = 3 * (n - 1)
    OBVIOUS
  <2>. QED
    BY <1>1, <2>1, <2>2
<1>3. PICK l \in Nat, w \in 0..3 : l = t \div 4 /\ w = t % 4 /\ t = 4 * l + w
  OBVIOUS
<1>4. l + 1 + m > n /\ l + 1 <= m /\ (w = 0 \/ l + 2 <= m)
  BY <1>1, <1>2, <1>3
<1>. QED
  BY <1>2, <1>3, <1>4

LEMMA PercentileIsOfTheGroup ==
    ASSUME NEW S, AreRows(S), NEW M, NEW lo, NEW hi, IsGroup(M, S, lo, hi), NEW q \in 1..3
    PROVE  /\ Percentile(Prices(S), q) \in Int
           /\ lo <= Percentile(Prices(S), q) /\ Percentile(Prices(S), q) <= hi
<1>. DEFINE n == Cardinality(S)
            m == Cardinality(M)
            p == Prices(S)
            l == Lower(p, q)
            w == Weight(p, q)
            u == Smaller(l + 2, n)
<1>1. n \in Nat /\ m \in Nat /\ 0 < m /\ m <= n /\ S # {} /\ 4 * m > 3 * n
  BY GroupSize DEF IsGroup
<1>2. Ascending(p) /\ Len(p) = n
  BY <1>1, PricesAscend
<1>3. /\ l \in 0..(n - 1) /\ w \in 0..3 /\ u \in 1..n /\ l + 1 \in 1..n
      /\ p[l + 1] \in Int /\ p[u] \in Int /\ p[l + 1] <= p[u]
      /\ Percentile(p, q) = Rounded(Between(p[l + 1], p[u], w), 4)
  BY <1>2, PercentileAt
<1>4. l + 1 + m > n /\ l + 1 <= m /\ (w = 0 \/ l + 2 <= m)
  BY <1>1, <1>2, PercentilePlaces DEF Lower, Weight
<1>. HIDE DEF n, m, p, l, w
<1>5. lo <= p[l + 1] /\ p[l + 1] <= hi
  BY <1>3, <1>4, MiddleIsOfTheGroup DEF n, m, p
<1>6. w = 0 \/ p[u] <= hi
  <2>1. CASE w # 0
    <3>1. u <= m
      BY <1>1, <1>3, <1>4, <2>1 DEF Smaller
    <3>. QED
      BY <1>3, <3>1, MiddleIsOfTheGroup DEF n, m, p
  <2>. QED
    BY <2>1
<1>. HIDE DEF u
<1>7. PICK a, b \in Int : a = p[l + 1] /\ b = p[u] /\ a <= b
  BY <1>3
<1>8. /\ Between(a, b, w) \in Int /\ 4 * a <= Between(a, b, w)
      /\ Between(a, b, w) <= 4 * hi
  <2>1. hi \in Int
    BY DEF IsGroup
  <2>2. CASE w = 0
    BY <1>5, <1>7, <2>1, <2>2, BetweenCases
  <2>3. CASE w # 0
    BY <1>3, <1>6, <1>7, <2>1, <2>3, BetweenBounds
  <2>. QED
    BY <2>2, <2>3
<1>9. /\ Rounded(4 * a, 4) <= Rounded(Between(a, b, w), 4)
      /\ Rounded(Between(a, b, w), 4) \in Int
      /\ Rounded(Between(a, b, w), 4) <= Rounded(4 * hi, 4)
  BY <1>7, <1>8, RoundedGrows DEF IsGroup
<1>10. Rounded(4 * a, 4) = a /\ Rounded(4 * hi, 4) = hi
  BY <1>7, RoundedExact DEF IsGroup
<1>. QED
  BY <1>3, <1>5, <1>7, <1>9, <1>10 DEF p, IsGroup

LEMMA MinGapIsWide ==
    ASSUME NEW center \in Int, NEW density
    PROVE  MinGap(center, density) \in Int /\ 120 <= MinGap(center, density)
<1>1. Rounded(center * 20, 1000) \in Int /\ Rounded(center * 18, 1000) \in Int
  <2>1. \A a \in Int : Rounded(a, 1000) \in Int
    BY DEF Rounded
  <2>2. center * 20 \in Int /\ center * 18 \in Int
    OBVIOUS
  <2>. QED
    BY <2>1, <2>2
<1>2. \A a \in Int : /\ Larger(140, a) \in Int /\ 120 <= Larger(140, a)
                     /\ Larger(120, a) \in Int /\ 120 <= Larger(120, a)
  BY DEF Larger
<1>. QED
  BY <1>1, <1>2 DEF MinGap

\* The rows of a group are near the middle.
LEMMA GroupIsNearTheMiddle ==
    ASSUME NEW S, AreRows(S), NEW M, NEW lo, NEW hi, IsGroup(M, S, lo, hi), NEW x \in M, NEW density
    PROVE  LET center == Median(Prices(S))
           IN  /\ Distance(x.price, center) < MinGap(center, density)
               /\ ~(Distance(x.price, center) >= MinGap(center, density))
<1>. DEFINE center == Median(Prices(S))
<1>1. center \in Int /\ lo <= center /\ center <= hi
  BY PercentileIsOfTheGroup DEF Median
<1>2. x.price \in Nat /\ lo <= x.price /\ x.price <= hi /\ lo \in Int /\ hi \in Int /\ hi < lo + 80
  BY DEF IsGroup, AreRows
<1>. HIDE DEF center
<1>3. Distance(x.price, center) \in Int /\ Distance(x.price, center) < 80
  BY <1>1, <1>2 DEF Distance
<1>4. MinGap(center, density) \in Int /\ 120 <= MinGap(center, density)
  BY <1>1, MinGapIsWide
<1>. QED
  BY <1>3, <1>4 DEF center

\* Some rows by price from one place to another, as WithoutTail takes them
Stretch(p, side) == [i \in 1..Cardinality(side) |-> p[Min(side) + i - 1]]

LEMMA StretchIsPrices ==
    ASSUME NEW p, Ascending(p), NEW a \in 1..Len(p), NEW b \in 1..Len(p), a <= b
    PROVE  Len(Stretch(p, a..b)) = b + 1 - a /\ Spread(Stretch(p, a..b)) \in Int
<1>. DEFINE side == a..b
            s == Stretch(p, side)
<1>1. Len(p) \in Nat /\ \A i \in 1..Len(p) : p[i] \in Nat
  BY DEF Ascending
<1>2. Cardinality(side) = b + 1 - a
  BY FS_Interval
<1>3. Min(side) = a
  <2>1. side \subseteq Int /\ a \in side /\ \A y \in side : a <= y
    OBVIOUS
  <2>. HIDE DEF side
  <2>. QED
    BY <2>1, MinIsLeast
<1>. HIDE DEF side
<1>4. s = [i \in 1..(b + 1 - a) |-> p[a + i - 1]]
  BY <1>2, <1>3 DEF Stretch
<1>5. \A i \in 1..(b + 1 - a) : a + i - 1 \in 1..Len(p)
  BY <1>1
<1>6. s \in [1..(b + 1 - a) -> Nat] /\ b + 1 - a \in Nat
  BY <1>1, <1>4, <1>5
<1>7. s \in Seq(Nat) /\ Len(s) = b + 1 - a
  BY <1>6
<1>. HIDE DEF s
<1>8. s[1] \in Nat /\ s[Len(s)] \in Nat
  <2>1. 1 \in 1..(b + 1 - a) /\ Len(s) \in 1..(b + 1 - a)
    BY <1>1, <1>7
  <2>. QED
    BY <1>6, <2>1
<1>. QED
  BY <1>7, <1>8 DEF Spread, s, side

LEMMA TailIsSmall ==
    ASSUME NEW minority, NEW majority, NEW gap \in Int, IsTail(minority, majority, gap),
           Spread(minority) \in Int, Spread(majority) \in Int, Len(minority) \in Nat, Len(majority) \in Nat
    PROVE  /\ gap >= 120
           /\ Len(minority) <= 2 \/ 3 * Len(minority) <= Len(minority) + Len(majority)
<1>1. gap >= Larger(120, Larger(2 * Spread(majority), 2 * Larger(20, Spread(minority))))
  BY DEF IsTail
<1>2. \A a, b \in Int : Larger(a, b) \in Int /\ Larger(a, b) >= a
  BY DEF Larger
<1>3. Larger(20, Spread(minority)) \in Int
  BY <1>2
<1>4. 2 * Spread(majority) \in Int /\ 2 * Larger(20, Spread(minority)) \in Int
  BY <1>3
<1>5. Larger(2 * Spread(majority), 2 * Larger(20, Spread(minority))) \in Int
  <2>. DEFINE a == 2 * Spread(majority)
              b == 2 * Larger(20, Spread(minority))
  <2>1. a \in Int /\ b \in Int
    BY <1>4
  <2>. HIDE DEF a, b
  <2>2. Larger(a, b) \in Int
    BY <1>2, <2>1
  <2>. QED
    BY <2>2 DEF a, b
<1>6. gap >= 120
  <2>. DEFINE wide == Larger(2 * Spread(majority), 2 * Larger(20, Spread(minority)))
  <2>1. wide \in Int
    BY <1>5
  <2>. HIDE DEF wide
  <2>2. gap >= Larger(120, wide)
    BY <1>1 DEF wide
  <2>3. Larger(120, wide) \in Int /\ Larger(120, wide) >= 120
    BY <2>1 DEF Larger
  <2>. QED
    BY <2>2, <2>3
<1>7. Len(minority) <= Larger(2, (Len(minority) + Len(majority)) \div 3)
  BY DEF IsTail
<1>8. Len(minority) <= 2 \/ Len(minority) <= (Len(minority) + Len(majority)) \div 3
  BY <1>7 DEF Larger
<1>9. \A a \in Nat, b \in Nat : a <= b \div 3 => 3 * a <= b
  OBVIOUS
<1>10. Len(minority) + Len(majority) \in Nat
  OBVIOUS
<1>. QED
  BY <1>6, <1>8, <1>9, <1>10

\* No group is cut off as a tail.
LEMMA TailIsNotOfTheGroup ==
    ASSUME NEW S, AreRows(S), Cardinality(S) >= 5, NEW M, NEW lo, NEW hi, IsGroup(M, S, lo, hi)
    PROVE  M \subseteq WithoutTail(ByPrice(S), Prices(S), WidestGap(Prices(S)))
<1>. DEFINE n == Cardinality(S)
            m == Cardinality(M)
            r == ByPrice(S)
            p == Prices(S)
            at == WidestGap(p)
<1>1. n \in Nat /\ m \in Nat /\ m <= n /\ S # {} /\ n >= 5 /\ 4 * m > 3 * n
  BY GroupSize DEF IsGroup
<1>2. /\ r \in [1..n -> S] /\ Ascending(p) /\ Len(p) = n
      /\ \A x \in S : \E j \in 1..n : r[j] = x
      /\ \A j \in 1..n : p[j] = r[j].price /\ p[j] \in Nat
      /\ \A j, k \in 1..n : j < k => p[j] <= p[k]
  <2>1. /\ Ascending(p) /\ Len(p) = n /\ r \in [1..n -> S]
        /\ \A x \in S : \E j \in 1..n : r[j] = x
        /\ \A j \in 1..n : p[j] = r[j].price
    BY <1>1, PricesAscend
  <2>. HIDE DEF n, m, r, p, at
  <2>2. (\A j \in 1..n : p[j] \in Nat) /\ \A j, k \in 1..n : j < k => p[j] <= p[k]
    BY <2>1 DEF Ascending
  <2>. QED
    BY <2>1, <2>2
<1>3. at \in 1..(n - 1)
  BY <1>1, <1>2, WidestGapExists
<1>4. lo \in Int /\ hi \in Int /\ hi < lo + 80 /\ M \subseteq S /\ \A x \in M : lo <= x.price /\ x.price <= hi
  BY DEF IsGroup
<1>. DEFINE lowTail == at <= n - at
            gap == p[at + 1] - p[at]
            left == 1..at
            right == at + 1..n
            minority == IF lowTail THEN left ELSE right
            majority == IF lowTail THEN right ELSE left
            tail == IsTail(Stretch(p, minority), Stretch(p, majority), gap)
<1>5. WithoutTail(r, p, at) = {r[i] : i \in IF tail THEN majority ELSE DOMAIN r}
  BY <1>2 DEF WithoutTail, Stretch
<1>. HIDE DEF n, m, r, p, at
<1>6. /\ at \in Nat /\ at \in 1..n /\ at + 1 \in 1..n /\ n \in 1..n /\ 1 \in 1..n
      /\ at + 1 <= n /\ 1 <= at
  BY <1>1, <1>3
<1>7. gap \in Int
  BY <1>2, <1>6
<1>8. /\ Len(Stretch(p, left)) = at /\ Spread(Stretch(p, left)) \in Int
      /\ Len(Stretch(p, right)) = n - at /\ Spread(Stretch(p, right)) \in Int
  <2>1. Len(Stretch(p, 1..at)) = at + 1 - 1 /\ Spread(Stretch(p, 1..at)) \in Int
    BY <1>2, <1>6, StretchIsPrices
  <2>2. Len(Stretch(p, at + 1..n)) = n + 1 - (at + 1) /\ Spread(Stretch(p, at + 1..n)) \in Int
    BY <1>2, <1>6, StretchIsPrices
  <2>. QED
    BY <1>1, <1>6, <2>1, <2>2
<1>9. ASSUME tail PROVE gap >= 120 /\ (IF lowTail THEN at ELSE n - at) < m
  <2>1. CASE lowTail
    <3>. HIDE DEF gap, left, right
    <3>1. gap >= 120 /\ (at <= 2 \/ 3 * at <= at + (n - at))
      <4>1. IsTail(Stretch(p, left), Stretch(p, right), gap)
        BY <1>9, <2>1
      <4>2. Len(Stretch(p, left)) \in Nat /\ Len(Stretch(p, right)) \in Nat
        BY <1>1, <1>6, <1>8
      <4>. QED
        BY <1>7, <1>8, <4>1, <4>2, TailIsSmall
    <3>2. at < m
      BY <1>1, <1>6, <3>1
    <3>. QED
      BY <2>1, <3>1, <3>2
  <2>2. CASE ~lowTail
    <3>. HIDE DEF gap, left, right
    <3>1. gap >= 120 /\ (n - at <= 2 \/ 3 * (n - at) <= (n - at) + at)
      <4>1. IsTail(Stretch(p, right), Stretch(p, left), gap)
        BY <1>9, <2>2
      <4>2. Len(Stretch(p, left)) \in Nat /\ Len(Stretch(p, right)) \in Nat
        BY <1>1, <1>6, <1>8
      <4>. QED
        BY <1>7, <1>8, <4>1, <4>2, TailIsSmall
    <3>2. n - at < m
      BY <1>1, <1>6, <3>1
    <3>. QED
      BY <2>2, <3>1, <3>2
  <2>. QED
    BY <2>1, <2>2
<1>10. lo \in Int /\ hi \in Int /\ \A i \in 1..n : (i + m > n => lo <= p[i]) /\ (i <= m => p[i] <= hi)
  BY <1>4, MiddleIsOfTheGroup DEF n, m, p
<1>11. ASSUME tail, NEW j \in 1..n, r[j] \in M PROVE j \in majority
  <2>1. p[j] \in Nat /\ lo <= p[j] /\ p[j] <= hi
    BY <1>2, <1>4, <1>11
  <2>2. CASE lowTail
    <3>1. p[at + 1] \in Nat /\ p[at] \in Nat
      BY <1>2, <1>6
    <3>2. at + 1 <= m
      BY <1>1, <1>6, <1>9, <1>11, <2>2
    <3>3. p[at + 1] <= hi
      BY <1>6, <1>10, <3>2
    <3>4. p[at] < lo
      BY <1>4, <1>9, <1>11, <3>1, <3>3
    <3>5. ~(j < at) /\ j # at
      BY <1>2, <1>4, <1>6, <2>1, <3>1, <3>4
    <3>. QED
      BY <1>1, <1>6, <2>2, <3>5
  <2>3. CASE ~lowTail
    <3>1. p[at + 1] \in Nat /\ p[at] \in Nat
      BY <1>2, <1>6
    <3>2. at + m > n
      BY <1>1, <1>6, <1>9, <1>11, <2>3
    <3>3. lo <= p[at]
      BY <1>6, <1>10, <3>2
    <3>4. hi < p[at + 1]
      BY <1>4, <1>9, <1>11, <3>1, <3>3
    <3>5. ~(at + 1 < j) /\ j # at + 1
      BY <1>2, <1>4, <1>6, <2>1, <3>1, <3>4
    <3>. QED
      BY <1>1, <1>6, <2>3, <3>5
  <2>. QED
    BY <2>2, <2>3
<1>. HIDE DEF tail, majority
<1>12. M \subseteq WithoutTail(r, p, at)
  <2>1. SUFFICES ASSUME NEW x \in M PROVE x \in WithoutTail(r, p, at)
    OBVIOUS
  <2>2. PICK j \in 1..n : r[j] = x
    BY <1>2, <1>4
  <2>3. DOMAIN r = 1..n
    BY <1>2
  <2>. QED
    BY <1>5, <1>11, <2>2, <2>3
<1>. QED
  BY <1>12 DEF r, p, at

\* Cleaning keeps the rows of a group.
LEMMA CleanKeepsTheGroup ==
    ASSUME NEW S, AreRows(S), NEW M, NEW lo, NEW hi, IsGroup(M, S, lo, hi)
    PROVE  M \subseteq CleanPriceRows(S)
<1>. DEFINE n == Cardinality(S)
            density == Density(n)
            floor == RetainedFloor(n)
            fenced(T) == Trimmed(TrimIqrRows(T, density), T, floor)
            tailed(T) == Trimmed(TrimClusterTailRows(T), T, floor)
            scored == Trimmed(TrimModifiedZscoreRows(S, density), S, floor)
<1>1. M \subseteq S /\ S # {}
  BY GroupSize DEF IsGroup
<1>2. n \in Nat /\ n # 0 /\ floor \in Nat /\ floor # 0
  BY <1>1, FS_CardinalityType, FS_EmptySet, FloorIsPositive DEF AreRows
<1>3. density \in {"sparse", "balanced", "dense"}
  BY DEF Density
<1>4. CleanPriceRows(S) = CASE density = "sparse"   -> S
                            [] density = "balanced" -> fenced(scored)
                            [] density = "dense"    -> tailed(fenced(scored))
  BY DEF CleanPriceRows
<1>5. \A T, U : M \subseteq T /\ M \subseteq U => M \subseteq Trimmed(T, U, floor)
  BY DEF Trimmed
<1>. HIDE DEF n, density, floor
<1>6. M \subseteq scored /\ scored \subseteq S
  <2>1. \A x \in M : ~(Distance(x.price, Median(Prices(S))) >= MinGap(Median(Prices(S)), density))
    BY GroupIsNearTheMiddle
  <2>2. M \subseteq TrimModifiedZscoreRows(S, density) /\ TrimModifiedZscoreRows(S, density) \subseteq S
    BY <1>1, <2>1 DEF TrimModifiedZscoreRows
  <2>3. scored \subseteq S
    BY <1>1, <1>2, <2>2, TrimmedIsPart DEF AreRows
  <2>. QED
    BY <1>1, <1>5, <2>2, <2>3
<1>7. ASSUME NEW T, M \subseteq T, T \subseteq S PROVE M \subseteq fenced(T) /\ fenced(T) \subseteq T
  <2>1. AreRows(T) /\ IsGroup(M, T, lo, hi)
    BY <1>7, GroupOfFewer
  <2>2. \A x \in M : Distance(x.price, Median(Prices(T))) < MinGap(Median(Prices(T)), density)
    BY <2>1, GroupIsNearTheMiddle
  <2>3. M \subseteq TrimIqrRows(T, density) /\ TrimIqrRows(T, density) \subseteq T
    BY <1>7, <2>2 DEF TrimIqrRows
  <2>4. fenced(T) \subseteq T
    BY <1>2, <2>1, <2>3, GroupSize, TrimmedIsPart DEF AreRows
  <2>. QED
    BY <1>5, <1>7, <2>3, <2>4
<1>8. ASSUME NEW T, M \subseteq T, T \subseteq S PROVE M \subseteq tailed(T)
  <2>1. AreRows(T) /\ IsGroup(M, T, lo, hi) /\ Cardinality(T) \in Nat
    <3>1. AreRows(T) /\ IsGroup(M, T, lo, hi)
      BY <1>8, GroupOfFewer
    <3>. QED
      BY <3>1, FS_CardinalityType DEF AreRows
  <2>2. M \subseteq TrimClusterTailRows(T)
    <3>1. CASE Cardinality(T) < 5
      BY <1>8, <3>1 DEF TrimClusterTailRows
    <3>2. CASE ~(Cardinality(T) < 5)
      <4>1. Cardinality(T) >= 5
        BY <2>1, <3>2
      <4>. QED
        BY <2>1, <3>2, <4>1, TailIsNotOfTheGroup DEF TrimClusterTailRows
    <3>. QED
      BY <3>1, <3>2
  <2>. QED
    BY <1>5, <1>8, <2>2
<1>. HIDE DEF scored, fenced, tailed
<1>9. M \subseteq fenced(scored) /\ fenced(scored) \subseteq S
  BY <1>6, <1>7
<1>10. M \subseteq tailed(fenced(scored))
  BY <1>8, <1>9
<1>. QED
  BY <1>1, <1>3, <1>4, <1>9, <1>10

LEMMA ThresholdIsWide ==
    ASSUME NEW p, Percentile(p, 1) \in Int, Percentile(p, 2) \in Int, Percentile(p, 3) \in Int
    PROVE  PriceGapThreshold(p) \in Int /\ 80 <= PriceGapThreshold(p)
<1>1. \A a \in Int : Rounded(a, 1000) \in Int /\ Rounded(a, 10) \in Int
  BY DEF Rounded
<1>2. PICK u, v \in Int : u = Rounded(Median(p) * 12, 1000) /\ v = Rounded(InterquartileRange(p) * 15, 10)
  <2>1. Median(p) * 12 \in Int /\ InterquartileRange(p) * 15 \in Int
    BY DEF Median, InterquartileRange
  <2>. QED
    BY <1>1, <2>1
<1>3. PriceGapThreshold(p) = Larger(80, Larger(u, v))
  BY <1>2 DEF PriceGapThreshold
<1>. QED
  BY <1>3 DEF Larger

\* The rows of a group are in one cluster.
LEMMA GroupIsInACluster ==
    ASSUME NEW S, AreRows(S), NEW M, NEW lo, NEW hi, IsGroup(M, S, lo, hi)
    PROVE  \E c \in SplitPriceClusters(S) : M \subseteq c
<1>. DEFINE n == Cardinality(S)
            r == ByPrice(S)
            p == Prices(S)
            cut(k) == Len(p) > 2 /\ p[k + 1] - p[k] >= PriceGapThreshold(p)
            together(i, j) == \A k \in Smaller(i, j)..(Larger(i, j) - 1) : ~cut(k)
            part(i) == {r[j] : j \in {j \in DOMAIN r : together(i, j)}}
<1>1. SplitPriceClusters(S) = {part(i) : i \in DOMAIN r}
  BY DEF SplitPriceClusters
<1>2. M # {} /\ S # {}
  BY GroupSize
<1>3. /\ n \in Nat /\ r \in [1..n -> S]
      /\ \A x \in S : \E j \in 1..n : r[j] = x
      /\ \A j \in 1..n : p[j] = r[j].price
      /\ Ascending(p) /\ Len(p) = n
  BY <1>2, PricesAscend
<1>4. PriceGapThreshold(p) \in Int /\ 80 <= PriceGapThreshold(p)
  <2>1. Percentile(p, 1) \in Int /\ Percentile(p, 2) \in Int /\ Percentile(p, 3) \in Int
    BY PercentileIsOfTheGroup
  <2>. HIDE DEF p
  <2>. QED
    BY <2>1, ThresholdIsWide
<1>5. lo \in Int /\ hi \in Int /\ hi < lo + 80 /\ M \subseteq S /\ \A x \in M : lo <= x.price /\ x.price <= hi
  BY DEF IsGroup
<1>. HIDE DEF n, r, p
<1>6. (\A j \in 1..n : p[j] \in Nat) /\ \A j, k \in 1..n : j < k => p[j] <= p[k]
  BY <1>3 DEF Ascending
<1>7. ASSUME NEW i \in 1..n, NEW j \in 1..n, r[i] \in M, r[j] \in M PROVE together(i, j)
  <2>1. SUFFICES ASSUME NEW k \in Smaller(i, j)..(Larger(i, j) - 1) PROVE ~cut(k)
    OBVIOUS
  <2>2. PICK a \in 1..n, b \in 1..n : a = Smaller(i, j) /\ b = Larger(i, j) /\ r[a] \in M /\ r[b] \in M
    BY <1>7 DEF Smaller, Larger
  <2>3. k \in 1..n /\ k + 1 \in 1..n /\ a <= k /\ k + 1 <= b
    BY <1>3, <2>1, <2>2
  <2>4. p[a] <= p[k] /\ p[k + 1] <= p[b]
    <3>1. (a < k \/ a = k) /\ (k + 1 < b \/ k + 1 = b)
      BY <2>3
    <3>. QED
      BY <1>6, <2>2, <2>3, <3>1
  <2>5. lo <= p[a] /\ p[b] <= hi
    BY <1>3, <1>5, <2>2
  <2>6. p[a] \in Nat /\ p[b] \in Nat /\ p[k] \in Nat /\ p[k + 1] \in Nat
    BY <1>6, <2>2, <2>3
  <2>7. p[k + 1] - p[k] < 80
    BY <1>5, <2>4, <2>5, <2>6
  <2>. QED
    BY <1>4, <2>6, <2>7
<1>. HIDE DEF together
<1>8. PICK x \in M : TRUE
  BY <1>2
<1>9. PICK i \in 1..n : r[i] = x
  BY <1>3, <1>5, <1>8
<1>10. M \subseteq part(i)
  <2>1. SUFFICES ASSUME NEW y \in M PROVE y \in part(i)
    OBVIOUS
  <2>2. PICK j \in 1..n : r[j] = y
    BY <1>3, <1>5
  <2>3. together(i, j)
    BY <1>7, <1>8, <1>9, <2>2
  <2>4. j \in DOMAIN r
    BY <1>3, <2>2
  <2>. QED
    BY <2>2, <2>3, <2>4
<1>11. part(i) \in SplitPriceClusters(S)
  BY <1>1, <1>3, <1>9
<1>. QED
  BY <1>10, <1>11

\* The market of a cluster that is nearly the group, and its spread
LEMMA IntervalOfTheGroup ==
    ASSUME NEW S, AreRows(S), NEW M, NEW lo, NEW hi, IsGroup(M, S, lo, hi)
    PROVE  LET p == Prices(S) IN
           /\ Median(p) \in Int /\ lo <= Median(p) /\ Median(p) <= hi
           /\ Len(p) = Cardinality(S)
           /\ Interval(p)[1] \in Int /\ lo <= Interval(p)[1] /\ Interval(p)[1] <= hi
           /\ Interval(p)[2] \in Int /\ lo <= Interval(p)[2] /\ Interval(p)[2] <= hi
<1>. DEFINE n == Cardinality(S)
            m == Cardinality(M)
            p == Prices(S)
<1>1. n \in Nat /\ m \in Nat /\ 0 < m /\ m <= n /\ S # {} /\ 4 * m > 3 * n
  BY GroupSize DEF IsGroup
<1>2. Len(p) = n
  BY <1>1, PricesAscend
<1>3. \A q \in 1..3 : Percentile(p, q) \in Int /\ lo <= Percentile(p, q) /\ Percentile(p, q) <= hi
  BY PercentileIsOfTheGroup
<1>4. ASSUME n <= 3
      PROVE  /\ p[1] \in Nat /\ lo <= p[1] /\ p[1] <= hi
             /\ p[n] \in Nat /\ lo <= p[n] /\ p[n] <= hi
  <2>1. 1 \in 1..n /\ n \in 1..n /\ 1 + m > n /\ n + m > n /\ 1 <= m /\ n <= m
    BY <1>1, <1>4
  <2>. QED
    BY <2>1, MiddleIsOfTheGroup
<1>. HIDE DEF n, m, p
<1>5. /\ Interval(p)[1] \in Int /\ lo <= Interval(p)[1] /\ Interval(p)[1] <= hi
      /\ Interval(p)[2] \in Int /\ lo <= Interval(p)[2] /\ Interval(p)[2] <= hi
  <2>1. CASE n <= 3
    <3>1. Interval(p) = <<p[1], p[n]>>
      BY <1>2, <2>1 DEF Interval
    <3>. QED
      BY <1>4, <2>1, <3>1
  <2>2. CASE ~(n <= 3)
    <3>1. Interval(p) = <<Percentile(p, 1), Percentile(p, 3)>>
      BY <1>2, <2>2 DEF Interval
    <3>. QED
      BY <1>3, <3>1
  <2>. QED
    BY <2>1, <2>2
<1>. QED
  BY <1>2, <1>3, <1>5 DEF Median, n, p

\* The parts of a score
Penalty(n) == IF n = 1 THEN 14 ELSE IF n = 2 THEN 6 ELSE 0

\* A candidate that is nearly the group outscores every smaller one, unless
\* they differ in more than the priority of exact and nationwide quotes.
LEMMA GroupOutscores ==
    ASSUME NEW S, AreRows(S), NEW M, NEW lo, NEW hi, IsGroup(M, S, lo, hi),
           NEW T, AreRows(T), T # {}, Cardinality(T) < Cardinality(M),
           NEW brand, NEW s, NEW t, StatusPriority(brand, t) <= StatusPriority(brand, s) + 6,
           NEW reference \in Nat, reference = 0 \/ (lo <= reference /\ reference <= hi)
    PROVE  CandidateScore(Prices(S), brand, s, reference) > CandidateScore(Prices(T), brand, t, reference)
<1>. DEFINE p == Prices(S)
            u == Prices(T)
            spread(x) == Interval(x)[2] - Interval(x)[1]
            far(x) == IF reference = 0 THEN 0 ELSE 2 * Smaller(Distance(Median(x), reference), 2000)
            base(x, y) == 90 * (14 * Len(x) + StatusPriority(brand, y) - Penalty(Len(x)))
<1>1. \A x, y : CandidateScore(x, brand, y, reference) = base(x, y) - 5 * Smaller(spread(x), 1600) - far(x)
  BY DEF CandidateScore, Penalty
<1>2. /\ Median(p) \in Int /\ lo <= Median(p) /\ Median(p) <= hi /\ Len(p) = Cardinality(S)
      /\ Interval(p)[1] \in Int /\ lo <= Interval(p)[1] /\ Interval(p)[1] <= hi
      /\ Interval(p)[2] \in Int /\ lo <= Interval(p)[2] /\ Interval(p)[2] <= hi
  BY IntervalOfTheGroup
<1>3. /\ Median(u) \in Int /\ Interval(u)[1] \in Int /\ Interval(u)[2] \in Int
      /\ Interval(u)[1] <= Interval(u)[2] /\ Len(u) = Cardinality(T)
  <2>1. Len(u) = Cardinality(T)
    BY PricesAscend
  <2>. DEFINE c == PriceCandidate(T, u, brand, t, reference)
  <2>2. c.market \in Int /\ c.low \in Int /\ c.high \in Int /\ c.low <= c.market /\ c.market <= c.high
    BY CandidateRange
  <2>3. c.market = Median(u) /\ c.low = Interval(u)[1] /\ c.high = Interval(u)[2]
    BY DEF PriceCandidate
  <2>. HIDE DEF c, u
  <2>. QED
    BY <2>1, <2>2, <2>3
<1>4. /\ Cardinality(M) \in Nat /\ Cardinality(S) \in Nat /\ Cardinality(M) <= Cardinality(S)
      /\ Cardinality(T) \in Nat /\ Cardinality(T) # 0
  BY GroupSize, FS_CardinalityType, FS_EmptySet DEF AreRows
<1>5. lo \in Int /\ hi \in Int /\ hi < lo + 80
  BY DEF IsGroup
<1>6. \A y : StatusPriority(brand, y) \in Int
  BY DEF StatusPriority
<1>. HIDE DEF p, u
<1>7. PICK n, k, a, b \in Int :
        /\ n = Len(p) /\ k = Len(u) /\ 1 <= k /\ k < n
        /\ a = StatusPriority(brand, s) /\ b = StatusPriority(brand, t) /\ b <= a + 6
  BY <1>2, <1>3, <1>4, <1>6
<1>8. Penalty(n) \in Int /\ Penalty(k) \in Int /\ Penalty(n) <= Penalty(k)
  BY <1>7 DEF Penalty
<1>9. base(p, s) \in Int /\ base(u, t) \in Int /\ base(p, s) >= base(u, t) + 720
  <2>1. base(p, s) = 90 * (14 * n + a - Penalty(n)) /\ base(u, t) = 90 * (14 * k + b - Penalty(k))
    BY <1>7
  <2>. HIDE DEF base
  <2>2. PICK e, f \in Int : e = Penalty(n) /\ f = Penalty(k) /\ e <= f
    BY <1>8
  <2>3. \A v, w \in Int : v >= w + 8 => 90 * v \in Int /\ 90 * w \in Int /\ 90 * v >= 90 * w + 720
    OBVIOUS
  <2>4. 14 * n + a - e \in Int /\ 14 * k + b - f \in Int /\ 14 * n + a - e >= (14 * k + b - f) + 8
    <3>1. e \in Int /\ f \in Int /\ e <= f /\ n \in Int /\ k \in Int /\ k < n /\ a \in Int /\ b \in Int /\ b <= a + 6
      BY <1>7, <2>2
    <3>2. k + 1 <= n /\ b - 6 <= a
      BY <3>1
    <3>. QED
      BY <3>1, <3>2
  <2>5. 90 * (14 * n + a - e) \in Int /\ 90 * (14 * k + b - f) \in Int
        /\ 90 * (14 * n + a - e) >= 90 * (14 * k + b - f) + 720
    BY <2>3, <2>4
  <2>. QED
    BY <2>1, <2>2, <2>5
<1>10. Smaller(spread(p), 1600) \in Int /\ Smaller(spread(p), 1600) <= 79
  BY <1>2, <1>5 DEF Smaller
<1>11. Smaller(spread(u), 1600) \in Int /\ 0 <= Smaller(spread(u), 1600)
  BY <1>3 DEF Smaller
<1>12. far(p) \in Int /\ far(p) <= 158
  BY <1>2, <1>5 DEF Smaller, Distance
<1>13. far(u) \in Int /\ 0 <= far(u)
  BY <1>3 DEF Smaller, Distance
<1>. HIDE DEF base, spread, far
<1>14. CandidateScore(p, brand, s, reference) > CandidateScore(u, brand, t, reference)
  BY <1>1, <1>9, <1>10, <1>11, <1>12, <1>13
<1>. QED
  BY <1>14 DEF p, u

\* A group that is the majority makes the market of its day.
LEMMA MajorityOfTheDay ==
    ASSUME NEW S, AreRows(S), NEW brand, NEW reference \in Nat,
           \A r \in S : brand = "apple" => r.status \in {"exact", "nationwide"},
           NEW s, NEW M, NEW lo, NEW hi, IsGroup(M, OfStatus(S, s), lo, hi),
           2 * Cardinality(M) > Cardinality(S),
           reference = 0 \/ (lo <= reference /\ reference <= hi)
    PROVE  LET m == MarketOfDay(S, brand, reference)
           IN  m.market \in Int /\ lo <= m.market /\ m.market <= hi
<1>. DEFINE rows == OfStatus(S, s)
            found == Candidates(S, brand, reference)
            best == Best(found, S)
<1>1. rows \subseteq S /\ AreRows(rows) /\ \A x \in rows : x.status = s
  BY SomeRows DEF OfStatus
<1>2. M \subseteq rows /\ M # {} /\ Cardinality(M) \in Nat
  BY <1>1, GroupSize DEF IsGroup
<1>3. S # {} /\ s \in {r.status : r \in S}
  BY <1>1, <1>2
<1>4. found # {} /\ AreCandidates(found, S, brand, reference)
  BY <1>3, CandidatesOfRows DEF AreCandidates
<1>5. best \in found /\ \A d \in found \ {best} : Better(best, d, S)
  BY <1>4, BestIsFound
<1>6. MarketOfDay(S, brand, reference).market = best.market
  BY <1>4 DEF MarketOfDay, MarketOfCandidates, Best, Market
<1>. DEFINE kept == CleanPriceRows(rows)
<1>7. M \subseteq kept /\ kept \subseteq rows
  BY <1>1, <1>2, CleanKeepsTheGroup, CleanIsPart
<1>8. AreRows(kept) /\ IsGroup(M, kept, lo, hi)
  BY <1>1, <1>7, GroupOfFewer
<1>9. PICK T \in SplitPriceClusters(kept) : M \subseteq T
  BY <1>8, GroupIsInACluster
<1>10. T \subseteq kept /\ T # {}
  <2>1. kept # {}
    BY <1>2, <1>7
  <2>. QED
    BY <1>8, <2>1, ClustersArePartition
<1>11. AreRows(T) /\ IsGroup(M, T, lo, hi)
  BY <1>8, <1>9, <1>10, GroupOfFewer
<1>. DEFINE c == PriceCandidate(T, Prices(T), brand, s, reference)
<1>12. c \in found
  <2>1. found = UNION {{PriceCandidate(x, Prices(x), brand, y, reference)
                        : x \in SplitPriceClusters(CleanPriceRows(OfStatus(S, y)))} : y \in {r.status : r \in S}}
    BY DEF Candidates, OfStatus
  <2>. HIDE DEF found
  <2>2. c \in {PriceCandidate(x, Prices(x), brand, s, reference) : x \in SplitPriceClusters(kept)}
    BY <1>9
  <2>. QED
    BY <1>3, <2>1, <2>2
<1>13. /\ c.rows = T /\ c.status = s /\ c.market = Median(Prices(T))
       /\ c.score = CandidateScore(Prices(T), brand, s, reference)
  BY DEF PriceCandidate
<1>14. c.market \in Int /\ lo <= c.market /\ c.market <= hi
  BY <1>11, <1>13, IntervalOfTheGroup
<1>. HIDE DEF found, best, kept, c
<1>15. best = c
  <2>1. SUFFICES ASSUME best # c PROVE FALSE
    OBVIOUS
  <2>. DEFINE d == best
              U == d.rows
              t == d.status
  <2>2. /\ t \in {r.status : r \in S} /\ U \subseteq OfStatus(S, t) /\ U # {}
        /\ d = PriceCandidate(U, Prices(U), brand, t, reference)
    BY <1>4, <1>5 DEF AreCandidates, IsCandidate
  <2>3. U \cap M = {}
    <3>1. CASE t = s
      BY <1>4, <1>5, <1>9, <1>12, <1>13, <2>1, <3>1 DEF AreCandidates
    <3>2. CASE t # s
      BY <1>1, <1>2, <2>2, <3>2 DEF OfStatus
    <3>. QED
      BY <3>1, <3>2
  <2>4. U \subseteq S /\ AreRows(U)
    BY <2>2, SomeRows DEF OfStatus
  <2>5. Cardinality(U) < Cardinality(M)
    <3>1. IsFiniteSet(U) /\ IsFiniteSet(M) /\ IsFiniteSet(S)
      BY <1>1, <1>2, <2>4, FS_Subset DEF AreRows
    <3>2. Cardinality(U \cup M) = Cardinality(U) + Cardinality(M) - Cardinality(U \cap M)
      BY <3>1, FS_Union
    <3>3. Cardinality(U \cup M) <= Cardinality(S)
      BY <1>1, <1>2, <2>4, <3>1, FS_Subset
    <3>4. Cardinality(U) \in Nat /\ Cardinality(S) \in Nat /\ Cardinality(U \cup M) \in Nat /\ Cardinality(U \cap M) = 0
      BY <2>3, <3>1, FS_CardinalityType, FS_EmptySet, FS_Union
    <3>. QED
      BY <1>2, <3>2, <3>3, <3>4
  <2>6. StatusPriority(brand, t) <= StatusPriority(brand, s) + 6
    BY <1>3, <2>2 DEF StatusPriority
  <2>7. d.score = CandidateScore(Prices(U), brand, t, reference)
    <3>. HIDE DEF U, t, d
    <3>1. \A V, v : PriceCandidate(V, Prices(V), brand, v, reference).score = CandidateScore(Prices(V), brand, v, reference)
      BY DEF PriceCandidate
    <3>. QED
      BY <2>2, <3>1
  <2>8. c.score > d.score
    <3>. HIDE DEF U, t, d
    <3>. QED
      BY <1>11, <1>13, <2>2, <2>4, <2>5, <2>6, <2>7, GroupOutscores
  <2>9. c.score \in Int /\ d.score \in Int
    <3>. HIDE DEF U, t, d
    <3>1. \A V, v : AreRows(V) /\ V # {} => PriceCandidate(V, Prices(V), brand, v, reference).score \in Int
      BY CandidateRange
    <3>. QED
      BY <1>10, <1>11, <2>2, <2>4, <3>1 DEF c
  <2>10. Better(d, c, S)
    BY <1>5, <1>12, <2>1
  <2>11. d.score >= c.score
    BY <2>9, <2>10 DEF Better
  <2>. QED
    BY <2>8, <2>9, <2>11
<1>. QED
  BY <1>6, <1>14, <1>15

-----------------------------------------------------------------------------
(* The market *)

LEMMA MarketOfDayIsOfRows ==
    ASSUME NEW S, AreRows(S), S # {}, NEW brand, NEW reference \in Nat
    PROVE  LET m == MarketOfDay(S, brand, reference)
           IN  /\ m.ok = TRUE
               /\ m.market \in Int /\ m.low \in Int /\ m.high \in Int
               /\ 0 <= m.low /\ m.low <= m.market /\ m.market <= m.high
               /\ \E r \in S : r.price <= m.market
               /\ \E r \in S : r.price >= m.market
               /\ m.samples \in 1..Cardinality(S)
               /\ \E r \in S : m.day = r.day
<1>. DEFINE found == Candidates(S, brand, reference)
            best == Best(found, S)
            m == MarketOfDay(S, brand, reference)
<1>1. found # {} /\ AreCandidates(found, S, brand, reference)
  BY CandidatesOfRows DEF AreCandidates
<1>2. best \in found
  BY <1>1, BestIsFound
<1>3. m = Market(best, found, S, reference)
  BY <1>1 DEF MarketOfDay, MarketOfCandidates, Best
<1>. HIDE DEF found, best
<1>4. /\ best.rows # {} /\ best.rows \subseteq S
      /\ best = PriceCandidate(best.rows, Prices(best.rows), brand, best.status, reference)
  BY <1>1, <1>2 DEF AreCandidates, IsCandidate, OfStatus
<1>5. AreRows(best.rows)
  BY <1>4, SomeRows
<1>6. /\ best.market \in Int /\ best.low \in Int /\ best.high \in Int
      /\ best.low <= best.market /\ best.market <= best.high
      /\ \E r \in best.rows : r.price <= best.low
      /\ \E r \in best.rows : best.high <= r.price
  <2>1. PICK T, s : T = best.rows /\ s = best.status
    OBVIOUS
  <2>2. best = PriceCandidate(T, Prices(T), brand, s, reference) /\ AreRows(T) /\ T # {}
    BY <1>4, <1>5, <2>1
  <2>3. /\ best.market \in Int /\ best.low \in Int /\ best.high \in Int
        /\ best.low <= best.market /\ best.market <= best.high
        /\ \E r \in T : r.price <= best.low
        /\ \E r \in T : best.high <= r.price
    BY <2>2, CandidateRange
  <2>. QED
    BY <2>1, <2>3
<1>7. PICK f, z \in S : f.price <= best.low /\ best.high <= z.price
  BY <1>4, <1>6
<1>8. f.price \in Nat /\ z.price \in Nat
  BY DEF AreRows
<1>9. Cardinality(best.rows) \in 1..Cardinality(S)
  <2>1. IsFiniteSet(S) /\ IsFiniteSet(best.rows)
    BY <1>5 DEF AreRows
  <2>2. Cardinality(best.rows) \in Nat /\ Cardinality(best.rows) # 0 /\ Cardinality(S) \in Nat
    BY <1>4, <2>1, FS_CardinalityType, FS_EmptySet
  <2>3. Cardinality(best.rows) <= Cardinality(S)
    BY <1>4, <2>1, FS_Subset
  <2>. QED
    BY <2>2, <2>3
<1>10. PICK d \in S : (CHOOSE r \in S : TRUE) = d
  OBVIOUS
<1>11. /\ m.ok = TRUE /\ m.market = best.market /\ m.low = best.low /\ m.high = best.high
       /\ m.samples = Cardinality(best.rows) /\ m.day = d.day
  <2>. DEFINE w == Market(best, found, S, reference)
  <2>1. /\ w.ok = TRUE /\ w.market = best.market /\ w.low = best.low /\ w.high = best.high
        /\ w.samples = Cardinality(best.rows)
    BY DEF Market
  <2>2. w.day = (CHOOSE r \in S : TRUE).day
    BY DEF Market
  <2>3. m = w
    BY <1>3
  <2>. HIDE DEF w, m
  <2>. QED
    BY <1>10, <2>1, <2>2, <2>3
<1>. HIDE DEF m
<1>12. /\ m.market \in Int /\ m.low \in Int /\ m.high \in Int
       /\ 0 <= m.low /\ m.low <= m.market /\ m.market <= m.high
       /\ f.price <= m.market /\ z.price >= m.market
  BY <1>6, <1>7, <1>8, <1>11
<1>13. m.samples \in 1..Cardinality(S)
  BY <1>9, <1>11
<1>. QED
  BY <1>11, <1>12, <1>13 DEF m

\* The quotes of an article that count
Counting(rows, brand) ==
    {q \in rows : /\ \A p \in rows \ {q} : p.seller = q.seller => Newer(q, p)
                 /\ q.numeric /\ q.status \notin {"subsidised", "regional", "opened"}
                 /\ (brand = "apple" => q.status \in {"exact", "nationwide"})}

LEMMA EligibleRowsCount ==
    ASSUME NEW rows, NEW brand
    PROVE  /\ NumericRows(FilterTargetRows(DedupeLatestRows(rows), brand)) = Counting(rows, brand)
           /\ \A q \in Counting(rows, brand) : ConditionBucket(brand, q.status) \in TargetBuckets
<1>1. \A s : /\ s \notin {"subsidised", "regional"} /\ ConditionBucket(brand, s) \in TargetBuckets
             <=> s \notin {"subsidised", "regional", "opened"} /\ (brand = "apple" => s \in {"exact", "nationwide"})
  BY DEF ConditionBucket, TargetBuckets
<1>. QED
  BY <1>1 DEF NumericRows, FilterTargetRows, DedupeLatestRows, Counting

\* A market exists exactly if a quote counts; it is the market of the day of
\* the newest one, of no more samples than there are merchants.
LEMMA MarketIsOfTheLatestDay ==
    ASSUME NEW rows, AreRows(rows), NEW brand, NEW reference \in Nat
    PROVE  LET m == QualityMarket(rows, brand, reference)
               words == Counting(rows, brand)
           IN  /\ words = {} => m.ok = FALSE
               /\ words # {} =>
                    /\ m.ok = TRUE
                    /\ m.market \in Int /\ m.low \in Int /\ m.high \in Int
                    /\ 0 <= m.low /\ m.low <= m.market /\ m.market <= m.high
                    /\ m.samples \in 1..Cardinality({q.seller : q \in rows})
                    /\ \E n \in words :
                        /\ Newest(n, words) /\ m.day = n.day
                        /\ m = MarketOfDay({r \in words : r.day = n.day}, brand, reference)
                        /\ \E r \in words : r.day = n.day /\ r.price <= m.market
                        /\ \E r \in words : r.day = n.day /\ r.price >= m.market
<1>. DEFINE m == QualityMarket(rows, brand, reference)
            words == Counting(rows, brand)
            latest == DedupeLatestRows(rows)
            sellers == {q.seller : q \in rows}
<1>1. words = NumericRows(FilterTargetRows(latest, brand))
  BY EligibleRowsCount
<1>2. words \subseteq rows /\ words \subseteq NumericRows(latest)
  BY DEF Counting, NumericRows, DedupeLatestRows
<1>3. CASE words = {}
  BY <1>1, <1>3 DEF QualityMarket, MarketOfLatest, MarketOfEligible, NoMarket
<1>4. CASE words # {}
  <2>1. AreRows(words)
    BY <1>2, SomeRows
  <2>2. PICK n \in words : Newest(n, words)
    BY <1>4, <2>1, NewestExists
  <2>. DEFINE day == {r \in words : r.day = n.day}
  <2>3. SelectRecentDayWindow(words, 1, 1) = day
    BY <2>1, <2>2, LatestDayIsSelected
  <2>4. m = MarketOfDay(day, brand, reference)
    BY <1>1, <1>2, <1>4, <2>3 DEF QualityMarket, MarketOfLatest, MarketOfEligible
  <2>5. AreRows(day) /\ day # {}
    BY <2>1, SomeRows
  <2>. HIDE DEF words, m
  <2>7. Cardinality(day) <= Cardinality(sellers) /\ IsFiniteSet(sellers)
    <3>1. IsFiniteSet(sellers)
      <4>. DEFINE g == [q \in rows |-> q.seller]
      <4>1. g \in Surjection(rows, sellers)
        BY DEF Surjection
      <4>. QED
        BY <4>1, FS_Surjection DEF AreRows
    <3>. DEFINE f == [r \in day |-> r.seller]
    <3>2. \A r, q \in words : r.seller = q.seller => r = q
      <4>1. \A r, q \in rows : ~(Newer(r, q) /\ Newer(q, r))
        BY NewerTotal
      <4>. QED
        BY <1>2, <4>1 DEF Counting, words
    <3>3. f \in Injection(day, sellers)
      <4>1. f \in [day -> sellers]
        BY <1>2
      <4>. QED
        BY <3>2, <4>1 DEF Injection, IsInjective
    <3>. QED
      BY <3>1, <3>3, FS_Injection
  <2>. HIDE DEF day
  <2>8. /\ m.ok = TRUE /\ m.market \in Int /\ m.low \in Int /\ m.high \in Int
        /\ 0 <= m.low /\ m.low <= m.market /\ m.market <= m.high
        /\ \E r \in day : r.price <= m.market
        /\ \E r \in day : r.price >= m.market
        /\ m.samples \in 1..Cardinality(day)
        /\ \E r \in day : m.day = r.day
    BY <2>4, <2>5, MarketOfDayIsOfRows
  <2>9. Cardinality(day) \in Nat /\ Cardinality(sellers) \in Nat
    BY <2>5, <2>7, FS_CardinalityType DEF AreRows
  <2>10. m.samples \in 1..Cardinality(sellers)
    BY <2>7, <2>8, <2>9
  <2>11. \A r \in day : r \in words /\ r.day = n.day
    BY DEF day
  <2>12. m = MarketOfDay({r \in words : r.day = n.day}, brand, reference)
    BY <2>4 DEF day
  <2>. QED
    BY <1>4, <2>2, <2>8, <2>10, <2>11, <2>12 DEF words, m
<1>. QED
  BY <1>3, <1>4

-----------------------------------------------------------------------------
(* What a run publishes *)

PricedBy(run, a, b) == Snapshot(run, a, b, Quoted(run, a, b), MarketNow(a, Quoted(run, a, b)))

CountingIn(run, a, b) == Counting(Quoted(run, a, b), Articles[a].brand)

LEMMA QuotedAreRows ==
    ASSUME scenario \in Scenarios, NEW run \in Runs, NEW a, NEW b
    PROVE  /\ AreRows(Quoted(run, a, b)) /\ scenario.reference \in Nat
           /\ Quoted(run, a, b) # {} => a \in DOMAIN Articles
<1>1. /\ IsFiniteSet(scenario.quotes[run]) /\ scenario.reference \in Nat
      /\ \A q \in scenario.quotes[run] :
            /\ q.article \in DOMAIN Articles
            /\ q.id \in Nat /\ q.at \in Nat /\ q.day \in Nat /\ q.price \in Nat
            /\ \A p \in scenario.quotes[run] : p.id = q.id => p = q
  BY ScenarioAssumption DEF Runs
<1>2. AreRows(scenario.quotes[run])
  BY <1>1 DEF AreRows
<1>3. Quoted(run, a, b) \subseteq scenario.quotes[run] /\ \A q \in Quoted(run, a, b) : q.article = a
  BY DEF Quoted
<1>. QED
  BY <1>1, <1>2, <1>3, SomeRows

\* A run publishes an article in a condition exactly if a quote of it counts.
LEMMA PublishedByRun ==
    ASSUME scenario \in Scenarios, NEW run \in Runs
    PROVE  /\ \A s \in SnapshotsOf(run) : \E a \in DOMAIN Articles : \E b \in TargetBuckets :
                CountingIn(run, a, b) # {} /\ s = PricedBy(run, a, b)
           /\ \A a, b : CountingIn(run, a, b) # {} => PricedBy(run, a, b) \in SnapshotsOf(run)
<1>. DEFINE keys == {<<q.article, Bucket(q)>> : q \in scenario.quotes[run]}
            part(k) == LET rows == Quoted(run, k[1], k[2])
                       IN  SnapshotIfAny(run, k[1], k[2], rows, MarketNow(k[1], rows))
<1>1. SnapshotsOf(run) = UNION {part(k) : k \in keys}
  BY DEF SnapshotsOf
<1>2. ASSUME NEW a, NEW b
      PROVE  part(<<a, b>>) = IF CountingIn(run, a, b) # {} THEN {PricedBy(run, a, b)} ELSE {}
  <2>. DEFINE m == MarketNow(a, Quoted(run, a, b))
  <2>1. AreRows(Quoted(run, a, b)) /\ scenario.reference \in Nat
    BY QuotedAreRows
  <2>2. /\ CountingIn(run, a, b) = {} => m.ok = FALSE
        /\ CountingIn(run, a, b) # {} => m.ok = TRUE
    BY <2>1, MarketIsOfTheLatestDay DEF MarketNow, CountingIn
  <2>. HIDE DEF m
  <2>3. part(<<a, b>>) = SnapshotIfAny(run, a, b, Quoted(run, a, b), m)
    BY DEF m
  <2>. QED
    BY <2>2, <2>3 DEF SnapshotIfAny, PricedBy, m
<1>3. ASSUME NEW a, NEW b, CountingIn(run, a, b) # {}
      PROVE  <<a, b>> \in keys /\ a \in DOMAIN Articles /\ b \in TargetBuckets
  <2>1. PICK q \in CountingIn(run, a, b) : TRUE
    BY <1>3
  <2>2. q \in Quoted(run, a, b) /\ ConditionBucket(Articles[a].brand, q.status) \in TargetBuckets
    BY EligibleRowsCount DEF CountingIn, Counting
  <2>3. q \in scenario.quotes[run] /\ q.article = a /\ Bucket(q) = b
    BY <2>2 DEF Quoted
  <2>4. a \in DOMAIN Articles
    BY <2>2, QuotedAreRows
  <2>5. b \in TargetBuckets
    BY <2>2, <2>3 DEF Bucket
  <2>. QED
    BY <2>3, <2>4, <2>5
<1>4. \A k \in keys : k = <<k[1], k[2]>>
  OBVIOUS
<1>. HIDE DEF keys, part
<1>5. ASSUME NEW s \in SnapshotsOf(run)
      PROVE  \E a \in DOMAIN Articles : \E b \in TargetBuckets : CountingIn(run, a, b) # {} /\ s = PricedBy(run, a, b)
  <2>1. PICK k \in keys : s \in part(k)
    BY <1>1
  <2>2. PICK a, b : k = <<a, b>>
    BY <1>4
  <2>3. CountingIn(run, a, b) # {} /\ s = PricedBy(run, a, b)
    <3>1. s \in part(<<a, b>>)
      BY <2>1, <2>2
    <3>2. part(<<a, b>>) = IF CountingIn(run, a, b) # {} THEN {PricedBy(run, a, b)} ELSE {}
      BY <1>2
    <3>. QED
      BY <3>1, <3>2
  <2>. QED
    BY <1>3, <2>3
<1>6. ASSUME NEW a, NEW b, CountingIn(run, a, b) # {} PROVE PricedBy(run, a, b) \in SnapshotsOf(run)
  BY <1>1, <1>2, <1>3, <1>6
<1>. QED
  BY <1>5, <1>6

\* A price is the market of the day of the newest word, and lies among the
\* words of that day.
IsPriceOf(s, words, a) ==
    \E n \in words :
        /\ Newest(n, words) /\ s.day = n.day
        /\ s.market = MarketOfDay({r \in words : r.day = n.day}, Articles[a].brand, scenario.reference).market
        /\ \E r \in words : r.day = n.day /\ r.price <= s.market
        /\ \E r \in words : r.day = n.day /\ r.price >= s.market

\* What is published of an article
LEMMA PriceOfArticle ==
    ASSUME scenario \in Scenarios, NEW run \in Runs, NEW a \in DOMAIN Articles, NEW b, CountingIn(run, a, b) # {}
    PROVE  LET s == PricedBy(run, a, b)
               words == CountingIn(run, a, b)
           IN  /\ s.run = run /\ s.article = a /\ s.bucket = b
               /\ s.market \in Int /\ s.low \in Int /\ s.high \in Int
               /\ 0 <= s.low /\ s.low <= s.market /\ s.market <= s.high
               /\ s.samples \in 1..s.sources /\ s.sources <= s.rows
               /\ IsPriceOf(s, words, a)
<1>. DEFINE rows == Quoted(run, a, b)
            m == MarketNow(a, rows)
            s == PricedBy(run, a, b)
            words == CountingIn(run, a, b)
            sellers == {q.seller : q \in rows}
<1>1. AreRows(rows) /\ scenario.reference \in Nat
  BY QuotedAreRows
<1>2. /\ m.market \in Int /\ m.low \in Int /\ m.high \in Int
      /\ 0 <= m.low /\ m.low <= m.market /\ m.market <= m.high
      /\ m.samples \in 1..Cardinality(sellers)
      /\ \E n \in words :
            /\ Newest(n, words) /\ m.day = n.day
            /\ m = MarketOfDay({r \in words : r.day = n.day}, Articles[a].brand, scenario.reference)
            /\ \E r \in words : r.day = n.day /\ r.price <= m.market
            /\ \E r \in words : r.day = n.day /\ r.price >= m.market
  BY <1>1, MarketIsOfTheLatestDay DEF MarketNow, CountingIn
<1>3. /\ s.run = run /\ s.article = a /\ s.bucket = b /\ s.day = m.day
      /\ s.low = m.low /\ s.market = m.market /\ s.high = m.high /\ s.samples = m.samples
      /\ s.sources = Cardinality(sellers) /\ s.rows = Cardinality(rows) + Articles[a].replaced
  BY DEF PricedBy, Snapshot
<1>4. Cardinality(sellers) <= Cardinality(rows) /\ Cardinality(rows) \in Nat /\ Cardinality(sellers) \in Nat
  <2>. DEFINE f == [q \in rows |-> q.seller]
  <2>1. f \in Surjection(rows, sellers)
    BY DEF Surjection
  <2>2. IsFiniteSet(rows)
    BY <1>1 DEF AreRows
  <2>. HIDE DEF rows, sellers, f
  <2>3. IsFiniteSet(sellers) /\ Cardinality(sellers) <= Cardinality(rows)
    BY <2>1, <2>2, FS_Surjection
  <2>. QED
    BY <2>2, <2>3, FS_CardinalityType
<1>5. Articles[a].replaced \in Nat
  BY ArticleAssumption
<1>. HIDE DEF rows, m, s, words, sellers
<1>6. s.samples \in 1..s.sources /\ s.sources <= s.rows
  BY <1>2, <1>3, <1>4, <1>5
<1>. QED
  BY <1>2, <1>3, <1>6 DEF s, words, IsPriceOf

-----------------------------------------------------------------------------
(* What is live *)

\* Every snapshot is one that its run publishes, and the live run has all of its own.
Published ==
    /\ scenario \in Scenarios
    /\ \A s \in snapshots : s.run \in Runs /\ s \in SnapshotsOf(s.run)
    /\ live \in Runs \cup {NoRun}
    /\ live # NoRun => SnapshotsOf(live) \subseteq snapshots
    /\ answer.run \in Runs \cup {NoRun} /\ DOMAIN answer.hits \subseteq 1..Limit

LEMMA PublishedInit == Init => Published
  BY DEF Init, Published

LEMMA SnapshotsUnchanged == ASSUME scenario' = scenario, NEW run PROVE (Runs = Runs') /\ SnapshotsOf(run)' = SnapshotsOf(run)
  BY DEF SnapshotsOf, Runs, SnapshotIfAny, Snapshot, Quoted, MarketNow

LEMMA PublishedNext == Published /\ [Next]_vars => Published'
<1>. SUFFICES ASSUME Published, [Next]_vars PROVE Published'
  OBVIOUS
<1>1. ASSUME NEW run \in Runs, Publish(run) PROVE Published'
  <2>1. scenario' = scenario /\ live' = run /\ answer' = answer
    BY <1>1 DEF Publish
  <2>2. Runs' = Runs /\ \A r : SnapshotsOf(r)' = SnapshotsOf(r)
    BY <2>1, SnapshotsUnchanged
  <2>3. snapshots' = {s \in snapshots : s.run # run} \cup SnapshotsOf(run)
    BY <1>1 DEF Publish
  <2>4. \A s \in SnapshotsOf(run) : s.run = run
    BY PublishedByRun, PriceOfArticle DEF Published
  <2>. QED
    BY <2>1, <2>2, <2>3, <2>4 DEF Published
<1>2. ASSUME NEW query \in scenario.queries, Search(query) PROVE Published'
  <2>1. UNCHANGED <<scenario, snapshots, live>>
    BY <1>2 DEF Search
  <2>2. Runs' = Runs /\ \A r : SnapshotsOf(r)' = SnapshotsOf(r)
    BY <2>1, SnapshotsUnchanged
  <2>3. answer'.run = live /\ DOMAIN answer'.hits \subseteq 1..Limit
    BY <1>2 DEF Search
  <2>. QED
    BY <2>1, <2>2, <2>3 DEF Published
<1>3. ASSUME UNCHANGED <<scenario, snapshots, live, answer>> PROVE Published'
  <2>1. Runs' = Runs /\ \A r : SnapshotsOf(r)' = SnapshotsOf(r)
    BY <1>3, SnapshotsUnchanged
  <2>. QED
    BY <1>3, <2>1 DEF Published
<1>4. CASE OpenHit
  BY <1>3, <1>4 DEF OpenHit, Open
<1>5. CASE OpenTitle
  BY <1>3, <1>5 DEF OpenTitle, Open
<1>6. CASE UNCHANGED vars
  BY <1>3, <1>6 DEF vars
<1>. QED
  BY <1>1, <1>2, <1>4, <1>5, <1>6 DEF Next

LEMMA AlwaysPublished == Spec => []Published
  BY PublishedInit, PublishedNext, PTL DEF Spec

\* Whatever was quoted, what is published is well-formed: prices in their
\* range, no more samples than merchants and rows, one snapshot of an article
\* in a condition and run.
THEOREM TypeCorrect == Spec => []TypeOK
<1>1. Published => TypeOK
  <2>. SUFFICES ASSUME Published PROVE TypeOK
    OBVIOUS
  <2>1. ASSUME NEW s \in snapshots
        PROVE  /\ s.run \in Runs /\ s.bucket \in TargetBuckets
               /\ 0 <= s.low /\ s.low <= s.market /\ s.market <= s.high
               /\ s.samples \in 1..s.sources /\ s.sources <= s.rows
               /\ s = PricedBy(s.run, s.article, s.bucket)
    <3>1. s.run \in Runs /\ s \in SnapshotsOf(s.run)
      BY DEF Published
    <3>2. PICK a \in DOMAIN Articles, b \in TargetBuckets : CountingIn(s.run, a, b) # {} /\ s = PricedBy(s.run, a, b)
      BY <3>1, PublishedByRun DEF Published
    <3>3. PICK run \in Runs : run = s.run
      BY <3>1
    <3>4. CountingIn(run, a, b) # {} /\ s = PricedBy(run, a, b)
      BY <3>2, <3>3
    <3>5. /\ s.article = a /\ s.bucket = b
          /\ 0 <= s.low /\ s.low <= s.market /\ s.market <= s.high
          /\ s.samples \in 1..s.sources /\ s.sources <= s.rows
      BY <3>4, PriceOfArticle DEF Published
    <3>. QED
      BY <3>3, <3>4, <3>5
  <2>2. ASSUME NEW s \in snapshots, NEW t \in snapshots,
               <<s.run, s.article, s.bucket>> = <<t.run, t.article, t.bucket>>
        PROVE  s = t
    BY <2>1, <2>2
  <2>. QED
    BY <2>1, <2>2 DEF TypeOK, Published
<1>. QED
  BY <1>1, AlwaysPublished, PTL

-----------------------------------------------------------------------------
(* The latest day on which a quote counts *)

LEMMA LaterIsNewer ==
    ASSUME NEW q, NEW p, {q.at, q.day, q.id, p.at, p.day, p.id} \subseteq Nat
    PROVE  Later(q, p) <=> Newer(q, p)
<1>. DEFINE s == <<q.at, q.day, q.id>>
            t == <<p.at, p.day, p.id>>
<1>1. DOMAIN s = 1..3 /\ \A i \in 1..3 : i = 1 \/ i = 2 \/ i = 3
  OBVIOUS
<1>2. s[1] = q.at /\ s[2] = q.day /\ s[3] = q.id /\ t[1] = p.at /\ t[2] = p.day /\ t[3] = p.id
  OBVIOUS
<1>. HIDE DEF s, t
<1>3. (Exceeds(s, t)) <=>
        \/ s[1] > t[1]
        \/ s[2] > t[2] /\ s[1] = t[1]
        \/ s[3] > t[3] /\ s[1] = t[1] /\ s[2] = t[2]
  <2>1. Exceeds(s, t) <=> \E i \in 1..3 : s[i] > t[i] /\ \A j \in 1..(i - 1) : s[j] = t[j]
    BY <1>1 DEF Exceeds
  <2>2. \A j \in 1..(1 - 1) : s[j] = t[j]
    OBVIOUS
  <2>3. (\A j \in 1..(2 - 1) : s[j] = t[j]) <=> s[1] = t[1]
    <3>1. 1..(2 - 1) = {1}
      OBVIOUS
    <3>. QED
      BY <3>1
  <2>4. (\A j \in 1..(3 - 1) : s[j] = t[j]) <=> (s[1] = t[1] /\ s[2] = t[2])
    <3>1. 1..(3 - 1) = {1, 2}
      OBVIOUS
    <3>. QED
      BY <3>1
  <2>5. 1 \in 1..3 /\ 2 \in 1..3 /\ 3 \in 1..3
    OBVIOUS
  <2>6. (\E i \in 1..3 : s[i] > t[i] /\ \A j \in 1..(i - 1) : s[j] = t[j]) <=>
          \/ s[1] > t[1] /\ \A j \in 1..(1 - 1) : s[j] = t[j]
          \/ s[2] > t[2] /\ \A j \in 1..(2 - 1) : s[j] = t[j]
          \/ s[3] > t[3] /\ \A j \in 1..(3 - 1) : s[j] = t[j]
    BY <1>1, <2>5
  <2>. QED
    BY <2>1, <2>2, <2>3, <2>4, <2>6
<1>4. (Later(q, p)) <=> Exceeds(s, t)
  BY DEF Later, s, t
<1>5. (Newer(q, p)) <=>
        \/ q.at > p.at
        \/ q.day > p.day /\ q.at = p.at
        \/ q.id > p.id /\ q.at = p.at /\ q.day = p.day
  BY DEF Newer
<1>. QED
  BY <1>2, <1>3, <1>4, <1>5

LEMMA LastWordsCount ==
    ASSUME scenario \in Scenarios, NEW run \in Runs, NEW a, NEW b
    PROVE  LET words == CountingIn(run, a, b)
           IN  /\ LastWords(run, a, b) = words
               /\ \A n \in words : Newest(n, words) => Today(words) = {r \in words : r.day = n.day}
<1>. DEFINE rows == Quoted(run, a, b)
            words == CountingIn(run, a, b)
<1>1. AreRows(rows)
  BY QuotedAreRows
<1>2. \A q, p \in rows : Later(q, p) <=> Newer(q, p)
  BY <1>1, LaterIsNewer DEF AreRows
<1>3. LastWords(run, a, b) = words
  BY <1>2 DEF LastWords, CountingIn, Counting
<1>4. words \subseteq rows
  BY DEF CountingIn, Counting
<1>. HIDE DEF rows, words
<1>5. AreRows(words)
  BY <1>1, <1>4, SomeRows
<1>6. \A n \in words : Newest(n, words) <=> \A p \in words : Later(n, p) \/ p = n
  BY <1>2, <1>4 DEF Newest
<1>7. \A n, m \in words : Newest(n, words) /\ Newest(m, words) => n = m
  BY <1>5, NewestExists
<1>8. ASSUME NEW n \in words, Newest(n, words) PROVE Today(words) = {r \in words : r.day = n.day}
  BY <1>6, <1>7, <1>8 DEF Today
<1>. QED
  BY <1>3, <1>8 DEF words

\* Whatever was quoted, and in whatever order it was imported: the live run has
\* a price for the articles that a merchant's last word prices, and for no
\* other; the price is of the latest day of such words and lies among them.
THEOREM PriceSafe == Spec => []LatestValidDayIsPriced
<1>1. Published => LatestValidDayIsPriced
  <2>. SUFFICES ASSUME Published, live # NoRun, NEW a \in DOMAIN Articles, NEW b \in TargetBuckets
                PROVE  LET words == LastWords(live, a, b)
                           today == Today(words)
                           priced == {s \in snapshots : s.run = live /\ s.article = a /\ s.bucket = b}
                       IN  /\ (words = {} <=> priced = {})
                           /\ \A s \in priced, q \in today :
                                /\ s.day = q.day
                                /\ \E p \in today : p.price <= s.market
                                /\ \E p \in today : p.price >= s.market
    BY DEF LatestValidDayIsPriced
  <2>. DEFINE words == CountingIn(live, a, b)
              priced == {s \in snapshots : s.run = live /\ s.article = a /\ s.bucket = b}
  <2>1. live \in Runs /\ scenario \in Scenarios
    BY DEF Published
  <2>2. LastWords(live, a, b) = words /\ \A n \in words : Newest(n, words) => Today(words) = {r \in words : r.day = n.day}
    BY <2>1, LastWordsCount
  <2>3. ASSUME words # {} PROVE priced # {}
    <3>1. PricedBy(live, a, b) \in SnapshotsOf(live)
      BY <2>1, <2>3, PublishedByRun
    <3>2. PricedBy(live, a, b).run = live /\ PricedBy(live, a, b).article = a /\ PricedBy(live, a, b).bucket = b
      BY <2>1, <2>3, PriceOfArticle
    <3>. QED
      BY <3>1, <3>2 DEF Published
  <2>4. ASSUME NEW s \in priced PROVE words # {} /\ s = PricedBy(live, a, b)
    <3>1. s \in SnapshotsOf(live)
      BY <2>1 DEF Published
    <3>2. PICK c \in DOMAIN Articles, d \in TargetBuckets : CountingIn(live, c, d) # {} /\ s = PricedBy(live, c, d)
      BY <2>1, <3>1, PublishedByRun
    <3>3. s.article = c /\ s.bucket = d
      BY <2>1, <3>2, PriceOfArticle
    <3>. QED
      BY <3>2, <3>3
  <2>5. ASSUME NEW s \in priced, NEW q \in Today(words)
        PROVE  /\ s.day = q.day
               /\ \E p \in Today(words) : p.price <= s.market
               /\ \E p \in Today(words) : p.price >= s.market
    <3>1. PICK n \in words :
            /\ Newest(n, words) /\ s.day = n.day
            /\ \E r \in words : r.day = n.day /\ r.price <= s.market
            /\ \E r \in words : r.day = n.day /\ r.price >= s.market
      <4>1. IsPriceOf(PricedBy(live, a, b), words, a)
        BY <2>1, <2>4, PriceOfArticle
      <4>2. IsPriceOf(s, words, a)
        BY <2>4, <4>1
      <4>. HIDE DEF words
      <4>. QED
        BY <4>2 DEF IsPriceOf
    <3>2. Today(words) = {r \in words : r.day = n.day}
      BY <2>2, <3>1
    <3>. HIDE DEF words
    <3>. QED
      BY <3>1, <3>2
  <2>. HIDE DEF words, priced
  <2>6. (words = {}) <=> (priced = {})
    BY <2>3, <2>4
  <2>. QED
    BY <2>2, <2>5, <2>6 DEF priced
<1>. QED
  BY <1>1, AlwaysPublished, PTL

-----------------------------------------------------------------------------
(* The majority of the merchants *)

LEMMA DearestExists ==
    ASSUME NEW S, AreRows(S), S # {}
    PROVE  \E z \in S : \A r \in S : r.price <= z.price
<1>. DEFINE n == Cardinality(S)
            r == ByPrice(S)
<1>1. /\ n \in Nat /\ n # 0 /\ r \in [1..n -> S]
      /\ \A x \in S : \E i \in 1..n : r[i] = x
      /\ \A i, j \in 1..n : i < j => Cheaper(r[i], r[j])
  BY PricesAscend
<1>. HIDE DEF n, r
<1>2. r[n] \in S
  BY <1>1
<1>3. ASSUME NEW x \in S PROVE x.price <= r[n].price
  <2>1. PICK i \in 1..n : r[i] = x
    BY <1>1
  <2>2. x.price \in Nat /\ r[n].price \in Nat
    BY <1>2 DEF AreRows
  <2>3. i = n \/ Cheaper(r[i], r[n])
    BY <1>1
  <2>. QED
    BY <2>1, <2>2, <2>3 DEF Cheaper
<1>. QED
  BY <1>2, <1>3

\* Whatever else was quoted: if more than half of the last words of the latest
\* day are less than 80 apart, and are more than three quarters of the words of
\* their status, the published price lies among them.
THEOREM MajoritySafe == Spec => []MajorityMakesTheMarket
<1>1. Published => MajorityMakesTheMarket
  <2>. SUFFICES ASSUME Published, NEW s \in snapshots
                PROVE  LET words == LastWords(s.run, s.article, s.bucket)
                           today == Today(words)
                           near(q, p) == p.status = q.status /\ p.price >= q.price /\ p.price < q.price + 80
                           most(q) == {p \in today : near(q, p)}
                           same(q) == {p \in today : p.status = q.status}
                       IN  \A q \in today :
                               (/\ 2 * Cardinality(most(q)) > Cardinality(today)
                                /\ 4 * Cardinality(most(q)) > 3 * Cardinality(same(q))
                                /\ scenario.reference = 0 \/ \E p \in most(q) : p.price = scenario.reference)
                                 => /\ q.price <= s.market
                                    /\ \E p \in most(q) : s.market <= p.price
    BY DEF MajorityMakesTheMarket
  <2>1. s.run \in Runs /\ s \in SnapshotsOf(s.run) /\ scenario \in Scenarios
    BY DEF Published
  <2>2. PICK run \in Runs, a \in DOMAIN Articles, b \in TargetBuckets :
          s.run = run /\ CountingIn(run, a, b) # {} /\ s = PricedBy(run, a, b)
    <3>1. PICK run \in Runs : run = s.run
      BY <2>1
    <3>2. \E a \in DOMAIN Articles : \E b \in TargetBuckets : CountingIn(run, a, b) # {} /\ s = PricedBy(run, a, b)
      BY <2>1, <3>1, PublishedByRun
    <3>. QED
      BY <3>1, <3>2
  <2>. DEFINE words == CountingIn(run, a, b)
  <2>3. s.article = a /\ s.bucket = b
    BY <2>1, <2>2, PriceOfArticle
  <2>4. PICK n \in words :
          /\ Newest(n, words)
          /\ s.market = MarketOfDay({r \in words : r.day = n.day}, Articles[a].brand, scenario.reference).market
    <3>1. IsPriceOf(PricedBy(run, a, b), words, a)
      BY <2>1, <2>2, PriceOfArticle
    <3>2. IsPriceOf(s, words, a)
      BY <2>2, <3>1
    <3>. HIDE DEF words
    <3>. QED
      BY <3>2 DEF IsPriceOf
  <2>. DEFINE today == {r \in words : r.day = n.day}
  <2>5. LastWords(s.run, s.article, s.bucket) = words /\ Today(words) = today
    BY <2>1, <2>2, <2>3, <2>4, LastWordsCount
  <2>6. AreRows(today) /\ scenario.reference \in Nat
    <3>1. AreRows(Quoted(run, a, b)) /\ scenario.reference \in Nat
      BY <2>1, QuotedAreRows
    <3>2. today \subseteq Quoted(run, a, b)
      BY DEF CountingIn, Counting
    <3>. QED
      BY <3>1, <3>2, SomeRows
  <2>7. \A r \in today : Articles[a].brand = "apple" => r.status \in {"exact", "nationwide"}
    BY DEF CountingIn, Counting
  <2>. DEFINE most(q) == {p \in today : p.status = q.status /\ p.price >= q.price /\ p.price < q.price + 80}
  <2>. HIDE DEF today
  <2>8. ASSUME NEW q \in today,
               2 * Cardinality(most(q)) > Cardinality(today),
               4 * Cardinality(most(q)) > 3 * Cardinality(OfStatus(today, q.status)),
               scenario.reference = 0 \/ \E p \in most(q) : p.price = scenario.reference
        PROVE  q.price <= s.market /\ \E p \in most(q) : s.market <= p.price
    <3>. DEFINE M == most(q)
    <3>1. q.price \in Nat /\ \A r \in today : r.price \in Nat
      BY <2>6 DEF AreRows
    <3>2. q \in M /\ M \subseteq today
      BY <3>1
    <3>3. PICK z \in M : \A r \in M : r.price <= z.price
      BY <2>6, <3>2, SomeRows, DearestExists
    <3>4. \A r \in M : q.price <= r.price /\ r.price < q.price + 80
      BY <3>1
    <3>5. M \subseteq OfStatus(today, q.status)
      BY DEF OfStatus
    <3>. HIDE DEF M
    <3>6. IsGroup(M, OfStatus(today, q.status), q.price, z.price)
      <4>1. z.price \in Nat /\ q.price <= z.price /\ z.price < q.price + 80
        BY <3>1, <3>2, <3>3, <3>4
      <4>. QED
        BY <2>8, <3>1, <3>3, <3>4, <3>5, <4>1 DEF IsGroup, M
    <3>7. scenario.reference = 0 \/ (q.price <= scenario.reference /\ scenario.reference <= z.price)
      BY <2>8, <3>3, <3>4 DEF M
    <3>8. s.market \in Int /\ q.price <= s.market /\ s.market <= z.price
      <4>1. 2 * Cardinality(M) > Cardinality(today)
        BY <2>8 DEF M
      <4>2. s.market = MarketOfDay(today, Articles[a].brand, scenario.reference).market
        BY <2>4 DEF today
      <4>. QED
        BY <2>6, <2>7, <3>6, <3>7, <4>1, <4>2, MajorityOfTheDay
    <3>. QED
      BY <3>3, <3>8 DEF M
  <2>. QED
    BY <2>5, <2>8 DEF OfStatus
<1>. QED
  BY <1>1, AlwaysPublished, PTL
=============================================================================
