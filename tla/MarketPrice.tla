---------------------------- MODULE MarketPrice ----------------------------
(***************************************************************************)
(* The market price of one article (market/quality_engine.py,              *)
(* market/price_cleaning.py, market/market_engine.py).                     *)
(*                                                                         *)
(* The quotes of an article are deduplicated by merchant, filtered by      *)
(* status, reduced to the latest day, cleaned of outliers per status and   *)
(* split into price clusters, of which the best one is the market.         *)
(*                                                                         *)
(* A quote has an id, a seller, a status, a day, at, a price and numeric:  *)
(* `day` is its day label (month and day, as month * 100 + day), `at` the  *)
(* time it was imported, `numeric` whether the text of its price is a      *)
(* number, as that of a price of 0 is.  A status is told by what the rules *)
(* make of it.  The thresholds are those of rules/default_rules.json;      *)
(* fractions are compared by their numerators.                             *)
(***************************************************************************)
EXTENDS Integers, FiniteSetsExt, TotalOrder

-----------------------------------------------------------------------------
(* Numbers *)

Larger(a, b) == IF a >= b THEN a ELSE b
Smaller(a, b) == IF a <= b THEN a ELSE b
Distance(a, b) == IF a >= b THEN a - b ELSE b - a
Ceiling(num, den) == (num + den - 1) \div den

\* round(): a half goes to the even neighbour
Rounded(num, den) ==
    LET q == num \div den
        twice == 2 * (num % den)
    IN  IF twice < den \/ (twice = den /\ q % 2 = 0) THEN q ELSE q + 1

\* percentile of an ordered sequence, at `quarter` quarters
Percentile(p, quarter) ==
    IF p = <<>> THEN 0
    ELSE LET position == (Len(p) - 1) * quarter
             lower == position \div 4
             weight == position % 4
         IN  Rounded(p[lower + 1] * (4 - weight) + p[Smaller(lower + 2, Len(p))] * weight, 4)

Median(p) == Percentile(p, 2)

InterquartileRange(p) == Percentile(p, 3) - Percentile(p, 1)

Cheaper(a, b) == a.price < b.price \/ (a.price = b.price /\ a.id < b.id)

ByPrice(rows) == Ordered(rows, Cheaper)

Prices(rows) == Mapped(ByPrice(rows), LAMBDA r : r.price)

MedianAbsDeviation(rows, center) ==
    LET nearer(a, b) == Exceeds(<<b.off, b.id>>, <<a.off, a.id>>)
    IN  Median(Mapped(Ordered({[off |-> Distance(r.price, center), id |-> r.id] : r \in rows}, nearer),
                      LAMBDA d : d.off))

-----------------------------------------------------------------------------
(* The rows that count *)

\* row_recency_sort_key: the time of import, the day label, the row number
Newer(a, b) ==
    \/ a.at > b.at
    \/ a.at = b.at /\ a.day > b.day
    \/ a.at = b.at /\ a.day = b.day /\ a.id > b.id

\* Variant: every quote of a merchant counts.
EveryRow(rows) == rows

DedupeLatestRows(rows) == {r \in rows : \A q \in rows \ {r} : q.seller = r.seller => Newer(r, q)}

NumericRows(rows) == {r \in rows : r.numeric}

\* condition_bucket of classify_row, by brand and status
ConditionBucket(brand, status) ==
    IF brand = "apple"
    THEN CASE status \in {"exact", "nationwide", "subsidised"} -> "apple_company_pure_sealed_target"
           [] status = "regional" -> "apple_company_pure_sealed_but_excluded"
           [] OTHER -> "apple_opened_or_activated"
    ELSE IF status = "opened" THEN "non_apple_excluded" ELSE "non_apple_allowed"

TargetBuckets == {"apple_company_pure_sealed_target", "non_apple_allowed"}

\* _filter_target_rows: no status with a noise word, and a target condition
FilterTargetRows(rows, brand) ==
    {r \in rows : /\ r.status \notin {"subsidised", "regional"}
                  /\ ConditionBucket(brand, r.status) \in TargetBuckets}

\* Variant: the day with the most rows comes first.
FullestDay(rows) ==
    LET size(d) == Cardinality({r \in rows : r.day = d})
    IN  Ordered({r.day : r \in rows}, LAMBDA a, b : size(a) > size(b) \/ (size(a) = size(b) /\ a > b))

\* The days of some rows, the day of the newest row first
DayOrder(rows) ==
    LET newest(d) == CHOOSE r \in rows : r.day = d /\ \A q \in rows \ {r} : q.day = d => Newer(r, q)
    IN  Ordered({r.day : r \in rows}, LAMBDA a, b : Newer(newest(a), newest(b)))

\* select_recent_day_window: days are taken until there are enough rows, or
\* enough days
SelectRecentDayWindow(rows, minSamples, maxDays) ==
    LET days == DayOrder(rows)
        taken(k) == {r \in rows : \E i \in 1..k : r.day = days[i]}
        enough(k) == Cardinality(taken(k)) >= minSamples \/ k = maxDays \/ k = Len(days)
    IN  IF rows = {} THEN {} ELSE taken(Min({k \in DOMAIN days : enough(k)}))

-----------------------------------------------------------------------------
(* clean_price_rows *)

Density(n) == IF n < 8 THEN "sparse" ELSE IF n < 15 THEN "balanced" ELSE "dense"

RetainedFloor(n) ==
    IF n <= 4 THEN n
    ELSE CASE Density(n) = "sparse"   -> Larger(4, n - 1)
           [] Density(n) = "balanced" -> Larger(4, Ceiling(65 * n, 100))
           [] Density(n) = "dense"    -> Larger(5, Ceiling(45 * n, 100))

\* What counts as far from the centre: min_gap_floor and min_gap_ratio
MinGap(center, density) ==
    IF density = "balanced" THEN Larger(140, Rounded(center * 20, 1000))
                            ELSE Larger(120, Rounded(center * 18, 1000))

TrimModifiedZscoreRows(rows, density) ==
    LET center == Median(Prices(rows))
        mad == MedianAbsDeviation(rows, center)
        tenths == IF density = "balanced" THEN 40 ELSE 35
        outlier(r) == /\ 6745 * Distance(r.price, center) > 1000 * tenths * mad
                      /\ Distance(r.price, center) >= MinGap(center, density)
    IN  IF Cardinality(rows) < 5 \/ mad < 1 THEN rows ELSE {r \in rows : ~outlier(r)}

TrimIqrRows(rows, density) ==
    LET p == Prices(rows)
        iqr == Larger(1, InterquartileRange(p))
        tenths == IF density = "balanced" THEN 24 ELSE 20
        inside(r) == /\ 10 * r.price >= 10 * Percentile(p, 1) - tenths * iqr
                     /\ 10 * r.price <= 10 * Percentile(p, 3) + tenths * iqr
    IN  IF Cardinality(rows) < 5 THEN rows
        ELSE {r \in rows : inside(r) \/ Distance(r.price, Median(p)) < MinGap(Median(p), density)}

Spread(p) == p[Len(p)] - p[1]

\* The first of the widest gaps of some prices
WidestGap(p) ==
    LET gap(i) == p[i + 1] - p[i]
    IN  CHOOSE i \in 1..(Len(p) - 1) : \A j \in 1..(Len(p) - 1) : gap(j) < gap(i) \/ (gap(j) = gap(i) /\ j >= i)

\* A small group of prices is a tail of a compact one, if the gap between them
\* is wide for both.
IsTail(minority, majority, gap) ==
    /\ Len(majority) >= 3
    /\ Len(minority) <= Larger(2, (Len(minority) + Len(majority)) \div 3)
    /\ Spread(majority) <= Larger(120, Rounded(Median(majority) * 15, 1000))
    /\ gap >= Larger(120, Larger(2 * Spread(majority), 2 * Larger(20, Spread(minority))))

\* Some rows by price without the tail on one side of a gap
WithoutTail(r, p, at) ==
    LET left == 1..at
        right == at + 1..Len(p)
        part(side) == [i \in 1..Cardinality(side) |-> p[Min(side) + i - 1]]
        lowTail == at <= Len(p) - at
        minority == IF lowTail THEN left ELSE right
        majority == IF lowTail THEN right ELSE left
    IN  {r[i] : i \in IF IsTail(part(minority), part(majority), p[at + 1] - p[at]) THEN majority ELSE DOMAIN r}

TrimClusterTailRows(rows) ==
    IF Cardinality(rows) < 5 THEN rows ELSE WithoutTail(ByPrice(rows), Prices(rows), WidestGap(Prices(rows)))

\* One method: not begun at the floor, and undone below it
Trimmed(trimmed, rows, floor) ==
    IF Cardinality(rows) <= floor \/ Cardinality(trimmed) < floor THEN rows ELSE trimmed

CleanPriceRows(rows) ==
    LET n == Cardinality(rows)
        density == Density(n)
        floor == RetainedFloor(n)
        scored == Trimmed(TrimModifiedZscoreRows(rows, density), rows, floor)
        fenced(r) == Trimmed(TrimIqrRows(r, density), r, floor)
        tailed(r) == Trimmed(TrimClusterTailRows(r), r, floor)
    IN  CASE density = "sparse"   -> rows
          [] density = "balanced" -> fenced(scored)
          [] density = "dense"    -> tailed(fenced(scored))

-----------------------------------------------------------------------------
(* Clusters and their score *)

PriceGapThreshold(p) ==
    Larger(80, Larger(Rounded(Median(p) * 12, 1000), Rounded(InterquartileRange(p) * 15, 10)))

\* split_price_clusters: cut at every wide gap, unless there are two rows only
SplitPriceClusters(rows) ==
    LET r == ByPrice(rows)
        p == Prices(rows)
        cut(i) == Len(p) > 2 /\ p[i + 1] - p[i] >= PriceGapThreshold(p)
        together(i, j) == \A k \in Smaller(i, j)..(Larger(i, j) - 1) : ~cut(k)
    IN  {{r[j] : j \in {j \in DOMAIN r : together(i, j)}} : i \in DOMAIN r}

\* Variant: the bounds are not told apart.
ReversedInterval(p) == IF Len(p) <= 3 THEN <<p[1], p[Len(p)]>> ELSE <<Percentile(p, 3), Percentile(p, 1)>>

\* _interval_from_prices
Interval(p) ==
    IF Len(p) <= 3 THEN <<p[1], p[Len(p)]>> ELSE <<Percentile(p, 1), Percentile(p, 3)>>

\* _status_priority; rows without a status are "unlabeled", which is one
StatusPriority(brand, status) ==
    IF brand # "apple" THEN 10
    ELSE CASE status = "exact" -> 36 [] status = "nationwide" -> 30
           [] status \in {"regional", "subsidised"} -> 22 [] OTHER -> 0

\* _candidate_score, in 90ths; a reference of 0 is none
CandidateScore(p, brand, status, reference) ==
    LET n == Len(p)
        spread == Interval(p)[2] - Interval(p)[1]
        penalty == IF n = 1 THEN 14 ELSE IF n = 2 THEN 6 ELSE 0
    IN  90 * (14 * n + StatusPriority(brand, status) - penalty)
        - 5 * Smaller(spread, 1600)
        - (IF reference = 0 THEN 0 ELSE 2 * Smaller(Distance(Median(p), reference), 2000))

\* _confidence_label
ConfidenceScore(p, reference) ==
    LET m == Median(p)
        iqr == InterquartileRange(p)
        diff == Distance(m, reference)
        within(percent) == m > 0 /\ 100 * iqr <= percent * m
        narrow == IF within(1) THEN 30 ELSE IF within(2) THEN 22 ELSE IF within(4) THEN 12 ELSE 4
        near == IF reference = 0 THEN 0
                ELSE IF 1000 * diff <= 15 * reference THEN 18
                ELSE IF 1000 * diff <= 30 * reference THEN 10
                ELSE IF 1000 * diff <= 60 * reference THEN 4 ELSE 0
    IN  Smaller(98, 3 * Smaller(Len(p), 20) + narrow + near)

Confidence(score) == IF score >= 80 THEN "high" ELSE IF score >= 58 THEN "medium" ELSE "cautious"

PriceCandidate(rows, p, brand, status, reference) ==
    [status |-> status, rows |-> rows, score |-> CandidateScore(p, brand, status, reference),
     market |-> Median(p), low |-> Interval(p)[1], high |-> Interval(p)[2]]

Candidates(rows, brand, reference) ==
    UNION {{PriceCandidate(c, Prices(c), brand, s, reference)
            : c \in SplitPriceClusters(CleanPriceRows({r \in rows : r.status = s}))}
           : s \in {r.status : r \in rows}}

\* The candidates' sort: score, sellers, width; then the order they were found
\* in, by the newest row of the status and by price
Better(a, b, rows) ==
    LET newest(s) == CHOOSE r \in rows : r.status = s /\ \A q \in rows \ {r} : q.status = s => Newer(r, q)
        n(c) == Cardinality(c.rows)
        width(c) == c.high - c.low
        first == IF a.status = b.status THEN Cheaper(ByPrice(a.rows)[1], ByPrice(b.rows)[1])
                 ELSE Newer(newest(a.status), newest(b.status))
    IN  \/ a.score > b.score
        \/ a.score = b.score /\ n(a) > n(b)
        \/ a.score = b.score /\ n(a) = n(b) /\ width(a) < width(b)
        \/ a.score = b.score /\ n(a) = n(b) /\ width(a) = width(b) /\ first

NoMarket(reason) == [ok |-> FALSE, reason |-> reason]

\* The market of the best candidate; others are suspicious, if they are far
\* from it.
Market(best, found, selected, reference) ==
    LET far == Larger(80, Rounded(best.market * 15, 1000))
    IN  [ok |-> TRUE, market |-> best.market, low |-> best.low, high |-> best.high,
         status |-> best.status, samples |-> Cardinality(best.rows), rows |-> best.rows,
         day |-> (CHOOSE r \in selected : TRUE).day,
         confidence |-> ConfidenceScore(Prices(best.rows), reference),
         suspiciousLow |-> Cardinality({c \in found : best.market - c.market >= far}),
         suspiciousHigh |-> Cardinality({c \in found : c.market - best.market >= far}),
         clusters |-> Cardinality(found)]

MarketOfCandidates(found, selected, reference) ==
    IF found = {} THEN NoMarket("no_candidate_after_cleaning")
    ELSE Market(CHOOSE c \in found : \A d \in found \ {c} : Better(c, d, selected), found, selected, reference)

MarketOfDay(selected, brand, reference) ==
    MarketOfCandidates(Candidates(selected, brand, reference), selected, reference)

MarketOfEligible(eligible, brand, reference) ==
    IF eligible = {} THEN NoMarket("no_valid_rows_after_status_filter")
    ELSE MarketOfDay(SelectRecentDayWindow(eligible, 1, 1), brand, reference)

MarketOfLatest(latest, brand, reference) ==
    IF NumericRows(latest) = {} THEN NoMarket("no_numeric_rows")
    ELSE MarketOfEligible(NumericRows(FilterTargetRows(latest, brand)), brand, reference)

\* build_data_quality_market
QualityMarket(quotes, brand, reference) == MarketOfLatest(DedupeLatestRows(quotes), brand, reference)
=============================================================================
