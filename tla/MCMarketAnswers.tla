-------------------------- MODULE MCMarketAnswers --------------------------
(***************************************************************************)
(* Instances of MarketAnswers: bags of quotes of one article, and runs of  *)
(* several articles that are searched, opened and narrowed.                *)
(***************************************************************************)
EXTENDS MarketAnswers

Article(brand, series, model, group, place, replaced) ==
    [brand |-> brand, series |-> series, model |-> model, group |-> group, place |-> place, replaced |-> replaced]

MCArticles ==
    [black    |-> Article("apple", <<"iphone", "17">>, <<"17", "6.3in", "china">>, <<"256g", "black">>, 1, 0),
     white    |-> Article("apple", <<"iphone", "17">>, <<"17", "6.3in", "china">>, <<"256g", "white">>, 2, 0),
     large    |-> Article("apple", <<"iphone", "17">>, <<"17", "6.3in", "china">>, <<"512g", "black">>, 3, 0),
     abroad   |-> Article("apple", <<"iphone", "17">>, <<"17", "6.3in", "abroad">>, <<"256g", "grey">>, 4, 0),
     pro      |-> Article("apple", <<"iphone", "17">>, <<"17", "pro", "6.3in">>, <<"256g", "black">>, 5, 600),
     promax   |-> Article("apple", <<"iphone", "17">>, <<"17", "pro", "max", "6.9in">>, <<"512g", "white">>, 6, 40),
     case     |-> Article("apple", <<"iphone", "17">>, <<"17", "case">>, <<"clear">>, 7, 600),
     ipad     |-> Article("apple", <<"ipad">>, <<"ipad", "pro">>, <<"256g", "grey">>, 8, 0),
     airpods  |-> Article("apple", <<"airpods">>, <<"airpods", "pro">>, <<"chargingcase">>, 9, 600),
     mate     |-> Article("huawei", <<"mate", "series">>, <<"mate", "80">>, <<"256g", "black">>, 10, 0),
     matepro  |-> Article("huawei", <<"mate", "series">>, <<"mate", "80", "pro">>, <<"512g", "black">>, 11, 600),
     plain    |-> Article("huawei", <<"mate", "series">>, <<"mate", "80">>, <<>>, 12, 0)]

\* The price of a quote that names none
NoNumber == -1

Quote(article, id, seller, status, day, price) ==
    [article |-> article, id |-> id, seller |-> seller, status |-> status, day |-> day, at |-> 1,
     numeric |-> price # NoNumber, price |-> IF price = NoNumber THEN 0 ELSE price]

Asked(quotes, reference, queries, refinements) ==
    [quotes |-> quotes, reference |-> reference, queries |-> queries, refinements |-> refinements]

-----------------------------------------------------------------------------
(* One article *)

Words == {"exact", "nationwide", "regional"} \X {1230, 1231} \X {NoNumber, 0, 1000, 1070}

\* Four quotes of three merchants, one of whom quotes twice
Few == {Asked([first |-> {Quote("black", i, IF i = 4 THEN 3 ELSE i, w[i][1], w[i][2], w[i][3]) : i \in 1..4}], r, {}, {})
        : w \in {w \in [1..4 -> Words] : w[1] = <<"exact", 1231, 1000>> /\ w[2][1] # "regional"}, r \in {0}}

\* Quotes of three merchants about the turn of the year: those of the first of
\* January were imported later
Days == {<<1231, 1>>, <<101, 2>>}

NewYear == {Asked([first |-> {[Quote("black", i, Smaller(i, 3), "exact", w[i][1][1], w[i][2]) EXCEPT !.at = w[i][1][2]] : i \in 1..4}], 0, {}, {})
            : w \in [1..4 -> Days \X {NoNumber, 0, 1000, 1400}]}

\* n quotes of one day: some at one price, some near, and the rest where one likes
Many == {LET base == n[2] IN
         Asked([first |-> {Quote("black", i, IF i > n[1] THEN n[1] ELSE i, IF i <= base THEN "nationwide" ELSE s, 1231,
                                 IF i <= base THEN 1000 + (i % 3) * step ELSE far + (i % 2) * step) : i \in 1..(n[1] + spam)}],
               r, {}, {})
         : n \in {<<5, 3>>, <<5, 2>>, <<8, 5>>, <<8, 4>>, <<9, 6>>, <<14, 8>>, <<15, 8>>, <<15, 13>>}, s \in {"exact", "nationwide"},
           step \in {0, 13, 39}, far \in {600, 900, 1090, 1150, 1300, 3000}, spam \in {0, 4, 12}, r \in {0, 1000, 1500}}

\* n[1] quotes of one day near 1000, n[2] of the same status far off, and n[3]
\* of the other status
Split == {LET status(i) == IF i <= n[1] + n[2] THEN t ELSE IF t = "exact" THEN "nationwide" ELSE "exact"
              price(i) == IF i <= n[1] THEN 1000 + (i % 2) * 79 ELSE IF i <= n[1] + n[2] THEN far ELSE 1500 IN
          Asked([first |-> {Quote("black", i, i, status(i), 1231, price(i)) : i \in 1..(n[1] + n[2] + n[3])}], r, {}, {})
          : n \in {<<2, 0, 1>>, <<4, 1, 1>>, <<4, 1, 2>>, <<4, 2, 1>>, <<7, 2, 3>>, <<7, 2, 4>>, <<13, 4, 8>>, <<14, 4, 9>>},
            t \in {"exact", "nationwide"}, far \in {200, 920, 1150, 1170, 3200}, r \in {0, 1000, 1079}}

-----------------------------------------------------------------------------
(* Several articles *)

Everyday(article) ==
    CASE article = "white" -> {Quote("white", 3, 1, "exact", 1231, 1010), Quote("white", 4, 2, "exact", 1231, 1020)}
      [] article = "pro"   -> {Quote("pro", 5, 1, "exact", 1231, 1500), Quote("pro", 6, 2, "exact", 1231, 1510)}
      [] article \in {"mate", "matepro"} -> {Quote(article, 6 + MCArticles[article].place, 1, "none", 1231, 900)}
      [] OTHER -> {Quote(article, 6 + MCArticles[article].place, 1, "nationwide", 1231, 1100)}

Batch(articles) == UNION {Everyday(a) : a \in articles}

Repriced(articles) == {[q EXCEPT !.price = @ + 50, !.at = 2] : q \in Batch(articles)}

Titles == {<<"iphone", "17">>, <<"iphone", "17", "pro">>, <<"iphone", "17", "pro", "max">>, <<"iphone", "17", "case">>,
           <<"ipad", "pro">>, <<"airpods", "pro">>, <<"mate", "80">>, <<"mate", "80", "pro">>}

Noisy == {<<"Apple", "17">>, <<"Apple", "17", "black">>, <<"matepad">>, <<"mate", "tablet">>, <<"apple", "17", "256">>, <<"apple", "17", "256g">>, <<"apple", "17", "white">>, <<"iphone", "17", "512g">>, <<"iphone", "17", "black">>,
          <<"mate", "80", "512", "white">>, <<"apple", "ipad", "pro">>, <<"17", "pm">>, <<"pingguo", "17">>, <<"iphnoe", "17">>,
          <<"pingguo", "pingban">>, <<"case">>, <<"256g", "black">>, <<"80", "p">>, <<"erji">>}

Shelves == {{"black", "white", "large", "abroad"}, {"black", "pro"}, {"black", "pro", "promax", "case"},
            {"large", "abroad", "case", "airpods", "ipad"}, {"mate", "matepro", "pro"}, {"pro", "promax", "matepro"},
            DOMAIN MCArticles}

Refinements == {<<>>, <<"256g">>, <<"512">>, <<"black">>, <<"white">>, <<"512g", "black">>, <<"256", "grey">>, <<"china">>,
                <<"abroad">>, <<"512g", "white">>, <<"chargingcase">>, <<"iphone", "17">>}

Shops ==
    {Asked([first |-> Batch(s)], 0, Titles \cup Noisy, {<<>>}) : s \in Shelves}
      \cup {Asked([first |-> Batch(s), second |-> Repriced(t)], 0, {<<"iphone", "17">>, <<"airpods", "pro">>}, Refinements)
              : s \in {{"black", "white", "large", "abroad"}, {"large", "abroad", "airpods", "pro"}}, t \in {{"black", "pro"}, {"case", "airpods"}}}
      \cup {Asked([first |-> Batch({"mate", "plain"}), second |-> Repriced(t)], 0, {<<"mate", "80">>}, {<<>>, <<"256g">>, <<"plain">>, <<"black">>})
              : t \in {{"plain"}, {"mate", "pro"}}}
      \cup {Asked([first |-> Batch({"black", "large"}) \cup {[q EXCEPT !.price = 0] : q \in Batch({"white"})}], 0, {<<"iphone", "17">>},
                  {<<>>, <<"white">>, <<"256g">>, <<"512g">>})}

MCScenarios == Few \cup NewYear \cup Many \cup Split \cup Shops

NoisyScenarios == {Asked([first |-> Batch({"black", "pro", "promax"})], 0, {<<"apple", "17", c>> : c \in Capacities}, {})}
=============================================================================
