---------------------------- MODULE ModelSearch ----------------------------
(***************************************************************************)
(* The search of the query API over the published articles                 *)
(* (query_api/server.py, search_pipeline.py, search_ranking.py).           *)
(*                                                                         *)
(* The published snapshots of a family of models become one candidate;     *)
(* a query is read for its spellings, brands, categories, capacities and   *)
(* colours; every candidate is scored against it and the best come first.  *)
(*                                                                         *)
(* A text is a sequence of words; the words are those that the keyword     *)
(* tables of the server tell apart, a few of each kind, Chinese ones by    *)
(* their English name; the brand that is asked for in both languages is    *)
(* apple in Chinese and Apple in English.  Texts are compared as the code  *)
(* does, which leaves out the blanks: a word inside a longer word is in    *)
(* Within.  A snapshot has run, brand, series, model, group, bucket, rows, *)
(* sources, latest and place, its place in the order of the titles.        *)
(***************************************************************************)
EXTENDS Integers, SequencesExt, FiniteSetsExt, TotalOrder

-----------------------------------------------------------------------------
(* Texts *)

\* A word that another one begins with, and a word inside another one
Beginnings == {<<"p", "pro">>, <<"p", "pm">>, <<"u", "ultra">>, <<"256", "256g">>, <<"512", "512g">>, <<"mate", "matepad">>}
Within == Beginnings \cup {<<"p", "iphone">>, <<"p", "ipad">>, <<"p", "matepad">>, <<"p", "airpods">>}

Begins(a, b) == a = b \/ <<a, b>> \in Beginnings
Same(a, b) == a = b \/ <<a, b>> \in Within

\* The last word of a part may be cut off.
Matches(part, text, i) ==
    \A j \in DOMAIN part : IF j = Len(part) THEN Begins(part[j], text[i + j]) ELSE part[j] = text[i + j]

StartsWith(text, part) == part # <<>> /\ Len(part) <= Len(text) /\ Matches(part, text, 0)

EndsWith(text, part) == IsSuffix(part, text)

HasWord(text, word) == \E i \in DOMAIN text : Same(word, text[i])

Has(text, part) ==
    IF Len(part) = 1 THEN HasWord(text, part[1])
    ELSE part # <<>> /\ \E i \in 0..(Len(text) - Len(part)) : Matches(part, text, i)

Sizes == {"256g", "512g"}
Capacities == Sizes \cup {"256", "512"}
Colours == {"black", "white", "grey"}
Regions == {"6.3in", "6.9in", "china", "abroad"}
Numbers == {"17", "80", "256", "512"}
Letters == {"g", "p", "u"}

ChargerWords == {"charger", "cable"}
CaseWords == {"case"}
AccessoryWords == {"pencil"}
EarbudWords == {"airpods", "earphones"}
TabletWords == {"ipad", "matepad", "tablet"}
LaptopWords == {"macbook", "laptop"}
WatchWords == {"watch"}

\* Words that are written in Chinese
HanWords == Colours \cup {"apple", "tablet", "earphones", "laptop", "clear"}

\* normalize_query_surface: a number is parted from the letters behind it
Surface(text) ==
    FlattenSeq([i \in DOMAIN text |-> CASE text[i] = "256g" -> <<"256", "g">>
                                        [] text[i] = "512g" -> <<"512", "g">>
                                        [] OTHER -> <<text[i]>>])

-----------------------------------------------------------------------------
(* Candidates *)

\* derive_family_title: size and region end the title
DeriveFamilyTitle(brand, series, model) ==
    LET ends == {i \in DOMAIN model : i > 1 /\ model[i] \in Regions}
        cleaned == IF ends = {} THEN model ELSE SubSeq(model, 1, Min(ends) - 1)
    IN  IF brand # "apple" \/ series[1] # "iphone" THEN cleaned
        ELSE IF cleaned[1] \in Numbers THEN <<"iphone">> \o cleaned ELSE series

\* split_group_spec: the first capacity, and the rest
SplitGroupSpec(group) ==
    LET at == {i \in DOMAIN group : group[i] \in Sizes}
        i == Min(at)
    IN  IF group = <<>> THEN [capacity |-> "default", variant |-> <<"plain">>]
        ELSE IF at = {} THEN [capacity |-> "default", variant |-> group]
        ELSE [capacity |-> group[i],
              variant |-> IF Len(group) = 1 THEN <<"standard">>
                          ELSE SubSeq(group, 1, i - 1) \o SubSeq(group, i + 1, Len(group))]

\* capacity_sort_key
CapacityOrder(label) == CASE label = "256g" -> 256 [] label = "512g" -> 512 [] OTHER -> 10000

CandidateBucketPriority(bucket) ==
    CASE bucket = "apple_company_pure_sealed_target" -> 120
      [] bucket = "non_apple_allowed"                -> 110
      [] OTHER                                       -> 10

CandidatePreference(c) == <<CandidateBucketPriority(c.bucket), c.rows, 0, c.sources, c.latest>>

\* list_market_snapshot_candidates: the order of the query
MoreQuoted(a, b) ==
    \/ Exceeds(<<a.rows, a.latest>>, <<b.rows, b.latest>>)
    \/ a.rows = b.rows /\ a.latest = b.latest /\ a.place < b.place

ListMarketSnapshotCandidates(snapshots, run) ==
    Ordered({s \in snapshots : s.run = run}, MoreQuoted)

\* family_aliases_normalized
Aliases(brand, family) ==
    LET shorter == IF brand = "apple" /\ family[1] = "iphone" THEN {Tail(family)} ELSE {}
        pm(t) == ReplaceFirstSubSeq(<<"pm">>, <<"pro", "max">>, t)
        u(t) == ReplaceFirstSubSeq(<<"u">>, <<"ultra">>, t)
        p(t) == IF t # <<>> /\ t[Len(t)] = "pro" THEN Front(t) \o <<"p">> ELSE t
    IN  UNION {{t, pm(t)} : t \in shorter \cup {family}} \cup {u(family)} \cup {p(t) : t \in shorter}

\* classify_candidate_category
Category(words) ==
    CASE words \cap CaseWords # {}      -> "case"
      [] words \cap ChargerWords # {}   -> "charger"
      [] words \cap AccessoryWords # {} -> "accessory"
      [] words \cap EarbudWords # {}    -> "earbuds"
      [] words \cap TabletWords # {}    -> "tablet"
      [] words \cap LaptopWords # {}    -> "laptop"
      [] words \cap WatchWords # {}     -> "wearable"
      [] OTHER                          -> "phone"

FamilyOf(s) == DeriveFamilyTitle(s.brand, s.series, s.model)

Distinct(seq) == Picked(seq, {i \in DOMAIN seq : \A j \in 1..(i - 1) : seq[j] # seq[i]})

\* aggregate_model_candidates: the candidate of a family, of its snapshots
Candidate(all) ==
    LET first == all[1]
        family == FamilyOf(first)
        groups == {Surface(all[i].group) : i \in DOMAIN all} \ {<<>>}
        models == Distinct(Mapped(all, LAMBDA s : s.model))
        \* the last one of those that no other one surpasses
        best == Max({i \in DOMAIN all : \A j \in DOMAIN all :
                        ~Exceeds(CandidatePreference(all[j]), CandidatePreference(all[i]))})
    IN  [brand     |-> first.brand, series |-> first.series, family |-> family,
         bucket    |-> all[best].bucket, models |-> models, groups |-> groups,
         rows      |-> Total(Mapped(all, LAMBDA s : s.rows)),
         sources   |-> Max({all[i].sources : i \in DOMAIN all}),
         latest    |-> Max({all[i].latest : i \in DOMAIN all}),
         aliases   |-> Aliases(first.brand, family),
         primary   |-> {first.series \o family} \cup ToSet(models),
         secondary |-> {<<first.brand>> \o first.series \o family} \cup groups,
         category  |-> Category({first.brand} \cup ToSet(first.series) \cup ToSet(family))]

Identity(s) == <<s.brand, s.series, FamilyOf(s)>>

AggregateModelCandidates(listed) ==
    LET of(k) == {i \in DOMAIN listed : Identity(listed[i]) = k}
    IN  Mapped(Distinct(Mapped(listed, Identity)), LAMBDA k : Candidate(Picked(listed, of(k))))

\* detail_ref_from_candidate
DetailRef(run, c) ==
    [run |-> run, brand |-> c.brand, series |-> c.series, family |-> c.family,
     bucket |-> c.bucket, models |-> c.models]

-----------------------------------------------------------------------------
(* Queries *)

PinyinQueryAliases == [pingguo |-> {"apple", "iphone", "Apple"}, erji |-> {"earphones", "airpods"}, pingban |-> {"tablet", "ipad", "matepad"}]
AppleWords == {"apple", "iphone", "Apple"}
BrandQueryAliases ==
    [apple |-> {<<"iphone">>, <<"Apple", "iphone">>, <<"Apple">>}, iphone |-> {<<"apple">>}, Apple |-> {<<"apple">>, <<"iphone">>}]
ShorthandTokenExpansions == [pm |-> {<<"pro", "max">>}, p |-> {<<"pro">>}, u |-> {<<"ultra">>}]
Misspelt == [iphnoe |-> "iphone", haewei |-> "huawei"]

\* Words that stand for no telephone
NonPhoneWords ==
    ChargerWords \cup CaseWords \cup AccessoryWords \cup EarbudWords \cup TabletWords \cup LaptopWords \cup WatchWords

Exchanged(surface, word, words) ==
    FlattenSeq([i \in DOMAIN surface |-> IF surface[i] = word THEN words ELSE <<surface[i]>>])

CorrectQueryTokens(surface) ==
    [i \in DOMAIN surface |-> IF surface[i] \in DOMAIN Misspelt THEN Misspelt[surface[i]] ELSE surface[i]]

\* expand_category_bridges: what a tablet or earphones of a brand are called
ExpandCategoryBridges(surface) ==
    LET words == ToSet(surface)
        called(brands, word, name) ==
            IF words \cap brands # {} /\ word \in words THEN {Exchanged(surface, word, <<name>>)} ELSE {}
    IN  called(AppleWords, "tablet", "ipad") \cup called({"huawei"}, "tablet", "matepad")
          \cup called(AppleWords, "earphones", "airpods")

PinyinReplacements(surface) ==
    UNION {{Exchanged(surface, w, <<r>>) : r \in PinyinQueryAliases[w]} : w \in ToSet(surface) \cap DOMAIN PinyinQueryAliases}

\* filter_brand_alias_replacements: an accessory of Apple is not of an iPhone
BrandReplacements(surface) ==
    LET other == ToSet(surface) \cap NonPhoneWords # {}
        allowed(w) == BrandQueryAliases[w] \ IF other THEN {<<"iphone">>, <<"Apple", "iphone">>, <<"apple">>} ELSE {}
    IN  UNION {{Exchanged(surface, w, r) : r \in allowed(w)} : w \in ToSet(surface) \cap DOMAIN BrandQueryAliases}

\* A shorthand is read behind a number only.
Shorthands(surface) ==
    UNION {{SubSeq(surface, 1, i - 1) \o long \o SubSeq(surface, i + 1, Len(surface))
              : long \in ShorthandTokenExpansions[surface[i]]}
           : i \in {i \in DOMAIN surface \ {1} :
                       surface[i] \in DOMAIN ShorthandTokenExpansions /\ surface[i - 1] \in Numbers}}

\* build_query_variants: the spellings of a query
QueryVariants(query) ==
    LET base == {Surface(query), CorrectQueryTokens(Surface(query))}
        bridged(S) == S \cup UNION {ExpandCategoryBridges(s) \cup PinyinReplacements(s) : s \in S}
        branded == bridged(base) \cup UNION {BrandReplacements(s) : s \in base}
        all == bridged(branded)
    IN  all \cup UNION {Shorthands(s) : s \in all}

\* strip_refinement_tokens: the unit of a capacity, which is a word of its
\* own by now, is not taken out with it
Stripped(surface) == SelectSeq(surface, LAMBDA w : w \notin Capacities \cup Colours)

\* The words of a query that are scored: a single letter is none
Tokens(surface) == SelectSeq(surface, LAMBDA w : w \notin Letters)

BrandHints ==
    [apple |-> AppleWords, huawei |-> {"huawei", "mate"}, xiaomi |-> {"xiaomi"}]
SeriesHintKeywords ==
    [iphone |-> {"iphone"}, ipad |-> {"ipad", "tablet"}, airpods |-> {"airpods", "earphones"}, mate |-> {"mate"}]
QueryCategoryKeywords ==
    [tablet |-> TabletWords, laptop |-> LaptopWords, wearable |-> WatchWords, earbuds |-> EarbudWords,
     charger |-> ChargerWords, case |-> CaseWords, accessory |-> AccessoryWords]

\* prepare_query_context, of a query and its spellings
ContextOf(query, variants) ==
    LET words == UNION {ToSet(s) : s \in variants}
        core == {Stripped(s) : s \in variants} \ {<<>>}
        named(table) == {h \in DOMAIN table : \E k \in table[h], w \in words : Same(k, w)}
        intents == named(QueryCategoryKeywords)
        capacities == words \cap Capacities
        colours == words \cap Colours
    IN  [variants |-> variants, core |-> core,
         brands   |-> named(BrandHints), intents |-> intents,
         series   |-> IF intents = {} THEN named(SeriesHintKeywords) ELSE named(SeriesHintKeywords) \ {"iphone"},
         bare     |-> /\ named(BrandHints) = {} /\ intents = {}
                      /\ ToSet(query) \cap HanWords = {} /\ Len(Tokens(query)) <= 3,
         capacities |-> capacities, colours |-> colours,
         onlyRefinement |-> capacities \cup colours # {} /\ core = {}]

QueryContext(query) == ContextOf(query, QueryVariants(query))

-----------------------------------------------------------------------------
(* Scores *)

\* _score_query_variant; -1 is no match
ScoreQueryVariant(q, words, c) ==
    LET points(condition, n) == IF condition THEN n ELSE 0
        label == IF c.family = q THEN 4200 ELSE IF EndsWith(c.family, q) THEN 3200
                 ELSE IF StartsWith(c.family, q) THEN 2850 ELSE points(Has(c.family, q), 2250)
        alias == IF q \in c.aliases THEN 3600 ELSE IF \E t \in c.aliases : EndsWith(t, q) THEN 2900
                 ELSE points(\E t \in c.aliases : Has(t, q), 2100)
        series == IF c.series = q THEN 3000 ELSE IF StartsWith(c.series, q) THEN 2100
                  ELSE points(Has(c.series, q), 1600)
        texts == IF \E t \in c.primary : StartsWith(t, q) THEN 2500
                 ELSE IF \E t \in c.primary : Has(t, q) THEN 2050
                 ELSE IF \E t \in c.secondary : StartsWith(t, q) THEN 1650
                 ELSE points(\E t \in c.secondary : Has(t, q), 1350)
        whole == Max({label, alias, series, texts, points(q \in c.primary, 3400), points(q \in c.secondary, 3000)})
        tokens == IF Len(q) = 1 THEN <<>> ELSE words
        inPrimary(i) == \E t \in c.primary : HasWord(t, tokens[i])
        inSecondary(i) == ~inPrimary(i) /\ \E t \in c.secondary : HasWord(t, tokens[i])
        first == Cardinality({i \in DOMAIN tokens : inPrimary(i)})
        second == Cardinality({i \in DOMAIN tokens : inSecondary(i)})
        missed == Len(tokens) - first - second
        score == whole + 440 * first + 260 * second
    IN  IF first + second = 0 THEN IF whole = 0 THEN -1 ELSE whole
        ELSE IF missed = 0 THEN score + 320 ELSE score - 260 * missed

\* candidate_matches_category_intents: exactly, or by a word of its titles
NamedAs(c, intents) ==
    \E i \in {"charger", "case", "accessory"} \cap intents :
        ({c.brand} \cup ToSet(c.series) \cup ToSet(c.family)) \cap QueryCategoryKeywords[i] # {}

\* query_prefers_primary_device_results
PrefersPrimaryDevices(ctx) == ctx.intents = {} /\ (ctx.bare \/ ctx.series \cap {"iphone", "mate"} # {})

Refused(c, ctx) ==
    \/ ctx.intents # {} /\ c.category \notin ctx.intents /\ ~NamedAs(c, ctx.intents)
    \/ PrefersPrimaryDevices(ctx) /\ c.category \in {"charger", "case", "accessory"}

CategoryScore(c, ctx) ==
    CASE ctx.intents # {} -> IF c.category \in ctx.intents THEN 1450 ELSE 820
      [] ctx.intents = {} /\ ctx.bare -> IF c.category = "phone" THEN 520 ELSE -900
      [] OTHER -> CASE c.category = "phone" -> 120
                    [] c.category \in {"charger", "case"} -> -420
                    [] c.category = "accessory" -> 0
                    [] OTHER -> -180

PrimaryDeviceScore(c, ctx) ==
    IF ~PrefersPrimaryDevices(ctx) THEN 0 ELSE IF c.category = "phone" THEN 260 ELSE -540

\* What a popular model gets
\* Variant: the rows are counted without a limit.
UnboundedPopularity(c) == 20 * c.rows + 25 * Cardinality(c.groups) + 4 * c.sources

Popularity(c) ==
    Min({c.rows, 500}) + Min({25 * Cardinality(c.groups), 180}) + Min({4 * c.sources, 120})

\* The best match of a candidate: without the words of the refinement it counts
\* for more.
Match(full, core) == IF core >= 0 THEN Max({full, core + 720}) ELSE full

BestMatch(c, ctx) ==
    Match(Max({ScoreQueryVariant(q, Tokens(q), c) : q \in ctx.variants}),
          Max({-1} \cup {ScoreQueryVariant(q, q, c) : q \in ctx.core}))

\* score_candidate; below 0 a candidate is none
ScoreCandidate(c, ctx) ==
    LET best == BestMatch(c, ctx)
        brand == IF ctx.brands = {} THEN 0 ELSE IF c.brand \in ctx.brands THEN 1850 ELSE -900
        texts == {c.family, c.series} \cup c.aliases \cup c.primary \cup c.secondary
        inSeries == Cardinality({h \in ctx.series : \E t \in texts : HasWord(t, h)})
        series == IF ctx.series = {} THEN 0 ELSE IF inSeries = 0 THEN -850 ELSE 950 * inSeries
        hinted(hints) == Cardinality({h \in hints : \E g \in c.groups : HasWord(g, h)})
        capacity == IF hinted(ctx.capacities) > 0 THEN 220 * hinted(ctx.capacities)
                    ELSE IF ctx.core = {} THEN 0 ELSE -Min({120 * Cardinality(ctx.capacities), 280})
    IN  IF best < 0 \/ Refused(c, ctx) THEN -1
        ELSE best + brand + series + CategoryScore(c, ctx) + PrimaryDeviceScore(c, ctx)
             + capacity + 180 * hinted(ctx.colours) + Popularity(c)

\* rank_candidates; candidates that tie keep their order
Rank(s, ctx) ==
    <<IF ctx.brands # {} /\ s.of.brand \in ctx.brands THEN 1 ELSE 0, s.score,
      CandidateBucketPriority(s.of.bucket), s.of.rows, Cardinality(s.of.groups), s.of.sources, s.of.latest>>

RankFor(ctx, candidates) ==
    LET scored == Mapped(candidates, LAMBDA c : [score |-> ScoreCandidate(c, ctx), of |-> c])
        kept == Picked(scored, {i \in DOMAIN scored : scored[i].score \in Nat})
    IN  IF ctx.onlyRefinement THEN <<>> ELSE Mapped(Descending(kept, LAMBDA s : Rank(s, ctx)), LAMBDA s : s.of)

RankCandidates(query, candidates) == RankFor(QueryContext(query), candidates)
=============================================================================
