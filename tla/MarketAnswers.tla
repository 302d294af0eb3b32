--------------------------- MODULE MarketAnswers ---------------------------
(***************************************************************************)
(* From the quotes of a run to the answers of the query API                *)
(* (release/live_market.py, core/storage_publish.py, query_api/server.py,  *)
(* query_api/search_pipeline.py, query_api/branch_assembly.py).            *)
(*                                                                         *)
(* Publishing a run prices every article that it quotes and makes the run  *)
(* the live one; what earlier runs published stays in the database.  A     *)
(* client searches, and opens a hit by its detail key, which names the run *)
(* of the search: another run may be live by then.                         *)
(*                                                                         *)
(* A scenario is what the rest of the system and the client put in: the    *)
(* quotes of each run, the reference price, and the texts that are asked.  *)
(***************************************************************************)
EXTENDS MarketPrice, SnapshotRefine

CONSTANTS
    Articles,   \* article -> its brand, series, model, group, its place in the
                \* alphabet, and how many quotes its merchants have replaced
    Scenarios,  \* what may be quoted and asked
    Limit       \* the most hits of a search

NoRun == "none"

OfModel(s, key, model) == s.brand = key.brand /\ s.series = key.series /\ s.model = model

\* The quotes of a run are rows of one table: each has an id of its own, and
\* tells its article.  A reference price is a price, or 0 if there is none.
ASSUME ScenarioAssumption ==
    \A s \in Scenarios :
        /\ s.reference \in Nat /\ s.queries \subseteq Seq(STRING) /\ s.refinements \subseteq Seq(STRING)
        /\ NoRun \notin DOMAIN s.quotes
        /\ \A run \in DOMAIN s.quotes :
            /\ IsFiniteSet(s.quotes[run])
            /\ \A q \in s.quotes[run] :
                /\ q.article \in DOMAIN Articles
                /\ q.id \in Nat /\ q.at \in Nat /\ q.day \in Nat /\ q.price \in Nat /\ q.numeric \in BOOLEAN
                /\ \A p \in s.quotes[run] : p.id = q.id => p = q

\* An article is told by its titles; the places are those in their order.
ASSUME ArticleAssumption ==
    /\ IsFiniteSet(DOMAIN Articles)
    /\ \A a \in DOMAIN Articles :
        /\ Articles[a].replaced \in Nat /\ Articles[a].place \in Nat /\ Articles[a].group \in Seq(STRING)
        /\ \A b \in DOMAIN Articles \ {a} :
            /\ Articles[a].place # Articles[b].place
            /\ Articles[a].group # Articles[b].group \/ ~OfModel(Articles[a], Articles[b], Articles[b].model)

ASSUME LimitAssumption == Limit \in Nat

VARIABLES
    scenario,   \* the scenario that takes place
    snapshots,  \* market_snapshots: the articles that the runs have published
    live,       \* live_market_run_key
    answer,     \* the last search: its query, its run and its hits
    page        \* what of it was last opened: the key, the refinement and the article

vars == <<scenario, snapshots, live, answer, page>>

Runs == DOMAIN scenario.quotes

Closed == [reason |-> "closed", key |-> <<>>, query |-> <<>>, shown |-> <<>>, full |-> <<>>]

Init ==
    /\ scenario \in Scenarios
    /\ snapshots = {}
    /\ live = NoRun
    /\ answer = [query |-> <<>>, run |-> NoRun, hits |-> <<>>]
    /\ page = Closed

-----------------------------------------------------------------------------
(* Publishing a run *)

Bucket(q) == ConditionBucket(Articles[q.article].brand, q.status)

\* The quotes of a run of one article in one condition
Quoted(run, article, bucket) ==
    {q \in scenario.quotes[run] : q.article = article /\ Bucket(q) = bucket}

\* The snapshot of some quotes that have a market
Snapshot(run, article, bucket, rows, m) ==
    LET a == Articles[article] IN
    [run |-> run, article |-> article, bucket |-> bucket,
     brand |-> a.brand, series |-> a.series, model |-> a.model, group |-> a.group, place |-> a.place,
     rows |-> Cardinality(rows) + a.replaced, sources |-> Cardinality({q.seller : q \in rows}),
     latest |-> Max({q.at : q \in rows}),
     market |-> m.market, low |-> m.low, high |-> m.high, samples |-> m.samples, day |-> m.day]

\* The article is published, if it has a market.
SnapshotIfAny(run, article, bucket, rows, m) ==
    IF m.ok THEN {Snapshot(run, article, bucket, rows, m)} ELSE {}

\* The market of some quotes of an article
MarketNow(article, rows) == QualityMarket(rows, Articles[article].brand, scenario.reference)

\* build_live_market_payload: what a run publishes
SnapshotsOf(run) ==
    UNION {LET rows == Quoted(run, k[1], k[2])
           IN  SnapshotIfAny(run, k[1], k[2], rows, MarketNow(k[1], rows))
           : k \in {<<q.article, Bucket(q)>> : q \in scenario.quotes[run]}}

\* build_live_market_payload and publish_market_snapshots
Publish(run) ==
    /\ snapshots' = {s \in snapshots : s.run # run} \cup SnapshotsOf(run)
    /\ live' = run
    /\ UNCHANGED <<scenario, answer, page>>

-----------------------------------------------------------------------------
(* Searching *)

\* build_search_payload: the detail keys of the best candidates.  Bound: one
\* search of a run that has become the live one, since no answer depends on
\* what was searched before.
Search(query) ==
    /\ live # answer.run
    /\ \E ranked \in {RankCandidates(query, AggregateModelCandidates(ListMarketSnapshotCandidates(snapshots, live)))} :
        answer' = [query |-> query, run |-> live,
                   hits |-> [i \in DOMAIN ranked \cap (1..Limit) |-> DetailRef(live, ranked[i])]]
    /\ page' = Closed
    /\ UNCHANGED <<scenario, snapshots, live>>

-----------------------------------------------------------------------------
(* Opening an article *)

\* Of some candidates in order those of a bucket, or all if there is none
OfBucket(listed, bucket) ==
    LET matched == Picked(listed, {i \in DOMAIN listed : listed[i].bucket = bucket})
    IN  IF matched = <<>> THEN listed ELSE matched

\* _resolve_family_models
ResolveFamilyModels(listed, key, bucket) ==
    LET family == Picked(listed, {i \in DOMAIN listed : Identity(listed[i]) = <<key.brand, key.series, key.family>>})
        source == OfBucket(family, bucket)
    IN  Distinct(Mapped(source, LAMBDA s : s.model))

\* _resolve_preferred_quote_candidate: the bucket of the family
PreferredBucket(candidates, key) ==
    LET found == {i \in DOMAIN candidates : /\ candidates[i].brand = key.brand
                                            /\ candidates[i].series = key.series
                                            /\ candidates[i].family = key.family}
    IN  IF found = {} THEN key.bucket ELSE candidates[Min(found)].bucket

\* Variant: a snapshot of any run will do.
BranchCandidatesOfAnyRun(listed, run, key, model, bucket) ==
    OfBucket(Picked(listed, {i \in DOMAIN listed : OfModel(listed[i], key, model) /\ listed[i].group # <<>>}), bucket)

\* _resolve_branch_snapshot_candidates: among those of the live run, one a group
BranchCandidates(listed, run, key, model, bucket) ==
    LET fits(s) == s.run = run /\ OfModel(s, key, model) /\ s.group # <<>>
        source == OfBucket(Picked(listed, {i \in DOMAIN listed : fits(listed[i])}), bucket)
    IN  Picked(source, {i \in DOMAIN source : \A j \in 1..(i - 1) : source[j].group # source[i].group})

\* get_model_family_rows, by group: the group of the newest quote comes first; the
\* second call, for the rows without a condition, finds none
FamilyGroups(run, key, model, bucket) ==
    LET quoted == {a \in DOMAIN Articles : OfModel(Articles[a], key, model) /\ Quoted(run, a, bucket) # {}}
        newest(a) == CHOOSE q \in Quoted(run, a, bucket) : \A p \in Quoted(run, a, bucket) \ {q} :
                        Exceeds(<<q.at, q.id>>, <<p.at, p.id>>)
    IN  Ordered(quoted, LAMBDA a, b : Exceeds(<<newest(a).at, newest(a).id>>, <<newest(b).at, newest(b).id>>))

\* normalize_variant_title: the name of what has none
NormalizeVariantTitle(group) == IF group = <<>> THEN <<"plain">> ELSE group

\* _variant_from_snapshot_row
VariantFromSnapshotRow(s) ==
    [group |-> NormalizeVariantTitle(s.group), price |-> s.market, low |-> s.low, high |-> s.high,
     samples |-> s.samples, latest |-> s.latest, days |-> {s.day}]

\* A variant that its run has not published: its market now, or the median of
\* the recent prices if the market is 0
VariantOfMarket(snapshot, rows) ==
    LET selected == SelectRecentDayWindow(NumericRows(DedupeLatestRows(rows)), 10, 3)
    IN  [VariantFromSnapshotRow(snapshot) EXCEPT
            !.price = IF @ # 0 THEN @ ELSE Median(Prices({q \in selected : q.price > 0})),
            !.days = {q.day : q \in selected}]

\* build_from_rows for one group: what its run published, else its market now
VariantFromRows(run, article, bucket) ==
    LET published == {s \in snapshots : s.run = run /\ s.article = article /\ s.bucket = bucket}
        rows == Quoted(run, article, bucket)
    IN  IF published # {} THEN {VariantFromSnapshotRow(s) : s \in published}
        ELSE {VariantOfMarket(s, rows) : s \in SnapshotIfAny(run, article, bucket, rows, MarketNow(article, rows))}

\* _upsert_capacity_variant and _finalize_capacity_groups: the variants of
\* each capacity, whose summary is that of the one with the most samples
CapacityOf(v) == SplitGroupSpec(v.group).capacity

VariantRank(v) == <<v.samples, v.latest>>

Colour(v) ==
    [group |-> v.group, label |-> SplitGroupSpec(v.group).variant, price |-> v.price,
     low |-> v.low, high |-> v.high, samples |-> v.samples, latest |-> v.latest, days |-> v.days]

CapacityGroup(capacity, all) ==
    LET best == Max({i \in DOMAIN all : \A j \in DOMAIN all : ~Exceeds(VariantRank(all[j]), VariantRank(all[i]))})
    IN  [capacity |-> capacity, price |-> all[best].price, low |-> all[best].low, high |-> all[best].high,
         samples |-> all[best].samples, latest |-> all[best].latest, days |-> all[best].days,
         colours |-> Descending(Mapped(all, Colour), VariantRank)]

CapacityGroups(variants) ==
    LET group(c) == CapacityGroup(c, Picked(variants, {i \in DOMAIN variants : CapacityOf(variants[i]) = c}))
    IN  Descending(Mapped(Distinct(Mapped(variants, CapacityOf)), group), LAMBDA g : <<-CapacityOrder(g.capacity)>>)

\* The variants of a branch, from the snapshots of the live run or the rows of
\* its own
BranchVariants(found, run, key, model, bucket) ==
    IF found # <<>> THEN Mapped(found, VariantFromSnapshotRow)
    ELSE LET groups == FamilyGroups(run, key, model, bucket)
             priced == {i \in DOMAIN groups : VariantFromRows(run, groups[i], bucket) # {}}
         IN  Mapped(Picked(groups, priced), LAMBDA a : CHOOSE v \in VariantFromRows(run, a, bucket) : TRUE)

BranchOf(title, groups) ==
    [title |-> title, groups |-> groups,
     samples |-> Total(Mapped(groups, LAMBDA g : g.samples)),
     latest |-> Max({0} \cup {groups[i].latest : i \in DOMAIN groups})]

Branch(listed, run, key, model, bucket) ==
    BranchOf(model, CapacityGroups(
        BranchVariants(BranchCandidates(listed, run, key, model, bucket), run, key, model, bucket)))

\* The branch with the most samples comes first; its first group is the default
\* capacity.
ArticleOf(title, branches) ==
    [title |-> title, branches |-> branches, price |-> IF branches = <<>> THEN 0 ELSE branches[1].groups[1].price]

\* The article of a key, before it is refined
Assembled(listed, run, key, models, bucket) ==
    LET branches == Mapped(models, LAMBDA m : Branch(listed, run, key, m, bucket))
        priced == Picked(branches, {i \in DOMAIN branches : branches[i].groups # <<>>})
    IN  ArticleOf(key.family, Descending(priced, LAMBDA b : <<b.samples, Len(b.groups), b.latest>>))

Failure(reason, key) == [Closed EXCEPT !.reason = reason, !.key = key]

Shown(key, full, refined, query) ==
    [reason |-> refined.reason, key |-> key, query |-> query, shown |-> refined.article, full |-> full]

PageOf(key, refinement, full) ==
    IF full.branches = <<>> THEN Failure("no_usable_price", key)
    ELSE Shown(key, full, RefineSnapshot(full, refinement), refinement)

\* If no model is found, the code looks them up once more: the same rows for the
\* run that is live, which it reports with the failure in place of the key's.
Opened(key, refinement, listed, models, bucket) ==
    IF models = <<>> THEN Failure("model_not_found", key)
    ELSE PageOf(key, refinement, Assembled(listed, key.run, key, models, bucket))

\* The models and the bucket that a key names, or that are found for it
OpenedIn(key, refinement, listed) ==
    LET bucket == IF key.bucket # "" THEN key.bucket
                  ELSE PreferredBucket(AggregateModelCandidates(listed), key)
    IN  Opened(key, refinement, listed,
               IF key.models # <<>> THEN key.models ELSE ResolveFamilyModels(listed, key, bucket), bucket)

\* _quote_snapshot_payload: opening a key, or a title that comes without one.
\* Bound: one article is opened after a search, since no answer depends on
\* what was opened before.
Open(key, refinement) ==
    /\ page = Closed
    /\ page' = OpenedIn(key, refinement, ListMarketSnapshotCandidates(snapshots, live))
    /\ UNCHANGED <<scenario, snapshots, live, answer>>

OpenHit == \E i \in DOMAIN answer.hits, r \in scenario.refinements : Open(answer.hits[i], r)

\* The titles of a hit without its detail key, against the run that is live
OpenTitle ==
    \E i \in DOMAIN answer.hits :
        Open([answer.hits[i] EXCEPT !.run = live, !.bucket = "", !.models = <<>>], <<>>)

Next ==
    \/ \E run \in Runs : Publish(run)
    \/ \E query \in scenario.queries : Search(query)
    \/ OpenHit
    \/ OpenTitle

Spec == Init /\ [][Next]_vars

-----------------------------------------------------------------------------
(* Properties *)

\* The snapshots have prices in their range and no more samples than
\* rows; an article has one snapshot a condition and run.  A search is of a
\* run that was published.
TypeOK ==
    /\ \A s \in snapshots :
        /\ s.run \in Runs /\ s.bucket \in TargetBuckets
        /\ 0 <= s.low /\ s.low <= s.market /\ s.market <= s.high
        /\ s.samples \in 1..s.sources /\ s.sources <= s.rows
    /\ \A s, t \in snapshots : <<s.run, s.article, s.bucket>> = <<t.run, t.article, t.bucket>> => s = t
    /\ live \in Runs \cup {NoRun}
    /\ answer.run \in Runs \cup {NoRun} /\ DOMAIN answer.hits \subseteq 1..Limit

Later(q, p) == Exceeds(<<q.at, q.day, q.id>>, <<p.at, p.day, p.id>>)

\* The last word of each merchant, if it is a price that counts
LastWords(run, article, bucket) ==
    LET rows == Quoted(run, article, bucket)
        last(q) == \A p \in rows : p.seller = q.seller => Later(q, p) \/ p = q
    IN  {q \in rows : last(q) /\ q.numeric /\ q.status \notin {"subsidised", "regional", "opened"}
                              /\ (Articles[article].brand = "apple" => q.status \in {"exact", "nationwide"})}

\* The words of the day of the latest one: at the turn of the year the latest
\* day is not the one with the greatest label
Today(words) ==
    {q \in words : \E n \in words : n.day = q.day /\ \A p \in words : Later(n, p) \/ p = n}

\* The live run has a price for every article about which a merchant's last
\* word is a price that counts, and for no other; the price is of the latest
\* day of such words and lies among them, whatever noise is quoted later.
LatestValidDayIsPriced ==
    live # NoRun => \A a \in DOMAIN Articles, b \in TargetBuckets :
        LET words == LastWords(live, a, b)
            today == Today(words)
            priced == {s \in snapshots : s.run = live /\ s.article = a /\ s.bucket = b}
        IN  /\ words = {} <=> priced = {}
            /\ \A s \in priced, q \in today :
                /\ s.day = q.day
                /\ \E p \in today : p.price <= s.market
                /\ \E p \in today : p.price >= s.market

\* A majority of the merchants makes the market: if more than half of the last
\* words of the latest day have one status and are less than 80 apart, and they
\* are more than three quarters of the words of that status, the price is among
\* them, however far off or often the others quote.  With a smaller part of its
\* status a majority can lose: four of 1000 and two of 3200 are one wide cluster.
MajorityMakesTheMarket ==
    \A s \in snapshots :
        LET words == LastWords(s.run, s.article, s.bucket)
            today == Today(words)
            near(q, p) == p.status = q.status /\ p.price >= q.price /\ p.price < q.price + 80
            most(q) == {p \in today : near(q, p)}
            same(q) == {p \in today : p.status = q.status}
        IN  \A q \in today :
                (/\ 2 * Cardinality(most(q)) > Cardinality(today)
                 /\ 4 * Cardinality(most(q)) > 3 * Cardinality(same(q))
                 /\ scenario.reference = 0 \/ \E p \in most(q) : p.price = scenario.reference)
                  => /\ q.price <= s.market
                     /\ \E p \in most(q) : s.market <= p.price

\* A query that asks for a family: its title, or for an iPhone what follows
\* in it with the brand in front
AsksFor(query, s) ==
    query \in {FamilyOf(s)} \cup (IF s.brand = "apple" /\ FamilyOf(s)[1] = "iphone"
                                THEN {<<w>> \o Tail(FamilyOf(s)) : w \in {"apple", "Apple"}} ELSE {})

ComesFirst(s) == answer.hits # <<>> /\ answer.hits[1].family = FamilyOf(s)

\* Published articles that the last search asks for, apart from the capacity
\* and colours that it names
AskedFor ==
    {s \in snapshots : /\ s.run = answer.run /\ AsksFor(Stripped(answer.query), s)
                       /\ \A t \in snapshots : t.run = s.run /\ FamilyOf(t) = FamilyOf(s) => Identity(t) = Identity(s)}

\* A search for a published family, with the number of a capacity or colours
\* in the query or without, has the family as its first hit, however popular
\* the families are whose titles begin alike.
SearchedTitleComesFirst == ToSet(answer.query) \cap Sizes = {} => \A s \in AskedFor : ComesFirst(s)

\* The exact family is preferred when there is capacity noise in the query,
\* with or without the unit of the capacity, as the name of a test has it
\* (test_search_prefers_exact_family_when_capacity_noise_is_present).
CapacityNoiseKeepsTheFamily == \A s \in AskedFor : ComesFirst(s)

\* The colours of an article
ColoursOf(article) ==
    UNION {UNION {{[model |-> b.title, group |-> c.group, market |-> c.price, low |-> c.low, high |-> c.high]
                     : c \in ToSet(g.colours)} : g \in ToSet(b.groups)} : b \in ToSet(article.branches)}

ShownOf(s) ==
    [model |-> s.model, group |-> NormalizeVariantTitle(s.group), market |-> s.market, low |-> s.low, high |-> s.high]

\* A hit opens, also when another run has become the live one meanwhile, and
\* shows every price that the run of the search published for the family, and
\* no other one.  An article without a group title is left out while its run is
\* live, if its model has articles with one.
HitShowsItsRun ==
    page.key # <<>> /\ page.reason # "closed" =>
        LET published == {s \in snapshots : /\ s.run = page.key.run
                                            /\ Identity(s) = <<page.key.brand, page.key.series, page.key.family>>}
            grouped == {s \in published : s.group # <<>> \/ \A t \in published : t.model = s.model => t.group = <<>>}
        IN  IF published = {} THEN page.reason = "model_not_found"
            ELSE /\ page.reason \notin {"model_not_found", "no_usable_price"}
                 /\ {ShownOf(s) : s \in grouped} \subseteq ColoursOf(page.full)
                 /\ ColoursOf(page.full) \subseteq {ShownOf(s) : s \in published}
                 /\ page.full.price \in {s.market : s \in published}

\* An article that was narrowed to a capacity or a colour shows the variants
\* of it, and all of them.
RefinementAnswersTheQuestion ==
    page.reason = "applied" /\ CapacityHints(page.query) \cup ColourHints(page.query) # {} =>
        LET fits(c) == /\ \A h \in CapacityHints(page.query) : HasWord(c.group, h)
                       /\ ColourHints(page.query) = {} \/ \E h \in ColourHints(page.query) : HasWord(c.group, h)
            component(c) == ToSet(c.group) \cap ComponentVariantHints # {}
        IN  /\ \A c \in ColoursOf(page.shown) : fits(c)
            /\ \A c \in ColoursOf(page.full) : fits(c) /\ ~component(c) => c \in ColoursOf(page.shown)

\* The price that is shown for a capacity is the price of a variant that is
\* shown under it, unless these all have the price 0, which is no summary; the
\* range of a capacity that was narrowed spans what is shown.
CapacityPriceIsShown ==
    page.reason = "applied" =>
        \A b \in ToSet(page.shown.branches) : \A g \in ToSet(b.groups) :
            /\ (\E c \in ToSet(g.colours) : c.price = g.price) \/ (\A c \in ToSet(g.colours) : c.price = 0)
            /\ CapacityHints(page.query) \cup ColourHints(page.query) # {} => \A c \in ToSet(g.colours) : g.low <= c.price /\ c.price <= g.high
=============================================================================
