--------------------------- MODULE SnapshotRefine ---------------------------
(***************************************************************************)
(* Narrowing an opened article to what a further query asks for            *)
(* (query_api/snapshot_refinement.py).                                     *)
(*                                                                         *)
(* An article has a title and a sequence of branches; a branch a title and *)
(* a sequence of capacity groups; a group a capacity, a price, a range, a  *)
(* set of days and a sequence of colours; a colour its group title, its    *)
(* label, a price, a range and a day.  Texts are sequences of words, as in *)
(* ModelSearch.                                                            *)
(***************************************************************************)
EXTENDS ModelSearch

ModelKeywords == {"iphone", "apple", "Apple", "huawei", "mate", "xiaomi"}
ComponentVariantHints == {"chargingcase", "earbud"}

\* What a title is also called
CompactAliases(text) ==
    LET pm(t) == ReplaceFirstSubSeq(<<"pm">>, <<"pro", "max">>, t)
    IN  {text, pm(text)} \cup IF text[1] = "iphone" THEN {Tail(text), pm(Tail(text))} ELSE {}

\* snapshot_vocabulary
SnapshotVocabulary(article) ==
    LET branches == ToSet(article.branches)
        groups == UNION {ToSet(b.groups) : b \in branches}
        colours == UNION {ToSet(g.colours) : g \in groups}
    IN  UNION {CompactAliases(t) : t \in {article.title} \cup {b.title : b \in branches}
                 \cup {<<g.capacity>> : g \in groups} \cup {c.label : c \in colours} \cup ({c.group : c \in colours} \ {<<>>})}
          \ {<<>>}

CapacityHints(query) == ToSet(query) \cap Capacities

ColourHints(query) == ToSet(query) \cap Colours

\* A text and a word, one of which is a part of the other
Touches(text, word) == HasWord(text, word) \/ text = <<>> \/ (Len(text) = 1 /\ Same(text[1], word))

\* can_refine_current_snapshot: not another model; a capacity, a colour, or
\* words of the article
CanRefine(query, article) ==
    /\ query # <<>>
    /\ \A k \in ModelKeywords : ~HasWord(query, k)
    /\ \/ CapacityHints(query) \cup ColourHints(query) # {}
       \/ \A i \in DOMAIN query : \E t \in SnapshotVocabulary(article) : Touches(t, query[i])

ScoreTextMatch(text, query) ==
    IF text = query THEN 320 ELSE IF StartsWith(text, query) THEN 220
    ELSE IF Has(text, query) THEN 140 ELSE 0

VariantSearchSurface(colour) == colour.group \o colour.label

ContainsCapacityHints(surface, hints) == \A h \in hints : HasWord(surface, h)

TokenMatchScore(surface, query) ==
    LET points(w) == IF surface = <<w>> THEN 320 ELSE IF StartsWith(surface, <<w>>) THEN 220
                     ELSE IF Touches(surface, w) THEN 140 ELSE 0
    IN  Total(Mapped(query, points))

ColourHintMatches(surface, hints) == hints = {} \/ \E h \in hints : Touches(surface, h)

IsComponent(colour) == ToSet(VariantSearchSurface(colour)) \cap ComponentVariantHints # {}

\* Variant: the summary of the group is left as it was.
SummaryKept(group) == group

\* refresh_group_summary_from_colors: the price is that of the first colour whose
\* price is not 0, if there is one; the counts of the group stay
RefreshGroupSummary(group) ==
    LET c == ToSet(group.colours)
        priced == Picked(group.colours, {i \in DOMAIN group.colours : group.colours[i].price # 0})
    IN  [group EXCEPT !.low = Min({x.low : x \in c}), !.high = Max({x.high : x \in c}),
                      !.price = IF priced = <<>> THEN @ ELSE priced[1].price,
                      !.days = UNION {x.days : x \in c}]

\* The words of the query are looked for in the colours, if it names no
\* colour, and its capacity, if it names one, is not the group's.
FiltersByText(query, group) ==
    /\ ColourHints(query) = {}
    /\ CapacityHints(query) = {} \/ ~ContainsCapacityHints(<<group.capacity>>, CapacityHints(query))

\* Variant: the capacity of a colour is not asked for.
ColourMatchesOnly(colour, query, group) ==
    /\ ColourHintMatches(VariantSearchSurface(colour), ColourHints(query))
    /\ FiltersByText(query, group) => TokenMatchScore(VariantSearchSurface(colour), query) > 0

ColourMatched(colour, query, group) ==
    LET surface == VariantSearchSurface(colour)
        hints == CapacityHints(query)
    IN  /\ ContainsCapacityHints(<<group.capacity>>, hints) \/ ContainsCapacityHints(surface, hints)
        /\ ColourHintMatches(surface, ColourHints(query))
        /\ FiltersByText(query, group) => TokenMatchScore(surface, query) > 0

ColourScore(colour, query, group) ==
    LET surface == VariantSearchSurface(colour)
        hints == CapacityHints(query)
        points(condition, n) == IF condition THEN n ELSE 0
    IN  points(ColourMatched(colour, query, group), 160) + ScoreTextMatch(surface, query)
        + TokenMatchScore(surface, query)
        + points(ColourHintMatches(surface, ColourHints(query)), 80)
        + points(ContainsCapacityHints(<<group.capacity>>, hints) \/ ContainsCapacityHints(surface, hints), 80)

\* Without the components, unless they are asked for or all there is
WithoutComponents(colours, query) ==
    LET whole == Picked(colours, {i \in DOMAIN colours : ~IsComponent(colours[i])})
    IN  IF ToSet(query) \cap ComponentVariantHints # {} \/ whole = <<>> THEN colours ELSE whole

\* The colours of a group that are left
FilteredColours(query, group) ==
    LET all == ColourHints(query) = {} /\ ~FiltersByText(query, group)
        kept == Picked(group.colours, {i \in DOMAIN group.colours : all \/ ColourMatched(group.colours[i], query, group)})
    IN  WithoutComponents(Descending(kept, LAMBDA c : <<ColourScore(c, query, group)>>), query)

GroupMatched(query, group, left) ==
    /\ ContainsCapacityHints(<<group.capacity>>, CapacityHints(query)) \/ left # <<>>
    /\ ColourHints(query) = {} \/ left # <<>>

GroupScore(query, group, left) ==
    LET points(condition, n) == IF condition THEN n ELSE 0
        capacity == ContainsCapacityHints(<<group.capacity>>, CapacityHints(query)) \/ left # <<>>
        named == ScoreTextMatch(<<group.capacity>>, query) > 0 \/ \E i \in DOMAIN query : Same(query[i], group.capacity)
    IN  points(GroupMatched(query, group, left), 220) + points(capacity, 120) + points(named, 80)
        + IF left = <<>> THEN 0 ELSE ColourScore(left[1], query, group)

\* A group with the colours that are left in it
RefinedGroup(query, group, left) ==
    [matched |-> GroupMatched(query, group, left), score |-> GroupScore(query, group, left),
     group |-> IF left = <<>> THEN group ELSE RefreshGroupSummary([group EXCEPT !.colours = left])]

\* sort_capacity_groups, of the groups that a query left
SortCapacityGroups(groups) == Descending(groups, LAMBDA g : <<g.score, -CapacityOrder(g.group.capacity)>>)

RefinedBranchOf(query, branch, kept) ==
    LET title == ScoreTextMatch(branch.title, query)
    IN  [score  |-> title + Total(Mapped(kept, LAMBDA g : g.score)),
         found  |-> kept # <<>> \/ title > 0,
         branch |-> [branch EXCEPT !.groups = Mapped(SortCapacityGroups(kept), LAMBDA g : g.group)]]

\* A branch with the groups that are left in it: without a capacity and a
\* colour in the query those that score.
RefinedBranch(query, branch) ==
    LET hinted == CapacityHints(query) \cup ColourHints(query) # {}
        groups == Mapped(branch.groups, LAMBDA g : RefinedGroup(query, g, FilteredColours(query, g)))
    IN  RefinedBranchOf(query, branch, Picked(groups, {i \in DOMAIN groups : IF hinted THEN groups[i].matched ELSE groups[i].score > 0}))

Unrefined(article, reason) == [reason |-> reason, article |-> article]

Refined(article, found) ==
    IF found = <<>> THEN Unrefined(article, "no_match")
    ELSE [reason |-> "applied",
          article |-> [article EXCEPT !.branches = Mapped(Descending(found, LAMBDA b : <<b.score>>), LAMBDA b : b.branch)]]

\* refine_snapshot; price and default capacity of the article stay
RefineSnapshot(article, query) ==
    IF query = <<>> THEN Unrefined(article, "empty_query")
    ELSE IF ~CanRefine(query, article) THEN Unrefined(article, "not_applicable")
    ELSE LET branches == Mapped(article.branches, LAMBDA b : RefinedBranch(query, b))
         IN  Refined(article, Picked(branches, {i \in DOMAIN branches : branches[i].found}))
=============================================================================
