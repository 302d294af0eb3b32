\* Bags of quotes of one article, and shelves of articles that are searched,
\* opened and narrowed, with a second run published in between.  Nothing has
\* to follow an opened article.
CONSTANTS
    Articles <- MCArticles
    Scenarios <- MCScenarios
    Limit = 4
SPECIFICATION Spec
INVARIANT TypeOK
INVARIANT LatestValidDayIsPriced
INVARIANT MajorityMakesTheMarket
INVARIANT SearchedTitleComesFirst
INVARIANT HitShowsItsRun
INVARIANT RefinementAnswersTheQuestion
INVARIANT CapacityPriceIsShown
