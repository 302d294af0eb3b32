---------------------------- MODULE MCCrawlRun ----------------------------
EXTENDS CrawlRun

CONSTANTS k1, k2

Command(p, w, l, s) == [plan |-> p, workers |-> w, limit |-> l, sqlite |-> s]

\* Every attempt plans both tasks; or a filter or the blacklist leaves one,
\* or it starts at most one, or it works without the database.
MCOptions == {Command({k1, k2}, 2, 0, TRUE), Command({k1}, 1, 0, TRUE),
              Command({k1, k2}, 1, 1, TRUE), Command({k1, k2}, 1, 0, FALSE)}
===========================================================================
