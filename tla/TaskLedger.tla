----------------------------- MODULE TaskLedger -----------------------------
(***************************************************************************)
(* What a crawl promises of the tasks of its run, whatever the order of    *)
(* answers, the retries and the restarts: rows that were stored stay       *)
(* stored, a task is credited only when its rows are stored, and the live  *)
(* market shows what was stored when it was published.  CrawlRun           *)
(* implements it.                                                          *)
(***************************************************************************)
CONSTANT Tasks

VARIABLES
    rows,       \* the tasks whose quote rows are stored
    credit,     \* the tasks recorded as collected
    live        \* the tasks the last publication of the run shows

ledger == <<rows, credit, live>>

Init ==
    /\ rows = {}
    /\ credit = {}
    /\ live = {}

\* The rows of a task are stored; again, when it is collected again.
Store(k) ==
    /\ rows' = rows \union {k}
    /\ UNCHANGED <<credit, live>>

Credit(k) ==
    /\ k \in rows
    /\ credit' = credit \union {k}
    /\ UNCHANGED <<rows, live>>

\* A task may lose its credit when something fails after its rows were
\* stored: it is then collected again.
Doubt(k) ==
    /\ credit' = credit \ {k}
    /\ UNCHANGED <<rows, live>>

\* A table without any task is filled from the output files of the run.
Import ==
    /\ credit = {}
    /\ rows' \in SUBSET Tasks
    /\ credit' \in SUBSET rows'
    /\ UNCHANGED live

Publish ==
    /\ live' = rows
    /\ UNCHANGED <<rows, credit>>

Next ==
    \/ \E k \in Tasks : Store(k) \/ Credit(k) \/ Doubt(k)
    \/ Import
    \/ Publish

Spec == Init /\ [][Next]_ledger
=============================================================================
