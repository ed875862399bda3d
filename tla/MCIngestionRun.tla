----------------------------- MODULE MCIngestionRun ----------------------------
EXTENDS IngestionRun
MCJobs == 1..3

Site(list, one, two, three) ==
    [feed |-> list, page |-> <<one, two, three>>]

\* Everything listed; the two matching vacancies withdrawn, one still reachable and one
\* moved; nothing listed at all, one page closed and one gone.
MCSites ==
    {Site({1, 2, 3}, "live", "live", "live"), Site({3}, "moved", "live", "live"),
     Site({}, "notfound", "closed", "live")}
================================================================================
