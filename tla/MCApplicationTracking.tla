------------------------- MODULE MCApplicationTracking -------------------------
EXTENDS ApplicationTracking, TLC
CONSTANTS m1, m2, m3, m4, m5
\* Two messages of one thread, of which only the second names the vacancy, and a third
\* that knows no more than its address; the row of a fourth, which the scan gives twice,
\* matters only once it is classified as more than other mail, and that of a fifth is one
\* that no plan accepts.  The operator may have recorded the vacancy
\* under a shorter title.
MCMail ==
    m1 :> [class |-> "acknowledgement", later |-> "outcome", employer |-> "e",
           title |-> None, url |-> "v", domain |-> "d", thread |-> "T", row |-> "valid"] @@
    m2 :> [class |-> "outcome", later |-> "acknowledgement", employer |-> "e",
           title |-> "t, remote", url |-> None, domain |-> "d", thread |-> "T", row |-> "valid"] @@
    m3 :> [class |-> "outcome", later |-> "outcome", employer |-> None,
           title |-> None, url |-> "v", domain |-> None, thread |-> "S", row |-> "valid"] @@
    m4 :> [class |-> "other", later |-> "contact", employer |-> None,
           title |-> None, url |-> None, domain |-> None, thread |-> "R", row |-> "twice"] @@
    m5 :> [class |-> "other", later |-> "other", employer |-> None,
           title |-> None, url |-> None, domain |-> None, thread |-> "R", row |-> "invalid"]
MCForm ==
    "f" :> [employer |-> "e", title |-> "t", renamed |-> "t, remote", url |-> "v"]
MCFamilies == {{"t", "t, remote"}}
\* Requests that overlap, with one message; mail with releases, and requests with a
\* renaming; two syncs.
MCBudgets ==
    {[mail |-> 1, requests |-> 4, cli |-> 0, changes |-> 0],
     [mail |-> 1, requests |-> 2, cli |-> 0, changes |-> 1],
     [mail |-> 2, requests |-> 1, cli |-> 0, changes |-> 1],
     [mail |-> 2, requests |-> 1, cli |-> 1, changes |-> 0]}
\* Nothing but two messages
MCReplayBudgets == {[mail |-> 2, requests |-> 0, cli |-> 0, changes |-> 0]}
================================================================================
