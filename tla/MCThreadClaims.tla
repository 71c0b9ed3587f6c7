--------------------------- MODULE MCThreadClaims ---------------------------
(***************************************************************************)
(* Small instances of ThreadClaims for TLC.                                *)
(***************************************************************************)
EXTENDS ThreadClaims

Ada1 == [name |-> "ada", run |-> "", pid |-> "1"]
Ada2 == [name |-> "ada", run |-> "", pid |-> "2"]

\* Two interactive agents that share a name and differ in their pid.
TwoAdas == {Ada1, Ada2}

OneResource == {"browser"}
TwoThreads == {"global", "webapp"}
Nothing == {}
WebappOnly == {"webapp"}

\* A lease that truncation leaves lapsed on arrival, a short one, and one that never lapses.
AllLeases == {0, 1, NoExpiry}
ShortLeases == {1, 2}
ShortOrForever == {1, NoExpiry}
=============================================================================
