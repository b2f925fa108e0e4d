---------------------------- MODULE MCMatchReports ----------------------------
\* Instances of MatchReports for TLC.
EXTENDS MatchReports

\* One contact with a fallback.
MCMessengers == [c1 |-> <<"telegram">>]
=============================================================================
