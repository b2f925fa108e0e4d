----------------------------- MODULE MCLiveCenter -----------------------------
\* Instances of LiveCenter for TLC.
EXTENDS LiveCenter

OneNil == [own |-> 1, opponent |-> 0]
Message(type, score, fact) == [type |-> type, score |-> score, fact |-> fact]

\* Two goals, a report of a score that may be one of them, and the final whistle.
MCReport == [g1 |-> Message("goal", NoScore, "i1"), g2 |-> Message("goal", NoScore, "i2"),
             u1 |-> Message("score_update", OneNil, Unnamed), f1 |-> Message("fulltime", NoScore, Unnamed)]
=============================================================================
