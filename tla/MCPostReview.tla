---------------------------- MODULE MCPostReview ----------------------------
\* Instances of PostReview for TLC: one output per kind.
EXTENDS PostReview, TLC

MCKind == [f1 |-> "feed", s1 |-> "story"]
MCDefault == [feed |-> "f1", story |-> "s1"]
MCFirst == [f1 |-> "a", s1 |-> "b"]
MCFormat == [a |-> "feed", b |-> "story", c |-> "feed"]
Sym == Permutations(Sessions)

\* One order of each kind: the feed's output, the new text, both jobs at once.
Typical(o) ==
    /\ "text" \in DOMAIN o => o.text = "t1"
    /\ "slot" \in DOMAIN o => o.slot = "f1"
    /\ "job" \in DOMAIN o => o.job = "feed"
    /\ o.name = "select_media" => o.path = "a"
    /\ o.name = "approve" => o.jobs \in {Jobs, {"story"}}
    /\ o.name = "revise" => o.slots = {} /\ o.texts = {"t1"}
=============================================================================
