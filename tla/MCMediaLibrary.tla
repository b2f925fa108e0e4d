---------------------------- MODULE MCMediaLibrary ----------------------------
\* An instance of MediaLibrary for TLC: two kinds of contribution of one game and
\* one of another.
EXTENDS MediaLibrary

MCGame == [g1a |-> "g1", g1b |-> "g1", g2a |-> "g2"]
=============================================================================
