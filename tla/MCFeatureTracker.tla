--------------------------- MODULE MCFeatureTracker ---------------------------
\* Instances of FeatureTracker for TLC.
EXTENDS FeatureTracker

\* Two services of one pair of hosts, and the way back.
There == [src |-> "a", dst |-> "b", service |-> "http", dport |-> "80", sport |-> "1"]
Other == [There EXCEPT !.service = "ftp", !.dport = "21"]
Back == [src |-> "b", dst |-> "a", service |-> "http", dport |-> "1", sport |-> "80"]
MCFlow == {There, Other, Back}
=============================================================================
