--------------------------- MODULE MCThreatResponse ---------------------------
\* Instances of ThreatResponse for TLC.
EXTENDS ThreatResponse

\* Event e1 comes from the source "a", event e2 from "a" or from another one.
MCSame == [e \in Event |-> "a"]
MCApart == [e \in Event |-> IF e = "e1" THEN "a" ELSE "b"]

Plain == [ml |-> 0, anomaly |-> None, c2 |-> 0, cti |-> None, sig |-> FALSE,
          volume |-> FALSE, discovery |-> FALSE, tag |-> TRUE,
          features |-> FALSE, signs |-> {}]

\* The forest alone, and the same with the connection counters behind it.
Lonely == [Plain EXCEPT !.ml = 870]
Louder == [Plain EXCEPT !.ml = 990]
Flood == [Louder EXCEPT !.volume = TRUE]
Rule == [Plain EXCEPT !.sig = TRUE]
Novel == [Plain EXCEPT !.ml = 300, !.anomaly = 820]

MCEvidence == {Lonely, Louder, Rule, Novel}
MCFlood == {Flood}
=============================================================================
