--------------------------- MODULE MCActiveFirewall ---------------------------
\* Instances of ActiveFirewall for TLC: threads are strings, and the API
\* handlers and the threads named after the relay live in the relay process.
EXTENDS ActiveFirewall

MCRelayThreads == {"h1", "h2", "bootRelay", "decayRelay", "auditRelay"}

\* In an instance with one process everything runs in it.
MCHome == [t \in Thread |-> IF t \in MCRelayThreads /\ "relay" \in Process
                           THEN "relay" ELSE "consumer"]

\* Deltas with benign traffic among them, and the lowest score they can reach.
MCDelta == {-1, 1, 2}
MCMinScore == -1
\* An attack, and the benign traffic that undoes it taken as one event.
MCDeltaPair == {-3, 2}
=============================================================================
