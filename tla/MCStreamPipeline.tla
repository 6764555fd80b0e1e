--------------------------- MODULE MCStreamPipeline ---------------------------
\* Instances of StreamPipeline for TLC.
EXTENDS StreamPipeline

\* Events of two keys, the first key more often.
MCKeyOf == [e \in Event |-> IF e = 2 THEN "beacon" ELSE "scan"]
\* All events alike.
MCKeySame == [e \in Event |-> "scan"]
=============================================================================
