------------------------------ MODULE MCEventPath ------------------------------
\* Instances for TLC of the two ends of the event path.  They are processes of
\* their own and share no state, so that a behaviour of both says no more than
\* one of each: the instance explores the behaviours of one of them while the
\* other has not started.  The pipeline between them, which has instances of its
\* own (MCStreamPipeline), never starts.
EXTENDS EventPath

VARIABLE process  \* the one that runs

MCKeyOf == [e \in Event |-> CHOOSE k \in Key : TRUE]

MCVars == <<process, vars, ingestionVars, feedVars>>

MCInit == process \in {"ingestion", "relay"} /\ Init /\ Ingestion!Init /\ Feed!Init
MCNext ==
  \/ process = "ingestion" /\ Ingestion!Next /\ UNCHANGED <<process, vars, feedVars>>
  \/ process = "relay" /\ Feed!Next /\ UNCHANGED <<process, vars, ingestionVars>>
MCFairness ==
  /\ process = "ingestion" => Ingestion!Fairness
  /\ process = "relay" => Feed!Fairness
MCSpec == MCInit /\ [][MCNext]_MCVars /\ MCFairness

\* No flow stays in the aggregator (cleanup_loop(), add_event()).
FlowLeaves == Ingestion!FlowLeaves

\* No client holds up the feed (broadcast_batch()).
FeedMovesOn == process = "relay" => Feed!FeedMovesOn
=============================================================================
