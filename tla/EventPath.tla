------------------------------- MODULE EventPath -------------------------------
(***************************************************************************)
(* The way of an event through the processes of the system: the ingestion  *)
(* process takes it from Suricata's socket and sums it up by flow          *)
(* (FlowAggregator), the consumer turns the entries of the event stream    *)
(* into alerts (StreamPipeline), and the relay feeds the alert stream to   *)
(* the browsers (RelayFeed).  The processes share no memory: an aggregate  *)
(* that Deliver gets to Redis is a Push of the pipeline, and what Publish  *)
(* of the pipeline appends is a Publish of the feed's stream.              *)
(*                                                                         *)
(* The pipeline is extended here and its two ends are instances, with the  *)
(* assumptions on their constants and under one name each what they        *)
(* promise.                                                                *)
(***************************************************************************)
EXTENDS StreamPipeline

CONSTANTS
  \* ingestion
  Flow, Alert, MaxReads, MaxPushFaults, MaxEnds,
  \* relay
  Conn, MaxAlerts, StreamLen, BatchCount, MaxErrors, MaxStalls, MaxRestarts

\* An alert is no flow.  The bounds bound.
ASSUME IngestionAssumption ==
  /\ Alert \notin Flow
  /\ MaxReads \in Nat /\ MaxPushFaults \in Nat /\ MaxEnds \in Nat
ASSUME FeedAssumption ==
  /\ MaxAlerts \in Nat /\ StreamLen \in Nat /\ BatchCount \in Nat \ {0}
  /\ MaxErrors \in Nat /\ MaxStalls \in Nat /\ MaxRestarts \in Nat

VARIABLES
  \* ingestion
  active, reader, cleaner, arrived, pushed, lost, pushFaults, ends,
  \* relay
  appended, first, listener, conn, connections, sending, stale, stalled,
  received, cut, trimmed, errors, stalls, restarts

Ingestion == INSTANCE FlowAggregator
  WITH MaxEvents <- MaxReads, MaxFaults <- MaxPushFaults,
       MaxStops <- MaxEnds, stops <- ends

Feed == INSTANCE RelayFeed WITH active <- connections

ingestionVars == <<active, reader, cleaner, arrived, pushed, lost, pushFaults, ends>>
feedVars == <<appended, first, listener, conn, connections, sending, stale, stalled,
              received, cut, trimmed, errors, stalls, restarts>>
-----------------------------------------------------------------------------
\* Every event that was read is in one place, and neither coroutine of the
\* ingestion process overlooks it or sums it up again (cleanup_loop(),
\* add_event()).
Conserved == Ingestion!Conserved

\* Connected clients have every alert up to the listener's cursor
\* (redis_stream_listener(), broadcast_batch()).
Gapless == Feed!Gapless
=============================================================================
