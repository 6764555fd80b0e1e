---------------------------- MODULE FlowAggregator ----------------------------
(***************************************************************************)
(* The ingestion process between Suricata's socket and the event stream:   *)
(* handle_suricata_stream() (ml_engine/ingestion.py) reads the events of a *)
(* connection, alerts go to the stream at once, and all others are summed  *)
(* up by flow (ml_engine/flow_aggregator.py) until the flow has lasted a   *)
(* second or cleanup_loop() finds it idle.                                 *)
(*                                                                         *)
(* Two coroutines share the flows of a connection.  The reader takes the   *)
(* aggregator's lock for a step without an await; the cleaner keeps it     *)
(* while the aggregate it has taken out is on its way to Redis.  Time is   *)
(* what it does to a flow: at some point it has lasted a second, at some   *)
(* point nothing has been added to it for a second.                        *)
(***************************************************************************)
EXTENDS Integers

CONSTANTS
  Flow,       \* 5-tuples
  Alert,      \* events that bypass the aggregation
  MaxEvents,  \* bound: events read of each kind
  MaxFaults,  \* bound: pushes that fail
  MaxStops    \* bound: ends of the connection or of the process

Kind == Flow \cup {Alert}

VARIABLES
  active,   \* active_flows; a flow that is not there has no events
  reader,   \* the connection handler and the event or aggregate in its hands
  cleaner,  \* cleanup_loop(), the keys in to_flush and the aggregate it pushes
  arrived,  \* history: events read, by kind
  pushed,   \* history: events that reached the stream, in aggregates
  lost,     \* history: events that went down with a push or a connection
  pushFaults, stops

history == <<arrived, pushed, lost>>
vars == <<active, reader, cleaner, history, pushFaults, stops>>

Count == 0 .. MaxEvents
NoFlow == [events |-> 0, old |-> FALSE, idle |-> FALSE]
Open(k) == active[k].events > 0

\* An aggregate of n events on its way; nothing is the empty one.
Hand == [of : Kind, events : Count]
Nothing == [of |-> Alert, events |-> 0]

TypeOK ==
  /\ active \in [Flow -> [events : Count, old : BOOLEAN, idle : BOOLEAN]]
  /\ reader \in [pc : {"read", "add", "push"}, hand : Hand]
  /\ cleaner \in [pc : {"sleep", "flush", "push"}, todo : SUBSET Flow, hand : Hand]
  /\ arrived \in [Kind -> Count] /\ pushed \in [Kind -> Count] /\ lost \in [Kind -> Count]
  /\ pushFaults \in 0 .. MaxFaults /\ stops \in 0 .. MaxStops

AtRest(pc) == [pc |-> pc, hand |-> Nothing]
Asleep == [pc |-> "sleep", todo |-> {}, hand |-> Nothing]

Init ==
  /\ active = [k \in Flow |-> NoFlow]
  /\ reader = AtRest("read") /\ cleaner = Asleep
  /\ arrived = [k \in Kind |-> 0] /\ pushed = [k \in Kind |-> 0]
  /\ lost = [k \in Kind |-> 0]
  /\ pushFaults = 0 /\ stops = 0
-----------------------------------------------------------------------------
\* push_to_redis() logs an exception and answers FALSE; nobody looks at the
\* answer, and the event or aggregate is gone.
Deliver(hand) ==
  /\ hand.events > 0
  /\ \/ /\ pushed' = [pushed EXCEPT ![hand.of] = @ + hand.events]
        /\ UNCHANGED <<lost, pushFaults>>
     \/ /\ pushFaults < MaxFaults /\ pushFaults' = pushFaults + 1
        /\ lost' = [lost EXCEPT ![hand.of] = @ + hand.events]
        /\ UNCHANGED pushed

\* The reader takes a line; an alert is pushed at once.
ReadEvent(k) ==
  /\ reader.pc = "read" /\ arrived[k] < MaxEvents
  /\ arrived' = [arrived EXCEPT ![k] = @ + 1]
  /\ reader' = [pc |-> IF k = Alert THEN "push" ELSE "add",
                hand |-> [of |-> k, events |-> 1]]
  /\ UNCHANGED <<active, cleaner, pushed, lost, pushFaults, stops>>

\* The cleaner holds the lock from the pop to the end of the push.
LockFree == cleaner.pc # "push"

\* add_event(): the event joins its flow, and a flow that has lasted long
\* enough is taken out by the reader itself.
AddEvent ==
  LET k == reader.hand.of
      flow == [active[k] EXCEPT !.events = @ + 1, !.idle = FALSE]
  IN  /\ reader.pc = "add" /\ LockFree
      /\ IF flow.old
         THEN /\ active' = [active EXCEPT ![k] = NoFlow]
              /\ reader' = [pc |-> "push", hand |-> [of |-> k, events |-> flow.events]]
         ELSE /\ active' = [active EXCEPT ![k] = flow]
              /\ reader' = AtRest("read")
      /\ UNCHANGED <<cleaner, history, pushFaults, stops>>

ReaderPush ==
  /\ reader.pc = "push" /\ Deliver(reader.hand)
  /\ reader' = AtRest("read")
  /\ UNCHANGED <<active, cleaner, arrived, stops>>

\* Mutant: a flow that has lasted its second is left to the reader.
FindIdleYoung ==
  LET found == {k \in Flow : Open(k) /\ active[k].idle /\ ~active[k].old}
  IN  /\ cleaner.pc = "sleep" /\ found # {}
      /\ cleaner' = [pc |-> "flush", todo |-> found, hand |-> Nothing]
      /\ UNCHANGED <<active, reader, history, pushFaults, stops>>

\* cleanup_loop(): the idle flows are picked under the lock ...
FindIdle ==
  LET found == {k \in Flow : Open(k) /\ active[k].idle}
  IN  /\ cleaner.pc = "sleep" /\ found # {}
      /\ cleaner' = [pc |-> "flush", todo |-> found, hand |-> Nothing]
      /\ UNCHANGED <<active, reader, history, pushFaults, stops>>

\* Mutant: the aggregate is computed, and the flow stays.
FlushIdleKept ==
  /\ cleaner.pc = "flush"
  /\ \E k \in cleaner.todo :
       IF Open(k)
       THEN cleaner' = [pc |-> "push", todo |-> cleaner.todo \ {k},
                        hand |-> [of |-> k, events |-> active[k].events]]
       ELSE cleaner' = [cleaner EXCEPT !.todo = @ \ {k}]
  /\ UNCHANGED <<active, reader, history, pushFaults, stops>>

\* ... and taken out one by one, each under the lock again, whatever has been
\* added to them meanwhile, unless the reader has taken them out itself.
FlushIdle ==
  /\ cleaner.pc = "flush"
  /\ \E k \in cleaner.todo :
       IF Open(k)
       THEN /\ active' = [active EXCEPT ![k] = NoFlow]
            /\ cleaner' = [pc |-> "push", todo |-> cleaner.todo \ {k},
                           hand |-> [of |-> k, events |-> active[k].events]]
       ELSE /\ cleaner' = [cleaner EXCEPT !.todo = @ \ {k}]
            /\ UNCHANGED active
  /\ UNCHANGED <<reader, history, pushFaults, stops>>

CleanerPush ==
  /\ cleaner.pc = "push" /\ Deliver(cleaner.hand)
  /\ cleaner' = [cleaner EXCEPT !.pc = "flush", !.hand = Nothing]
  /\ UNCHANGED <<active, reader, arrived, stops>>

CleanerSleep ==
  /\ cleaner.pc = "flush" /\ cleaner.todo = {}
  /\ cleaner' = Asleep
  /\ UNCHANGED <<active, reader, history, pushFaults, stops>>

\* A second passes over a flow: since it began, or since its last event.
Age(k) ==
  /\ Open(k) /\ ~active[k].idle
  /\ \E idle \in BOOLEAN :
       /\ idle \/ ~active[k].old
       /\ active' = [active EXCEPT ![k] = [@ EXCEPT !.old = TRUE, !.idle = idle]]
  /\ UNCHANGED <<reader, cleaner, history, pushFaults, stops>>

InHand(hand, k) == IF hand.of = k THEN hand.events ELSE 0
Held(k) == IF k = Alert THEN 0 ELSE active[k].events

\* The connection ends and the cleaner is cancelled with it: what the
\* aggregator holds is pushed by nobody.  The next connection has an aggregator
\* of its own.
Disconnect ==
  /\ reader.pc = "read" /\ stops < MaxStops /\ stops' = stops + 1
  /\ lost' = [k \in Kind |-> lost[k] + Held(k) + InHand(cleaner.hand, k)]
  /\ active' = [k \in Flow |-> NoFlow] /\ cleaner' = Asleep
  /\ UNCHANGED <<reader, arrived, pushed, pushFaults>>

\* The process dies wherever it is.
Die ==
  /\ stops < MaxStops /\ stops' = stops + 1
  /\ lost' = [k \in Kind |-> lost[k] + Held(k) + InHand(cleaner.hand, k)
                                     + InHand(reader.hand, k)]
  /\ active' = [k \in Flow |-> NoFlow]
  /\ reader' = AtRest("read") /\ cleaner' = Asleep
  /\ UNCHANGED <<arrived, pushed, pushFaults>>

Reader == AddEvent \/ ReaderPush
Cleaner == FindIdle \/ FlushIdle \/ CleanerPush \/ CleanerSleep
Next ==
  \/ \E k \in Kind : ReadEvent(k)
  \/ Reader \/ Cleaner
  \/ \E k \in Flow : Age(k)
  \/ Disconnect \/ Die

Spec == Init /\ [][Next]_vars

\* Time passes, and coroutines that can run are run; events, failures and ends
\* need not happen.
Fairness == WF_vars(Reader) /\ WF_vars(Cleaner) /\ \A k \in Flow : WF_vars(Age(k))
FairSpec == Spec /\ Fairness
-----------------------------------------------------------------------------
(***************************************************************************)
(* Properties                                                              *)
(***************************************************************************)

\* Every event is in one place: in its flow, in the hands of one of the two
\* coroutines, on the stream, or lost with a push or a connection.  The reader
\* and the cleaner never both sum it up, and neither overlooks it, although the
\* keys the cleaner has picked change under it (cleanup_loop(), add_event()).
Conserved ==
  \A k \in Kind :
    arrived[k] = Held(k) + InHand(reader.hand, k) + InHand(cleaner.hand, k)
                   + pushed[k] + lost[k]

\* No flow stays in the aggregator: it is pushed when it is old or idle, also
\* when the reader takes flows out that the cleaner is about to flush.
FlowLeaves == \A k \in Flow : Open(k) ~> ~Open(k)
=============================================================================
