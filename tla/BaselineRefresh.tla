---------------------------- MODULE BaselineRefresh ----------------------------
(***************************************************************************)
(* Who may move the autoencoder's threshold: the refresh that worker_pool  *)
(* starts when the scores drift (ml_engine/baseline_updater.py), a peer    *)
(* through the federated broker (ml_engine/federated_broker.py), and a     *)
(* reload of the models (ml_engine/engine.py).  Each refresh is a task:    *)
(* it looks at the freeze, sleeps, and then writes to whatever detector    *)
(* the engine has by then.  The broker handles one message at a time and   *)
(* waits for the peer's key between its checks and their effect.           *)
(*                                                                         *)
(* A threshold is told apart by where it comes from, not by its value.     *)
(***************************************************************************)
EXTENDS FreezeClock, Sequences

CONSTANTS
  Schema,      \* feature schemas: the models loaded may differ in length
  Task,        \* bound: refresh tasks that exist at once
  BufferMin,   \* a refresh needs more vectors than this (500)
  BufferMax,   \* the buffer takes no more vectors than this (1000)
  None

ASSUME BufferAssumption ==
  BufferMin \in Nat /\ BufferMax \in Nat /\ BufferMin < BufferMax
ASSUME RefreshNoneAssumption == None \notin Schema

VARIABLES
  schema,      \* engine.feature_order
  detector,    \* engine.vae_detector: the schema it was built for, and
               \* where its threshold and its weights come from
  monitored,   \* baseline_monitor has a baseline to compare with
  buffer,      \* normal_mse_buffer: the schema of each vector
  task,        \* run_update() tasks
  updating,    \* is_updating
  subscribed,  \* the listener has a subscription
  message,     \* the message it has taken
  suppressed   \* the broker has called add_suppression()

scores == <<monitored, buffer>>
refresh == <<task, updating>>
broker == <<subscribed, message, suppressed>>
vars == <<frozen, sinceIncident, schema, detector, scores, refresh, broker>>

\* "own" is a refresh with vectors of the detector's schema, "foreign" one
\* with vectors of another; "forged", "stale" and "echo" would be messages
\* that no peer has signed, older than ten seconds, or sent by this node.
Origin == {"file", "own", "foreign", "peer", "forged", "stale", "echo"}
Detector == [schema : Schema, threshold : Origin, encoder : Origin, decoder : Origin]

\* A message, signed if the key registered for its sender verifies it.
Message ==
  [sender : {"self", "peer"}, signed : BOOLEAN, fresh : BOOLEAN,
   type : {"vae_threshold", "fp_suppression", "vae_weights"}]

OriginOf(m) ==
  IF m.sender = "self" THEN "echo" ELSE IF ~m.signed THEN "forged"
  ELSE IF ~m.fresh THEN "stale" ELSE "peer"

Idle == [phase |-> "none", schema |-> None, age |-> 0]
RefreshTask ==
  [phase : {"none", "created", "sleeping"}, schema : Schema \cup {None}, age : Age]

TypeOK ==
  /\ frozen \in BOOLEAN /\ sinceIncident \in Age
  /\ schema \in Schema
  /\ detector \in Detector \cup {None}
  /\ monitored \in BOOLEAN
  /\ buffer \in Seq(Schema) /\ Len(buffer) <= BufferMax
  /\ task \in [Task -> RefreshTask]
  /\ updating \in BOOLEAN /\ subscribed \in BOOLEAN /\ suppressed \in BOOLEAN
  /\ message \in Message \cup {None}

Loaded(s) ==
  [schema |-> s, threshold |-> "file", encoder |-> "file", decoder |-> "file"]

Init ==
  /\ ClockInit
  /\ schema \in Schema
  /\ detector \in {None, Loaded(schema)}
  /\ monitored = FALSE
  /\ buffer = <<>>
  /\ task = [t \in Task |-> Idle]
  /\ updating = FALSE
  /\ subscribed = FALSE /\ message = None /\ suppressed = FALSE
-----------------------------------------------------------------------------
(***************************************************************************)
(* The worker: drift and the buffer                                        *)
(***************************************************************************)
OneSchema == \A i, j \in DOMAIN buffer : buffer[i] = buffer[j]
Room == Len(buffer) < BufferMax

\* _on_drift_detected() for a drift of the autoencoder: the vectors go to a
\* task of their own and the buffer is emptied, whatever becomes of the task.
\* Vectors of two lengths make no array; the error leaves the buffer as it is.
StartsRefresh(drift) == drift /\ Len(buffer) > BufferMin /\ OneSchema
Create(t) ==
  /\ task[t] = Idle
  /\ task' = [task EXCEPT ![t] = [phase |-> "created", schema |-> buffer[1], age |-> 0]]

\* One event of a batch is judged normal: the drift monitor compares its score
\* and the buffer takes its vector, if it has one.
JudgeNormal(drift, vector) ==
  /\ drift => monitored
  /\ monitored' = TRUE
  /\ IF StartsRefresh(drift)
     THEN /\ \E t \in Task : Create(t)
          /\ buffer' = IF vector THEN <<schema>> ELSE <<>>
     ELSE /\ UNCHANGED task
          /\ buffer' = IF vector /\ Room THEN Append(buffer, schema) ELSE buffer
  /\ UNCHANGED <<frozen, sinceIncident, schema, detector, updating, broker>>
-----------------------------------------------------------------------------
(***************************************************************************)
(* run_update()                                                            *)
(***************************************************************************)

\* Mutant: the freeze is not looked at.
RefreshStartBlind(t) ==
  /\ task[t].phase = "created"
  /\ IF updating
     THEN task' = [task EXCEPT ![t] = Idle] /\ UNCHANGED updating
     ELSE task' = [task EXCEPT ![t].phase = "sleeping"] /\ updating' = TRUE
  /\ UNCHANGED <<frozen, sinceIncident, schema, detector, scores, broker>>
\* One refresh at a time, and none while the baseline is frozen.
RefreshStart(t) ==
  /\ task[t].phase = "created"
  /\ IF updating \/ frozen
     THEN task' = [task EXCEPT ![t] = Idle] /\ UNCHANGED updating
     ELSE task' = [task EXCEPT ![t].phase = "sleeping"] /\ updating' = TRUE
  /\ UNCHANGED <<frozen, sinceIncident, schema, detector, scores, broker>>

\* The threshold of whatever detector there is after the sleep.
Refreshed(t) ==
  [detector EXCEPT !.threshold = IF detector.schema = task[t].schema THEN "own" ELSE "foreign"]

\* Mutant: without a detector the function returns before its try block.
RefreshEndEarlyReturn(t) ==
  /\ task[t].phase = "sleeping"
  /\ task' = [task EXCEPT ![t] = Idle]
  /\ IF detector = None THEN UNCHANGED <<detector, updating>>
     ELSE detector' \in {detector, Refreshed(t)} /\ updating' = FALSE
  /\ UNCHANGED <<frozen, sinceIncident, schema, scores, broker>>

\* No detector, an exception or a new threshold: is_updating is reset anyway.
RefreshEnd(t) ==
  /\ task[t].phase = "sleeping"
  /\ task' = [task EXCEPT ![t] = Idle]
  /\ updating' = FALSE
  /\ IF detector = None THEN UNCHANGED detector
     ELSE detector' \in {detector, Refreshed(t)}
  /\ UNCHANGED <<frozen, sinceIncident, schema, scores, broker>>
-----------------------------------------------------------------------------
(***************************************************************************)
(* The federated broker                                                    *)
(***************************************************************************)
Listen ==
  /\ ~subscribed
  /\ subscribed' = TRUE
  /\ UNCHANGED <<frozen, sinceIncident, schema, detector, scores, refresh,
                 message, suppressed>>

\* The connection breaks between two messages; what peers publish until the
\* listener has subscribed again is lost.
LoseSubscription ==
  /\ subscribed /\ message = None
  /\ subscribed' = FALSE
  /\ UNCHANGED <<frozen, sinceIncident, schema, detector, scores, refresh,
                 message, suppressed>>

\* Mutant: the age of a message is not compared.
ReceiveAnyAge(m) ==
  /\ subscribed /\ message = None
  /\ m.sender # "self"
  /\ message' = m
  /\ UNCHANGED <<frozen, sinceIncident, schema, detector, scores, refresh,
                 subscribed, suppressed>>

\* _handle_message() up to the key: what this node sent itself and what is
\* older than ten seconds is dropped.
Receive(m) ==
  /\ subscribed /\ message = None
  /\ m.sender # "self"
  /\ m.fresh
  /\ message' = m
  /\ UNCHANGED <<frozen, sinceIncident, schema, detector, scores, refresh,
                 subscribed, suppressed>>

\* The key is missing, the signature does not fit or the lookup fails.
Reject ==
  /\ message # None
  /\ message' = None
  /\ UNCHANGED <<frozen, sinceIncident, schema, detector, scores, refresh,
                 subscribed, suppressed>>

\* Verified and applied.  The weights reach the decoder only when the encoder
\* has taken them, an ONNX detector takes none, and none are ever written to
\* disk: os is not imported.
Apply ==
  /\ message # None
  /\ message.signed
  /\ message' = None
  /\ suppressed' = (suppressed \/ message.type = "fp_suppression")
  /\ LET o == OriginOf(message)
     IN  IF detector = None \/ message.type = "fp_suppression"
         THEN UNCHANGED detector
         ELSE IF message.type = "vae_threshold"
         THEN detector' = [detector EXCEPT !.threshold = o]
         ELSE \/ UNCHANGED detector
              \/ detector' = [detector EXCEPT !.encoder = o]
              \/ detector' = [detector EXCEPT !.encoder = o, !.decoder = o]
  /\ UNCHANGED <<frozen, sinceIncident, schema, scores, refresh, subscribed>>
-----------------------------------------------------------------------------
(***************************************************************************)
(* Around them                                                             *)
(***************************************************************************)
Others == <<schema, detector, scores, refresh, broker>>

\* reload_config(): a new detector with the threshold of its file, none when
\* it cannot be built, the old one when its files are gone.
Reload(s) ==
  /\ schema' = s
  /\ detector' \in {detector, None, Loaded(s)}
  /\ UNCHANGED <<frozen, sinceIncident, scores, refresh, broker>>

Restart ==
  /\ Anew
  /\ schema' \in Schema /\ detector' \in {None, Loaded(schema')}
  /\ monitored' = FALSE /\ buffer' = <<>>
  /\ task' = [t \in Task |-> Idle] /\ updating' = FALSE
  /\ subscribed' = FALSE /\ message' = None
  /\ UNCHANGED suppressed

Incident == Strike /\ UNCHANGED Others
BaselineThaws == Thaw /\ UNCHANGED Others

Slept(k) == IF k.phase = "sleeping" THEN [k EXCEPT !.age = Older(@)] ELSE k
Tick ==
  /\ Pass
  /\ task' = [t \in Task |-> Slept(task[t])]
  /\ UNCHANGED <<schema, detector, scores, updating, broker>>

RefreshStep(t) == RefreshStart(t) \/ RefreshEnd(t)
Next ==
  \/ \E drift, vector \in BOOLEAN : JudgeNormal(drift, vector)
  \/ \E t \in Task : RefreshStep(t)
  \/ Listen \/ LoseSubscription \/ Reject \/ Apply
  \/ \E m \in Message : Receive(m)
  \/ \E s \in Schema : Reload(s)
  \/ Restart \/ Incident \/ BaselineThaws \/ Tick

Spec == Init /\ [][Next]_vars

\* The event loop resumes every task.
FairSpec == Spec /\ \A t \in Task : WF_vars(RefreshStep(t))
-----------------------------------------------------------------------------
(***************************************************************************)
(* Properties                                                              *)
(***************************************************************************)
Sleeping(t) == task[t].phase = "sleeping"

\* At most one refresh is under way, however many drifts are detected while it
\* sleeps: the tasks are created freely, is_updating tells them apart.
OneRefresh ==
  /\ \A t, u \in Task : Sleeping(t) /\ Sleeping(u) => t = u
  /\ \A t \in Task : Sleeping(t) => updating

\* No part of the detector ever comes from a message nobody signed, an old one
\* or one of this node's own, across the wait for the key in _handle_message().
TrustedOrigin ==
  detector # None =>
    {detector.threshold, detector.encoder, detector.decoder}
      \cap {"forged", "stale", "echo"} = {}

\* A refresh moves the threshold of a frozen engine only when the incident came
\* while it slept: the freeze is not looked at again after the sleep of
\* run_update(), but one that was there before keeps the refresh from starting.
FreezeStopsRefresh ==
  [][\A t \in Task :
       /\ Sleeping(t) /\ task'[t] = Idle
       /\ frozen /\ frozen' /\ detector' # detector
       => sinceIncident <= task[t].age]_vars

\* A refresh ends, with a detector or without: is_updating cannot stay set and
\* shut out every later refresh.
RefreshEnds == updating ~> ~updating
=============================================================================
