---------------------------- MODULE StreamPipeline ----------------------------
(***************************************************************************)
(* From the Redis stream of events to alerts: the push of ingestion.py,    *)
(* the consumer group and the worker loops of worker_pool.py, publication  *)
(* by consumer.py, and the database writer of db_writer.py.                *)
(*                                                                         *)
(* The stream and the group's pending lists live in Redis and survive the  *)
(* consumer process; the dedup cache, the batches of the workers, the      *)
(* event coroutines and the writer's queue die with it.  A step of a       *)
(* coroutine ends at an `await`.  An event is a stream entry; events are   *)
(* numbered in the order of their ids.                                     *)
(***************************************************************************)
EXTENDS Integers, FiniteSets

CONSTANTS
  MaxEvents,      \* bound: events pushed
  Worker,         \* coroutines running _worker_loop, by consumer name
  RecoveryWorker, \* the consumer name of _recover_pending_messages
  Key,            \* dedup keys: source, destination, prediction
  KeyOf,          \* the dedup key of each event
  Suppressible,   \* keys that operators mark as false positives
  BatchSize,      \* entries that one XREADGROUP asks for
  MaxLen,         \* entries that XADD keeps
  MaxFaults,      \* bound: exceptions and failed commands
  MaxStops        \* bound: crashes and shutdowns of the consumer

Event == 1 .. MaxEvents
Consumer == Worker \cup {RecoveryWorker}

ASSUME BoundAssumption ==
  /\ MaxEvents \in Nat /\ BatchSize \in Nat \ {0} /\ MaxLen \in Nat \ {0}
  /\ MaxFaults \in Nat /\ MaxStops \in Nat
ASSUME NameAssumption == RecoveryWorker \notin Worker
ASSUME KeyAssumption == KeyOf \in [Event -> Key] /\ Suppressible \subseteq Key

VARIABLES
  stage,     \* how far each event has come
  group,     \* does the consumer group exist?
  pel,       \* pending entries of each consumer of the group
  up,        \* the consumer process: "down", "up" or "stopping"
  pc, batch, \* the loop of each worker and the entries it works on
  dedup,     \* the event that opened the window of a key, 0 when none is open
  covers,    \* history: the event because of which an event was a duplicate
  sent,      \* history: how often an alert was handed to the writer
  published, \* events whose alert is on the alert stream
  queued,    \* alerts in the writer's queue
  writing,   \* alerts the flush worker has taken from it
  stored,    \* alerts in the database
  faults, stops  \* exceptions and ends of the process so far

redisVars  == <<group, pel>>
workerVars == <<pc, batch>>
writerVars == <<queued, writing, stored>>
vars == <<stage, redisVars, up, workerVars, dedup, covers, sent, published,
          writerVars, faults, stops>>

\* Stages in which the coroutine of an event still runs.
Preparing == {"suppress", "dedup", "enrich"}
Stage == {"absent", "stream", "trimmed", "skipped", "read", "ready", "alerted",
          "suppressed", "duplicate", "failed"} \cup Preparing
Label == {"read", "predict", "gather", "publish", "ack", "backoff"}

TypeOK ==
  /\ stage \in [Event -> Stage]
  /\ group \in BOOLEAN /\ pel \in [Consumer -> SUBSET Event]
  /\ up \in {"down", "up", "stopping"}
  /\ pc \in [Worker -> Label] /\ batch \in [Worker -> SUBSET Event]
  /\ dedup \in [Key -> 0 .. MaxEvents] /\ covers \in [Event -> 0 .. MaxEvents]
  /\ sent \in [Event -> Nat] /\ published \subseteq Event
  /\ queued \subseteq Event /\ writing \subseteq Event /\ stored \subseteq Event
  /\ faults \in 0 .. MaxFaults /\ stops \in 0 .. MaxStops

Init ==
  /\ stage = [e \in Event |-> "absent"]
  /\ group = FALSE /\ pel = [c \in Consumer |-> {}]
  /\ up = "down"
  /\ pc = [w \in Worker |-> "read"] /\ batch = [w \in Worker |-> {}]
  /\ dedup = [k \in Key |-> 0] /\ covers = [e \in Event |-> 0]
  /\ sent = [e \in Event |-> 0] /\ published = {}
  /\ queued = {} /\ writing = {} /\ stored = {}
  /\ faults = 0 /\ stops = 0

\* An exception, a failed command or a lost reply happens.
Fault == faults < MaxFaults /\ faults' = faults + 1

\* The events of a set move to a stage.
Moved(events, s) == [e \in Event |-> IF e \in events THEN s ELSE stage[e]]
-----------------------------------------------------------------------------
(***************************************************************************)
(* ingestion.py                                                            *)
(***************************************************************************)

\* XADD with an approximate MAXLEN may drop entries beyond the last MaxLen,
\* read or not; only unread ones are missed.
Push(e) ==
  /\ stage[e] = "absent" /\ \A d \in 1 .. (e - 1) : stage[d] # "absent"
  /\ \E dropped \in 0 .. e :
       /\ dropped = 0 \/ dropped <= e - MaxLen
       /\ stage' = [d \in Event |->
            IF d = e THEN "stream"
            ELSE IF d <= dropped /\ stage[d] = "stream" THEN "trimmed"
            ELSE stage[d]]
  /\ UNCHANGED <<redisVars, up, workerVars, dedup, covers, sent, published,
                 writerVars, faults, stops>>
-----------------------------------------------------------------------------
(***************************************************************************)
(* Start, stop and crash of the consumer process                           *)
(***************************************************************************)

Unread == {e \in Event : stage[e] = "stream"}

\* The first start creates the group at "$", behind what is in the stream.
Start ==
  /\ up = "down" /\ up' = "up"
  /\ group' = TRUE
  /\ stage' = IF group THEN stage ELSE Moved(Unread, "skipped")
  /\ UNCHANGED <<pel, workerVars, dedup, covers, sent, published, writerVars,
                 faults, stops>>

\* Every worker and event coroutine ends, wherever it is.
Abandon ==
  /\ pc' = [w \in Worker |-> "read"] /\ batch' = [w \in Worker |-> {}]
  /\ stage' = [e \in Event |->
       IF stage[e] \in Preparing \cup {"read", "ready"} THEN "failed" ELSE stage[e]]

\* pool.stop(): the workers are cancelled; the writer is still at work.
Shutdown ==
  /\ up = "up" /\ up' = "stopping"
  /\ stops < MaxStops /\ stops' = stops + 1
  /\ Abandon
  /\ UNCHANGED <<redisVars, dedup, covers, sent, published, writerVars, faults>>

\* What the process held in memory is gone; a transaction under way is
\* committed or not.
Vanish ==
  /\ up' = "down"
  /\ dedup' = [k \in Key |-> 0]
  /\ queued' = {} /\ writing' = {}
  /\ stored' \in {stored, stored \cup writing}

\* main() returns within a second of the signal, and asyncio.run() cancels the
\* shutdown task and the flush worker, wherever they are.
Exit ==
  /\ up = "stopping" /\ Vanish
  /\ UNCHANGED <<stage, redisVars, workerVars, covers, sent, published, faults, stops>>

Crash ==
  /\ up = "up" /\ stops < MaxStops /\ stops' = stops + 1
  /\ Abandon /\ Vanish
  /\ UNCHANGED <<redisVars, covers, sent, published, faults>>
-----------------------------------------------------------------------------
(***************************************************************************)
(* _worker_loop()                                                          *)
(***************************************************************************)

Goto(w, label) == pc' = [pc EXCEPT ![w] = label]

\* The outer `except`: what the loop had in hand is forgotten.
Fail(w) ==
  /\ Fault /\ Goto(w, "backoff")
  /\ batch' = [batch EXCEPT ![w] = {}]

\* Mutant: a worker waits for a full batch.
NextBatchFull(b) ==
  /\ b \subseteq Unread /\ Cardinality(b) = BatchSize
  /\ \A e \in b, d \in Unread \ b : e < d

\* The oldest unread entries, BatchSize of them if there are so many.
NextBatch(b) ==
  /\ b \subseteq Unread /\ b # {}
  /\ \A e \in b, d \in Unread \ b : e < d
  /\ IF Cardinality(Unread) <= BatchSize THEN b = Unread ELSE Cardinality(b) = BatchSize

\* XREADGROUP ">": the entries become pending for this consumer.  The reply may
\* be lost on the way.
Read(w, b) ==
  /\ up = "up" /\ pc[w] = "read" /\ NextBatch(b)
  /\ pel' = [pel EXCEPT ![w] = @ \cup b]
  /\ \/ /\ batch' = [batch EXCEPT ![w] = b] /\ Goto(w, "predict")
        /\ stage' = Moved(b, "read") /\ UNCHANGED faults
     \/ Fail(w) /\ stage' = Moved(b, "failed")
  /\ UNCHANGED <<group, up, dedup, covers, sent, published, writerVars, stops>>

\* predict_batch() returns, and a coroutine is started for every event.
Predict(w) ==
  /\ up = "up" /\ pc[w] = "predict"
  /\ \/ /\ stage' = Moved(batch[w], "suppress") /\ Goto(w, "gather")
        /\ UNCHANGED <<batch, faults>>
     \/ Fail(w) /\ stage' = Moved(batch[w], "failed")
  /\ UNCHANGED <<redisVars, up, dedup, covers, sent, published, writerVars, stops>>

\* Mutant: a suppressed event opens a window, too.
SuppressAfterDedup(e) ==
  /\ stage[e] = "suppress"
  /\ \/ stage' = [stage EXCEPT ![e] = "dedup"] /\ UNCHANGED dedup
     \/ /\ KeyOf[e] \in Suppressible /\ stage' = [stage EXCEPT ![e] = "suppressed"]
        /\ dedup' = [dedup EXCEPT ![KeyOf[e]] = e]
  /\ UNCHANGED <<redisVars, up, workerVars, covers, sent, published, writerVars,
                 faults, stops>>

\* is_suppressed(): operators add suppressions and these expire at any time.
Suppress(e) ==
  /\ stage[e] = "suppress"
  /\ \/ stage' = [stage EXCEPT ![e] = "dedup"]
     \/ KeyOf[e] \in Suppressible /\ stage' = [stage EXCEPT ![e] = "suppressed"]
  /\ UNCHANGED <<redisVars, up, workerVars, dedup, covers, sent, published,
                 writerVars, faults, stops>>

\* The dedup cache is read and written under its lock.
Dedup(e) ==
  LET k == KeyOf[e] IN
  /\ stage[e] = "dedup"
  /\ \/ /\ dedup[k] # 0
        /\ stage' = [stage EXCEPT ![e] = "duplicate"]
        /\ covers' = [covers EXCEPT ![e] = dedup[k]] /\ UNCHANGED dedup
     \/ /\ dedup[k] = 0
        /\ stage' = [stage EXCEPT ![e] = "enrich"]
        /\ dedup' = [dedup EXCEPT ![k] = e] /\ UNCHANGED covers
  /\ UNCHANGED <<redisVars, up, workerVars, sent, published, writerVars, faults, stops>>

\* The window of a key is over.
DedupExpire(k) ==
  /\ dedup[k] # 0 /\ dedup' = [dedup EXCEPT ![k] = 0]
  /\ UNCHANGED <<stage, redisVars, up, workerVars, covers, sent, published,
                 writerVars, faults, stops>>

\* _enrich_event() and _apply_mitigation(); an exception ends the coroutine.
Mitigate(e) ==
  /\ stage[e] = "enrich"
  /\ \/ stage' = [stage EXCEPT ![e] = "ready"] /\ UNCHANGED faults
     \/ Fault /\ stage' = [stage EXCEPT ![e] = "failed"]
  /\ UNCHANGED <<redisVars, up, workerVars, dedup, covers, sent, published,
                 writerVars, stops>>

\* Alerts are handed to the unbounded queue of the writer.
HandOver(alerts) ==
  /\ sent' = [e \in Event |-> IF e \in alerts THEN sent[e] + 1 ELSE sent[e]]
  /\ queued' = queued \cup alerts
  /\ stage' = Moved(alerts, "alerted")

\* gather() returns when every coroutine of the batch has; alerts that are not
\* None are queued at once.
Gather(w) ==
  LET alerts == {e \in batch[w] : stage[e] = "ready"} IN
  /\ up = "up" /\ pc[w] = "gather"
  /\ \A e \in batch[w] : stage[e] \in {"ready", "suppressed", "duplicate"}
  /\ HandOver(alerts)
  /\ Goto(w, IF alerts = {} THEN "ack" ELSE "publish")
  /\ UNCHANGED <<redisVars, up, batch, dedup, covers, published, writing, stored,
                 faults, stops>>

\* Mutant: return_exceptions, with the failed coroutines filtered out.
GatherSkipping(w) ==
  /\ up = "up" /\ pc[w] = "gather" /\ \E e \in batch[w] : stage[e] = "failed"
  /\ Goto(w, "ack")
  /\ UNCHANGED <<stage, redisVars, up, batch, dedup, covers, sent, published,
                 writerVars, faults, stops>>

\* gather() raises the first exception; the other coroutines go on, and what
\* they return is lost.
GatherFail(w) ==
  /\ up = "up" /\ pc[w] = "gather" /\ \E e \in batch[w] : stage[e] = "failed"
  /\ Goto(w, "backoff") /\ batch' = [batch EXCEPT ![w] = {}]
  /\ UNCHANGED <<stage, redisVars, up, dedup, covers, sent, published,
                 writerVars, faults, stops>>

\* The alert stream; an exception is logged and swallowed.
Publish(w) ==
  /\ up = "up" /\ pc[w] = "publish" /\ Goto(w, "ack")
  /\ \/ /\ published' = published \cup {e \in batch[w] : stage[e] = "alerted"}
        /\ UNCHANGED faults
     \/ Fault /\ UNCHANGED published
  /\ UNCHANGED <<stage, redisVars, up, batch, dedup, covers, sent, writerVars, stops>>

Ack(w) ==
  /\ up = "up" /\ pc[w] = "ack"
  /\ \/ /\ pel' = [pel EXCEPT ![w] = @ \ batch[w]]
        /\ Goto(w, "read") /\ batch' = [batch EXCEPT ![w] = {}] /\ UNCHANGED faults
     \/ Fail(w) /\ UNCHANGED pel
  /\ UNCHANGED <<stage, group, up, dedup, covers, sent, published, writerVars, stops>>

\* Two seconds later the loop goes on.
Backoff(w) ==
  /\ up = "up" /\ pc[w] = "backoff" /\ Goto(w, "read")
  /\ UNCHANGED <<stage, redisVars, up, batch, dedup, covers, sent, published,
                 writerVars, faults, stops>>
-----------------------------------------------------------------------------
(***************************************************************************)
(* _recover_pending_messages()                                             *)
(***************************************************************************)

\* Mutant: the pending entries of every consumer.
PendingOfAll == UNION {pel[c] : c \in Consumer}

\* XREADGROUP with id "0" returns the entries pending for the consumer that
\* asks, and nobody ever reads as this one.
PendingToRecover == pel[RecoveryWorker]

\* What it finds is predicted, mitigated, broadcast without dedup, and acked.
Recover ==
  LET found == PendingToRecover IN
  /\ up = "up" /\ group
  /\ HandOver(found)
  /\ published' = published \cup found
  /\ pel' = [c \in Consumer |-> pel[c] \ found]
  /\ UNCHANGED <<group, up, workerVars, dedup, covers, writing, stored, faults, stops>>
-----------------------------------------------------------------------------
(***************************************************************************)
(* AsyncAlertWriter._flush_worker()                                        *)
(***************************************************************************)

\* Mutant: only the first alert of the queue is kept.
TakeFirst ==
  /\ up # "down" /\ writing = {} /\ queued # {}
  /\ \E e \in queued : writing' = {e}
  /\ queued' = {}
  /\ UNCHANGED <<stage, redisVars, up, workerVars, dedup, covers, sent, published,
                 stored, faults, stops>>

\* It takes what is there; 50 alerts at most, more than MaxEvents.
Take ==
  /\ up # "down" /\ writing = {} /\ queued # {}
  /\ writing' = queued /\ queued' = {}
  /\ UNCHANGED <<stage, redisVars, up, workerVars, dedup, covers, sent, published,
                 stored, faults, stops>>

\* batch_add_alerts() swallows its errors; the alerts are done with either way.
Write ==
  /\ up # "down" /\ writing # {} /\ writing' = {}
  /\ \/ stored' = stored \cup writing /\ UNCHANGED faults
     \/ Fault /\ UNCHANGED stored
  /\ UNCHANGED <<stage, redisVars, up, workerVars, dedup, covers, sent, published,
                 queued, stops>>
-----------------------------------------------------------------------------
Prepare(e) == Suppress(e) \/ Dedup(e) \/ Mitigate(e)
Work(w) == \/ \E b \in SUBSET Event : Read(w, b)
           \/ Predict(w) \/ Gather(w) \/ GatherFail(w)
           \/ Publish(w) \/ Ack(w) \/ Backoff(w)
Flush == Take \/ Write

Next ==
  \/ \E e \in Event : Push(e) \/ Prepare(e)
  \/ \E w \in Worker : Work(w)
  \/ \E k \in Key : DedupExpire(k)
  \/ Recover \/ Flush
  \/ Start \/ Shutdown \/ Exit \/ Crash

Spec == Init /\ [][Next]_vars

\* Coroutines that can run are run, a process that ended is started again by the
\* supervisor of start.sh, and main() returns.  Nothing makes events, faults or
\* crashes happen.
Fairness ==
  /\ \A e \in Event : WF_vars(Prepare(e))
  /\ \A w \in Worker : WF_vars(Work(w))
  /\ WF_vars(Flush) /\ WF_vars(Start) /\ WF_vars(Exit)

FairSpec == Spec /\ Fairness
-----------------------------------------------------------------------------
(***************************************************************************)
(* Properties                                                              *)
(***************************************************************************)

\* An alert about an event is handed on at most once, although entries stay
\* pending after failures, workers come back under their names, and a recovery
\* loop processes pending entries past the dedup cache.
NoDoubleAlert == \A e \in Event : sent[e] <= 1

\* An event that was read and is pending for nobody any more has been alerted,
\* suppressed or found to be a duplicate: nothing that failed on the way, or
\* that was in flight in a process that died, is acknowledged.
AckedIsSettled ==
  \A e \in Event :
    stage[e] \in {"read", "ready", "failed"} \cup Preparing
      => \E c \in Consumer : e \in pel[c]

Owned(e) == \E w \in Worker : e \in batch[w]

\* The abstract status of an event.
StatusOf(e) ==
  CASE stage[e] = "absent" -> "new"
    [] stage[e] = "alerted" -> "alerted"
    [] stage[e] = "stream" -> "accepted"
    [] stage[e] \in {"read", "ready"} \cup Preparing /\ Owned(e) -> "accepted"
    [] OTHER -> "gone"

Delivery == INSTANCE AlertDelivery
  WITH status <- [e \in Event |-> StatusOf(e)], announced <- sent

\* An event gets one verdict that nothing revises: no restart, retry or orphaned
\* coroutine brings back an event that was given up, or announces it again.
ImplementsDelivery == Delivery!Spec

\* Something went wrong, once.
Disturbed == faults + stops > 0

\* As long as nothing goes wrong every event that is pushed and not trimmed comes
\* to an alert that is stored and published, or is suppressed or a duplicate.
EventSettled ==
  \A e \in Event :
    stage[e] = "stream" ~>
      \/ e \in stored \cap published
      \/ stage[e] \in {"suppressed", "duplicate", "trimmed", "skipped"}
      \/ Disturbed

\* As long as nothing goes wrong an event is dropped as a duplicate only of an
\* event whose alert reaches the database.
DuplicateAlerted ==
  \A e, d \in Event :
    (stage[e] = "duplicate" /\ covers[e] = d) ~> (d \in stored \/ Disturbed)

\* Whatever goes wrong, entries of the stream are read on.
KeepsReading ==
  \A e \in Event : stage[e] = "stream" ~> stage[e] # "stream"
=============================================================================
