------------------------------ MODULE ModelEngine ------------------------------
(***************************************************************************)
(* From the configuration file to a score.  The relay rewrites the file,   *)
(* in a thread (relay/routes/config_api.py) or in its event loop           *)
(* (relay/routes/models.py), and sends the consumer SIGHUP; the consumer   *)
(* reads the file and loads whatever models it finds (ml_engine/engine.py),*)
(* between two batches or while one waits for its C2 features; start.sh    *)
(* starts a consumer that has died.  A batch is scored by the models of    *)
(* the moment, from vectors of the schema of the moment or from the cache  *)
(* of common/feature_extractor.py.                                         *)
(*                                                                         *)
(* A schema stands for its list of features; a model, a scaler and a       *)
(* vector carry the schema they were made for.                             *)
(***************************************************************************)
EXTENDS Integers, Sequences, FiniteSets

CONSTANTS
  Schema,      \* feature schemas a manifest may name
  LengthOf,    \* the number of features of each
  Model,       \* model files a configuration may name
  TrainedOn,   \* the schema of each model and of its scaler
  Onnx,        \* the models that are ONNX files
  Companion,   \* the ONNX models that have a pickle beside them
  Unscaled,    \* the models configured with the scaler "none"
  DefaultModel, \* ACTIVE_MODEL_FILE without a configuration
  Event,       \* kinds of events in a batch
  Flat,        \* the events whose values are all hashable: these are cached
  Silent,      \* the events no feature is extracted from
  Batch,       \* batches the workers may read in this instance
  Release,     \* states the models directory may be in, in this instance
  CacheSize,   \* maxsize of event_cache
  Request,     \* bound: calls of update_config() that exist at once
  MaxWrites,   \* bound: times the configuration is written
  MaxDeploys,  \* bound: times the files of the models change
  MaxCrashes,  \* bound: crashes of the relay and of the consumer
  None

ASSUME SchemaAssumption ==
  /\ LengthOf \in [Schema -> Nat \ {0}] /\ TrainedOn \in [Model -> Schema]
  /\ \A s, r \in Schema : LengthOf[s] = LengthOf[r] => s = r
  /\ Onnx \subseteq Model /\ Companion \subseteq Onnx /\ Unscaled \subseteq Model
  /\ DefaultModel \in Model
ASSUME EngineNoneAssumption == None \notin Schema /\ None \notin Model
ASSUME BatchAssumption ==
  /\ Batch \subseteq Seq(Event) /\ Flat \subseteq Event /\ Silent \subseteq Event
  /\ CacheSize \in Nat \ {0}

\* models: files that are there; scalers: models whose scaler is there.
Disk == [schema : Schema, models : SUBSET Model, scalers : SUBSET Model,
         vae : {"ok", "broken", "missing"}, c2 : Schema \cup {None},
         corrupt : BOOLEAN]
\* The product as it is delivered: every file is there, for the manifest of
\* the default model.
Delivered(d) ==
  /\ d.schema = TrainedOn[DefaultModel]
  /\ d.models = Model /\ d.scalers = Model /\ d.vae = "ok" /\ ~d.corrupt
ASSUME ReleaseAssumption == Release \subseteq Disk
ASSUME LimitAssumption == MaxWrites \in Nat /\ MaxDeploys \in Nat /\ MaxCrashes \in Nat

VARIABLES
  file,      \* sentinel_config.yaml
  request,   \* update_config() calls under way
  lost,      \* history: the relay died between a write and its signal
  consumer,  \* the process: "down", "starting" or "running"
  hup,       \* SIGHUP is pending
  conf,      \* ACTIVE_MODEL_FILE of the consumer
  disk,      \* the models directory and its manifest
  engine,    \* the consumer's MLEngine
  cache,     \* event_cache, oldest first
  batch,     \* the batch that waits for its C2 features
  result,    \* history: the results of the last batch
  writes, deploys, crashes

config == <<file, request, lost, writes>>
process == <<consumer, hup, conf>>
prediction == <<cache, batch, result>>
vars == <<config, process, disk, engine, prediction, deploys, crashes>>

\* What the file says: a model, or something that yaml.safe_load() makes
\* nothing of (it was truncated, or two writers wrote over each other).
Unreadable == "unreadable"
Read(f) == IF f = Unreadable THEN DefaultModel ELSE f

Call == [phase : {"idle", "open", "written"}, model : Model, raced : BOOLEAN]
NoCall == [phase |-> "idle", model |-> DefaultModel, raced |-> FALSE]

Engine == [schema : Schema, scaler : Schema \cup {None},
           rf : Schema \cup {None}, session : Schema \cup {None},
           vae : Schema \cup {None}, c2 : Schema \cup {None},
           kept : BOOLEAN,  \* stage_status["vae"] is "missing"
           explains : BOOLEAN,  \* there is a SHAP explainer
           ready : BOOLEAN, fallback : BOOLEAN]
NoEngine(s) == [schema |-> s, scaler |-> None, rf |-> None, session |-> None,
                vae |-> None, c2 |-> None, kept |-> FALSE,
                explains |-> FALSE, ready |-> FALSE, fallback |-> FALSE]

\* A feature vector: whose it is, the schema it was extracted for, its length
\* after padding, and whether it comes out of the cache.
Vector == [of : Event, schema : Schema, length : Nat, stored : BOOLEAN]
Stored == [event : Event, schema : Schema, length : Nat]

\* A score remembers the vector, the schema of the model behind it, and whether
\* that model was left over from an earlier load.
Score == [vector : Vector, by : Schema, kept : BOOLEAN] \cup {None}
Scores == [event : Event, ml : Score, anomaly : Score, c2 : Score,
           shap : Event \cup {None}]  \* the event that is explained
Waiting == [event : Event, ml : Score, anomaly : Score, vector : Vector \cup {None},
            shap : Event \cup {None}]

TypeOK ==
  /\ file \in Model \cup {Unreadable}
  /\ request \in [Request -> Call]
  /\ lost \in BOOLEAN /\ hup \in BOOLEAN
  /\ consumer \in {"down", "starting", "running"}
  /\ conf \in Model
  /\ disk \in Disk
  /\ engine \in Engine
  /\ cache \in Seq(Stored) /\ Len(cache) <= CacheSize
  /\ batch \in Seq(Waiting) \cup {None}
  /\ result \in Seq(Scores)
  /\ writes \in 0 .. MaxWrites /\ deploys \in 0 .. MaxDeploys
  /\ crashes \in 0 .. MaxCrashes

Init ==
  /\ file = DefaultModel
  /\ request = [r \in Request |-> NoCall]
  /\ lost = FALSE /\ hup = FALSE
  /\ consumer = "down"
  /\ conf = DefaultModel
  /\ disk \in {d \in Release : Delivered(d)}
  /\ engine = NoEngine(disk.schema)
  /\ cache = <<>> /\ batch = None /\ result = <<>>
  /\ writes = 0 /\ deploys = 0 /\ crashes = 0
-----------------------------------------------------------------------------
(***************************************************************************)
(* The relay                                                               *)
(***************************************************************************)

\* SIGHUP reloads a consumer that has its handler and kills one that has not
\* registered it yet; a second one before the reload is the same signal.
Signal ==
  /\ hup' = (hup \/ consumer = "running")
  /\ consumer' = IF consumer = "starting" THEN "down" ELSE consumer

\* update_config(): a thread opens the file, which truncates it, ...
OpenFile(r, m) ==
  /\ request[r].phase = "idle" /\ writes < MaxWrites
  /\ writes' = writes + 1
  /\ file' = Unreadable
  /\ request' = [q \in Request |->
                   IF q = r THEN [phase |-> "open", model |-> m, raced |-> FALSE]
                   ELSE request[q]]
  /\ UNCHANGED <<lost, process, disk, engine, prediction, deploys, crashes>>

Race(q) == IF q.phase = "open" THEN [q EXCEPT !.raced = TRUE] ELSE q

\* ... and writes it out when it closes it; if another writer did so in the
\* meantime, what is left of the longer text may make no sense.
WriteFile(r) ==
  /\ request[r].phase = "open"
  /\ file' \in {request[r].model}
       \cup (IF request[r].raced THEN {Unreadable} ELSE {})
  /\ request' = [q \in Request |->
                   IF q = r THEN [request[r] EXCEPT !.phase = "written"]
                   ELSE Race(request[q])]
  /\ UNCHANGED <<lost, writes, process, disk, engine, prediction, deploys, crashes>>

\* Back in the event loop the consumer is signalled.
SignalConsumer(r) ==
  /\ request[r].phase = "written"
  /\ request' = [request EXCEPT ![r] = NoCall]
  /\ Signal
  /\ UNCHANGED <<file, lost, writes, conf, disk, engine, prediction, deploys, crashes>>

\* set_active_model() reads, changes, writes and signals without awaiting; a
\* file it cannot parse ends in an error.
SetActiveModel(m) ==
  /\ writes < MaxWrites
  /\ writes' = writes + 1
  /\ file' = m
  /\ request' = [q \in Request |-> Race(request[q])]
  /\ Signal
  /\ UNCHANGED <<lost, conf, disk, engine, prediction, deploys, crashes>>

RelayCrash ==
  /\ crashes < MaxCrashes
  /\ crashes' = crashes + 1
  /\ lost' = (lost \/ \E r \in Request : request[r].phase # "idle")
  /\ request' = [r \in Request |-> NoCall]
  /\ UNCHANGED <<file, writes, process, disk, engine, prediction, deploys>>
-----------------------------------------------------------------------------
(***************************************************************************)
(* Loading the models                                                      *)
(***************************************************************************)
SameLength(s, r) == LengthOf[s] = LengthOf[r]

\* _validate_schema(): lengths are compared, of the scaler and of the pickle.
Fits(e) ==
  /\ e.scaler # None => SameLength(e.scaler, e.schema)
  /\ e.rf # None => SameLength(e.rf, e.schema)

\* get_status()
Status ==
  IF engine.fallback THEN "fallback"
  ELSE IF ~engine.ready THEN "unavailable"
  ELSE IF engine.vae # None /\ ~engine.kept THEN "full" ELSE "degraded"

ScalerOf(e, m) ==
  IF m \in Unscaled THEN None
  ELSE IF m \in disk.scalers THEN TrainedOn[m] ELSE e.scaler

\* What is missing on disk leaves the old object in its place: a pickle, an
\* ONNX session with or without a pickle beside it, ...
ForestOf(e, m) ==
  IF m \notin disk.models THEN e.rf
  ELSE IF m \in Onnx \ Companion THEN None ELSE TrainedOn[m]
SessionOf(e, m) ==
  IF m \notin disk.models THEN e.session
  ELSE IF m \in Onnx THEN TrainedOn[m] ELSE None

\* ... an autoencoder, which remembers the schema it was loaded under, ...
VaeOf(e) ==
  IF disk.vae = "missing" THEN e.vae ELSE IF disk.vae = "ok" THEN disk.schema ELSE None

\* ... and the C2 specialist, which brings its own schema.
C2Of(e) == IF disk.c2 = None THEN e.c2 ELSE disk.c2

WithModels(e, m) ==
  [e EXCEPT
     !.schema = disk.schema,
     !.scaler = ScalerOf(e, m),
     !.rf = ForestOf(e, m), !.session = SessionOf(e, m),
     !.vae = VaeOf(e), !.kept = disk.vae = "missing", !.c2 = C2Of(e),
     !.explains = @ \/ ForestOf(e, m) # None]

Complete(e, m) == (e.rf # None \/ e.session # None) /\ (e.scaler # None \/ m \in Unscaled)

\* Mutant: whatever was loaded is used.
JudgedUnchecked(e, m) ==
  [e EXCEPT !.ready = Complete(e, m), !.fallback = ~Complete(e, m)]
\* The end of _load_models(): fallback mode is left only when there is no
\* autoencoder, so an engine that was in it stays in it.
Judged(e, m) ==
  IF ~Complete(e, m) THEN [e EXCEPT !.fallback = TRUE]
  ELSE IF ~Fits(e) THEN [e EXCEPT !.ready = FALSE, !.fallback = TRUE]
  ELSE [e EXCEPT !.ready = TRUE, !.fallback = disk.vae = "ok" /\ e.fallback]

\* A file that cannot be loaded ends the load where it stands.
Broken(e, m) ==
  {[e EXCEPT !.fallback = TRUE],
   [e EXCEPT !.fallback = TRUE, !.schema = disk.schema],
   [e EXCEPT !.fallback = TRUE, !.schema = disk.schema, !.scaler = ScalerOf(e, m)]}

Loads(e, m) ==
  IF disk.corrupt THEN Broken(e, m) ELSE {Judged(WithModels(e, m), m)}
-----------------------------------------------------------------------------
(***************************************************************************)
(* The consumer process                                                    *)
(***************************************************************************)

\* The supervisor loop of start.sh starts it; config.py reads the file first.
StartConsumer ==
  /\ consumer = "down"
  /\ consumer' = "starting" /\ hup' = FALSE
  /\ conf' = Read(file)
  /\ UNCHANGED <<config, disk, engine, prediction, deploys, crashes>>

\* main() builds the engine and then registers the handler.
Register ==
  /\ consumer = "starting"
  /\ consumer' = "running"
  /\ engine' \in Loads(NoEngine(disk.schema), conf)
  /\ cache' = <<>> /\ batch' = None
  /\ UNCHANGED <<config, hup, conf, disk, result, deploys, crashes>>

\* Mutant: the models are loaded, but the configuration is not read again.
ReloadModels ==
  /\ consumer = "running" /\ hup
  /\ hup' = FALSE
  /\ engine' \in Loads(engine, conf)
  /\ UNCHANGED <<config, consumer, conf, disk, prediction, deploys, crashes>>
\* reload_config(), from the signal handler, between two steps of the loop.
Reload ==
  /\ consumer = "running" /\ hup
  /\ hup' = FALSE
  /\ conf' = Read(file)
  /\ engine' \in Loads(engine, conf')
  /\ UNCHANGED <<config, consumer, disk, prediction, deploys, crashes>>

ConsumerCrash ==
  /\ consumer # "down" /\ crashes < MaxCrashes
  /\ crashes' = crashes + 1
  /\ consumer' = "down" /\ hup' = FALSE
  /\ UNCHANGED <<config, conf, disk, engine, prediction, deploys>>

\* The models directory changes, by a training script or by hand.
Deploy(d) ==
  /\ deploys < MaxDeploys
  /\ deploys' = deploys + 1
  /\ disk' = d
  /\ UNCHANGED <<config, process, engine, prediction, crashes>>
-----------------------------------------------------------------------------
(***************************************************************************)
(* predict_batch()                                                         *)
(***************************************************************************)
Greatest(a, b) == IF a >= b THEN a ELSE b
Hits(c, e) == {n \in DOMAIN c : c[n].event = e}
Expected == LengthOf[engine.schema]

\* extract_features_from_eve() behind event_cache: the key is the event alone,
\* not the schema asked for.
Extract(c, e) ==
  IF e \in Silent THEN None
  ELSE IF e \in Flat /\ Hits(c, e) # {}
  THEN LET hit == c[CHOOSE n \in Hits(c, e) : TRUE]
       IN  [of |-> e, schema |-> hit.schema, stored |-> TRUE,
            length |-> Greatest(hit.length, Expected)]
  ELSE [of |-> e, schema |-> engine.schema, stored |-> FALSE, length |-> Expected]

\* The cache afterwards: the oldest entry makes room, and a vector that was
\* too short is padded where it lies.
CacheAfter(c, e) ==
  IF e \notin Flat \ Silent THEN c
  ELSE IF Hits(c, e) # {}
  THEN [n \in DOMAIN c |-> IF c[n].event # e THEN c[n]
                           ELSE [c[n] EXCEPT !.length = Greatest(@, Expected)]]
  ELSE LET new == [event |-> e, schema |-> engine.schema, length |-> Expected]
       IN  Append(IF Len(c) < CacheSize THEN c ELSE Tail(c), new)

CachesOf(events) ==
  LET after[n \in 0 .. Len(events)] ==
        IF n = 0 THEN cache ELSE CacheAfter(after[n - 1], events[n])
  IN  after
Vectors(events) ==
  [n \in DOMAIN events |-> Extract(CachesOf(events)[n - 1], events[n])]

\* validate_feature_vector()
Usable(v) == v # None /\ v.length = Expected

\* valid_indices: the events with a usable vector in order, and the position of
\* an event among them.
UsableEvents(vectors) == {n \in DOMAIN vectors : Usable(vectors[n])}
Among(vectors, n) == Cardinality({m \in UsableEvents(vectors) : m <= n})
Valid(vectors) ==
  [k \in 1 .. Cardinality(UsableEvents(vectors)) |->
     CHOOSE n \in UsableEvents(vectors) : Among(vectors, n) = k]

Scoring == engine.ready /\ ~engine.fallback

\* The forest's score of every usable vector, in their order.  A session of
\* another length raises, and the batch gets no score; a pickle is reached
\* through the scaler's length, which the loading has compared.
ForestScores(vectors) ==
  LET by == IF engine.session # None THEN engine.session ELSE engine.rf
      fits == engine.session = None \/ SameLength(engine.session, engine.schema)
  IN  [k \in DOMAIN Valid(vectors) |->
         IF fits THEN [vector |-> vectors[Valid(vectors)[k]], by |-> by, kept |-> FALSE]
         ELSE None]

\* The autoencoder sees the vectors the forest is not sure of, and picks its
\* features by their places in the schema it was loaded for.
AnomalyScores(vectors, uncertain) ==
  [k \in DOMAIN Valid(vectors) |->
     IF engine.vae # None /\ k \in uncertain /\ ForestScores(vectors)[k] # None
     THEN [vector |-> vectors[Valid(vectors)[k]], by |-> engine.vae, kept |-> engine.kept]
     ELSE None]

\* Of the vectors that were scored some are explained: those that look
\* suspicious, or none when SHAP fails; the explainer is never built again.
Explanations(vectors, explained) ==
  [k \in DOMAIN Valid(vectors) |->
     IF engine.explains /\ k \in explained /\ ForestScores(vectors)[k] # None
     THEN vectors[Valid(vectors)[k]].of ELSE None]

\* Mutant: the scores are numbered like the events they were computed for.
AtEventUnmapped(scores, vectors, n) ==
  IF Scoring /\ n \in DOMAIN scores THEN scores[n] ELSE None
\* ml_scores[idx] = ml_scores_valid[i], and valid_index_map on the way back.
AtEvent(scores, vectors, n) ==
  IF Scoring /\ Usable(vectors[n]) THEN scores[Among(vectors, n)] ELSE None

\* extract_c2_features_from_eve(), for what the forest has scored.
C2Vector(events, n) ==
  LET vectors == Vectors(events)
  IN  IF engine.c2 # None /\ AtEvent(ForestScores(vectors), vectors, n) # None
      THEN [of |-> events[n], schema |-> engine.c2, stored |-> FALSE,
            length |-> LengthOf[engine.c2]]
      ELSE None

\* Everything up to the C2 specialist, whose features are gathered from tasks:
\* the only place where predict_batch() lets something else run.
Predict(events, uncertain, explained) ==
  LET vectors == Vectors(events)
  IN  /\ consumer = "running" /\ batch = None
      /\ cache' = CachesOf(events)[Len(events)]
      /\ batch' = [n \in DOMAIN events |->
                     [event |-> events[n],
                      ml |-> AtEvent(ForestScores(vectors), vectors, n),
                      anomaly |-> AtEvent(AnomalyScores(vectors, uncertain), vectors, n),
                      shap |-> AtEvent(Explanations(vectors, explained), vectors, n),
                      vector |-> C2Vector(events, n)]]
      /\ result' = <<>>
      /\ UNCHANGED <<config, process, disk, engine, deploys, crashes>>

\* Mutant: the vectors are not compared with the specialist that is there.
C2ScoreUnchecked(w) ==
  IF w.vector # None /\ engine.c2 # None
  THEN [vector |-> w.vector, by |-> engine.c2, kept |-> FALSE] ELSE None
\* A reload may have put another specialist in the place of the one the
\* features were extracted for; vectors of another length are left out.
C2Score(w) ==
  IF w.vector # None /\ engine.c2 # None /\ w.vector.length = LengthOf[engine.c2]
  THEN [vector |-> w.vector, by |-> engine.c2, kept |-> FALSE] ELSE None

\* The specialist's scores, the decisions and the results.
Decide ==
  /\ consumer = "running" /\ batch # None
  /\ result' = [n \in DOMAIN batch |->
                  [event |-> batch[n].event, ml |-> batch[n].ml,
                   anomaly |-> batch[n].anomaly, c2 |-> C2Score(batch[n]),
                   shap |-> batch[n].shap]]
  /\ batch' = None
  /\ UNCHANGED <<config, process, disk, engine, cache, deploys, crashes>>
-----------------------------------------------------------------------------
WriterStep(r) == WriteFile(r) \/ SignalConsumer(r)
Next ==
  \/ \E r \in Request, m \in Model : OpenFile(r, m)
  \/ \E r \in Request : WriterStep(r)
  \/ \E m \in Model : SetActiveModel(m)
  \/ RelayCrash \/ StartConsumer \/ Register \/ Reload \/ ConsumerCrash
  \/ \E d \in Release : Deploy(d)
  \/ \E events \in Batch :
       \E uncertain \in SUBSET DOMAIN Valid(Vectors(events)) :
       \E explained \in SUBSET DOMAIN Valid(Vectors(events)) :
         Predict(events, uncertain, explained)
  \/ Decide

Spec == Init /\ [][Next]_vars

\* Threads and the event loop go on, signals are delivered, and start.sh looks
\* for dead processes every ten seconds.
FairSpec ==
  /\ Spec
  /\ \A r \in Request : WF_vars(WriterStep(r))
  /\ WF_vars(StartConsumer) /\ WF_vars(Register) /\ WF_vars(Reload)
-----------------------------------------------------------------------------
(***************************************************************************)
(* Properties                                                              *)
(***************************************************************************)

\* What get_status() reports as "full" or "degraded" scores with a scaler and a
\* pickle of its own schema, after any sequence of loads that failed, found half
\* of the files or kept what was there (_load_models(), _validate_schema()).
EngineCoherent == Status \in {"full", "degraded"} => Fits(engine)

\* A score comes from a vector of the schema of the model that computed it,
\* though a reload may come between the C2 features and their score.  Excused
\* are vectors of an older schema out of the event cache, and an autoencoder
\* whose files were gone at the last load while the old one still serves.
Right(s) == s # None => s.vector.stored \/ s.kept \/ s.vector.schema = s.by
ScoredRight ==
  \A n \in DOMAIN result :
    Right(result[n].ml) /\ Right(result[n].anomaly) /\ Right(result[n].c2)

\* Every score and every explanation a result carries was computed from the
\* vector of its own event, although events without a vector leave gaps
\* (valid_index_map).
Aligned ==
  \A n \in DOMAIN result :
    /\ \A s \in {result[n].ml, result[n].anomaly, result[n].c2} :
         s # None => s.vector.of = result[n].event
    /\ result[n].shap \in {None, result[n].event}

\* event_cache holds one vector of an event at most: a vector that was too short
\* is padded where it lies, and only an event without one is stored.
CacheKeyed ==
  \A n, m \in DOMAIN cache : cache[n].event = cache[m].event => n = m

\* Once nobody writes any more the consumer runs what the file says, though
\* signals coalesce, come while the consumer starts and kill it, or find it
\* reading a file another writer has just truncated; only a relay that dies
\* between its write and its signal leaves it behind.
ConsumerFollows == []~lost => <>[](consumer = "running" /\ conf = Read(file))
=============================================================================
