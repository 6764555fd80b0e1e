--------------------------- MODULE ModelEngineProofs ---------------------------
(***************************************************************************)
(* What ModelEngine guarantees for any schemas, models, batches and states *)
(* of the models directory: no vector meets a model of another schema, and *)
(* no score another event.                                                 *)
(***************************************************************************)
EXTENDS ModelEngine, FiniteSetTheorems, SequenceTheorems, WellFoundedInduction, TLAPS

\* The types of everything but the event cache and the scores.
ControlTypes ==
  /\ file \in Model \cup {Unreadable}
  /\ request \in [Request -> Call]
  /\ lost \in BOOLEAN /\ hup \in BOOLEAN
  /\ consumer \in {"down", "starting", "running"}
  /\ conf \in Model
  /\ disk \in Disk
  /\ engine \in Engine

\* What an engine that scores has been through: its lengths were compared, it
\* has a forest, and an autoencoder of the last load has its schema.
Sound(e) ==
  e.ready /\ ~e.fallback =>
    /\ Fits(e)
    /\ e.rf # None \/ e.session # None
    /\ e.vae # None /\ ~e.kept => e.vae = e.schema

\* A score of event e.
OfEvent(s, e) == s # None => s.vector.of = e

\* The batch that waits for its C2 features.
WaitsRight(w) ==
  /\ Right(w.ml) /\ Right(w.anomaly)
  /\ OfEvent(w.ml, w.event) /\ OfEvent(w.anomaly, w.event)
  /\ w.shap \in {None, w.event}
  /\ w.vector # None =>
       /\ w.vector.of = w.event
       /\ w.vector.schema \in Schema /\ w.vector.length = LengthOf[w.vector.schema]
BatchRight == batch # None => \A n \in DOMAIN batch : WaitsRight(batch[n])

Inv == ControlTypes /\ Sound(engine) /\ BatchRight /\ ScoredRight /\ Aligned
-----------------------------------------------------------------------------
(***************************************************************************)
(* Loading                                                                 *)
(***************************************************************************)

LEMMA NoEngineType ==
  ASSUME NEW s \in Schema
  PROVE  NoEngine(s) \in Engine /\ Sound(NoEngine(s))
BY DEF NoEngine, Engine, Sound

LEMMA WithModelsType ==
  ASSUME disk \in Disk, NEW e \in Engine, NEW m \in Model
  PROVE  /\ WithModels(e, m) \in Engine
         /\ WithModels(e, m).vae # None /\ ~WithModels(e, m).kept
              => WithModels(e, m).vae = WithModels(e, m).schema
<1>1. /\ ScalerOf(e, m) \in Schema \cup {None} /\ ForestOf(e, m) \in Schema \cup {None}
      /\ SessionOf(e, m) \in Schema \cup {None} /\ VaeOf(e) \in Schema \cup {None}
      /\ C2Of(e) \in Schema \cup {None} /\ disk.schema \in Schema
  BY SchemaAssumption DEF ScalerOf, ForestOf, SessionOf, VaeOf, C2Of, Engine, Disk
<1>2. (disk.vae = "missing") \in BOOLEAN /\ (e.explains \/ ForestOf(e, m) # None) \in BOOLEAN
  OBVIOUS
<1>3. WithModels(e, m) \in Engine
  BY <1>1, <1>2, ZenonT(60) DEF WithModels, Engine
<1>4. /\ WithModels(e, m).vae = VaeOf(e) /\ WithModels(e, m).schema = disk.schema
      /\ WithModels(e, m).kept = (disk.vae = "missing")
  BY DEF WithModels, Engine
<1>5. disk.vae # "missing" => VaeOf(e) \in {None, disk.schema}
  BY DEF VaeOf
<1> QED
  BY <1>3, <1>4, <1>5

\* Whatever a load finds, an engine that scores afterwards has been judged.
LEMMA JudgedType ==
  ASSUME disk \in Disk, NEW m \in Model, NEW e \in Engine,
         e.vae # None /\ ~e.kept => e.vae = e.schema
  PROVE  Judged(e, m) \in Engine /\ Sound(Judged(e, m))
<1>1. CASE ~Complete(e, m)
  BY <1>1 DEF Judged, Engine, Sound
<1>2. CASE Complete(e, m) /\ ~Fits(e)
  BY <1>2 DEF Judged, Engine, Sound
<1>3. CASE Complete(e, m) /\ Fits(e)
  <2>1. (disk.vae = "ok" /\ e.fallback) \in BOOLEAN
    OBVIOUS
  <2>2. Judged(e, m) = [e EXCEPT !.ready = TRUE, !.fallback = disk.vae = "ok" /\ e.fallback]
    BY <1>3 DEF Judged
  <2>3. Judged(e, m) \in Engine
    BY <2>1, <2>2 DEF Engine
  <2>4. /\ Judged(e, m).schema = e.schema /\ Judged(e, m).scaler = e.scaler
        /\ Judged(e, m).rf = e.rf /\ Judged(e, m).session = e.session
        /\ Judged(e, m).vae = e.vae /\ Judged(e, m).kept = e.kept
    BY <2>2 DEF Engine
  <2>5. Fits(Judged(e, m)) /\ (e.rf # None \/ e.session # None)
    BY <1>3, <2>4 DEF Fits, Complete
  <2> QED
    BY <2>3, <2>4, <2>5 DEF Sound
<1> QED
  BY <1>1, <1>2, <1>3

LEMMA LoadsType ==
  ASSUME disk \in Disk, NEW e \in Engine, NEW m \in Model, NEW f \in Loads(e, m)
  PROVE  f \in Engine /\ Sound(f)
<1>1. CASE disk.corrupt
  <2>1. f \in Broken(e, m)
    BY <1>1 DEF Loads
  <2>2. disk.schema \in Schema /\ ScalerOf(e, m) \in Schema \cup {None}
    BY SchemaAssumption DEF Disk, ScalerOf, Engine
  <2>3. f \in Engine /\ f.fallback = TRUE
    BY <2>1, <2>2 DEF Broken, Engine
  <2> QED
    BY <2>3 DEF Sound
<1>2. CASE ~disk.corrupt
  BY <1>2, WithModelsType, JudgedType DEF Loads
<1> QED
  BY <1>1, <1>2
-----------------------------------------------------------------------------
(***************************************************************************)
(* Positions                                                               *)
(***************************************************************************)

\* The events with a usable vector are counted in their order, so that an event
\* finds its own vector at its position.
LEMMA Positions ==
  ASSUME NEW vectors, NEW l \in Nat, DOMAIN vectors = 1 .. l,
         NEW n \in UsableEvents(vectors)
  PROVE  /\ Among(vectors, n) \in DOMAIN Valid(vectors)
         /\ Valid(vectors)[Among(vectors, n)] = n
<1> DEFINE U == UsableEvents(vectors)
           Upto(k) == {m \in U : m <= k}
<1>1. U \subseteq 1 .. l /\ n \in U
  BY DEF UsableEvents
<1>2. IsFiniteSet(U)
  BY <1>1, FS_Interval, FS_Subset, 1 \in Int, l \in Int
<1>3. Cardinality(U) \in Nat
  BY <1>2, FS_CardinalityType
<1> HIDE DEF U
<1>4. ASSUME NEW k \in U
      PROVE  /\ k \in Upto(k) /\ k \in Int
             /\ IsFiniteSet(Upto(k)) /\ Cardinality(Upto(k)) \in Nat
             /\ Cardinality(Upto(k)) <= Cardinality(U) /\ Cardinality(Upto(k)) # 0
  <2>1. k \in Int /\ k \in Upto(k)
    BY <1>1
  <2>2. Upto(k) \in SUBSET U
    OBVIOUS
  <2>3. IsFiniteSet(Upto(k)) /\ Cardinality(Upto(k)) <= Cardinality(U)
    BY <1>2, <2>2, FS_Subset
  <2>4. Cardinality(Upto(k)) \in Nat
    BY <2>3, FS_CardinalityType
  <2>5. Cardinality(Upto(k)) # 0
    BY <2>1, <2>3, FS_EmptySet
  <2> QED
    BY <2>1, <2>3, <2>4, <2>5
<1>5. ASSUME NEW j \in U, NEW k \in U, j < k
      PROVE  Cardinality(Upto(j)) # Cardinality(Upto(k))
  <2>1. j \in Int /\ k \in Int /\ \A m \in U : m \in Int
    BY <1>1
  <2>2. \A m \in U : m <= j => m <= k
    BY <1>5, <2>1
  <2>3. k \in Upto(k) /\ ~(k <= j)
    BY <1>5, <2>1
  <2>4. Upto(j) \in SUBSET Upto(k) /\ k \in Upto(k) /\ k \notin Upto(j)
    BY <2>2, <2>3
  <2> HIDE DEF Upto
  <2> QED
    BY <1>4, <2>4, FS_Subset
<1>6. \A k \in U : Among(vectors, k) = Cardinality(Upto(k))
  BY DEF Among, U
<1>7. ASSUME NEW k \in U, Among(vectors, k) = Among(vectors, n) PROVE k = n
  <2>1. k \in Int /\ n \in Int
    BY <1>1
  <2>2. ~(k < n) /\ ~(n < k)
    BY <1>1, <1>5, <1>6, <1>7
  <2> QED
    BY <2>1, <2>2
<1>8. Among(vectors, n) \in 1 .. Cardinality(U)
  <2> DEFINE a == Among(vectors, n)
             c == Cardinality(U)
  <2>1. a \in Nat /\ a <= c /\ a # 0 /\ c \in Nat
    BY <1>1, <1>3, <1>4, <1>6
  <2> HIDE DEF a, c
  <2>2. a \in 1 .. c
    BY <2>1
  <2> QED
    BY <2>2 DEF a, c
<1>9. (CHOOSE k \in U : Among(vectors, k) = Among(vectors, n)) = n
  BY <1>1, <1>7
<1>10. Valid(vectors) = [i \in 1 .. Cardinality(U) |-> CHOOSE k \in U : Among(vectors, k) = i]
  BY DEF Valid, U
<1> QED
  BY <1>8, <1>9, <1>10

\* A vector is of its event, and of the engine's schema unless it was stored.
LEMMA VectorOf ==
  ASSUME NEW events \in Seq(Event), NEW n \in DOMAIN events,
         Vectors(events)[n] # None
  PROVE  /\ Vectors(events)[n].of = events[n]
         /\ Vectors(events)[n].stored \/ Vectors(events)[n].schema = engine.schema
<1>1. PICK c : Vectors(events)[n] = Extract(c, events[n])
  BY DEF Vectors
<1>2. Extract(c, events[n]) # None
  BY <1>1
<1>3. CASE events[n] \in Flat /\ Hits(c, events[n]) # {}
  BY <1>1, <1>2, <1>3 DEF Extract
<1>4. CASE ~(events[n] \in Flat /\ Hits(c, events[n]) # {})
  BY <1>1, <1>2, <1>4 DEF Extract
<1> QED
  BY <1>3, <1>4

\* What is stored for an event was computed at the position of its own vector.
LEMMA AtOwnPosition ==
  ASSUME NEW events \in Seq(Event), NEW n \in DOMAIN events,
         Scoring, Usable(Vectors(events)[n])
  PROVE  /\ Among(Vectors(events), n) \in DOMAIN Valid(Vectors(events))
         /\ Valid(Vectors(events))[Among(Vectors(events), n)] = n
<1>1. DOMAIN Vectors(events) = 1 .. Len(events) /\ Len(events) \in Nat
  BY DEF Vectors
<1>2. n \in UsableEvents(Vectors(events))
  BY <1>1 DEF UsableEvents
<1> QED
  BY <1>1, <1>2, Positions
-----------------------------------------------------------------------------
(***************************************************************************)
(* Scores                                                                  *)
(***************************************************************************)

\* The forest's score of an event comes from its own vector, by a model of the
\* engine's schema.
LEMMA ForestRight ==
  ASSUME Inv, NEW events \in Seq(Event), NEW n \in DOMAIN events,
         NEW s, s = AtEvent(ForestScores(Vectors(events)), Vectors(events), n)
  PROVE  Right(s) /\ OfEvent(s, events[n])
<1> DEFINE v == Vectors(events)
<1>1. CASE Scoring /\ Usable(v[n]) /\ s # None
  <2> DEFINE by == IF engine.session # None THEN engine.session ELSE engine.rf
             fits == engine.session = None \/ SameLength(engine.session, engine.schema)
  <2>1. Valid(v)[Among(v, n)] = n /\ Among(v, n) \in DOMAIN Valid(v)
    BY <1>1, AtOwnPosition
  <2>2. s = IF fits THEN [vector |-> v[Valid(v)[Among(v, n)]], by |-> by, kept |-> FALSE]
            ELSE None
    BY <1>1, <2>1 DEF AtEvent, ForestScores
  <2>3. fits /\ s.vector = v[n] /\ s.by = by
    BY <1>1, <2>1, <2>2
  <2>4. Fits(engine) /\ (engine.rf # None \/ engine.session # None)
    BY <1>1 DEF Inv, Sound, Scoring
  <2>5. by \in Schema /\ engine.schema \in Schema /\ SameLength(by, engine.schema)
    BY <2>3, <2>4 DEF Inv, ControlTypes, Engine, Fits
  <2>6. by = engine.schema
    BY <2>5, SchemaAssumption DEF SameLength
  <2>7. v[n] # None
    BY <1>1 DEF Usable
  <2> QED
    BY <2>3, <2>6, <2>7, VectorOf DEF Right, OfEvent
<1>2. CASE ~(Scoring /\ Usable(v[n]) /\ s # None)
  BY <1>2 DEF AtEvent, Right, OfEvent
<1> QED
  BY <1>1, <1>2

\* The same for the autoencoder, unless it was kept from an earlier load.
LEMMA AnomalyRight ==
  ASSUME Inv, NEW events \in Seq(Event), NEW n \in DOMAIN events, NEW uncertain,
         NEW s, s = AtEvent(AnomalyScores(Vectors(events), uncertain), Vectors(events), n)
  PROVE  Right(s) /\ OfEvent(s, events[n])
<1> DEFINE v == Vectors(events)
<1>1. CASE Scoring /\ Usable(v[n]) /\ s # None
  <2>1. Valid(v)[Among(v, n)] = n /\ Among(v, n) \in DOMAIN Valid(v)
    BY <1>1, AtOwnPosition
  <2>2. /\ engine.vae # None
        /\ s = [vector |-> v[n], by |-> engine.vae, kept |-> engine.kept]
    BY <1>1, <2>1 DEF AtEvent, AnomalyScores
  <2>3. engine.kept \/ engine.vae = engine.schema
    BY <1>1, <2>2 DEF Inv, Sound, Scoring
  <2>4. v[n] # None
    BY <1>1 DEF Usable
  <2>5. s.vector = v[n] /\ s.by = engine.vae /\ s.kept = engine.kept
    BY <2>2
  <2> QED
    BY <2>3, <2>4, <2>5, VectorOf DEF Right, OfEvent
<1>2. CASE ~(Scoring /\ Usable(v[n]) /\ s # None)
  BY <1>2 DEF AtEvent, Right, OfEvent
<1> QED
  BY <1>1, <1>2

\* An explanation is one of the event it is attached to.
LEMMA ShapRight ==
  ASSUME NEW events \in Seq(Event), NEW n \in DOMAIN events, NEW explained,
         NEW s, s = AtEvent(Explanations(Vectors(events), explained), Vectors(events), n)
  PROVE  s \in {None, events[n]}
<1> DEFINE v == Vectors(events)
<1>1. CASE Scoring /\ Usable(v[n])
  <2>1. Valid(v)[Among(v, n)] = n /\ Among(v, n) \in DOMAIN Valid(v)
    BY <1>1, AtOwnPosition
  <2>2. s \in {None, v[n].of}
    BY <1>1, <2>1 DEF AtEvent, Explanations
  <2>3. v[n] # None
    BY <1>1 DEF Usable
  <2> QED
    BY <2>2, <2>3, VectorOf
<1>2. CASE ~(Scoring /\ Usable(v[n]))
  BY <1>2 DEF AtEvent
<1> QED
  BY <1>1, <1>2

\* The specialist's vector has the length of its schema, and a length tells the
\* schema.
LEMMA C2Right ==
  ASSUME Inv, NEW w, WaitsRight(w)
  PROVE  Right(C2Score(w)) /\ OfEvent(C2Score(w), w.event)
<1>1. CASE w.vector # None /\ engine.c2 # None /\ w.vector.length = LengthOf[engine.c2]
  <2>1. engine.c2 \in Schema
    BY <1>1 DEF Inv, ControlTypes, Engine
  <2>2. /\ w.vector.schema \in Schema /\ w.vector.of = w.event
        /\ w.vector.length = LengthOf[w.vector.schema]
    BY <1>1 DEF WaitsRight
  <2>3. w.vector.schema = engine.c2
    BY <1>1, <2>1, <2>2, SchemaAssumption
  <2>4. C2Score(w) = [vector |-> w.vector, by |-> engine.c2, kept |-> FALSE]
    BY <1>1 DEF C2Score
  <2> QED
    BY <2>2, <2>3, <2>4 DEF Right, OfEvent
<1>2. CASE ~(w.vector # None /\ engine.c2 # None /\ w.vector.length = LengthOf[engine.c2])
  BY <1>2 DEF C2Score, Right, OfEvent
<1> QED
  BY <1>1, <1>2
-----------------------------------------------------------------------------
(***************************************************************************)
(* Steps                                                                   *)
(***************************************************************************)

LEMMA PredictStep ==
  ASSUME Inv, NEW events \in Batch, NEW uncertain, NEW explained,
         Predict(events, uncertain, explained)
  PROVE  Inv'
<1>0. events \in Seq(Event)
  BY BatchAssumption
<1>1. /\ result' = <<>>
      /\ UNCHANGED <<file, request, lost, hup, consumer, conf, disk, engine>>
  BY DEF Predict, config, process
<1>2. batch' = [n \in DOMAIN events |->
         [event |-> events[n],
          ml |-> AtEvent(ForestScores(Vectors(events)), Vectors(events), n),
          anomaly |-> AtEvent(AnomalyScores(Vectors(events), uncertain), Vectors(events), n),
          shap |-> AtEvent(Explanations(Vectors(events), explained), Vectors(events), n),
          vector |-> C2Vector(events, n)]]
  BY DEF Predict
<1>3. ASSUME NEW n \in DOMAIN events PROVE WaitsRight(batch'[n])
  <2>1. /\ batch'[n].event = events[n]
        /\ batch'[n].ml = AtEvent(ForestScores(Vectors(events)), Vectors(events), n)
        /\ batch'[n].anomaly =
             AtEvent(AnomalyScores(Vectors(events), uncertain), Vectors(events), n)
        /\ batch'[n].shap =
             AtEvent(Explanations(Vectors(events), explained), Vectors(events), n)
        /\ batch'[n].vector = C2Vector(events, n)
    BY <1>2, <1>3
  <2>2. Right(batch'[n].ml) /\ OfEvent(batch'[n].ml, events[n])
    BY <1>0, <2>1, ForestRight
  <2>3. Right(batch'[n].anomaly) /\ OfEvent(batch'[n].anomaly, events[n])
    BY <1>0, <2>1, AnomalyRight
  <2>4. batch'[n].shap \in {None, events[n]}
    BY <1>0, <2>1, ShapRight
  <2>5. C2Vector(events, n) # None =>
          /\ C2Vector(events, n).of = events[n] /\ C2Vector(events, n).schema \in Schema
          /\ C2Vector(events, n).length = LengthOf[C2Vector(events, n).schema]
    BY DEF C2Vector, Inv, ControlTypes, Engine
  <2> QED
    BY <2>1, <2>2, <2>3, <2>4, <2>5 DEF WaitsRight
<1>4. BatchRight'
  BY <1>2, <1>3 DEF BatchRight
<1>5. ScoredRight' /\ Aligned'
  BY <1>1 DEF ScoredRight, Aligned
<1>6. ControlTypes' /\ Sound(engine)'
  BY <1>1 DEF Inv, ControlTypes
<1> QED
  BY <1>4, <1>5, <1>6 DEF Inv

LEMMA DecideStep ==
  ASSUME Inv, Decide
  PROVE  Inv'
<1>1. /\ batch # None /\ batch' = None
      /\ UNCHANGED <<file, request, lost, hup, consumer, conf, disk, engine>>
      /\ result' = [n \in DOMAIN batch |->
                  [event |-> batch[n].event, ml |-> batch[n].ml,
                   anomaly |-> batch[n].anomaly, c2 |-> C2Score(batch[n]),
                   shap |-> batch[n].shap]]
  BY DEF Decide, config, process
<1>2. ASSUME NEW n \in DOMAIN result'
      PROVE  /\ Right(result'[n].ml) /\ Right(result'[n].anomaly) /\ Right(result'[n].c2)
             /\ \A s \in {result'[n].ml, result'[n].anomaly, result'[n].c2} :
                  s # None => s.vector.of = result'[n].event
             /\ result'[n].shap \in {None, result'[n].event}
  <2>1. n \in DOMAIN batch
    BY <1>1
  <2>2. WaitsRight(batch[n])
    BY <1>1, <2>1 DEF Inv, BatchRight
  <2>3. /\ result'[n].event = batch[n].event /\ result'[n].ml = batch[n].ml
        /\ result'[n].anomaly = batch[n].anomaly /\ result'[n].shap = batch[n].shap
        /\ result'[n].c2 = C2Score(batch[n])
    BY <1>1, <2>1
  <2>4. Right(C2Score(batch[n])) /\ OfEvent(C2Score(batch[n]), batch[n].event)
    BY <2>2, C2Right
  <2> QED
    BY <2>2, <2>3, <2>4 DEF WaitsRight, OfEvent
<1>3. ScoredRight' /\ Aligned'
  BY <1>2 DEF ScoredRight, Aligned
<1>4. ControlTypes' /\ Sound(engine)' /\ BatchRight'
  BY <1>1 DEF Inv, ControlTypes, BatchRight
<1> QED
  BY <1>3, <1>4 DEF Inv

\* Only a load changes the engine.
LEMMA LoadStep ==
  ASSUME Inv, Register \/ Reload
  PROVE  Inv'
<1>1. CASE Register
  <2>1. disk \in Disk /\ disk.schema \in Schema /\ conf \in Model
    BY DEF Inv, ControlTypes, Disk
  <2>2. engine' \in Engine /\ Sound(engine')
    BY <1>1, <2>1, NoEngineType, LoadsType DEF Register
  <2>3. BatchRight' /\ ScoredRight' /\ Aligned'
    BY <1>1 DEF Register, Inv, BatchRight, ScoredRight, Aligned
  <2>4. ControlTypes'
    BY <1>1, <2>2 DEF Register, Inv, ControlTypes, config
  <2> QED
    BY <2>2, <2>3, <2>4 DEF Inv
<1>2. CASE Reload
  <2>1. disk \in Disk /\ engine \in Engine /\ conf' \in Model
    BY <1>2, SchemaAssumption DEF Reload, Read, Inv, ControlTypes
  <2>2. engine' \in Engine /\ Sound(engine')
    BY <1>2, <2>1, LoadsType DEF Reload
  <2>3. BatchRight' /\ ScoredRight' /\ Aligned'
    BY <1>2 DEF Reload, prediction, Inv, BatchRight, ScoredRight, Aligned
  <2>4. ControlTypes'
    BY <1>2, <2>1, <2>2 DEF Reload, Inv, ControlTypes, config
  <2> QED
    BY <2>2, <2>3, <2>4 DEF Inv
<1> QED
  BY <1>1, <1>2

\* The relay, the supervisor and the models directory touch neither engine nor
\* scores.
LEMMA OutsideStep ==
  ASSUME Inv,
         \/ \E r \in Request, m \in Model : OpenFile(r, m)
         \/ \E r \in Request : WriterStep(r)
         \/ \E m \in Model : SetActiveModel(m)
         \/ RelayCrash \/ StartConsumer \/ ConsumerCrash
         \/ \E d \in Release : Deploy(d)
         \/ UNCHANGED vars
  PROVE  Inv'
<1>1. UNCHANGED <<engine, cache, batch, result>>
  BY DEF OpenFile, WriterStep, WriteFile, SignalConsumer, SetActiveModel, RelayCrash,
    StartConsumer, ConsumerCrash, Deploy, prediction, vars
<1>2. Sound(engine)' /\ BatchRight' /\ ScoredRight' /\ Aligned'
  BY <1>1 DEF Inv, BatchRight, ScoredRight, Aligned
<1>3. request' \in [Request -> Call]
  <2>1. request \in [Request -> Call] /\ NoCall \in Call
    BY SchemaAssumption DEF Inv, ControlTypes, NoCall, Call
  <2>2. \A q \in Call : Race(q) \in Call
    BY DEF Race, Call
  <2>3. \A m \in Model : [phase |-> "open", model |-> m, raced |-> FALSE] \in Call
    BY DEF Call
  <2>4. \A r \in Request : [request[r] EXCEPT !.phase = "written"] \in Call
    BY <2>1 DEF Call
  <2>5. CASE \E r \in Request, m \in Model : OpenFile(r, m)
    BY <2>1, <2>3, <2>5 DEF OpenFile
  <2>6. CASE \E r \in Request : WriteFile(r)
    BY <2>1, <2>2, <2>4, <2>6 DEF WriteFile
  <2>7. CASE \E r \in Request : SignalConsumer(r)
    BY <2>1, <2>7 DEF SignalConsumer
  <2>8. CASE \E m \in Model : SetActiveModel(m)
    BY <2>1, <2>2, <2>8 DEF SetActiveModel
  <2>9. CASE RelayCrash
    BY <2>1, <2>9 DEF RelayCrash
  <2>10. CASE StartConsumer \/ ConsumerCrash \/ (\E d \in Release : Deploy(d)) \/ UNCHANGED vars
    BY <2>1, <2>10 DEF StartConsumer, ConsumerCrash, Deploy, config, vars
  <2> QED
    BY <2>5, <2>6, <2>7, <2>8, <2>9, <2>10 DEF WriterStep
<1>4. /\ file' \in Model \cup {Unreadable}
      /\ lost' \in BOOLEAN /\ hup' \in BOOLEAN
      /\ consumer' \in {"down", "starting", "running"}
      /\ conf' \in Model /\ disk' \in Disk
  <2> USE DEF Inv, ControlTypes
  <2>1. CASE \E r \in Request, m \in Model : OpenFile(r, m)
    BY <2>1 DEF OpenFile, process
  <2>2. CASE \E r \in Request : WriteFile(r)
    BY <2>2 DEF WriteFile, process, Call
  <2>3. CASE \E r \in Request : SignalConsumer(r)
    BY <2>3 DEF SignalConsumer, Signal
  <2>4. CASE \E m \in Model : SetActiveModel(m)
    BY <2>4 DEF SetActiveModel, Signal
  <2>5. CASE RelayCrash
    BY <2>5 DEF RelayCrash, process
  <2>6. CASE StartConsumer
    BY <2>6, SchemaAssumption DEF StartConsumer, config, Read
  <2>7. CASE ConsumerCrash
    BY <2>7 DEF ConsumerCrash, config
  <2>8. CASE \E d \in Release : Deploy(d)
    BY <2>8, ReleaseAssumption DEF Deploy, config, process
  <2>9. CASE UNCHANGED vars
    BY <2>9 DEF vars, config, process
  <2> QED
    BY <2>1, <2>2, <2>3, <2>4, <2>5, <2>6, <2>7, <2>8, <2>9 DEF WriterStep
<1>5. ControlTypes'
  BY <1>1, <1>3, <1>4 DEF Inv, ControlTypes
<1> QED
  BY <1>2, <1>5 DEF Inv

LEMMA InvInit == Init => Inv
<1> SUFFICES ASSUME Init PROVE Inv
  OBVIOUS
<1>1. disk \in Disk /\ disk.schema \in Schema /\ DefaultModel \in Model
  BY ReleaseAssumption, SchemaAssumption DEF Init, Disk
<1>2. engine \in Engine /\ Sound(engine)
  BY <1>1, NoEngineType DEF Init
<1>3. ControlTypes
  BY <1>1, <1>2 DEF Init, ControlTypes, NoCall, Call
<1>4. BatchRight /\ ScoredRight /\ Aligned
  BY DEF Init, BatchRight, ScoredRight, Aligned
<1> QED
  BY <1>2, <1>3, <1>4 DEF Inv

LEMMA InvStep == Inv /\ [Next]_vars => Inv'
BY PredictStep, DecideStep, LoadStep, OutsideStep DEF Next
-----------------------------------------------------------------------------
(***************************************************************************)
(* The event cache and the types of vectors and scores.  The caches of a   *)
(* batch are a recursive function of its events; induction goes through    *)
(* the least element of a set of numbers.                                  *)
(***************************************************************************)
Caches ==
  {c \in Seq(Stored) :
     Len(c) <= CacheSize /\ \A n, m \in DOMAIN c : c[n].event = c[m].event => n = m}

LEMMA ExpectedType ==
  ASSUME engine \in Engine
  PROVE  engine.schema \in Schema /\ Expected \in Nat
BY SchemaAssumption DEF Engine, Expected

LEMMA GreatestType ==
  ASSUME NEW a \in Nat, NEW b \in Nat
  PROVE  Greatest(a, b) \in Nat
BY DEF Greatest

\* A vector makes the oldest one leave when the cache is full, ...
LEMMA AppendKeyed ==
  ASSUME NEW c \in Caches, NEW new \in Stored, Hits(c, new.event) = {}
  PROVE  Append(IF Len(c) < CacheSize THEN c ELSE Tail(c), new) \in Caches
<1> DEFINE rest == IF Len(c) < CacheSize THEN c ELSE Tail(c)
<1>0. /\ c \in Seq(Stored) /\ Len(c) \in Nat /\ Len(c) <= CacheSize
      /\ DOMAIN c = 1 .. Len(c) /\ CacheSize \in Nat /\ CacheSize # 0
  BY BatchAssumption DEF Caches
<1>1. \A n, m \in DOMAIN c : c[n].event = c[m].event => n = m
  BY DEF Caches
<1>2. \A n \in DOMAIN c : c[n].event # new.event
  BY DEF Hits
<1>3. /\ rest \in Seq(Stored) /\ Len(rest) \in Nat /\ Len(rest) + 1 <= CacheSize
      /\ DOMAIN rest = 1 .. Len(rest)
      /\ \A n, m \in DOMAIN rest : rest[n].event = rest[m].event => n = m
      /\ \A n \in DOMAIN rest : rest[n].event # new.event
  <2>1. CASE Len(c) < CacheSize
    <3>1. rest = c
      BY <2>1
    <3>2. Len(c) + 1 <= CacheSize
      BY <1>0, <2>1
    <3> QED
      BY <1>0, <1>1, <1>2, <3>1, <3>2
  <2>2. CASE ~(Len(c) < CacheSize)
    <3>1. Len(c) = CacheSize /\ Len(c) # 0
      <4> DEFINE l == Len(c)
      <4>1. l \in Nat /\ l <= CacheSize /\ CacheSize \in Nat /\ CacheSize # 0 /\ ~(l < CacheSize)
        BY <1>0, <2>2
      <4> HIDE DEF l
      <4>2. l = CacheSize /\ l # 0
        BY <4>1
      <4> QED
        BY <4>2 DEF l
    <3>2. rest = Tail(c) /\ c # <<>>
      BY <2>2, <3>1
    <3>3. /\ Tail(c) \in Seq(Stored) /\ Len(Tail(c)) = Len(c) - 1
          /\ \A n \in 1 .. Len(Tail(c)) : Tail(c)[n] = c[n + 1]
      BY <1>0, <3>2, HeadTailProperties
    <3>4. DOMAIN Tail(c) = 1 .. Len(c) - 1
      BY <3>3
    <3>5. \A n \in 1 .. Len(c) - 1 : Tail(c)[n] = c[n + 1] /\ n + 1 \in DOMAIN c /\ n \in Int
      BY <1>0, <3>3
    <3>6. ASSUME NEW n \in 1 .. Len(c) - 1, NEW m \in 1 .. Len(c) - 1,
                 Tail(c)[n].event = Tail(c)[m].event
          PROVE  n = m
      <4>1. c[n + 1].event = c[m + 1].event
        BY <3>5, <3>6
      <4>2. n + 1 = m + 1
        BY <1>1, <3>5, <4>1
      <4> QED
        BY <3>5, <4>2
    <3>7. \A n \in 1 .. Len(c) - 1 : Tail(c)[n].event # new.event
      BY <1>2, <3>5
    <3>8. Len(Tail(c)) \in Nat /\ Len(Tail(c)) + 1 <= CacheSize
      BY <1>0, <3>1, <3>3
    <3> QED
      BY <3>2, <3>3, <3>4, <3>6, <3>7, <3>8
  <2> QED
    BY <2>1, <2>2
<1> HIDE DEF rest
<1>4. /\ Append(rest, new) \in Seq(Stored) /\ Len(Append(rest, new)) = Len(rest) + 1
      /\ DOMAIN Append(rest, new) = 1 .. Len(rest) + 1
      /\ \A n \in 1 .. Len(rest) : Append(rest, new)[n] = rest[n]
      /\ Append(rest, new)[Len(rest) + 1] = new
  BY <1>3
<1>5. ASSUME NEW n \in 1 .. Len(rest) + 1, NEW m \in 1 .. Len(rest) + 1,
             Append(rest, new)[n].event = Append(rest, new)[m].event
      PROVE  n = m
  <2>1. n \in 1 .. Len(rest) \/ n = Len(rest) + 1
    BY <1>3
  <2>2. m \in 1 .. Len(rest) \/ m = Len(rest) + 1
    BY <1>3
  <2> QED
    BY <1>3, <1>4, <1>5, <2>1, <2>2
<1>6. Append(rest, new) \in Caches
  BY <1>3, <1>4, <1>5 DEF Caches
<1> QED
  BY <1>6 DEF rest

\* ... and one that is too short is padded where it lies.
LEMMA CacheAfterType ==
  ASSUME engine \in Engine, NEW c \in Caches, NEW e \in Event
  PROVE  CacheAfter(c, e) \in Caches
<1>1. CASE e \notin Flat \ Silent
  BY <1>1 DEF CacheAfter
<1>2. CASE e \in Flat \ Silent /\ Hits(c, e) # {}
  <2> DEFINE d == [n \in DOMAIN c |-> IF c[n].event # e THEN c[n]
                     ELSE [c[n] EXCEPT !.length = Greatest(@, Expected)]]
  <2>1. /\ c \in Seq(Stored) /\ Len(c) \in Nat /\ Len(c) <= CacheSize
        /\ DOMAIN c = 1 .. Len(c) /\ \A n \in DOMAIN c : c[n] \in Stored
        /\ \A n, m \in DOMAIN c : c[n].event = c[m].event => n = m
    BY DEF Caches
  <2>2. \A n \in DOMAIN c : d[n] \in Stored /\ d[n].event = c[n].event
    <3> SUFFICES ASSUME NEW n \in DOMAIN c
                 PROVE  d[n] \in Stored /\ d[n].event = c[n].event
      OBVIOUS
    <3>1. c[n] \in Stored /\ c[n].length \in Nat
      BY <2>1 DEF Stored
    <3>2. Greatest(c[n].length, Expected) \in Nat
      BY <3>1, ExpectedType, GreatestType
    <3>3. CASE c[n].event # e
      BY <3>1, <3>3
    <3>4. CASE c[n].event = e
      <4>1. d[n] = [c[n] EXCEPT !.length = Greatest(c[n].length, Expected)]
        BY <3>4
      <4> QED
        BY <3>1, <3>2, <4>1 DEF Stored
    <3> QED
      BY <3>3, <3>4
  <2>3. DOMAIN d = 1 .. Len(c) /\ d = [n \in 1 .. Len(c) |-> d[n]]
    BY <2>1
  <2>4. CacheAfter(c, e) = d
    BY <1>2 DEF CacheAfter
  <2> HIDE DEF d
  <2>5. d \in Seq(Stored) /\ Len(d) = Len(c)
    BY <2>1, <2>2, <2>3
  <2>6. \A n, m \in DOMAIN d : d[n].event = d[m].event => n = m
    BY <2>1, <2>2, <2>3
  <2> QED
    BY <2>1, <2>4, <2>5, <2>6 DEF Caches
<1>3. CASE e \in Flat \ Silent /\ Hits(c, e) = {}
  <2> DEFINE new == [event |-> e, schema |-> engine.schema, length |-> Expected]
  <2>1. new \in Stored /\ new.event = e
    BY ExpectedType DEF Stored
  <2>2. CacheAfter(c, e) = Append(IF Len(c) < CacheSize THEN c ELSE Tail(c), new)
    BY <1>3 DEF CacheAfter
  <2> HIDE DEF new
  <2> QED
    BY <1>3, <2>1, <2>2, AppendKeyed
<1> QED
  BY <1>1, <1>2, <1>3

LEMMA LeastElement ==
  ASSUME NEW T \in SUBSET Nat, T # {}
  PROVE  \E x \in T : \A y \in T : x <= y
<1> DEFINE R == OpToRel(<, Nat)
<1>1. IsWellFoundedOn(R, Nat)
  BY NatLessThanWellFounded
<1>2. \A x, y \in Nat : x < y => <<x, y>> \in R
  BY DEF OpToRel
<1> HIDE DEF R
<1>3. PICK x \in T : \A y \in T : ~ (<<y, x>> \in R)
  BY <1>1, WFMin
<1>4. ASSUME NEW y \in T PROVE x <= y
  <2>1. x \in Nat /\ y \in Nat
    OBVIOUS
  <2>2. ~ (y < x)
    BY <1>2, <1>3, <2>1
  <2> QED
    BY <2>1, <2>2
<1> QED
  BY <1>4

\* g lists the caches before and after each of the first k events.
IsCaches(g, events, k) ==
  g = [n \in 0 .. k |-> IF n = 0 THEN cache ELSE CacheAfter(g[n - 1], events[n])]

LEMMA CachesOfIs ==
  ASSUME NEW events
  PROVE  CachesOf(events) = CHOOSE g : IsCaches(g, events, Len(events))
BY DEF CachesOf, IsCaches

LEMMA CachesExist ==
  ASSUME NEW events, NEW k \in Nat
  PROVE  \E g : IsCaches(g, events, k)
<1> DEFINE Missing == {j \in Nat : ~ \E g : IsCaches(g, events, j)}
<1>1. \E g : IsCaches(g, events, 0)
  <2> DEFINE g == [n \in 0 .. 0 |-> cache]
  <2>1. \A n \in 0 .. 0 : n = 0
    OBVIOUS
  <2>2. g = [n \in 0 .. 0 |-> IF n = 0 THEN cache ELSE CacheAfter(g[n - 1], events[n])]
    BY <2>1
  <2> HIDE DEF g
  <2>3. IsCaches(g, events, 0)
    BY <2>2 DEF IsCaches
  <2> QED
    BY <2>3
<1>2. ASSUME NEW j \in Nat, \E g : IsCaches(g, events, j)
      PROVE  \E h : IsCaches(h, events, j + 1)
  <2>1. PICK g : IsCaches(g, events, j)
    BY <1>2
  <2> DEFINE h == [n \in 0 .. j + 1 |-> IF n = j + 1 THEN CacheAfter(g[j], events[j + 1])
                                        ELSE g[n]]
  <2>2. \A n \in 0 .. j : g[n] = IF n = 0 THEN cache ELSE CacheAfter(g[n - 1], events[n])
    BY <2>1 DEF IsCaches
  <2>3. ASSUME NEW n \in 0 .. j + 1
        PROVE  h[n] = IF n = 0 THEN cache ELSE CacheAfter(h[n - 1], events[n])
    <3>1. CASE n = j + 1
      <4>1. n # 0 /\ n - 1 = j /\ j \in 0 .. j + 1 /\ j # j + 1
        BY <3>1
      <4>2. h[n - 1] = g[j] /\ h[n] = CacheAfter(g[j], events[j + 1])
        BY <3>1, <4>1
      <4> QED
        BY <3>1, <4>1, <4>2
    <3>2. CASE n # j + 1
      <4>1. n \in 0 .. j /\ h[n] = g[n]
        BY <3>2
      <4>2. n # 0 => n - 1 \in 0 .. j + 1 /\ n - 1 # j + 1
        BY <4>1
      <4>3. n # 0 => h[n - 1] = g[n - 1]
        BY <4>2
      <4> QED
        BY <2>2, <4>1, <4>3
    <3> QED
      BY <3>1, <3>2
  <2>4. h = [n \in 0 .. j + 1 |-> h[n]]
    OBVIOUS
  <2> HIDE DEF h
  <2>5. h = [n \in 0 .. j + 1 |-> IF n = 0 THEN cache ELSE CacheAfter(h[n - 1], events[n])]
    BY <2>3, <2>4
  <2>6. IsCaches(h, events, j + 1)
    BY <2>5 DEF IsCaches
  <2> QED
    BY <2>6
<1>3. Missing = {}
  <2> SUFFICES ASSUME Missing # {} PROVE FALSE
    OBVIOUS
  <2>1. PICK x \in Missing : \A y \in Missing : x <= y
    BY LeastElement
  <2>2. x \in Nat /\ x # 0
    BY <1>1
  <2>3. x - 1 \in Nat /\ x - 1 \notin Missing /\ (x - 1) + 1 = x
    BY <2>1, <2>2
  <2>4. \E g : IsCaches(g, events, x - 1)
    BY <2>3
  <2>5. \E h : IsCaches(h, events, (x - 1) + 1)
    BY <1>2, <2>3, <2>4
  <2> QED
    BY <2>3, <2>5
<1> QED
  BY <1>3

\* Every cache a batch goes through holds one vector of an event at most.
LEMMA CachesOfType ==
  ASSUME engine \in Engine, cache \in Caches, NEW events \in Seq(Event)
  PROVE  \A n \in 0 .. Len(events) : CachesOf(events)[n] \in Caches
<1> DEFINE g == CachesOf(events)
           Bad == {n \in 0 .. Len(events) : g[n] \notin Caches}
<1>1. Len(events) \in Nat /\ \A n \in 1 .. Len(events) : events[n] \in Event
  OBVIOUS
<1>2. IsCaches(g, events, Len(events))
  BY <1>1, CachesExist, CachesOfIs
<1> HIDE DEF g
<1>3. \A n \in 0 .. Len(events) :
        g[n] = IF n = 0 THEN cache ELSE CacheAfter(g[n - 1], events[n])
  BY <1>2 DEF IsCaches
<1>4. Bad = {}
  <2> SUFFICES ASSUME Bad # {} PROVE FALSE
    OBVIOUS
  <2>1. Bad \in SUBSET Nat
    BY <1>1
  <2>2. PICK x \in Bad : \A y \in Bad : x <= y
    BY <2>1, LeastElement
  <2>3. x \in 0 .. Len(events) /\ g[x] \notin Caches /\ x \in Int
    OBVIOUS
  <2>4. x # 0
    BY <1>1, <1>3, <2>3
  <2>5. /\ x - 1 \in 0 .. Len(events) /\ ~(x <= x - 1) /\ x \in 1 .. Len(events)
    BY <1>1, <2>3, <2>4
  <2>6. g[x - 1] \in Caches
    BY <2>2, <2>5
  <2>7. g[x] = CacheAfter(g[x - 1], events[x])
    BY <1>3, <2>3, <2>4
  <2> QED
    BY <1>1, <2>3, <2>5, <2>6, <2>7, CacheAfterType
<1>5. \A n \in 0 .. Len(events) : g[n] \in Caches
  BY <1>4
<1> QED
  BY <1>5 DEF g

LEMMA ExtractType ==
  ASSUME engine \in Engine, NEW c \in Caches, NEW e \in Event
  PROVE  Extract(c, e) \in Vector \cup {None}
<1>1. CASE e \in Silent
  BY <1>1 DEF Extract
<1>2. CASE e \notin Silent /\ e \in Flat /\ Hits(c, e) # {}
  <2> DEFINE hit == c[CHOOSE n \in Hits(c, e) : TRUE]
  <2>1. (CHOOSE n \in Hits(c, e) : TRUE) \in DOMAIN c
    BY <1>2 DEF Hits
  <2>2. hit \in Stored
    BY <2>1 DEF Caches
  <2>3. Extract(c, e) = [of |-> e, schema |-> hit.schema, stored |-> TRUE,
                         length |-> Greatest(hit.length, Expected)]
    BY <1>2 DEF Extract
  <2> HIDE DEF hit
  <2>4. hit.schema \in Schema /\ hit.length \in Nat
    BY <2>2 DEF Stored
  <2>5. Greatest(hit.length, Expected) \in Nat
    BY <2>4, ExpectedType, GreatestType
  <2> QED
    BY <2>3, <2>4, <2>5 DEF Vector
<1>3. CASE e \notin Silent /\ ~(e \in Flat /\ Hits(c, e) # {})
  <2>1. Extract(c, e) = [of |-> e, schema |-> engine.schema, stored |-> FALSE,
                         length |-> Expected]
    BY <1>3 DEF Extract
  <2> QED
    BY <2>1, ExpectedType DEF Vector
<1> QED
  BY <1>1, <1>2, <1>3

LEMMA VectorsType ==
  ASSUME engine \in Engine, cache \in Caches, NEW events \in Seq(Event),
         NEW n \in DOMAIN events
  PROVE  Vectors(events)[n] \in Vector \cup {None}
<1>1. n \in 1 .. Len(events) /\ n - 1 \in 0 .. Len(events) /\ events[n] \in Event
  OBVIOUS
<1>2. Vectors(events)[n] = Extract(CachesOf(events)[n - 1], events[n])
  BY DEF Vectors
<1> QED
  BY <1>1, <1>2, CachesOfType, ExtractType

\* A score is a vector of the batch and a schema of a model that is loaded.
LEMMA ScoreType ==
  ASSUME Inv, cache \in Caches, NEW events \in Seq(Event), NEW n \in DOMAIN events,
         NEW uncertain, NEW explained
  PROVE  /\ AtEvent(ForestScores(Vectors(events)), Vectors(events), n) \in Score
         /\ AtEvent(AnomalyScores(Vectors(events), uncertain), Vectors(events), n) \in Score
         /\ AtEvent(Explanations(Vectors(events), explained), Vectors(events), n)
              \in Event \cup {None}
<1> DEFINE v == Vectors(events)
<1>0. engine \in Engine /\ None \in Score /\ None \in Event \cup {None}
  BY DEF Inv, ControlTypes, Score
<1>1. CASE ~(Scoring /\ Usable(v[n]))
  BY <1>0, <1>1 DEF AtEvent
<1>2. CASE Scoring /\ Usable(v[n])
  <2>1. Valid(v)[Among(v, n)] = n /\ Among(v, n) \in DOMAIN Valid(v)
    BY <1>2, AtOwnPosition
  <2>2. v[n] \in Vector /\ v[n].of \in Event
    BY <1>0, <1>2, VectorsType DEF Usable, Vector
  <2>3. \A by \in Schema, kept \in BOOLEAN : [vector |-> v[n], by |-> by, kept |-> kept] \in Score
    BY <2>2 DEF Score
  <2>4. /\ engine.session \in Schema \cup {None} /\ engine.rf \in Schema \cup {None}
        /\ engine.vae \in Schema \cup {None} /\ engine.kept \in BOOLEAN
        /\ engine.rf # None \/ engine.session # None
    BY <1>0, <1>2 DEF Inv, Sound, Scoring, Engine
  <2>5. AtEvent(ForestScores(v), v, n) \in Score
    <3> DEFINE by == IF engine.session # None THEN engine.session ELSE engine.rf
               fits == engine.session = None \/ SameLength(engine.session, engine.schema)
    <3>1. AtEvent(ForestScores(v), v, n)
            = IF fits THEN [vector |-> v[n], by |-> by, kept |-> FALSE] ELSE None
      BY <1>2, <2>1 DEF AtEvent, ForestScores
    <3>2. by \in Schema
      BY <2>4
    <3> HIDE DEF by, fits
    <3> QED
      BY <1>0, <2>3, <3>1, <3>2
  <2>6. AtEvent(AnomalyScores(v, uncertain), v, n) \in Score
    <3>1. AtEvent(AnomalyScores(v, uncertain), v, n)
            \in {None} \cup (IF engine.vae # None
                  THEN {[vector |-> v[n], by |-> engine.vae, kept |-> engine.kept]} ELSE {})
      BY <1>2, <2>1 DEF AtEvent, AnomalyScores
    <3> QED
      BY <1>0, <2>3, <2>4, <3>1
  <2>7. AtEvent(Explanations(v, explained), v, n) \in {None, v[n].of}
    BY <1>2, <2>1 DEF AtEvent, Explanations
  <2> QED
    BY <2>2, <2>5, <2>6, <2>7
<1> QED
  BY <1>1, <1>2

\* The types of what a prediction keeps, and of the counters.
PredictionTypes ==
  /\ cache \in Caches
  /\ batch \in Seq(Waiting) \cup {None}
  /\ result \in Seq(Scores)
  /\ writes \in 0 .. MaxWrites /\ deploys \in 0 .. MaxDeploys
  /\ crashes \in 0 .. MaxCrashes

LEMMA PredictTypes ==
  ASSUME Inv, PredictionTypes, NEW events \in Batch, NEW uncertain, NEW explained,
         Predict(events, uncertain, explained)
  PROVE  PredictionTypes'
<1>0. engine \in Engine /\ cache \in Caches /\ None \notin Schema
  BY EngineNoneAssumption DEF Inv, ControlTypes, PredictionTypes
<1>1. /\ events \in Seq(Event) /\ Len(events) \in Nat /\ DOMAIN events = 1 .. Len(events)
      /\ \A n \in DOMAIN events : events[n] \in Event
  BY BatchAssumption
<1>2. cache' \in Caches
  BY <1>0, <1>1, CachesOfType DEF Predict
<1>3. ASSUME NEW n \in DOMAIN events
      PROVE  /\ batch'[n] \in Waiting
  <2>1. C2Vector(events, n) \in Vector \cup {None}
    <3>1. CASE C2Vector(events, n) = None
      BY <3>1
    <3>2. CASE C2Vector(events, n) # None
      <4>1. /\ engine.c2 # None
            /\ C2Vector(events, n) = [of |-> events[n], schema |-> engine.c2, stored |-> FALSE,
                                      length |-> LengthOf[engine.c2]]
        BY <3>2 DEF C2Vector
      <4>2. engine.c2 \in Schema /\ LengthOf[engine.c2] \in Nat
        BY <1>0, <4>1, SchemaAssumption DEF Engine
      <4> QED
        BY <1>1, <4>1, <4>2 DEF Vector
    <3> QED
      BY <3>1, <3>2
  <2>2. batch'[n] =
          [event |-> events[n],
           ml |-> AtEvent(ForestScores(Vectors(events)), Vectors(events), n),
           anomaly |-> AtEvent(AnomalyScores(Vectors(events), uncertain), Vectors(events), n),
           shap |-> AtEvent(Explanations(Vectors(events), explained), Vectors(events), n),
           vector |-> C2Vector(events, n)]
    BY DEF Predict
  <2> QED
    BY <1>0, <1>1, <2>1, <2>2, ScoreType DEF Waiting
<1>4. DOMAIN batch' = 1 .. Len(events) /\ batch' = [n \in 1 .. Len(events) |-> batch'[n]]
  BY <1>1 DEF Predict
<1>5. batch' \in Seq(Waiting)
  BY <1>1, <1>3, <1>4
<1>6. result' = <<>> /\ UNCHANGED <<writes, deploys, crashes>>
  BY DEF Predict, config
<1> QED
  BY <1>2, <1>5, <1>6 DEF PredictionTypes

LEMMA DecideTypes ==
  ASSUME Inv, PredictionTypes, Decide
  PROVE  PredictionTypes'
<1>1. batch \in Seq(Waiting) /\ Len(batch) \in Nat /\ DOMAIN batch = 1 .. Len(batch)
  BY DEF Decide, PredictionTypes
<1>2. result' = [n \in 1 .. Len(batch) |->
                  [event |-> batch[n].event, ml |-> batch[n].ml,
                   anomaly |-> batch[n].anomaly, c2 |-> C2Score(batch[n]),
                   shap |-> batch[n].shap]]
  BY <1>1 DEF Decide
<1>3. ASSUME NEW n \in 1 .. Len(batch)
      PROVE  result'[n] \in Scores
  <2>1. /\ batch[n].event \in Event /\ batch[n].ml \in Score /\ batch[n].anomaly \in Score
        /\ batch[n].shap \in Event \cup {None} /\ batch[n].vector \in Vector \cup {None}
    <3>1. batch[n] \in Waiting
      BY <1>1
    <3> QED
      BY <3>1 DEF Waiting
  <2>2. C2Score(batch[n]) \in Score
    <3>1. engine.c2 \in Schema \cup {None}
      BY DEF Inv, ControlTypes, Engine
    <3>2. CASE C2Score(batch[n]) = None
      BY <3>2 DEF Score
    <3>3. CASE C2Score(batch[n]) # None
      <4>1. /\ batch[n].vector # None /\ engine.c2 # None
            /\ C2Score(batch[n]) = [vector |-> batch[n].vector, by |-> engine.c2, kept |-> FALSE]
        BY <3>3 DEF C2Score
      <4> QED
        BY <2>1, <3>1, <4>1 DEF Score
    <3> QED
      BY <3>2, <3>3
  <2> QED
    BY <1>2, <2>1, <2>2 DEF Scores
<1>4. result' \in Seq(Scores)
  BY <1>1, <1>2, <1>3
<1>5. batch' = None /\ UNCHANGED <<cache, writes, deploys, crashes>>
  BY DEF Decide, config
<1> QED
  BY <1>4, <1>5 DEF PredictionTypes

LEMMA TypesStep == Inv /\ PredictionTypes /\ [Next]_vars => PredictionTypes'
<1> SUFFICES ASSUME Inv, PredictionTypes, [Next]_vars PROVE PredictionTypes'
  OBVIOUS
<1>1. CASE \E events \in Batch :
             \E uncertain \in SUBSET DOMAIN Valid(Vectors(events)) :
             \E explained \in SUBSET DOMAIN Valid(Vectors(events)) :
               Predict(events, uncertain, explained)
  BY <1>1, PredictTypes
<1>2. CASE Decide
  BY <1>2, DecideTypes
<1>3. CASE Register \/ Reload
  <2>1. <<>> \in Caches
    BY BatchAssumption DEF Caches
  <2>2. UNCHANGED <<writes, deploys, crashes, result>>
    BY <1>3 DEF Register, Reload, config, prediction
  <2>3. cache' \in Caches /\ batch' \in Seq(Waiting) \cup {None}
    BY <1>3, <2>1 DEF Register, Reload, prediction, PredictionTypes
  <2> QED
    BY <2>2, <2>3 DEF PredictionTypes
<1>4. ASSUME \/ \E r \in Request, m \in Model : OpenFile(r, m)
             \/ \E r \in Request : WriterStep(r)
             \/ \E m \in Model : SetActiveModel(m)
             \/ RelayCrash \/ StartConsumer \/ ConsumerCrash
             \/ \E d \in Release : Deploy(d)
             \/ UNCHANGED vars
      PROVE  PredictionTypes'
  <2>1. UNCHANGED <<cache, batch, result>>
    BY <1>4 DEF OpenFile, WriterStep, WriteFile, SignalConsumer, SetActiveModel, RelayCrash,
      StartConsumer, ConsumerCrash, Deploy, prediction, vars
  <2>2. /\ writes' \in {writes, writes + 1} /\ (writes' # writes => writes < MaxWrites)
        /\ deploys' \in {deploys, deploys + 1} /\ (deploys' # deploys => deploys < MaxDeploys)
        /\ crashes' \in {crashes, crashes + 1} /\ (crashes' # crashes => crashes < MaxCrashes)
    BY <1>4 DEF OpenFile, WriterStep, WriteFile, SignalConsumer, SetActiveModel, RelayCrash,
      StartConsumer, ConsumerCrash, Deploy, config, vars
  <2>3. /\ writes' \in 0 .. MaxWrites /\ deploys' \in 0 .. MaxDeploys
        /\ crashes' \in 0 .. MaxCrashes
    BY <2>2, LimitAssumption DEF PredictionTypes
  <2> QED
    BY <2>1, <2>3 DEF PredictionTypes
<1> QED
  BY <1>1, <1>2, <1>3, <1>4 DEF Next

LEMMA TypesInductive == Spec => [](Inv /\ PredictionTypes)
<1>1. Init => Inv /\ PredictionTypes
  BY InvInit, BatchAssumption, LimitAssumption DEF Init, PredictionTypes, Caches
<1> QED
  BY <1>1, InvStep, TypesStep, PTL DEF Spec
-----------------------------------------------------------------------------
\* Every vector, score and result is one of its kind, whatever a load finds and
\* however the cache was filled.
THEOREM TypesInvariant == Spec => []TypeOK
<1>1. Inv /\ PredictionTypes => TypeOK
  BY DEF Inv, ControlTypes, PredictionTypes, Caches, TypeOK
<1> QED
  BY <1>1, TypesInductive, PTL

\* event_cache never holds two vectors of one event, so the one a batch is given
\* is the only one.
THEOREM KeyedInvariant == Spec => []CacheKeyed
<1>1. PredictionTypes => CacheKeyed
  BY DEF PredictionTypes, Caches, CacheKeyed
<1> QED
  BY <1>1, TypesInductive, PTL

\* What get_status() calls "full" or "degraded" scores with a scaler and a pickle
\* of the engine's own schema.
THEOREM CoherentInvariant == Spec => []EngineCoherent
<1>1. Inv => EngineCoherent
  BY DEF Inv, Sound, EngineCoherent, Status
<1> QED
  BY <1>1, InvInit, InvStep, PTL DEF Spec

\* A score comes from a vector of the schema of its model, but for stored vectors
\* and an autoencoder that was kept.
THEOREM ScoredInvariant == Spec => []ScoredRight
<1>1. Inv => ScoredRight
  BY DEF Inv
<1> QED
  BY <1>1, InvInit, InvStep, PTL DEF Spec

\* Scores and explanations belong to the event that carries them.
THEOREM AlignedInvariant == Spec => []Aligned
<1>1. Inv => Aligned
  BY DEF Inv
<1> QED
  BY <1>1, InvInit, InvStep, PTL DEF Spec
=============================================================================
