------------------------- MODULE ThreatResponseProofs -------------------------
(***************************************************************************)
(* What decide() and the automated response guarantee for any thresholds   *)
(* from one half up, any events, sources and techniques, any cache size    *)
(* and any bounds.                                                         *)
(***************************************************************************)
EXTENDS ThreatResponse, TLAPS

-----------------------------------------------------------------------------
(***************************************************************************)
(* The fusion of the scores                                                *)
(***************************************************************************)

LEMMA ScoreInt == \A x \in Score : x \in Int /\ 0 <= x /\ x <= 1000
BY DEF Score

LEMMA RawScore == \A x \in Score \cup {None} : Raw(x) \in Score
BY NoneAssumption DEF Raw, Score

LEMMA PercentScore ==
  ASSUME NEW p \in 0 .. 100, NEW x \in Score
  PROVE  Percent(p, x) \in Score /\ Percent(p, x) <= x
<1>1. p * x \in Int /\ 0 <= p * x /\ p * x <= 100 * x
  BY SMTT(30) DEF Score
<1>2. \A y \in Int : 0 <= y /\ y <= 100 * x =>
        y \div 100 \in Int /\ 0 <= y \div 100 /\ y \div 100 <= x
  BY SMTT(30) DEF Score
<1> QED
  BY <1>1, <1>2 DEF Percent, Score

LEMMA PercentGrows ==
  ASSUME NEW p \in 0 .. 100, NEW x \in Score, NEW y \in Score, x <= y
  PROVE  Percent(p, x) <= Percent(p, y)
<1>1. p * x <= p * y
  BY DEF Score
<1> QED
  BY <1>1 DEF Percent, Score

\* Every stage of the fusion stays between 0 and 1.
LEMMA StageScores ==
  ASSUME NEW v \in Evidence
  PROVE  /\ AdjustedMl(v) \in Score /\ General(v) \in Score /\ FusedC2(v) \in Score
         /\ Fused(v) \in Score /\ Damped(v) \in Score /\ Capped(v) \in Score
         /\ Normalized(v) \in Score
<1>1. Raw(v.ml) \in Score /\ Raw(v.anomaly) \in Score /\ Raw(v.c2) \in Score
      /\ Raw(v.cti) \in Score
  BY RawScore DEF Evidence
<1>2. AdjustedMl(v) \in Score
  BY <1>1, PercentScore DEF AdjustedMl
<1>3. General(v) \in Score
  BY <1>1, <1>2 DEF General, Greatest
<1>4. FusedC2(v) \in Score
  BY <1>1, PercentScore DEF FusedC2
<1>5. Fused(v) \in Score
  BY <1>1, <1>3, <1>4 DEF Fused, Greatest
<1>6. Damped(v) \in Score
  BY <1>5, PercentScore DEF Damped
<1>7. Capped(v) \in Score
  BY <1>6 DEF Capped, Least, Score
<1>8. Normalized(v) \in Score
  BY <1>7 DEF Normalized, Score
<1> QED
  BY <1>2, <1>3, <1>4, <1>5, <1>6, <1>7, <1>8

LEMMA ConfidenceScore ==
  ASSUME NEW v \in Evidence
  PROVE  Confidence(v) \in Score /\ FinalScore(v) \in Score
<1>1. Percent(99, Normalized(v)) \in Score
  BY StageScores, PercentScore
<1>2. CASE v.sig
  <2>1. Confidence(v) = Greatest(ATTACK, Percent(99, Normalized(v))) /\ ATTACK \in Score
    BY <1>2, ThresholdAssumption DEF Confidence
  <2>2. Confidence(v) \in Score
    BY <1>1, <2>1 DEF Greatest
  <2> QED
    BY <2>2 DEF FinalScore, Greatest, Score
<1>3. CASE ~v.sig
  <2>1. Normalized(v) \in Score /\ Confidence(v) = Least(980, Normalized(v))
    BY <1>3, StageScores DEF Confidence
  <2>2. Confidence(v) \in Score
    BY <2>1 DEF Least, Score
  <2> QED
    BY <2>2 DEF FinalScore, Greatest, Score
<1> QED
  BY <1>2, <1>3

\* What decide() returns is a verdict.
LEMMA DecideType ==
  ASSUME NEW v \in Evidence
  PROVE  Decide(v) \in Verdict
<1>1. Percent(12, FinalScore(v)) \in Score
  BY ConfidenceScore, PercentScore
<1>2. Rated(v) \in Class
  BY DEF Rated, Class
<1> QED
  BY <1>1, <1>2, ConfidenceScore DEF Decide, Verdict, Class

\* The facts about two events of which one shows more than the other.
LEMMA StrongerScores ==
  ASSUME NEW v \in Evidence, NEW w \in Evidence, Stronger(w, v)
  PROVE  /\ Raw(v.ml) <= Raw(w.ml) /\ Raw(v.anomaly) <= Raw(w.anomaly)
         /\ Raw(v.c2) <= Raw(w.c2) /\ Raw(v.cti) <= Raw(w.cti)
<1>1. ASSUME NEW x \in Score \cup {None}, NEW y \in Score \cup {None},
             IF x = None THEN y = None ELSE y # None /\ y >= x
      PROVE  Raw(x) <= Raw(y)
  BY <1>1 DEF Raw, Score
<1>2. \A f \in {"ml", "anomaly", "c2", "cti"} :
        IF v[f] = None THEN w[f] = None ELSE w[f] # None /\ w[f] >= v[f]
  BY DEF Stronger
<1>3. /\ v.ml \in Score \cup {None} /\ v.anomaly \in Score \cup {None}
      /\ v.c2 \in Score \cup {None} /\ v.cti \in Score \cup {None}
      /\ w.ml \in Score \cup {None} /\ w.anomaly \in Score \cup {None}
      /\ w.c2 \in Score \cup {None} /\ w.cti \in Score \cup {None}
  BY DEF Evidence
<1> HIDE DEF Score
<1> QED
  BY <1>1, <1>2, <1>3

LEMMA StrongerFlags ==
  ASSUME NEW v \in Evidence, NEW w \in Evidence, Stronger(w, v)
  PROVE  /\ v.sig => w.sig
         /\ v.volume => w.volume
         /\ v.tag => w.tag
         /\ v.features => w.features
         /\ w.discovery => v.discovery
         /\ v.signs \subseteq w.signs
         /\ v.anomaly = None => w.anomaly = None
BY DEF Stronger, Evidence

LEMMA SolitaryShrinks ==
  ASSUME NEW v \in Evidence, NEW w \in Evidence, Stronger(w, v)
  PROVE  Solitary(w) => Solitary(v)
<1>1. Raw(v.anomaly) \in Score /\ Raw(v.c2) \in Score
      /\ Raw(w.anomaly) \in Score /\ Raw(w.c2) \in Score
  BY RawScore DEF Evidence
<1>2. Raw(w.anomaly) < 150 => Raw(v.anomaly) < 150
  BY ScoreInt, <1>1, StrongerScores
<1>3. Raw(w.c2) < 200 => Raw(v.c2) < 200
  BY ScoreInt, <1>1, StrongerScores
<1>4. ~w.volume => ~v.volume
  BY StrongerFlags
<1> QED
  BY <1>2, <1>3, <1>4 DEF Solitary

LEMMA SilentShrinks ==
  ASSUME NEW v \in Evidence, NEW w \in Evidence, Stronger(w, v)
  PROVE  Silent(w) => Silent(v)
<1>1. Raw(v.anomaly) \in Score /\ Raw(w.anomaly) \in Score
  BY RawScore DEF Evidence
<1>2. Raw(w.anomaly) < 150 => Raw(v.anomaly) < 150
  BY ScoreInt, <1>1, StrongerScores
<1>3. (~w.volume => ~v.volume) /\ (~w.sig => ~v.sig)
      /\ (w.anomaly # None => v.anomaly # None)
  BY StrongerFlags
<1> QED
  BY <1>2, <1>3 DEF Silent

\* From one half up, more evidence gives no lower general score: the forest's
\* word is only reduced when nothing stands behind it, and then below one half.
LEMMA GeneralGrows ==
  ASSUME NEW v \in Evidence, NEW w \in Evidence, Stronger(w, v)
  PROVE  /\ General(v) >= 500 => General(w) >= General(v)
         /\ General(v) >= 150 => General(w) >= 150
<1>1. Raw(v.ml) \in Score /\ Raw(v.anomaly) \in Score
      /\ Raw(w.ml) \in Score /\ Raw(w.anomaly) \in Score
  BY RawScore DEF Evidence
<1>2. Raw(v.ml) <= Raw(w.ml) /\ Raw(v.anomaly) <= Raw(w.anomaly)
  BY StrongerScores
<1>3. Percent(35, Raw(v.ml)) <= 350
  BY ScoreInt, <1>1 DEF Percent
<1>4. Raw(w.ml) >= 500 => Percent(35, Raw(w.ml)) >= 150
  BY ScoreInt, <1>1 DEF Percent
<1>5. AdjustedMl(v) <= Raw(v.ml)
  BY ScoreInt, <1>1, PercentScore DEF AdjustedMl
<1>6. AdjustedMl(v) >= 500 => AdjustedMl(w) >= AdjustedMl(v)
  <2>1. CASE Raw(v.ml) >= 500 /\ Solitary(v)
    <3>1. AdjustedMl(v) = Percent(35, Raw(v.ml))
      BY <2>1 DEF AdjustedMl
    <3> QED
      BY <1>3, <3>1, ScoreInt, StageScores
  <2>2. CASE Raw(v.ml) < 500
    BY ScoreInt, <1>1, <1>5, <2>2, StageScores
  <2>3. CASE ~Solitary(v)
    <3>1. AdjustedMl(v) = Raw(v.ml)
      BY <2>3 DEF AdjustedMl
    <3>2. AdjustedMl(w) = Raw(w.ml)
      BY <2>3, SolitaryShrinks DEF AdjustedMl
    <3> QED
      BY <1>2, <3>1, <3>2
  <2> QED
    BY ScoreInt, <1>1, <2>1, <2>2, <2>3
<1>7. AdjustedMl(v) >= 150 => AdjustedMl(w) >= 150
  <2>1. CASE AdjustedMl(w) = Raw(w.ml)
    BY ScoreInt, <1>1, <1>2, <1>5, <2>1, StageScores
  <2>2. CASE Raw(w.ml) >= 500 /\ AdjustedMl(w) = Percent(35, Raw(w.ml))
    BY <1>4, <2>2
  <2> QED
    BY <2>1, <2>2 DEF AdjustedMl
<1>8. AdjustedMl(v) \in Score /\ AdjustedMl(w) \in Score
  BY StageScores
<1> QED
  BY ScoreInt, <1>1, <1>2, <1>6, <1>7, <1>8 DEF General, Greatest

LEMMA FusedGrows ==
  ASSUME NEW v \in Evidence, NEW w \in Evidence, Stronger(w, v), Fused(v) >= 500
  PROVE  Fused(w) >= Fused(v)
<1>1. Raw(v.c2) \in Score /\ Raw(w.c2) \in Score /\ Raw(v.cti) \in Score
      /\ Raw(w.cti) \in Score
  BY RawScore DEF Evidence
<1>2. Raw(v.c2) <= Raw(w.c2) /\ Raw(v.cti) <= Raw(w.cti)
  BY StrongerScores
<1>3. Percent(20, Raw(v.c2)) <= 200
  BY ScoreInt, <1>1 DEF Percent
<1>4. General(v) \in Score /\ General(w) \in Score /\ FusedC2(v) \in Score
      /\ FusedC2(w) \in Score
  BY StageScores
<1>5. /\ General(v) >= 500 => General(w) >= General(v)
      /\ General(v) >= 150 => General(w) >= 150
  BY GeneralGrows
<1>6. FusedC2(v) >= 500 => FusedC2(w) >= FusedC2(v)
  BY ScoreInt, <1>1, <1>2, <1>3, <1>4, <1>5 DEF FusedC2
<1> QED
  BY ScoreInt, <1>1, <1>2, <1>4, <1>5, <1>6 DEF Fused, Greatest

LEMMA NormalizedGrows ==
  ASSUME NEW v \in Evidence, NEW w \in Evidence, Stronger(w, v), ~w.sig,
         Normalized(v) >= 500
  PROVE  Normalized(w) >= Normalized(v)
<1>1. ~v.sig
  BY StrongerFlags
<1>2. Fused(v) \in Score /\ Damped(v) \in Score /\ Capped(v) \in Score
  BY StageScores
<1>3. Percent(35, Fused(v)) <= 350
  BY ScoreInt, <1>2 DEF Percent
<1>4. Normalized(v) = Capped(v) /\ Simulated(v)
  BY <1>1 DEF Normalized
<1>5. ~v.discovery /\ Capped(v) = Damped(v)
  BY ScoreInt, <1>1, <1>2, <1>4 DEF Capped, Least
<1>6. ~Silent(v) /\ Damped(v) = Fused(v)
  BY ScoreInt, <1>2, <1>3, <1>4, <1>5 DEF Damped
<1>7. Fused(w) >= Fused(v)
  BY <1>4, <1>5, <1>6, FusedGrows
<1>8. Damped(w) = Fused(w)
  BY <1>6, SilentShrinks DEF Damped
<1>9. Capped(w) = Damped(w)
  BY <1>5, StrongerFlags DEF Capped
<1>10. Normalized(w) = Capped(w)
  BY <1>4, StrongerFlags DEF Normalized, Simulated
<1> QED
  BY <1>4, <1>5, <1>6, <1>7, <1>8, <1>9, <1>10

LEMMA CapGrows ==
  \A m, n \in Score :
    (m >= 500 => n >= m) => (Least(980, m) >= 500 => Least(980, n) >= Least(980, m))
BY DEF Least, Score

LEMMA SignatureFloor ==
  ASSUME NEW v \in Evidence, v.sig
  PROVE  Confidence(v) >= ATTACK
<1>1. Percent(99, Normalized(v)) \in Score
  BY StageScores, PercentScore
<1> QED
  BY ScoreInt, <1>1, ThresholdAssumption DEF Confidence, Greatest

\* A signature on a tagged event is an attack, whatever the detectors say.
LEMMA SignatureIsAttack ==
  ASSUME NEW v \in Evidence, v.sig, v.tag
  PROVE  Decide(v).class = "attack"
BY SignatureFloor DEF Decide, Rated

\* Raising scores or adding signs never makes the verdict milder.
THEOREM MoreEvidence ==
  ASSUME NEW v \in Evidence, NEW w \in Evidence, Stronger(w, v)
  PROVE  Rank(Decide(w).class) >= Rank(Decide(v).class)
<1>1. CASE ~v.tag
  BY <1>1 DEF Decide, Rank, Rated
<1>2. CASE v.tag /\ w.sig
  <2>1. Confidence(w) >= ATTACK
    BY <1>2, SignatureFloor
  <2>2. w.tag
    BY <1>2, StrongerFlags
  <2> QED
    BY <2>1, <2>2, <1>2 DEF Decide, Rank, Rated
<1>3. CASE v.tag /\ ~w.sig
  <2>1. w.tag /\ ~v.sig /\ (Evades(v) => Evades(w))
    <3>1. w.tag /\ ~v.sig /\ v.signs \subseteq w.signs
      BY <1>3, StrongerFlags
    <3>2. Evades(v) => Evades(w)
      BY <3>1 DEF Evades
    <3> QED
      BY <3>1, <3>2
  <2>2. Confidence(v) >= 500 => Confidence(w) >= Confidence(v)
    <3>1. Normalized(v) \in Score /\ Normalized(w) \in Score
      BY StageScores
    <3>2. Normalized(v) >= 500 => Normalized(w) >= Normalized(v)
      BY <1>3, NormalizedGrows
    <3>3. Confidence(v) = Least(980, Normalized(v))
          /\ Confidence(w) = Least(980, Normalized(w))
      BY <1>3, <2>1 DEF Confidence
    <3> QED
      BY <3>1, <3>2, <3>3, CapGrows
  <2>3. Confidence(v) \in Int /\ Confidence(w) \in Int
    BY ScoreInt, ConfidenceScore
  <2> QED
    BY ScoreInt, <1>3, <2>1, <2>2, <2>3, ThresholdAssumption DEF Decide, Rank, Rated
<1> QED
  BY <1>1, <1>2, <1>3 DEF Evidence
-----------------------------------------------------------------------------
(***************************************************************************)
(* Types                                                                   *)
(***************************************************************************)

LEMMA SourceType == \A e \in Event : SourceOf[e] \in Source
BY PlaceAssumption

LEMMA DeltaType == \A d \in Verdict : ReputationDelta(d) \in Int
<1> SUFFICES ASSUME NEW d \in Verdict PROVE ReputationDelta(d) \in Int
  OBVIOUS
<1>1. d.score \in Int
  BY ScoreInt DEF Verdict
<1>2. 15 * d.score \in Int /\ 5 * d.score \in Int /\ 8 * d.score \in Int
  BY <1>1
<1> QED
  BY <1>2 DEF ReputationDelta

LEMMA RestrictType ==
  ASSUME TypeOK, NEW b \in {"block", "limit"}, NEW s \in Source, Restrict(b, s)
  PROVE  /\ restricted' \in [{"block", "limit"} -> SUBSET Source]
         /\ failures' \in 0 .. MaxFailures
<1>1. restricted' = restricted \/ restricted' = [restricted EXCEPT ![b] = @ \cup {s}]
  BY DEF Restrict
<1>2. restricted' \in [{"block", "limit"} -> SUBSET Source]
  BY <1>1 DEF TypeOK
<1>3. failures' \in 0 .. MaxFailures
  BY LimitAssumption DEF Restrict, Succeeds, Fails, TypeOK
<1> QED
  BY <1>2, <1>3

LEMMA IncidentType ==
  ASSUME TypeOK, NEW s \in Source, NEW delta \in Int, Incident(s, delta)
  PROVE  /\ reputation' \in [Source -> Nat]
         /\ restricted' \in [{"block", "limit"} -> SUBSET Source]
         /\ failures' \in 0 .. MaxFailures
<1> DEFINE new == reputation[s] + delta
<1>0. reputation \in [Source -> Nat] /\ reputation[s] \in Nat /\ new \in Int
  BY DEF TypeOK
<1>1. CASE UNCHANGED <<reputation, restricted, failures>>
  BY <1>1 DEF TypeOK
<1>2. CASE /\ reputation' = [reputation EXCEPT ![s] = Greatest(0, new)]
           /\ UNCHANGED <<restricted, failures>>
  <2>1. Greatest(0, new) \in Nat
    BY <1>0 DEF Greatest
  <2> QED
    BY <1>2, <2>1, <1>0 DEF TypeOK
<1>3. CASE /\ REPUTATION_LIMIT <= new
           /\ reputation' = [reputation EXCEPT ![s] = new]
           /\ Restrict(IF new < REPUTATION_TEMP_BLOCK THEN "limit" ELSE "block", s)
  <2>1. new \in Nat
    BY <1>0, <1>3, LimitAssumption
  <2> QED
    BY <1>3, <2>1, <1>0, RestrictType
<1>4. CASE /\ reputation' = [reputation EXCEPT ![s] = REPUTATION_PERM_BLOCK]
           /\ failures' = failures
           /\ restricted' = [restricted EXCEPT !["block"] = @ \cup {s}]
  BY <1>4, LimitAssumption DEF TypeOK
<1>5. CASE /\ REPUTATION_PERM_BLOCK <= new
           /\ reputation' = [reputation EXCEPT ![s] = new]
           /\ failures < MaxFailures /\ failures' = failures + 1
           /\ UNCHANGED restricted
  <2>1. new \in Nat
    BY <1>0, <1>5, LimitAssumption
  <2> QED
    BY <1>5, <2>1, <1>0, LimitAssumption DEF TypeOK
<1> QED
  BY <1>1, <1>2, <1>3, <1>4, <1>5 DEF Incident, Succeeds, Fails

\* The variables of TypeOK in three groups that steps change separately.
PipelineType ==
  /\ stage \in [Event -> {"queued", "decided", "asking", "enriched", "done"}]
  /\ evidence \in [Event -> [of : Evidence \cup {None}, verdict : Verdict]]
  /\ judged \in [Source -> SUBSET Class]
  /\ cache \in Seq(Answer)
TaskType == plays \subseteq Play /\ runs \subseteq Run
KernelType ==
  /\ reputation \in [Source -> Nat]
  /\ restricted \in [{"block", "limit"} -> SUBSET Source]
  /\ rules \in [Kind -> [Source -> Nat]] /\ timers \in [Kind -> [Source -> Nat]]
  /\ orphans \in [Kind -> [Source -> Nat]]
  /\ failures \in 0 .. MaxFailures
WorldType ==
  /\ enforcing \in BOOLEAN /\ whitelisted \subseteq Source
  /\ crashes \in 0 .. MaxCrashes /\ orders \in 0 .. MaxOrders

LEMMA TypeParts ==
  /\ TypeOK <=> PipelineType /\ TaskType /\ KernelType /\ WorldType
  /\ TypeOK' <=> PipelineType' /\ TaskType' /\ KernelType' /\ WorldType'
BY DEF TypeOK, PipelineType, TaskType, KernelType, WorldType

\* Once an event has been looked at, something is known of it.
Known == \A e \in Event : stage[e] # "queued" => evidence[e].of \in Evidence

LEMMA RespondType ==
  ASSUME TaskType, NEW e \in Event, NEW round \in {1, 2}, NEW d \in Verdict,
         NEW t \in Technique, Respond(e, round, d, t)
  PROVE  plays' \subseteq Play
BY DEF Respond, TaskType, Play, Verdict

LEMMA DecidedType ==
  ASSUME PipelineType, NEW e \in Event, NEW d \in Verdict, Decided(e, d)
  PROVE  judged' \in [Source -> SUBSET Class]
<1>1. SourceOf[e] \in Source /\ d.class \in Class
  BY SourceType DEF Verdict
<1> QED
  BY <1>1 DEF Decided, PipelineType

LEMMA LearnKnown ==
  ASSUME PipelineType, NEW e \in Event, evidence[e].of \in Evidence,
         NEW score \in CtiScore, Learn(e, score)
  PROVE  /\ evidence' \in [Event -> [of : Evidence \cup {None}, verdict : Verdict]]
         /\ evidence'[e].of = [evidence[e].of EXCEPT !.cti = score]
         /\ evidence'[e].of \in Evidence
         /\ evidence'[e].verdict = evidence[e].verdict
         /\ \A f \in Event \ {e} : evidence'[f] = evidence[f]
<1> DEFINE v == [evidence[e].of EXCEPT !.cti = score]
<1>1. score \in Score
  BY LimitAssumption
<1>2. evidence \in [Event -> [of : Evidence \cup {None}, verdict : Verdict]]
  BY DEF PipelineType
<1>3. v \in Evidence
  BY <1>1 DEF Evidence
<1>4. evidence' = [evidence EXCEPT ![e].of = v]
  BY DEF Learn
<1> HIDE DEF v
<1> QED
  BY <1>2, <1>3, <1>4 DEF v

LEMMA WithoutType ==
  ASSUME NEW c \in Seq(Answer), NEW s
  PROVE  Without(c, s) \in Seq(Answer)
<1>1. CASE \E i \in DOMAIN c : c[i].ip = s
  <2> DEFINE p == Position(c, s)
  <2>1. p \in DOMAIN c
    BY <1>1 DEF Position
  <2>2. Len(c) \in Nat /\ Len(c) >= 1 /\ p \in 1 .. Len(c)
    BY <2>1
  <2>3. \A j \in 1 .. Len(c) - 1 : c[IF j < p THEN j ELSE j + 1] \in Answer
    <3> HIDE DEF p
    <3> QED
      BY <2>2
  <2>4. Without(c, s) = [j \in 1 .. Len(c) - 1 |-> c[IF j < p THEN j ELSE j + 1]]
    BY <1>1 DEF Without
  <2> HIDE DEF p
  <2> QED
    BY <2>2, <2>3, <2>4
<1>2. CASE ~ \E i \in DOMAIN c : c[i].ip = s
  BY <1>2 DEF Without
<1> QED
  BY <1>1, <1>2

LEMMA SecondVerdictType ==
  ASSUME PipelineType, NEW e \in Event, evidence[e].of \in Evidence
  PROVE  /\ Recheck(evidence[e].of) \in Evidence
         /\ SecondVerdict(e) \in Verdict
<1> DEFINE v == evidence[e].of
<1>1. Raw(v.ml) \in Score /\ Raw(v.anomaly) \in Score /\ Raw(v.c2) \in Score
  BY RawScore DEF Evidence
<1>2. Recheck(v) \in Evidence
  BY <1>1 DEF Recheck, Evidence
<1>3. evidence[e].verdict \in Verdict
  BY DEF PipelineType
<1>4. Decide(Recheck(v)) \in Verdict
  BY <1>2, DecideType
<1> QED
  BY <1>2, <1>3, <1>4 DEF SecondVerdict

LEMMA DetectTypes ==
  ASSUME TypeOK, Known, NEW e \in Event, Detect(e)
  PROVE  TypeOK' /\ Known'
<1> USE TypeParts
<1>1. PICK v \in EvidenceSeen, t \in TechniqueSeen :
        /\ evidence' = [evidence EXCEPT ![e] = [of |-> v, verdict |-> Decide(v)]]
        /\ Decided(e, Decide(v)) /\ Respond(e, 1, Decide(v), t)
  BY DEF Detect
<1>2. v \in Evidence /\ t \in Technique /\ Decide(v) \in Verdict
  BY DecideType, PlaceAssumption
<1>3. evidence' \in [Event -> [of : Evidence \cup {None}, verdict : Verdict]]
  BY <1>1, <1>2 DEF PipelineType
<1>4. stage' \in [Event -> {"queued", "decided", "asking", "enriched", "done"}]
  BY DEF Detect, PipelineType
<1>5. judged' \in [Source -> SUBSET Class]
  BY <1>1, <1>2, DecidedType
<1>6. plays' \subseteq Play
  BY <1>1, <1>2, RespondType
<1>7. PipelineType'
  BY <1>3, <1>4, <1>5 DEF Detect, PipelineType
<1>8. TaskType' /\ KernelType' /\ WorldType'
  BY <1>6 DEF Detect, TaskType, KernelType, WorldType, kernel, world
<1>9. Known'
  BY <1>1, <1>2 DEF Known, Detect, PipelineType
<1> QED
  BY <1>7, <1>8, <1>9

LEMMA LookupTypes ==
  ASSUME TypeOK, Known, NEW e \in Event,
         Suppress(e) \/ CtiHit(e) \/ CtiMiss(e) \/ CtiAnswer(e) \/ CtiNoAnswer(e)
  PROVE  TypeOK' /\ Known'
<1> USE TypeParts
<1>1. TaskType' /\ KernelType' /\ WorldType' /\ UNCHANGED judged
  BY DEF Suppress, CtiHit, CtiMiss, CtiAnswer, CtiNoAnswer, TaskType, KernelType,
         WorldType, tasks, kernel, world
<1>2. stage[e] # "queued"
  BY DEF Suppress, CtiHit, CtiMiss, CtiAnswer, CtiNoAnswer
<1>3. evidence[e].of \in Evidence
  BY <1>2 DEF Known
<1>4. stage' \in [Event -> {"queued", "decided", "asking", "enriched", "done"}]
      /\ \A f \in Event \ {e} : stage'[f] = stage[f]
  BY DEF Suppress, CtiHit, CtiMiss, CtiAnswer, CtiNoAnswer, PipelineType
<1>5. /\ evidence' \in [Event -> [of : Evidence \cup {None}, verdict : Verdict]]
      /\ evidence'[e].of \in Evidence
      /\ \A f \in Event \ {e} : evidence'[f] = evidence[f]
  <2>1. CASE Suppress(e) \/ CtiMiss(e) \/ CtiNoAnswer(e)
    BY <1>3, <2>1 DEF Suppress, CtiMiss, CtiNoAnswer, PipelineType
  <2>2. CASE CtiHit(e)
    <3>1. PICK i \in DOMAIN cache : Learn(e, cache[i].score)
      BY <2>2 DEF CtiHit
    <3>2. cache[i].score \in CtiScore
      <4>1. cache \in Seq(Answer) /\ i \in 1 .. Len(cache)
        BY DEF PipelineType
      <4>2. cache[i] \in Answer
        BY <4>1
      <4> QED
        BY <4>2 DEF Answer
    <3> QED
      BY <1>3, <3>1, <3>2, LearnKnown
  <2>3. CASE CtiAnswer(e)
    <3>1. PICK score \in CtiScore : Learn(e, score)
      BY <2>3 DEF CtiAnswer
    <3> QED
      BY <1>3, <3>1, LearnKnown
  <2> QED
    BY <2>1, <2>2, <2>3
<1>6. cache' \in Seq(Answer)
  <2>1. CASE Suppress(e) \/ CtiHit(e) \/ CtiNoAnswer(e)
    BY <2>1 DEF Suppress, CtiHit, CtiNoAnswer, PipelineType
  <2>2. CASE CtiMiss(e)
    BY <2>2, WithoutType DEF CtiMiss, PipelineType
  <2>3. CASE CtiAnswer(e)
    <3> DEFINE kept == IF Len(cache) >= MAX_CACHE_SIZE THEN Tail(cache) ELSE cache
    <3>1. PICK score \in CtiScore :
            cache' = Append(Without(kept, SourceOf[e]),
                            [ip |-> SourceOf[e], score |-> score, fresh |-> TRUE])
      BY <2>3 DEF CtiAnswer
    <3>2. kept \in Seq(Answer)
      <4>1. cache \in Seq(Answer) /\ MAX_CACHE_SIZE \in Nat \ {0}
        BY LimitAssumption DEF PipelineType
      <4>2. Len(cache) >= MAX_CACHE_SIZE => cache # <<>>
        BY <4>1
      <4> QED
        BY <4>1, <4>2
    <3>3. Without(kept, SourceOf[e]) \in Seq(Answer)
      BY <3>2, WithoutType
    <3>4. [ip |-> SourceOf[e], score |-> score, fresh |-> TRUE] \in Answer
      BY SourceType DEF Answer
    <3> QED
      BY <3>1, <3>3, <3>4
  <2> QED
    BY <2>1, <2>2, <2>3
<1>7. PipelineType'
  BY <1>1, <1>4, <1>5, <1>6 DEF PipelineType
<1>8. Known'
  BY <1>4, <1>5 DEF Known
<1> QED
  BY <1>1, <1>7, <1>8

LEMMA SettleTypes ==
  ASSUME TypeOK, Known, NEW e \in Event, Settle(e)
  PROVE  TypeOK' /\ Known'
<1> USE TypeParts
<1>1. evidence[e].of \in Evidence
  BY DEF Settle, Known
<1>2. SecondVerdict(e) \in Verdict
  BY <1>1, SecondVerdictType
<1>3. stage' \in [Event -> {"queued", "decided", "asking", "enriched", "done"}]
  BY DEF Settle, PipelineType
<1>4. evidence' = [evidence EXCEPT ![e].verdict = SecondVerdict(e)]
  BY DEF Settle
<1>5. /\ evidence' \in [Event -> [of : Evidence \cup {None}, verdict : Verdict]]
      /\ \A f \in Event : evidence'[f].of = evidence[f].of
  BY <1>2, <1>4 DEF PipelineType
<1>6. judged' \in [Source -> SUBSET Class]
  <2>1. CASE Decided(e, SecondVerdict(e))
    BY <1>2, <2>1, DecidedType
  <2>2. CASE UNCHANGED judged
    BY <2>2 DEF PipelineType
  <2> QED
    BY <2>1, <2>2 DEF Settle
<1>7. TaskType'
  <2>1. CASE Respond(e, 2, SecondVerdict(e), None)
    <3>1. plays' \subseteq Play
      BY <1>2, <2>1, RespondType DEF Technique
    <3> QED
      BY <3>1 DEF Settle, TaskType
  <2>2. CASE UNCHANGED plays
    BY <2>2 DEF Settle, TaskType
  <2> QED
    BY <2>1, <2>2 DEF Settle
<1>8. KernelType'
  <2>1. SourceOf[e] \in Source /\ ReputationDelta(SecondVerdict(e)) \in Int
    BY <1>2, SourceType, DeltaType
  <2>2. /\ reputation' \in [Source -> Nat]
        /\ restricted' \in [{"block", "limit"} -> SUBSET Source]
        /\ failures' \in 0 .. MaxFailures
    BY <2>1, IncidentType DEF Settle
  <2> QED
    BY <2>2 DEF Settle, KernelType
<1>9. WorldType' /\ UNCHANGED cache
  BY DEF Settle, WorldType, world
<1>10. PipelineType'
  BY <1>3, <1>5, <1>6, <1>9 DEF PipelineType
<1>11. Known'
  BY <1>1, <1>5 DEF Known, Settle, PipelineType
<1> QED
  BY <1>7, <1>8, <1>9, <1>10, <1>11

LEMMA ActionsType == \A b \in Playbook : Actions(b) \in Seq(Action)
<1>1. <<"micro_block", "log_forensics">> \in Seq(Action)
  BY DEF Action
<1>2. <<"honeypot_redirect", "penalize_reputation">> \in Seq(Action)
  BY DEF Action
<1>3. <<"rate_limit", "honeypot_redirect", "elevated_logging">> \in Seq(Action)
  BY DEF Action
<1> QED
  BY <1>1, <1>2, <1>3 DEF Actions

LEMMA ExecutePlaybookTypes ==
  ASSUME TypeOK, Known, NEW p \in plays, ExecutePlaybook(p)
  PROVE  TypeOK' /\ Known'
<1> USE TypeParts
<1>1. p \in Play /\ p.event \in Event /\ SourceOf[p.event] \in Source
  BY SourceType DEF TaskType, Play
<1>2. PipelineType' /\ WorldType' /\ Known'
  BY DEF ExecutePlaybook, PipelineType, WorldType, world, Known
<1>3. plays' \subseteq Play
  BY DEF ExecutePlaybook, TaskType
<1>4. UNCHANGED <<rules, timers, orphans>>
  BY DEF ExecutePlaybook
<1>5. CASE UNCHANGED <<runs, reputation, restricted, failures>>
  BY <1>2, <1>3, <1>4, <1>5 DEF TaskType, KernelType
<1>6. CASE Incident(SourceOf[p.event], Penalty(p.class)) /\ UNCHANGED runs
  <2>1. Penalty(p.class) \in Int
    BY DEF Penalty
  <2>2. /\ reputation' \in [Source -> Nat]
        /\ restricted' \in [{"block", "limit"} -> SUBSET Source]
        /\ failures' \in 0 .. MaxFailures
    BY <1>1, <1>6, <2>1, IncidentType
  <2> QED
    BY <1>2, <1>3, <1>4, <1>6, <2>2 DEF TaskType, KernelType
<1>7. CASE /\ runs' = runs \cup {[event |-> p.event, round |-> p.round,
                                  playbook |-> b, begun |-> FALSE,
                                  left |-> Actions(b)] : b \in Triggered(p)}
           /\ UNCHANGED <<reputation, restricted, failures>>
  <2>1. \A b \in Triggered(p) :
          [event |-> p.event, round |-> p.round, playbook |-> b, begun |-> FALSE,
           left |-> Actions(b)] \in Run
    BY <1>1, ActionsType DEF Triggered, Run, Play
  <2>2. runs' \subseteq Run
    BY <1>7, <2>1 DEF TaskType
  <2> QED
    BY <1>2, <1>3, <1>4, <1>7, <2>2 DEF TaskType, KernelType
<1> QED
  BY <1>5, <1>6, <1>7 DEF ExecutePlaybook

LEMMA PerformTypes ==
  ASSUME TypeOK, NEW action, NEW s \in Source, Perform(action, s)
  PROVE  /\ reputation' \in [Source -> Nat]
         /\ restricted' \in [{"block", "limit"} -> SUBSET Source]
         /\ rules' \in [Kind -> [Source -> Nat]]
         /\ timers' \in [Kind -> [Source -> Nat]]
         /\ failures' \in 0 .. MaxFailures
<1> USE TypeParts
<1>1. ASSUME NEW kind \in Kind, AddRule(kind, s)
      PROVE  rules' \in [Kind -> [Source -> Nat]] /\ timers' \in [Kind -> [Source -> Nat]]
  BY <1>1 DEF AddRule, KernelType
<1>2. CASE \/ AddRule("micro", s) \/ AddRule("redirect", s)
  <2>1. rules' \in [Kind -> [Source -> Nat]] /\ timers' \in [Kind -> [Source -> Nat]]
    BY <1>1, <1>2 DEF Kind
  <2>2. CASE UNCHANGED <<reputation, restricted, failures>>
    BY <2>1, <2>2 DEF KernelType
  <2>3. CASE \E b \in {"block", "limit"} : Restrict(b, s) /\ UNCHANGED reputation
    BY <2>1, <2>3, RestrictType DEF KernelType
  <2>4. CASE Incident(s, 25000)
    BY <2>1, <2>4, IncidentType
  <2> QED
    BY <2>2, <2>3, <2>4 DEF Perform
<1>3. CASE UNCHANGED <<rules, timers>>
  <2>1. CASE UNCHANGED <<reputation, restricted, failures>>
    BY <1>3, <2>1 DEF KernelType
  <2>2. CASE \E b \in {"block", "limit"} : Restrict(b, s) /\ UNCHANGED reputation
    BY <1>3, <2>2, RestrictType DEF KernelType
  <2>3. CASE Incident(s, 25000)
    BY <1>3, <2>3, IncidentType DEF KernelType
  <2> QED
    BY <2>1, <2>2, <2>3 DEF Perform
<1> QED
  BY <1>2, <1>3 DEF Perform

LEMMA RunTypes ==
  ASSUME TypeOK, Known, NEW r \in runs, BeginRun(r) \/ RunAction(r)
  PROVE  TypeOK' /\ Known'
<1> USE TypeParts
<1>1. PipelineType' /\ WorldType' /\ Known' /\ UNCHANGED <<plays, orphans>>
  BY DEF BeginRun, RunAction, PipelineType, WorldType, world, kernel, Known
<1>2. r \in Run /\ SourceOf[r.event] \in Source
  BY SourceType DEF TaskType, Run
<1>3. CASE BeginRun(r)
  <2>1. [r EXCEPT !.begun = TRUE] \in Run
    BY <1>2 DEF Run
  <2> QED
    BY <1>1, <1>3, <2>1 DEF BeginRun, TaskType, KernelType, kernel
<1>4. CASE RunAction(r)
  <2>1. Len(r.left) > 1 => [r EXCEPT !.left = Tail(@)] \in Run
    <3>1. r.left \in Seq(Action)
      BY <1>2 DEF Run
    <3>2. Len(r.left) > 1 => Tail(r.left) \in Seq(Action)
      BY <3>1
    <3> QED
      BY <1>2, <3>2 DEF Run
  <2>2. runs' \subseteq Run
    BY <1>4, <2>1 DEF RunAction, TaskType
  <2>3. Perform(Head(r.left), SourceOf[r.event])
    BY <1>4 DEF RunAction
  <2>4. KernelType'
    BY <1>1, <1>2, <2>3, PerformTypes DEF KernelType
  <2> QED
    BY <1>1, <2>2, <2>4 DEF TaskType
<1> QED
  BY <1>3, <1>4

LEMMA ElseTypes ==
  ASSUME TypeOK, Known,
         Kernel \/ CacheAges \/ Operator \/ Crash \/ UNCHANGED vars
  PROVE  TypeOK' /\ Known'
<1> USE TypeParts
<1>1. CASE \E k \in Kind, s \in Source : RuleExpires(k, s)
  <2>1. PICK k \in Kind, s \in Source : RuleExpires(k, s)
    BY <1>1
  <2>2. rules' \in [Kind -> [Source -> Nat]] /\ timers' \in [Kind -> [Source -> Nat]]
    <3>1. timers[k][s] - 1 \in Nat /\ (IF rules[k][s] > 0 THEN rules[k][s] - 1 ELSE 0) \in Nat
      BY <2>1 DEF RuleExpires, KernelType
    <3> QED
      BY <2>1, <3>1 DEF RuleExpires, KernelType
  <2> QED
    BY <2>1, <2>2 DEF RuleExpires, PipelineType, TaskType, KernelType, WorldType,
       tasks, world, Known
<1>2. CASE \E s \in Source : BlockExpires(s)
  BY <1>2 DEF BlockExpires, PipelineType, TaskType, KernelType, WorldType, tasks,
     world, Known
<1>3. CASE CacheAges
  <2>1. PICK i \in DOMAIN cache : cache' = [cache EXCEPT ![i] = [@ EXCEPT !.fresh = FALSE]]
    BY <1>3 DEF CacheAges
  <2>2. cache \in Seq(Answer) /\ i \in 1 .. Len(cache)
    BY DEF PipelineType
  <2>3. [cache[i] EXCEPT !.fresh = FALSE] \in Answer
    <3>1. cache[i] \in Answer
      BY <2>2
    <3> QED
      BY <3>1 DEF Answer
  <2>4. cache' \in Seq(Answer)
    BY <2>1, <2>2, <2>3
  <2> QED
    BY <1>3, <2>4 DEF CacheAges, PipelineType, TaskType, KernelType, WorldType,
       tasks, kernel, world, Known
<1>4. CASE ToggleBanning
  BY <1>4, LimitAssumption DEF ToggleBanning, Order, PipelineType, TaskType,
     KernelType, WorldType, tasks, kernel, Known
<1>5. CASE \E s \in Source : WhitelistSource(s) \/ UnblockSource(s)
  <2>1. PICK s \in Source : Order /\ Unblock(s)
                            /\ (whitelisted' = whitelisted \cup {s} \/ UNCHANGED whitelisted)
    BY <1>5 DEF WhitelistSource, UnblockSource
  <2>2. orders' \in 0 .. MaxOrders
    BY <2>1, LimitAssumption DEF Order, WorldType
  <2>3. WorldType'
    BY <2>1, <2>2 DEF Unblock, WorldType
  <2>4. KernelType'
    BY <2>1 DEF Unblock, KernelType
  <2> QED
    BY <2>1, <2>3, <2>4 DEF Unblock, PipelineType, TaskType, tasks, Known
<1>6. CASE Crash
  <2>1. crashes' \in 0 .. MaxCrashes
    BY <1>6, LimitAssumption DEF Crash, WorldType
  <2>2. timers' \in [Kind -> [Source -> Nat]] /\ orphans' \in [Kind -> [Source -> Nat]]
    <3>1. timers' \in [Kind -> [Source -> Nat]]
      BY <1>6 DEF Crash, NoRules
    <3>2. \A k \in Kind, s \in Source : orphans[k][s] + timers[k][s] \in Nat
      BY DEF KernelType
    <3>3. orphans' = [k \in Kind |-> [s \in Source |-> orphans[k][s] + timers[k][s]]]
      BY <1>6 DEF Crash
    <3> QED
      BY <3>1, <3>2, <3>3
  <2>3. stage' \in [Event -> {"queued", "decided", "asking", "enriched", "done"}]
        /\ \A e \in Event : stage'[e] # "queued" => stage[e] # "queued"
    BY <1>6 DEF Crash
  <2>4. PipelineType' /\ Known'
    BY <1>6, <2>3 DEF Crash, PipelineType, Known
  <2> QED
    BY <1>6, <2>1, <2>2, <2>4 DEF Crash, TaskType, KernelType, WorldType
<1>7. CASE UNCHANGED vars
  BY <1>7 DEF vars, PipelineType, TaskType, KernelType, WorldType, tasks, kernel,
     world, Known
<1> QED
  BY <1>1, <1>2, <1>3, <1>4, <1>5, <1>6, <1>7 DEF Kernel, Operator

LEMMA InitTypes == Init => TypeOK /\ Known
BY LimitAssumption DEF Init, TypeOK, Known, NoRules, Evidence, Verdict, Class, Score

LEMMA StepTypes == TypeOK /\ Known /\ [Next]_vars => TypeOK' /\ Known'
<1> SUFFICES ASSUME TypeOK, Known, [Next]_vars
             PROVE  TypeOK' /\ Known'
  OBVIOUS
<1>1. CASE \E e \in Event : Pipeline(e)
  BY <1>1, DetectTypes, LookupTypes, SettleTypes DEF Pipeline
<1>2. CASE Playbooks
  BY <1>2, ExecutePlaybookTypes, RunTypes DEF Playbooks
<1>3. CASE Kernel \/ CacheAges \/ Operator \/ Crash \/ UNCHANGED vars
  BY <1>3, ElseTypes
<1> QED
  BY <1>1, <1>2, <1>3 DEF Next

\* The declared types hold in every reachable state.
THEOREM TypesInvariant == Spec => [](TypeOK /\ Known)
BY InitTypes, StepTypes, PTL DEF Spec
-----------------------------------------------------------------------------
(***************************************************************************)
(* Rules and the tasks that delete them                                    *)
(***************************************************************************)

LEMMA AddRuleAccounted ==
  ASSUME TypeOK, RulesAccounted, NEW kind \in Kind, NEW s \in Source,
         AddRule(kind, s), UNCHANGED orphans
  PROVE  RulesAccounted'
<1>1. \A k \in Kind, x \in Source :
        rules[k][x] \in Nat /\ timers[k][x] \in Nat /\ orphans[k][x] \in Nat
  BY DEF TypeOK
<1>2. rules \in [Kind -> [Source -> Nat]] /\ timers \in [Kind -> [Source -> Nat]]
  BY DEF TypeOK
<1>3. \A k \in Kind, x \in Source :
        rules'[k][x] = IF k = kind /\ x = s THEN rules[k][x] + 1 ELSE rules[k][x]
  BY <1>2 DEF AddRule
<1>4. \A k \in Kind, x \in Source :
        timers'[k][x] = IF k = kind /\ x = s THEN timers[k][x] + 1 ELSE timers[k][x]
  BY <1>2 DEF AddRule
<1> QED
  BY <1>1, <1>3, <1>4 DEF RulesAccounted

LEMMA StepRules == TypeOK /\ RulesAccounted /\ [Next]_vars => RulesAccounted'
<1> SUFFICES ASSUME TypeOK, RulesAccounted, [Next]_vars
             PROVE  RulesAccounted'
  OBVIOUS
<1>1. ASSUME NEW r \in runs, RunAction(r)
      PROVE  RulesAccounted'
  <2>1. SourceOf[r.event] \in Source /\ UNCHANGED orphans
    BY <1>1, SourceType DEF RunAction, TypeOK, Run
  <2>2. CASE \E k \in Kind : AddRule(k, SourceOf[r.event])
    BY <2>1, <2>2, AddRuleAccounted
  <2>3. CASE UNCHANGED <<rules, timers>>
    BY <2>1, <2>3 DEF RulesAccounted
  <2> QED
    BY <1>1, <2>2, <2>3 DEF RunAction, Perform, Kind
<1>2. ASSUME NEW k \in Kind, NEW s \in Source, RuleExpires(k, s)
      PROVE  RulesAccounted'
  <2>1. \A j \in Kind, x \in Source :
          rules[j][x] \in Nat /\ timers[j][x] \in Nat /\ orphans[j][x] \in Nat
    BY DEF TypeOK
  <2>2. rules \in [Kind -> [Source -> Nat]] /\ timers \in [Kind -> [Source -> Nat]]
    BY DEF TypeOK
  <2>3. rules[k][s] > 0 /\ timers[k][s] > 0
    BY <1>2, <2>1 DEF RuleExpires, RulesAccounted
  <2>4. \A j \in Kind, x \in Source :
          rules'[j][x] = IF j = k /\ x = s THEN rules[j][x] - 1 ELSE rules[j][x]
    BY <1>2, <2>2, <2>3 DEF RuleExpires
  <2>5. \A j \in Kind, x \in Source :
          timers'[j][x] = IF j = k /\ x = s THEN timers[j][x] - 1 ELSE timers[j][x]
    BY <1>2, <2>2 DEF RuleExpires
  <2> QED
    BY <1>2, <2>1, <2>4, <2>5 DEF RuleExpires, RulesAccounted
<1>3. CASE Crash
  <2>1. \A j \in Kind, x \in Source :
          rules[j][x] \in Nat /\ timers[j][x] \in Nat /\ orphans[j][x] \in Nat
    BY DEF TypeOK
  <2>2. \A j \in Kind, x \in Source :
          timers'[j][x] = 0 /\ orphans'[j][x] = orphans[j][x] + timers[j][x]
    BY <1>3 DEF Crash, NoRules
  <2> QED
    BY <1>3, <2>1, <2>2 DEF Crash, RulesAccounted
<1>4. CASE UNCHANGED <<rules, timers, orphans>>
  BY <1>4 DEF RulesAccounted
<1>5. CASE \E e \in Event : Pipeline(e)
  BY <1>4, <1>5 DEF Pipeline, Detect, Suppress, CtiHit, CtiMiss, CtiAnswer,
     CtiNoAnswer, Settle, kernel
<1>6. CASE Playbooks
  <2>1. CASE \E p \in plays : ExecutePlaybook(p)
    BY <1>4, <2>1 DEF ExecutePlaybook
  <2>2. CASE \E r \in runs : BeginRun(r)
    BY <1>4, <2>2 DEF BeginRun, kernel
  <2> QED
    BY <1>1, <1>6, <2>1, <2>2 DEF Playbooks
<1>7. CASE (\E s \in Source : BlockExpires(s)) \/ CacheAges \/ Operator \/ UNCHANGED vars
  BY <1>4, <1>7 DEF BlockExpires, CacheAges, Operator, ToggleBanning,
     WhitelistSource, UnblockSource, Unblock, vars, kernel
<1> QED
  BY <1>2, <1>3, <1>5, <1>6, <1>7 DEF Next, Kernel

\* Every rule in the kernel has its task, or a crash has taken it.
THEOREM RulesAccountedInvariant == Spec => []RulesAccounted
<1>1. Init => RulesAccounted
  BY DEF Init, NoRules, RulesAccounted
<1> QED
  BY <1>1, InitTypes, StepTypes, StepRules, PTL DEF Spec
-----------------------------------------------------------------------------
(***************************************************************************)
(* Who is punished                                                         *)
(***************************************************************************)

Threat(s) == judged[s] \cap {"anomaly", "suspicious", "attack"} # {}

\* What stands behind a task: a verdict on its source, which no list protects.
TasksFounded ==
  /\ \A p \in plays : p.class # "normal" /\ p.class \in judged[SourceOf[p.event]]
  /\ \A r \in runs : SourceOf[r.event] \notin Protected /\ Threat(SourceOf[r.event])
  /\ \A e \in Event : stage[e] \in {"decided", "asking", "enriched"}
                        => evidence[e].verdict.class \in judged[SourceOf[e]]

Punished(s) == Restricted(s) \/ Ruled(s) \/ reputation[s] > 0

LEMMA PunishedParts ==
  /\ OnlyThreatsPunished <=> \A s \in Source : Punished(s) => Threat(s)
  /\ OnlyThreatsPunished' <=> \A s \in Source : Punished(s)' => Threat(s)'
BY DEF OnlyThreatsPunished, Punished, Threat

LEMMA ProtectedParts ==
  ASSUME TypeOK, TypeOK'
  PROVE  /\ ProtectedUntouched <=> \A s \in Protected : ~Punished(s)
         /\ ProtectedUntouched' <=> \A s \in Protected : ~Punished(s)'
<1>1. \A s \in Protected : reputation[s] \in Nat /\ reputation'[s] \in Nat
  BY PlaceAssumption DEF TypeOK
<1>2. \A s \in Protected : ~Punished(s) <=> ~Restricted(s) /\ ~Ruled(s) /\ reputation[s] = 0
  BY <1>1 DEF Punished
<1>3. \A s \in Protected :
        ~Punished(s)' <=> ~Restricted(s)' /\ ~Ruled(s)' /\ (reputation[s] = 0)'
  BY <1>1 DEF Punished
<1> QED
  BY <1>2, <1>3 DEF ProtectedUntouched

LEMMA RestrictPunishes ==
  ASSUME TypeOK, NEW b \in {"block", "limit"}, NEW s \in Source, Restrict(b, s)
  PROVE  \A x \in Source : Restricted(x)' => Restricted(x) \/ x = s
<1>1. restricted' = restricted \/ restricted' = [restricted EXCEPT ![b] = @ \cup {s}]
  BY DEF Restrict
<1> QED
  BY <1>1 DEF Restricted, TypeOK

\* What an incident changes: only the score and the restriction of its source,
\* nothing if that is protected, and neither when nothing is charged to it.
LEMMA IncidentPunishes ==
  ASSUME TypeOK, NEW s \in Source, NEW delta \in Int, Incident(s, delta)
  PROVE  /\ \A x \in Source \ {s} : /\ Restricted(x)' => Restricted(x)
                                    /\ reputation'[x] = reputation[x]
         /\ s \in Protected => UNCHANGED <<reputation, restricted>>
         /\ delta <= 0 /\ reputation[s] = 0 =>
              reputation'[s] = 0 /\ (Restricted(s)' => Restricted(s))
         /\ ~enforcing => UNCHANGED restricted
<1> DEFINE new == reputation[s] + delta
<1>0. reputation \in [Source -> Nat] /\ reputation[s] \in Nat /\ new \in Int
  BY DEF TypeOK
<1>1. CASE s \in Protected \cup whitelisted /\ UNCHANGED <<reputation, restricted, failures>>
  BY <1>1 DEF Restricted
<1>2. CASE /\ s \notin Protected \cup whitelisted
           /\ reputation' = [reputation EXCEPT ![s] = Greatest(0, new)]
           /\ UNCHANGED <<restricted, failures>>
  <2>1. delta <= 0 /\ reputation[s] = 0 => Greatest(0, new) = 0
    BY <1>0 DEF Greatest
  <2> QED
    BY <1>0, <1>2, <2>1 DEF Restricted
<1>3. CASE /\ s \notin Protected \cup whitelisted /\ enforcing /\ REPUTATION_LIMIT <= new
           /\ reputation' = [reputation EXCEPT ![s] = new]
           /\ \E b \in {"block", "limit"} : Restrict(b, s)
  <2>1. ~ (delta <= 0 /\ reputation[s] = 0)
    BY <1>0, <1>3, LimitAssumption
  <2>2. \A x \in Source \ {s} : reputation'[x] = reputation[x]
    BY <1>0, <1>3
  <2> QED
    BY <1>3, <2>1, <2>2, RestrictPunishes
<1>4. CASE /\ s \notin Protected \cup whitelisted /\ enforcing
           /\ REPUTATION_PERM_BLOCK <= new
           /\ \E n \in Nat : reputation' = [reputation EXCEPT ![s] = n]
           /\ \/ restricted' = [restricted EXCEPT !["block"] = @ \cup {s}]
              \/ UNCHANGED restricted
  <2>1. ~ (delta <= 0 /\ reputation[s] = 0)
    BY <1>0, <1>4, LimitAssumption
  <2>2. \A x \in Source \ {s} : reputation'[x] = reputation[x]
    BY <1>0, <1>4
  <2>3. \A x \in Source \ {s} : Restricted(x)' => Restricted(x)
    BY <1>4 DEF Restricted, TypeOK
  <2> QED
    BY <1>4, <2>1, <2>2, <2>3
<1>5. ASSUME REPUTATION_PERM_BLOCK <= new
      PROVE  new \in Nat /\ REPUTATION_PERM_BLOCK \in Nat
  BY <1>0, <1>5, LimitAssumption
<1> QED
  BY <1>1, <1>2, <1>3, <1>4, <1>5 DEF Incident

LEMMA PerformPunishes ==
  ASSUME TypeOK, NEW action, NEW s \in Source, Perform(action, s)
  PROVE  \A x \in Source \ {s} : Punished(x)' => Punished(x)
<1>1. CASE UNCHANGED <<rules, timers>>
  <2>1. \A x \in Source : Ruled(x)' => Ruled(x)
    BY <1>1 DEF Ruled
  <2>2. CASE UNCHANGED <<reputation, restricted>>
    BY <2>1, <2>2 DEF Punished, Restricted
  <2>3. CASE (\E b \in {"block", "limit"} : Restrict(b, s)) /\ UNCHANGED reputation
    BY <2>1, <2>3, RestrictPunishes DEF Punished
  <2>4. CASE Incident(s, 25000)
    BY <2>1, <2>4, IncidentPunishes DEF Punished
  <2> QED
    BY <1>1, <2>2, <2>3, <2>4 DEF Perform
<1>2. CASE (\E k \in Kind : AddRule(k, s)) /\ UNCHANGED <<reputation, restricted>>
  <2>1. PICK k \in Kind : rules' = [rules EXCEPT ![k][s] = @ + 1]
    BY <1>2 DEF AddRule
  <2>2. rules \in [Kind -> [Source -> Nat]]
    BY DEF TypeOK
  <2>3. \A j \in Kind, x \in Source \ {s} : rules'[j][x] = rules[j][x]
    BY <2>1, <2>2
  <2> QED
    BY <1>2, <2>3 DEF Punished, Restricted, Ruled
<1> QED
  BY <1>1, <1>2 DEF Perform, Kind

\* A step that forgets no verdict and only punishes threats keeps the promises.
PunishesThreats ==
  /\ \A x \in Source : judged[x] \subseteq judged'[x]
  /\ \A x \in Source : Punished(x)' => Punished(x) \/ (Threat(x)' /\ x \notin Protected)

LEMMA ThreatLasts ==
  ASSUME \A x \in Source : judged[x] \subseteq judged'[x]
  PROVE  \A x \in Source : Threat(x) => Threat(x)'
BY DEF Threat

LEMMA DecidedJudges ==
  ASSUME TypeOK, NEW e \in Event, NEW d \in Verdict, Decided(e, d)
  PROVE  /\ \A x \in Source : judged[x] \subseteq judged'[x]
         /\ d.class \in judged'[SourceOf[e]]
BY SourceType DEF Decided, TypeOK

LEMMA VerdictThreat ==
  ASSUME NEW s \in Source, NEW c \in Class, c # "normal"
  PROVE  /\ c \in judged[s] => Threat(s)
         /\ c \in judged'[s] => Threat(s)'
BY DEF Threat, Class

LEMMA DetectFounded ==
  ASSUME TypeOK, TasksFounded, NEW e \in Event, Detect(e)
  PROVE  TasksFounded' /\ PunishesThreats
<1>1. PICK v \in EvidenceSeen, t \in TechniqueSeen :
        /\ evidence' = [evidence EXCEPT ![e] = [of |-> v, verdict |-> Decide(v)]]
        /\ Decided(e, Decide(v)) /\ Respond(e, 1, Decide(v), t)
  BY DEF Detect
<1> DEFINE d == Decide(v)
<1>2. d \in Verdict
  BY DecideType, PlaceAssumption
<1> HIDE DEF d
<1>3. (\A x \in Source : judged[x] \subseteq judged'[x]) /\ d.class \in judged'[SourceOf[e]]
  BY <1>1, <1>2, DecidedJudges DEF d
<1>4. \A p \in plays' : p.class # "normal" /\ p.class \in judged'[SourceOf[p.event]]
  <2>1. \A p \in plays : SourceOf[p.event] \in Source
    BY SourceType DEF TypeOK, Play
  <2>2. \/ plays' = plays
        \/ /\ d.class # "normal"
           /\ plays' = plays \cup {[event |-> e, round |-> 1, class |-> d.class,
                                    score |-> d.score, technique |-> t]}
    BY <1>1 DEF Respond, d
  <2> QED
    BY <1>3, <2>1, <2>2 DEF TasksFounded
<1>5. \A r \in runs' : SourceOf[r.event] \notin Protected /\ Threat(SourceOf[r.event])'
  <2>1. \A r \in runs : SourceOf[r.event] \in Source
    BY SourceType DEF TypeOK, Run
  <2> QED
    BY <1>3, <2>1, ThreatLasts DEF TasksFounded, Detect
<1>6. \A f \in Event : stage'[f] \in {"decided", "asking", "enriched"}
                         => evidence'[f].verdict.class \in judged'[SourceOf[f]]
  <2>1. evidence'[e].verdict = d
    BY <1>1 DEF TypeOK, d
  <2>2. \A f \in Event \ {e} : evidence'[f] = evidence[f] /\ stage'[f] = stage[f]
    BY <1>1 DEF TypeOK, Detect
  <2> QED
    BY <1>3, <2>1, <2>2, SourceType DEF TasksFounded
<1>7. PunishesThreats
  BY <1>3 DEF PunishesThreats, Detect, kernel, Punished, Restricted, Ruled
<1> QED
  BY <1>4, <1>5, <1>6, <1>7 DEF TasksFounded

LEMMA LookupFounded ==
  ASSUME TypeOK, Known, TasksFounded, NEW e \in Event,
         Suppress(e) \/ CtiHit(e) \/ CtiMiss(e) \/ CtiAnswer(e) \/ CtiNoAnswer(e)
  PROVE  TasksFounded' /\ PunishesThreats
<1>1. UNCHANGED <<plays, runs, judged, kernel, reputation>>
  BY DEF Suppress, CtiHit, CtiMiss, CtiAnswer, CtiNoAnswer, tasks, kernel
<1>2. PunishesThreats
  BY <1>1 DEF PunishesThreats, kernel, Punished, Restricted, Ruled
<1>3. \A f \in Event : evidence'[f].verdict = evidence[f].verdict
  <2>1. ASSUME NEW score, Learn(e, score)
        PROVE  \A f \in Event : evidence'[f].verdict = evidence[f].verdict
    <3> DEFINE v == [evidence[e].of EXCEPT !.cti = score]
    <3>1. evidence' = [evidence EXCEPT ![e].of = v]
      BY <2>1 DEF Learn
    <3> HIDE DEF v
    <3> QED
      BY <3>1 DEF TypeOK
  <2> QED
    BY <2>1 DEF Suppress, CtiHit, CtiMiss, CtiAnswer, CtiNoAnswer
<1>4. \A f \in Event : stage'[f] \in {"decided", "asking", "enriched"}
                         => stage[f] \in {"decided", "asking", "enriched"}
  BY DEF Suppress, CtiHit, CtiMiss, CtiAnswer, CtiNoAnswer, TypeOK
<1> QED
  BY <1>1, <1>2, <1>3, <1>4 DEF TasksFounded, Threat

LEMMA SettleFounded ==
  ASSUME TypeOK, Known, TasksFounded, OnlyThreatsPunished, NEW e \in Event, Settle(e)
  PROVE  TasksFounded' /\ PunishesThreats
<1> DEFINE d == SecondVerdict(e)
           s == SourceOf[e]
<1>0. s \in Source /\ PipelineType
  BY SourceType, TypeParts
<1>1. d \in Verdict /\ stage[e] = "enriched"
  BY <1>0, SecondVerdictType DEF Settle, Known
<1>2. (\A x \in Source : judged[x] \subseteq judged'[x]) /\ d.class \in judged'[s]
  <2>1. CASE Decided(e, d)
    BY <1>1, <2>1, DecidedJudges
  <2>2. CASE UNCHANGED judged /\ ~ (Raw(evidence[e].of.cti) > 0)
    BY <1>1, <2>2 DEF SecondVerdict, TasksFounded
  <2> QED
    BY <2>1, <2>2 DEF Settle
<1>3. evidence' = [evidence EXCEPT ![e].verdict = d]
  BY DEF Settle
<1>4. \/ plays' = plays
      \/ /\ d.class # "normal"
         /\ plays' = plays \cup {[event |-> e, round |-> 2, class |-> d.class,
                                  score |-> d.score, technique |-> None]}
  BY DEF Settle, Respond
<1>5. Incident(s, ReputationDelta(d)) /\ ReputationDelta(d) \in Int
  BY <1>1, DeltaType DEF Settle
<1>6. d.class = "normal" => ReputationDelta(d) <= 0
  BY DEF ReputationDelta
<1> HIDE DEF d
<1>7. \A p \in plays' : p.class # "normal" /\ p.class \in judged'[SourceOf[p.event]]
  <2>1. \A p \in plays : SourceOf[p.event] \in Source
    BY SourceType DEF TypeOK, Play
  <2> QED
    BY <1>2, <1>4, <2>1 DEF TasksFounded
<1>8. \A r \in runs' : SourceOf[r.event] \notin Protected /\ Threat(SourceOf[r.event])'
  <2>1. \A r \in runs : SourceOf[r.event] \in Source
    BY SourceType DEF TypeOK, Run
  <2> QED
    BY <1>2, <2>1, ThreatLasts DEF TasksFounded, Settle
<1>9. \A f \in Event : stage'[f] \in {"decided", "asking", "enriched"}
                         => evidence'[f].verdict.class \in judged'[SourceOf[f]]
  <2>1. \A f \in Event \ {e} : evidence'[f] = evidence[f] /\ stage'[f] = stage[f]
    BY <1>3 DEF TypeOK, Settle
  <2>2. stage'[e] = "done"
    BY DEF TypeOK, Settle
  <2> QED
    BY <1>2, <2>1, <2>2, SourceType DEF TasksFounded
<1>10. \A x \in Source : Ruled(x)' = Ruled(x)
  BY DEF Settle, Ruled
<1>11. \A x \in Source \ {s} : Punished(x)' => Punished(x)
  BY <1>0, <1>5, <1>10, IncidentPunishes DEF Punished
<1>12. s \in Protected => (Punished(s)' => Punished(s))
  BY <1>0, <1>5, <1>10, IncidentPunishes DEF Punished, Restricted
<1>13. Punished(s)' => Punished(s) \/ Threat(s)'
  <2>1. CASE d.class # "normal"
    BY <1>0, <1>1, <1>2, <2>1, VerdictThreat DEF Verdict
  <2>2. CASE d.class = "normal" /\ ~Punished(s)
    <3>1. reputation[s] = 0
      BY <1>0, <2>2 DEF Punished, TypeOK
    <3> QED
      BY <1>0, <1>5, <1>6, <1>10, <2>2, <3>1, IncidentPunishes DEF Punished
  <2> QED
    BY <2>1, <2>2
<1>14. PunishesThreats
  BY <1>2, <1>11, <1>12, <1>13 DEF PunishesThreats
<1> QED
  BY <1>7, <1>8, <1>9, <1>14 DEF TasksFounded

LEMMA ExecutePlaybookFounded ==
  ASSUME TypeOK, TasksFounded, NEW p \in plays, ExecutePlaybook(p)
  PROVE  TasksFounded' /\ PunishesThreats
<1> DEFINE s == SourceOf[p.event]
<1>1. s \in Source /\ p.class \in Class
  BY SourceType DEF TypeOK, Play
<1>2. p.class # "normal" /\ p.class \in judged[s] /\ Threat(s)
  BY <1>1, VerdictThreat DEF TasksFounded
<1>3. UNCHANGED <<stage, evidence, judged, rules>> /\ plays' = plays \ {p}
  BY DEF ExecutePlaybook
<1>4. \A r \in runs' : SourceOf[r.event] \notin Protected /\ Threat(SourceOf[r.event])
  BY <1>2 DEF ExecutePlaybook, TasksFounded
<1>5. TasksFounded'
  BY <1>3, <1>4 DEF TasksFounded, Threat
<1>6. (\A x \in Source : judged[x] \subseteq judged'[x]) /\ Threat(s)'
  BY <1>2, <1>3 DEF Threat
<1>7. CASE UNCHANGED <<reputation, restricted>>
  <2>1. \A x \in Source : Restricted(x)' => Restricted(x)
    BY <1>7 DEF Restricted
  <2>2. \A x \in Source : Punished(x)' => Punished(x)
    BY <1>3, <1>7, <2>1 DEF Punished, Ruled
  <2> QED
    BY <1>5, <1>6, <2>2 DEF PunishesThreats
<1>8. CASE s \notin Protected /\ Incident(s, Penalty(p.class))
  <2>1. Penalty(p.class) \in Int
    BY DEF Penalty
  <2>2. \A x \in Source \ {s} : Punished(x)' => Punished(x)
    BY <1>1, <1>3, <1>8, <2>1, IncidentPunishes DEF Punished, Ruled
  <2> QED
    BY <1>5, <1>6, <1>8, <2>2 DEF PunishesThreats
<1> QED
  BY <1>5, <1>7, <1>8 DEF ExecutePlaybook

LEMMA RunFounded ==
  ASSUME TypeOK, TasksFounded, NEW r \in runs, BeginRun(r) \/ RunAction(r)
  PROVE  TasksFounded' /\ PunishesThreats
<1> DEFINE s == SourceOf[r.event]
<1>1. s \in Source /\ s \notin Protected /\ Threat(s)
  BY SourceType DEF TypeOK, Run, TasksFounded
<1>2. UNCHANGED <<stage, evidence, judged, plays>>
  BY DEF BeginRun, RunAction
<1>3. \A q \in runs' : q \in runs \/ q.event = r.event
  <2>1. r \in Run
    BY DEF TypeOK
  <2>2. [r EXCEPT !.begun = TRUE].event = r.event
        /\ [r EXCEPT !.left = Tail(@)].event = r.event
    BY <2>1 DEF Run
  <2> QED
    BY <2>2 DEF BeginRun, RunAction
<1>4. TasksFounded'
  BY <1>1, <1>2, <1>3 DEF TasksFounded, Threat
<1>5. CASE BeginRun(r)
  <2>1. UNCHANGED <<reputation, restricted, rules>>
    BY <1>5 DEF BeginRun, kernel
  <2>2. \A x \in Source : Punished(x)' => Punished(x)
    BY <2>1 DEF Punished, Restricted, Ruled
  <2> QED
    BY <1>2, <1>4, <2>2 DEF PunishesThreats
<1>6. CASE RunAction(r)
  <2>1. \A x \in Source \ {s} : Punished(x)' => Punished(x)
    BY <1>1, <1>6, PerformPunishes DEF RunAction
  <2>2. Threat(s)' /\ \A x \in Source : judged[x] \subseteq judged'[x]
    BY <1>1, <1>2 DEF Threat
  <2> QED
    BY <1>1, <1>4, <2>1, <2>2 DEF PunishesThreats
<1> QED
  BY <1>4, <1>5, <1>6

LEMMA ElseFounded ==
  ASSUME TypeOK, TasksFounded, Kernel \/ CacheAges \/ Operator \/ Crash \/ UNCHANGED vars
  PROVE  TasksFounded' /\ PunishesThreats
<1>1. UNCHANGED <<evidence, judged>>
  BY DEF Kernel, RuleExpires, BlockExpires, CacheAges, Operator, ToggleBanning,
     WhitelistSource, UnblockSource, Unblock, Crash, vars
<1>2. /\ plays' \subseteq plays /\ runs' \subseteq runs
      /\ \A e \in Event : stage'[e] # "done" => stage'[e] = stage[e]
  BY DEF Kernel, RuleExpires, BlockExpires, CacheAges, Operator, ToggleBanning,
     WhitelistSource, UnblockSource, Unblock, Crash, vars, tasks
<1>3. TasksFounded'
  BY <1>1, <1>2 DEF TasksFounded, Threat
<1>4. CASE \E k \in Kind, s \in Source : RuleExpires(k, s)
  <2>1. PICK k \in Kind, s \in Source : RuleExpires(k, s)
    BY <1>4
  <2>2. rules \in [Kind -> [Source -> Nat]]
    BY DEF TypeOK
  <2>3. \A j \in Kind, x \in Source :
          rules'[j][x] = IF j = k /\ x = s
                         THEN (IF rules[j][x] > 0 THEN rules[j][x] - 1 ELSE 0)
                         ELSE rules[j][x]
    BY <2>1, <2>2 DEF RuleExpires
  <2>4. \A x \in Source : Ruled(x)' => Ruled(x)
    BY <2>2, <2>3 DEF Ruled
  <2> QED
    BY <1>1, <1>3, <2>1, <2>4 DEF RuleExpires, PunishesThreats, Punished, Restricted
<1>5. CASE \E s \in Source : BlockExpires(s)
  <2>1. PICK s \in Source : BlockExpires(s)
    BY <1>5
  <2>2. \A x \in Source : Restricted(x)' => Restricted(x)
    BY <2>1 DEF BlockExpires, Restricted, TypeOK
  <2> QED
    BY <1>1, <1>3, <2>1, <2>2 DEF BlockExpires, PunishesThreats, Punished, Ruled
<1>6. CASE \E s \in Source : WhitelistSource(s) \/ UnblockSource(s)
  <2>1. PICK s \in Source : Unblock(s)
    BY <1>6 DEF WhitelistSource, UnblockSource
  <2>2. \A x \in Source : Restricted(x)' => Restricted(x)
    BY <2>1 DEF Unblock, Restricted
  <2>3. \A x \in Source : reputation'[x] = reputation[x] \/ reputation'[x] = 0
    BY <2>1 DEF Unblock, TypeOK
  <2> QED
    BY <1>1, <1>3, <2>1, <2>2, <2>3 DEF Unblock, PunishesThreats, Punished, Ruled
<1>7. CASE UNCHANGED <<reputation, restricted, rules>>
  BY <1>1, <1>3, <1>7 DEF PunishesThreats, Punished, Restricted, Ruled
<1> QED
  BY <1>4, <1>5, <1>6, <1>7 DEF Kernel, CacheAges, Operator, ToggleBanning, Crash,
     vars, kernel

PunishmentInv == TasksFounded /\ OnlyThreatsPunished /\ ProtectedUntouched

LEMMA StepPunishment ==
  TypeOK /\ TypeOK' /\ Known /\ PunishmentInv /\ [Next]_vars => PunishmentInv'
<1> SUFFICES ASSUME TypeOK, TypeOK', Known, PunishmentInv, [Next]_vars
             PROVE  PunishmentInv'
  OBVIOUS
<1> USE DEF PunishmentInv
<1>1. TasksFounded' /\ PunishesThreats
  <2>1. CASE \E e \in Event : Pipeline(e)
    BY <2>1, DetectFounded, LookupFounded, SettleFounded DEF Pipeline
  <2>2. CASE Playbooks
    BY <2>2, ExecutePlaybookFounded, RunFounded DEF Playbooks
  <2>3. CASE Kernel \/ CacheAges \/ Operator \/ Crash \/ UNCHANGED vars
    BY <2>3, ElseFounded
  <2> QED
    BY <2>1, <2>2, <2>3 DEF Next
<1>2. OnlyThreatsPunished'
  BY <1>1, PunishedParts, ThreatLasts DEF PunishesThreats
<1>3. ProtectedUntouched'
  <2>1. \A s \in Protected : ~Punished(s)
    BY ProtectedParts
  <2>2. \A s \in Protected : ~Punished(s)'
    BY <1>1, <2>1, PlaceAssumption DEF PunishesThreats
  <2> QED
    BY <2>2, ProtectedParts
<1> QED
  BY <1>1, <1>2, <1>3

LEMMA InitPunishment == Init => PunishmentInv
<1> SUFFICES ASSUME Init
             PROVE  PunishmentInv
  OBVIOUS
<1>1. TasksFounded
  BY DEF Init, TasksFounded
<1>2. \A s \in Source : ~Restricted(s) /\ ~Ruled(s) /\ reputation[s] = 0
  BY DEF Init, Restricted, Ruled, NoRules, Kind
<1> QED
  BY <1>1, <1>2, PlaceAssumption DEF PunishmentInv, OnlyThreatsPunished, ProtectedUntouched

LEMMA PunishmentInductive == Spec => []PunishmentInv
BY InitTypes, StepTypes, InitPunishment, StepPunishment, PTL DEF Spec

\* Whoever is restricted, redirected or charged was found to be a threat:
\* ThreatResponse's OnlyThreatsPunished.
THEOREM PunishmentInvariant == Spec => []OnlyThreatsPunished
BY PunishmentInductive, PTL DEF PunishmentInv

\* No protected source is ever restricted, redirected or charged, whatever its
\* events look like: ThreatResponse's ProtectedUntouched.
THEOREM ProtectedInvariant == Spec => []ProtectedUntouched
BY PunishmentInductive, PTL DEF PunishmentInv
-----------------------------------------------------------------------------
(***************************************************************************)
(* What a verdict rests on                                                 *)
(***************************************************************************)

\* Until the source has been looked up a verdict is the one its evidence calls for.
VerdictFounded ==
  \A e \in Event : stage[e] \in {"decided", "asking"}
                     => evidence[e].verdict = Decide(evidence[e].of)

LEMMA DetectVerdict ==
  ASSUME TypeOK, NEW e \in Event, Detect(e)
  PROVE  /\ evidence'[e].of \in Evidence
         /\ evidence'[e].verdict = Decide(evidence'[e].of)
         /\ \A f \in Event \ {e} : evidence'[f] = evidence[f] /\ stage'[f] = stage[f]
<1>1. PICK v \in EvidenceSeen :
        evidence' = [evidence EXCEPT ![e] = [of |-> v, verdict |-> Decide(v)]]
  BY DEF Detect
<1>2. v \in Evidence
  BY PlaceAssumption
<1> QED
  BY <1>1, <1>2 DEF Detect, TypeOK

LEMMA LookupVerdict ==
  ASSUME TypeOK, Known, NEW e \in Event,
         Suppress(e) \/ CtiHit(e) \/ CtiMiss(e) \/ CtiAnswer(e) \/ CtiNoAnswer(e)
  PROVE  /\ evidence'[e].verdict = evidence[e].verdict
         /\ evidence'[e].of.sig = evidence[e].of.sig
         /\ evidence'[e].of.tag = evidence[e].of.tag
         /\ stage[e] # "queued"
         /\ stage'[e] \in {"decided", "asking"} => evidence' = evidence
         /\ stage'[e] = "asking" => stage[e] = "decided"
         /\ stage'[e] # "decided"
         /\ \A f \in Event \ {e} : evidence'[f] = evidence[f] /\ stage'[f] = stage[f]
<1>1. ASSUME NEW score, Learn(e, score), evidence[e].of \in Evidence
      PROVE  /\ evidence'[e].verdict = evidence[e].verdict
             /\ evidence'[e].of.sig = evidence[e].of.sig
             /\ evidence'[e].of.tag = evidence[e].of.tag
             /\ \A f \in Event \ {e} : evidence'[f] = evidence[f]
  <2> DEFINE v == [evidence[e].of EXCEPT !.cti = score]
  <2>1. evidence' = [evidence EXCEPT ![e].of = v]
    BY <1>1 DEF Learn
  <2>2. v.sig = evidence[e].of.sig /\ v.tag = evidence[e].of.tag
    BY <1>1 DEF Evidence
  <2> HIDE DEF v
  <2> QED
    BY <2>1, <2>2 DEF TypeOK
<1>2. stage[e] # "queued" /\ evidence[e].of \in Evidence
  BY DEF Suppress, CtiHit, CtiMiss, CtiAnswer, CtiNoAnswer, Known
<1>3. CASE CtiHit(e) \/ CtiAnswer(e)
  <2>1. \E score : Learn(e, score)
    BY <1>3 DEF CtiHit, CtiAnswer
  <2> QED
    BY <1>1, <1>2, <1>3, <2>1 DEF CtiHit, CtiAnswer, TypeOK
<1>4. CASE Suppress(e) \/ CtiMiss(e) \/ CtiNoAnswer(e)
  BY <1>2, <1>4 DEF Suppress, CtiMiss, CtiNoAnswer, TypeOK
<1> QED
  BY <1>3, <1>4

LEMMA SettleVerdict ==
  ASSUME TypeOK, Known, SignatureStands, NEW e \in Event, Settle(e)
  PROVE  /\ stage'[e] = "done"
         /\ evidence'[e].of = evidence[e].of
         /\ evidence[e].of.sig /\ evidence[e].of.tag => evidence'[e].verdict.class = "attack"
         /\ \A f \in Event \ {e} : evidence'[f] = evidence[f] /\ stage'[f] = stage[f]
<1> DEFINE v == evidence[e].of
           d == SecondVerdict(e)
<1>1. v \in Evidence /\ stage[e] # "queued" /\ Recheck(v) \in Evidence
  BY SecondVerdictType, TypeParts DEF Settle, Known
<1>2. Recheck(v).sig = v.sig /\ Recheck(v).tag = v.tag
  BY <1>1 DEF Recheck, Evidence
<1>3. v.sig /\ v.tag => d.class = "attack"
  BY <1>1, <1>2, SignatureIsAttack DEF SecondVerdict, SignatureStands
<1>4. evidence' = [evidence EXCEPT ![e].verdict = d]
  BY DEF Settle
<1> HIDE DEF d
<1> QED
  BY <1>3, <1>4 DEF Settle, TypeOK

LEMMA StepVerdicts ==
  TypeOK /\ Known /\ VerdictFounded /\ SignatureStands /\ [Next]_vars
    => VerdictFounded' /\ SignatureStands'
<1> SUFFICES ASSUME TypeOK, Known, VerdictFounded, SignatureStands, [Next]_vars
             PROVE  VerdictFounded' /\ SignatureStands'
  OBVIOUS
<1>1. ASSUME NEW e \in Event, Detect(e)
      PROVE  VerdictFounded' /\ SignatureStands'
  BY <1>1, DetectVerdict, SignatureIsAttack DEF VerdictFounded, SignatureStands
<1>2. ASSUME NEW e \in Event,
             Suppress(e) \/ CtiHit(e) \/ CtiMiss(e) \/ CtiAnswer(e) \/ CtiNoAnswer(e)
      PROVE  VerdictFounded' /\ SignatureStands'
  BY <1>2, LookupVerdict DEF VerdictFounded, SignatureStands
<1>3. ASSUME NEW e \in Event, Settle(e)
      PROVE  VerdictFounded' /\ SignatureStands'
  <2>1. /\ stage'[e] = "done" /\ evidence'[e].of = evidence[e].of
        /\ evidence[e].of.sig /\ evidence[e].of.tag => evidence'[e].verdict.class = "attack"
        /\ \A f \in Event \ {e} : evidence'[f] = evidence[f] /\ stage'[f] = stage[f]
    BY <1>3, SettleVerdict
  <2> QED
    BY <2>1 DEF VerdictFounded, SignatureStands
<1>4. CASE Playbooks \/ Kernel \/ CacheAges \/ Operator \/ Crash \/ UNCHANGED vars
  <2>1. UNCHANGED evidence /\ \A e \in Event : /\ stage'[e] # "done" => stage'[e] = stage[e]
                                               /\ stage[e] = "queued" => stage'[e] = "queued"
    BY <1>4 DEF Playbooks, ExecutePlaybook, BeginRun, RunAction, Kernel, RuleExpires,
       BlockExpires, CacheAges, Operator, ToggleBanning, WhitelistSource,
       UnblockSource, Unblock, Crash, vars
  <2> QED
    BY <2>1 DEF VerdictFounded, SignatureStands
<1> QED
  BY <1>1, <1>2, <1>3, <1>4 DEF Next, Pipeline

LEMMA InitVerdicts == Init => VerdictFounded /\ SignatureStands
BY DEF Init, VerdictFounded, SignatureStands

\* A tagged event with a signature ends as an attack.
THEOREM SignatureInvariant == Spec => []SignatureStands
BY InitTypes, StepTypes, InitVerdicts, StepVerdicts, PTL DEF Spec

\* Of two events being looked at, the one that shows more is judged no milder.
THEOREM MonotoneInvariant == Spec => []MoreEvidenceNoMilder
<1>1. Known /\ VerdictFounded => MoreEvidenceNoMilder
  BY MoreEvidence DEF Known, VerdictFounded, MoreEvidenceNoMilder
<1> QED
  BY <1>1, InitTypes, StepTypes, InitVerdicts, StepVerdicts, PTL DEF Spec
-----------------------------------------------------------------------------
(***************************************************************************)
(* The cache of the intelligence client                                    *)
(***************************************************************************)

Unique(c) == \A i, j \in DOMAIN c : i # j => c[i].ip # c[j].ip
OldestFirst(c) == \A i, j \in DOMAIN c : i < j /\ c[i].fresh => c[j].fresh

LEMMA WithoutSound ==
  ASSUME NEW c \in Seq(Answer), NEW s, Unique(c), OldestFirst(c)
  PROVE  /\ Len(Without(c, s)) <= Len(c)
         /\ Unique(Without(c, s)) /\ OldestFirst(Without(c, s))
         /\ \A i \in DOMAIN Without(c, s) : Without(c, s)[i].ip # s
<1>1. CASE \E i \in DOMAIN c : c[i].ip = s
  <2> DEFINE p == Position(c, s)
             w == Without(c, s)
             from == [j \in 1 .. Len(c) - 1 |-> IF j < p THEN j ELSE j + 1]
  <2>1. p \in DOMAIN c /\ c[p].ip = s
    BY <1>1 DEF Position
  <2>2. Len(c) \in Nat /\ Len(c) >= 1 /\ DOMAIN c = 1 .. Len(c)
    BY <2>1
  <2>3. w = [j \in 1 .. Len(c) - 1 |-> c[from[j]]]
    BY <1>1 DEF Without
  <2>4. w \in Seq(Answer) /\ DOMAIN w = 1 .. Len(c) - 1 /\ Len(w) = Len(c) - 1
    BY <2>2, <2>3, WithoutType
  <2>5. \A j \in 1 .. Len(c) - 1 : w[j] = c[from[j]]
    BY <2>3
  <2> HIDE DEF p, w
  <2>6. \A i, j \in 1 .. Len(c) - 1 : /\ from[i] \in 1 .. Len(c) /\ from[i] # p
                                      /\ i < j => from[i] < from[j]
                                      /\ i # j => from[i] # from[j]
    BY <2>1, <2>2
  <2> HIDE DEF from
  <2>7. \A i \in DOMAIN w : from[i] \in DOMAIN c /\ w[i] = c[from[i]]
    BY <2>2, <2>4, <2>5, <2>6
  <2>8. Unique(w)
    <3>1. \A i, j \in DOMAIN w : i # j => from[i] # from[j]
      BY <2>4, <2>6
    <3> QED
      BY <2>7, <3>1 DEF Unique
  <2>9. OldestFirst(w)
    <3>1. \A i, j \in DOMAIN w : i < j => from[i] < from[j]
      BY <2>4, <2>6
    <3> QED
      BY <2>7, <3>1 DEF OldestFirst
  <2>10. \A i \in DOMAIN w : w[i].ip # s
    <3>1. \A i \in DOMAIN w : from[i] # p
      BY <2>4, <2>6
    <3> QED
      BY <2>1, <2>7, <3>1 DEF Unique
  <2> QED
    BY <2>2, <2>4, <2>8, <2>9, <2>10 DEF w
<1>2. CASE ~ \E i \in DOMAIN c : c[i].ip = s
  <2>1. Without(c, s) = c
    BY <1>2 DEF Without
  <2>2. Len(c) <= Len(c)
    OBVIOUS
  <2> QED
    BY <1>2, <2>1, <2>2
<1> QED
  BY <1>1, <1>2

LEMMA TailSound ==
  ASSUME NEW c \in Seq(Answer), c # <<>>, Unique(c), OldestFirst(c)
  PROVE  Tail(c) \in Seq(Answer) /\ Len(Tail(c)) = Len(c) - 1
         /\ Unique(Tail(c)) /\ OldestFirst(Tail(c))
<1>1. Tail(c) \in Seq(Answer) /\ Len(c) \in Nat /\ Len(Tail(c)) = Len(c) - 1
  OBVIOUS
<1>2. DOMAIN Tail(c) = 1 .. Len(c) - 1 /\ DOMAIN c = 1 .. Len(c)
  BY <1>1
<1>3. \A i \in 1 .. Len(c) - 1 : Tail(c)[i] = c[i + 1] /\ i + 1 \in 1 .. Len(c)
  BY <1>1
<1>4. Unique(Tail(c))
  BY <1>1, <1>2, <1>3 DEF Unique
<1>5. OldestFirst(Tail(c))
  BY <1>1, <1>2, <1>3 DEF OldestFirst
<1> QED
  BY <1>1, <1>4, <1>5

LEMMA AppendSound ==
  ASSUME NEW c \in Seq(Answer), NEW a \in Answer, a.fresh, Unique(c), OldestFirst(c),
         \A i \in DOMAIN c : c[i].ip # a.ip
  PROVE  Unique(Append(c, a)) /\ OldestFirst(Append(c, a))
         /\ Len(Append(c, a)) = Len(c) + 1
<1> DEFINE n == Len(c)
           b == Append(c, a)
<1>1. n \in Nat /\ b \in Seq(Answer) /\ Len(b) = n + 1 /\ b[n + 1] = a
      /\ DOMAIN c = 1 .. n
  OBVIOUS
<1>2. \A i \in 1 .. n : b[i] = c[i]
  OBVIOUS
<1>3. DOMAIN b = 1 .. n + 1 /\ \A i \in 1 .. n + 1 : i \in 1 .. n \/ i = n + 1
  BY <1>1
<1> HIDE DEF b, n
<1>4. Unique(b)
  BY <1>1, <1>2, <1>3 DEF Unique
<1>5. OldestFirst(b)
  BY <1>1, <1>2, <1>3 DEF OldestFirst
<1> QED
  BY <1>1, <1>4, <1>5 DEF b, n

LEMMA CacheParts ==
  /\ CacheSound <=> Len(cache) <= MAX_CACHE_SIZE /\ Unique(cache) /\ OldestFirst(cache)
  /\ CacheSound' <=> Len(cache') <= MAX_CACHE_SIZE /\ Unique(cache') /\ OldestFirst(cache')
BY DEF CacheSound, Unique, OldestFirst

LEMMA StepCache == TypeOK /\ TypeOK' /\ CacheSound /\ [Next]_vars => CacheSound'
<1> SUFFICES ASSUME TypeOK, TypeOK', CacheSound, [Next]_vars
             PROVE  CacheSound'
  OBVIOUS
<1>0. /\ cache \in Seq(Answer) /\ Len(cache) \in Nat /\ MAX_CACHE_SIZE \in Nat \ {0}
      /\ Len(cache) <= MAX_CACHE_SIZE /\ Unique(cache) /\ OldestFirst(cache)
  BY CacheParts, LimitAssumption DEF TypeOK
<1>1. ASSUME NEW e \in Event, CtiMiss(e)
      PROVE  CacheSound'
  <2>1. cache' = Without(cache, SourceOf[e])
    BY <1>1 DEF CtiMiss
  <2>2. /\ Len(Without(cache, SourceOf[e])) <= Len(cache)
        /\ Unique(cache') /\ OldestFirst(cache')
    BY <1>0, <2>1, WithoutSound
  <2>3. Len(cache') \in Nat
    BY DEF TypeOK
  <2> QED
    BY <1>0, <2>1, <2>2, <2>3, CacheParts
<1>2. ASSUME NEW e \in Event, CtiAnswer(e)
      PROVE  CacheSound'
  <2> DEFINE kept == IF Len(cache) >= MAX_CACHE_SIZE THEN Tail(cache) ELSE cache
             w == Without(kept, SourceOf[e])
  <2>1. PICK score \in CtiScore :
          cache' = Append(w, [ip |-> SourceOf[e], score |-> score, fresh |-> TRUE])
    BY <1>2 DEF CtiAnswer
  <2>2. kept \in Seq(Answer) /\ Len(kept) < MAX_CACHE_SIZE
        /\ Unique(kept) /\ OldestFirst(kept)
    <3>1. CASE Len(cache) >= MAX_CACHE_SIZE
      <4>1. cache # <<>>
        BY <1>0, <3>1
      <4>2. /\ Tail(cache) \in Seq(Answer) /\ Len(Tail(cache)) = Len(cache) - 1
            /\ Unique(Tail(cache)) /\ OldestFirst(Tail(cache))
        BY <1>0, <4>1, TailSound
      <4> QED
        BY <1>0, <3>1, <4>2
    <3>2. CASE ~ (Len(cache) >= MAX_CACHE_SIZE)
      BY <1>0, <3>2
    <3> QED
      BY <3>1, <3>2
  <2> HIDE DEF kept
  <2>3. /\ w \in Seq(Answer) /\ Len(w) <= Len(kept) /\ Unique(w) /\ OldestFirst(w)
        /\ \A i \in DOMAIN w : w[i].ip # SourceOf[e]
    BY <2>2, WithoutType, WithoutSound
  <2> HIDE DEF w
  <2> DEFINE a == [ip |-> SourceOf[e], score |-> score, fresh |-> TRUE]
  <2>4. a \in Answer /\ a.fresh /\ a.ip = SourceOf[e]
    BY SourceType DEF Answer
  <2> HIDE DEF a
  <2>5. Unique(Append(w, a)) /\ OldestFirst(Append(w, a)) /\ Len(Append(w, a)) = Len(w) + 1
    BY <2>3, <2>4, AppendSound
  <2>6. Len(w) \in Nat /\ Len(kept) \in Nat
    BY <2>2, <2>3
  <2>7. Len(cache') <= MAX_CACHE_SIZE /\ cache' = Append(w, a)
    BY <1>0, <2>1, <2>2, <2>3, <2>5, <2>6 DEF a
  <2> QED
    BY <2>5, <2>7, CacheParts
<1>3. CASE CacheAges
  <2>1. PICK i \in DOMAIN cache :
          /\ cache[i].fresh /\ \A j \in 1 .. i - 1 : ~cache[j].fresh
          /\ cache' = [cache EXCEPT ![i] = [@ EXCEPT !.fresh = FALSE]]
    BY <1>3 DEF CacheAges
  <2>2. DOMAIN cache = 1 .. Len(cache) /\ DOMAIN cache' = DOMAIN cache
        /\ Len(cache') = Len(cache)
    BY <1>0, <2>1
  <2>3. \A j \in DOMAIN cache : cache[j] \in Answer
    BY <1>0, <2>2
  <2>4. \A j \in DOMAIN cache : /\ cache'[j].ip = cache[j].ip
                                /\ j = i => ~cache'[j].fresh
                                /\ j # i => cache'[j] = cache[j]
    <3> DEFINE a == [cache[i] EXCEPT !.fresh = FALSE]
    <3>1. a.ip = cache[i].ip /\ a.fresh = FALSE
      BY <2>1, <2>3 DEF Answer
    <3>2. cache' = [cache EXCEPT ![i] = a]
      BY <2>1
    <3> HIDE DEF a
    <3>3. \A j \in DOMAIN cache : cache'[j] = IF j = i THEN a ELSE cache[j]
      BY <1>0, <3>2
    <3> QED
      BY <3>1, <3>3
  <2>5. Unique(cache')
    <3>1. \A j \in DOMAIN cache : cache'[j].ip = cache[j].ip
      BY <2>4
    <3> QED
      BY <1>0, <2>2, <3>1 DEF Unique
  <2>6. OldestFirst(cache')
    BY <1>0, <2>1, <2>2, <2>4 DEF OldestFirst
  <2> QED
    BY <1>0, <2>2, <2>5, <2>6, CacheParts
<1>4. CASE Crash
  <2>1. cache' = <<>>
    BY <1>4 DEF Crash
  <2> QED
    BY <1>0, <2>1 DEF CacheSound
<1>5. CASE UNCHANGED cache
  BY <1>5 DEF CacheSound
<1>6. ASSUME NEW e \in Event, Pipeline(e)
      PROVE  CacheSound'
  BY <1>1, <1>2, <1>5, <1>6 DEF Pipeline, Detect, Suppress, CtiHit, CtiNoAnswer, Settle
<1>7. CASE Playbooks \/ Kernel \/ Operator \/ UNCHANGED vars
  BY <1>5, <1>7 DEF Playbooks, ExecutePlaybook, BeginRun, RunAction, Kernel, RuleExpires,
     BlockExpires, Operator, ToggleBanning, WhitelistSource, UnblockSource, Unblock, vars
<1> QED
  BY <1>3, <1>4, <1>6, <1>7 DEF Next

\* However the lookups overlap, the cache stays within its size, with one answer
\* for an address and the stale ones first.
THEOREM CacheInvariant == Spec => []CacheSound
<1>1. Init => CacheSound
  BY LimitAssumption DEF Init, CacheSound
<1> QED
  BY <1>1, InitTypes, StepTypes, StepCache, PTL DEF Spec
-----------------------------------------------------------------------------
(***************************************************************************)
(* The banning switch                                                      *)
(***************************************************************************)

LEMMA RunsWhileOff ==
  ASSUME TypeOK, ~enforcing, [Next]_vars
  PROVE  \A r \in runs' : r.begun => \E q \in runs : q.begun /\ Same(r, q)
<1>1. ASSUME NEW p \in plays, ExecutePlaybook(p)
      PROVE  \A r \in runs' : r \in runs \/ ~r.begun
  BY <1>1 DEF ExecutePlaybook
<1>2. ASSUME NEW r \in runs, RunAction(r)
      PROVE  \A q \in runs' : q \in runs \/ (r.begun /\ Same(q, r))
  <2>1. Same([r EXCEPT !.left = Tail(@)], r)
    BY DEF TypeOK, Run, Same
  <2> QED
    BY <1>2, <2>1 DEF RunAction
<1>3. ASSUME NEW r \in runs, BeginRun(r)
      PROVE  runs' \subseteq runs
  BY <1>3 DEF BeginRun
<1>4. CASE ~Playbooks
  BY <1>4 DEF Next, Pipeline, Detect, Suppress, CtiHit, CtiMiss, CtiAnswer, CtiNoAnswer,
     Settle, Kernel, RuleExpires, BlockExpires, CacheAges, Operator, ToggleBanning,
     WhitelistSource, UnblockSource, Unblock, Crash, vars, tasks, Same
<1> QED
  BY <1>1, <1>2, <1>3, <1>4 DEF Playbooks, Same

LEMMA RestrictedWhileOff ==
  ASSUME TypeOK, Known, ~enforcing, [Next]_vars, NEW s \in Source, Restricted(s)', ~Restricted(s)
  PROVE  \E q \in runs : q.begun /\ SourceOf[q.event] = s /\ q \notin runs'
<1>1. ASSUME NEW x \in Source, NEW delta \in Int, Incident(x, delta)
      PROVE  FALSE
  BY <1>1, IncidentPunishes DEF Restricted
<1>2. CASE UNCHANGED restricted
  BY <1>2 DEF Restricted
<1>3. CASE \E r \in runs : RunAction(r)
  <2>1. PICK r \in runs : RunAction(r)
    BY <1>3
  <2>2. r \in Run /\ r.begun /\ SourceOf[r.event] \in Source
    BY <2>1, SourceType DEF RunAction, TypeOK, Run
  <2>3. r \notin runs'
    <3>1. r.left \in Seq(Action)
      BY <2>2 DEF Run
    <3>2. Len(r.left) > 1 => Len(Tail(r.left)) = Len(r.left) - 1
      BY <3>1
    <3>3. Len(r.left) \in Nat
      BY <3>1
    <3>4. Len(r.left) > 1 => Tail(r.left) # r.left
      <4>1. Len(r.left) > 1 => Len(Tail(r.left)) # Len(r.left)
        BY <3>2, <3>3
      <4> QED
        BY <4>1, Zenon
    <3>5. [r EXCEPT !.left = Tail(@)].left = Tail(r.left)
      BY <2>2 DEF Run
    <3> QED
      BY <2>1, <3>4, <3>5 DEF RunAction
  <2>4. \A x \in Source \ {SourceOf[r.event]} : Restricted(x)' => Restricted(x)
    <3>1. CASE \E b \in {"block", "limit"} : Restrict(b, SourceOf[r.event])
      BY <2>2, <3>1, RestrictPunishes
    <3>2. CASE Incident(SourceOf[r.event], 25000)
      BY <1>1, <2>2, <3>2
    <3>3. CASE UNCHANGED restricted
      BY <3>3 DEF Restricted
    <3> QED
      BY <2>1, <3>1, <3>2, <3>3 DEF RunAction, Perform
  <2> QED
    BY <2>2, <2>3, <2>4
<1>4. CASE \E p \in plays : ExecutePlaybook(p)
  <2>1. PICK p \in plays : ExecutePlaybook(p)
    BY <1>4
  <2>2. SourceOf[p.event] \in Source /\ Penalty(p.class) \in Int
    BY SourceType DEF TypeOK, Play, Penalty
  <2> QED
    BY <1>1, <1>2, <2>1, <2>2 DEF ExecutePlaybook
<1>5. CASE \E e \in Event : Settle(e)
  <2>1. PICK e \in Event : Settle(e)
    BY <1>5
  <2>2. ReputationDelta(SecondVerdict(e)) \in Int
    BY <2>1, SecondVerdictType, DeltaType, TypeParts DEF Settle, Known
  <2> QED
    BY <1>1, <2>1, <2>2, SourceType DEF Settle
<1>6. ASSUME NEW x \in Source, BlockExpires(x) \/ Unblock(x)
      PROVE  FALSE
  BY <1>6 DEF BlockExpires, Unblock, Restricted, TypeOK
<1>7. CASE \/ \E e \in Event : Detect(e) \/ Suppress(e) \/ CtiHit(e) \/ CtiMiss(e)
                               \/ CtiAnswer(e) \/ CtiNoAnswer(e)
           \/ \E r \in runs : BeginRun(r)
           \/ \E k \in Kind, x \in Source : RuleExpires(k, x)
           \/ CacheAges \/ ToggleBanning \/ Crash \/ UNCHANGED vars
  BY <1>2, <1>7 DEF Detect, Suppress, CtiHit, CtiMiss, CtiAnswer, CtiNoAnswer, BeginRun,
     RuleExpires, CacheAges, ToggleBanning, Crash, vars, kernel
<1> QED
  BY <1>3, <1>4, <1>5, <1>6, <1>7 DEF Next, Pipeline, Playbooks, Kernel, Operator,
     WhitelistSource, UnblockSource

\* With banning disabled nothing begins, and only what had begun goes on.
THEOREM OffTheorem == Spec => OffBeginsNothing
<1>1. TypeOK /\ Known /\ [Next]_vars =>
        [~enforcing /\ ~enforcing' =>
           /\ \A r \in runs' : r.begun => \E q \in runs : q.begun /\ Same(r, q)
           /\ \A s \in Source : Restricted(s)' /\ ~Restricted(s) =>
                \E q \in runs : q.begun /\ SourceOf[q.event] = s /\ q \notin runs']_vars
  BY RunsWhileOff, RestrictedWhileOff
<1> QED
  BY <1>1, InitTypes, StepTypes, PTL DEF Spec, OffBeginsNothing
=============================================================================
