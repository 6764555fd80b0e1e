---------------------------- MODULE DecisionFusion ----------------------------
(***************************************************************************)
(* How the detectors' scores become a verdict: DecisionEngine.decide()     *)
(* (ml_engine/decision_engine.py) with the signs of the AdversarialGuard   *)
(* (ml_engine/adversarial_guard.py), and the reputation change a verdict   *)
(* costs.  Scores are whole numbers of thousandths (1.0 is 1000); products *)
(* are rounded down.  A score that is not a number counts as 0 and an      *)
(* infinite one as 0 or 1 (nan_to_num), so neither needs a value of its    *)
(* own; None is a detector that gave no opinion.                           *)
(***************************************************************************)
EXTENDS Integers, FiniteSets

CONSTANTS
  ATTACK, SUSPICIOUS, ANOMALY,   \* decision_engine.thresholds
  None                           \* no opinion

Score == 0 .. 1000

ASSUME ThresholdAssumption ==
  /\ ATTACK \in Score /\ SUSPICIOUS \in Score /\ ANOMALY \in Score
  /\ 500 <= ANOMALY /\ 500 <= SUSPICIOUS /\ 500 <= ATTACK
ASSUME NoneAssumption == None \notin Int

Class == {"normal", "anomaly", "suspicious", "attack"}

\* The signs AdversarialGuard.detect_evasion() looks for.
Sign == {"suspicious_payload_dilution", "impossible_packet_payload_ratio",
         "stealth_timing_evasion", "anomalous_feature_load_ratio"}

(* What decide() knows of an event.                                        *)
(*   ml, anomaly, c2, cti  the scores of the four detectors                *)
(*   sig        a signature matched (event_type is "alert")                *)
(*   volume     connection counters show a scan or a burst                 *)
(*   discovery  the destination is multicast, loopback or broadcast        *)
(*   tag        the event is marked as a simulated attack                  *)
(*   features   the event brings its own feature vector                    *)
(*   signs      the signs of evasion it shows                              *)
Evidence ==
  [ml : Score \cup {None}, anomaly : Score \cup {None}, c2 : Score \cup {None},
   cti : Score \cup {None}, sig : BOOLEAN, volume : BOOLEAN,
   discovery : BOOLEAN, tag : BOOLEAN, features : BOOLEAN, signs : SUBSET Sign]

Least(a, b) == IF a <= b THEN a ELSE b
Greatest(a, b) == IF a >= b THEN a ELSE b
Percent(p, x) == (p * x) \div 100
Raw(x) == IF x = None THEN 0 ELSE x

\* Mutant: a solitary score is only distrusted when it is very high.
AdjustedMlFromNineTenths(v) ==
  IF Raw(v.ml) >= 900 /\ Raw(v.anomaly) < 150 /\ Raw(v.c2) < 200 /\ ~v.volume
  THEN Percent(35, Raw(v.ml)) ELSE Raw(v.ml)

\* 1. The random forest alone, without the autoencoder, the C2 specialist or
\* the connection counters behind it, is not believed.
Solitary(v) == Raw(v.anomaly) < 150 /\ Raw(v.c2) < 200 /\ ~v.volume
AdjustedMl(v) ==
  IF Raw(v.ml) >= 500 /\ Solitary(v) THEN Percent(35, Raw(v.ml)) ELSE Raw(v.ml)
General(v) == Greatest(AdjustedMl(v), Raw(v.anomaly))

\* 2. The C2 specialist needs some general signal beside it.
FusedC2(v) == IF General(v) >= 150 THEN Raw(v.c2) ELSE Percent(20, Raw(v.c2))

\* 3. The strongest opinion counts, unless the autoencoder was asked and is
\* silent (3b), or nobody can be attacked at the destination (3c).
Fused(v) == Greatest(Greatest(General(v), FusedC2(v)), Raw(v.cti))
Silent(v) == v.anomaly # None /\ Raw(v.anomaly) < 150 /\ ~v.sig /\ ~v.volume
Damped(v) == IF Silent(v) THEN Percent(35, Fused(v)) ELSE Fused(v)
Capped(v) == IF v.discovery /\ ~v.sig THEN Least(300, Damped(v)) ELSE Damped(v)

\* 3d. Background traffic has no score at all.
Simulated(v) == v.tag \/ v.features \/ v.volume
Normalized(v) == IF ~v.sig /\ ~Simulated(v) THEN 0 ELSE Capped(v)

\* 4. A signature is an attack, anything else is never quite certain.
Confidence(v) ==
  IF v.sig THEN Greatest(ATTACK, Percent(99, Normalized(v)))
  ELSE Least(980, Normalized(v))

Weight(sign) ==
  IF sign = "impossible_packet_payload_ratio" THEN 500
  ELSE IF sign = "stealth_timing_evasion" THEN 400 ELSE 450
\* The smallest weight is 400: any two signs, or the impossible packet, reach 500.
Evades(v) == \E s \in v.signs : Weight(s) >= 500 \/ \E t \in v.signs \ {s} :
                                                      Weight(s) + Weight(t) >= 500

Rated(v) ==
  IF Confidence(v) >= ATTACK \/ Evades(v) THEN "attack"
  ELSE IF Confidence(v) >= SUSPICIOUS THEN "suspicious"
  ELSE IF Confidence(v) >= ANOMALY THEN "anomaly"
  ELSE "normal"
FinalScore(v) == IF Evades(v) THEN Greatest(950, Confidence(v)) ELSE Confidence(v)

\* The verdict: only a tagged event is anything but normal.
Decide(v) ==
  IF v.tag THEN [class |-> Rated(v), score |-> FinalScore(v)]
  ELSE [class |-> "normal", score |-> Percent(12, FinalScore(v))]

\* get_reputation_delta(), in thousandths of a point.
ReputationDelta(d) ==
  IF d.class = "attack" THEN 15 * d.score
  ELSE IF d.class = "suspicious" THEN 5 * d.score
  ELSE IF d.class = "anomaly" THEN 8 * d.score
  ELSE -200

Rank(class) ==
  IF class = "attack" THEN 3 ELSE IF class = "suspicious" THEN 2
  ELSE IF class = "anomaly" THEN 1 ELSE 0

\* w is an event about which the same detectors say at least as much as of v.
Stronger(w, v) ==
  /\ \A f \in {"ml", "anomaly", "c2", "cti"} :
       IF v[f] = None THEN w[f] = None ELSE w[f] # None /\ w[f] >= v[f]
  /\ \A f \in {"sig", "volume", "tag", "features"} : v[f] => w[f]
  /\ w.discovery => v.discovery
  /\ v.signs \subseteq w.signs
=============================================================================
