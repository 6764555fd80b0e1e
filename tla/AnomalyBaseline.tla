---------------------------- MODULE AnomalyBaseline ----------------------------
(***************************************************************************)
(* The statistics an event's reconstruction error is judged by:            *)
(* AnomalyScorer (ml_engine/anomaly_scorer.py) of the consumer's engine.   *)
(* A sample that looks normal waits in quarantine before it may enter the  *)
(* baseline; a verdict other than "normal" freezes the baseline; the next  *)
(* score after the cooldown thaws it.  Nothing but score() looks at the    *)
(* clock, so what the baseline becomes depends on when traffic is scored.  *)
(***************************************************************************)
EXTENDS FreezeClock, FiniteSets

CONSTANTS
  Protocol,    \* protocols, each with a window of its own
  Slot,        \* bound: samples in quarantine at once
  Hold,        \* _quarantine_ttl, in ticks
  WindowSize,  \* _WINDOW_SIZE
  LatentMin,   \* merged samples the covariance needs
  MinSamples,  \* values ANOMALY_MIN_SAMPLES may be configured to
  MaxLevel     \* bound: thresholds are levels 1 .. MaxLevel

ASSUME HoldAssumption == Hold \in Nat /\ Hold < Cooldown
ASSUME SizeAssumption ==
  /\ WindowSize \in Nat \ {0} /\ LatentMin \in Nat /\ MaxLevel \in Nat \ {0}
  /\ MinSamples \subseteq 1 .. WindowSize /\ MinSamples # {}
  /\ IsFiniteSet(Slot) /\ IsFiniteSet(Protocol)

NoLevel == 0  \* the protocol is not in _threshold_cache
Level == 1 .. MaxLevel

VARIABLES
  quarantine,    \* _quarantine_queue
  samples,       \* length of each protocol's window
  level,         \* _threshold_cache
  latents,       \* merged samples, up to LatentMin
  minSamples,    \* min_samples
  silence        \* history: ticks since anything was scored

vars == <<frozen, sinceIncident, quarantine, samples, level, latents,
          minSamples, silence>>

\* A waiting sample; "spoiled" is history: an incident came while it waited.
Sample == [slot : Slot, proto : Protocol, age : Age, spoiled : BOOLEAN]

TypeOK ==
  /\ frozen \in BOOLEAN
  /\ sinceIncident \in Age /\ silence \in Age
  /\ quarantine \subseteq Sample
  /\ samples \in [Protocol -> 0 .. WindowSize]
  /\ level \in [Protocol -> Level \cup {NoLevel}]
  /\ latents \in 0 .. LatentMin
  /\ minSamples \in MinSamples

Init ==
  /\ ClockInit
  /\ quarantine = {}
  /\ samples = [p \in Protocol |-> 0]
  /\ level = [p \in Protocol |-> NoLevel]
  /\ latents = 0
  /\ minSamples \in MinSamples
  /\ silence = 0
-----------------------------------------------------------------------------
Least(a, b) == IF a <= b THEN a ELSE b

Expired == {e \in quarantine : e.age > Hold}
Waiting == quarantine \ Expired

\* Mutants: the freeze ends one tick early, or never.
ThawsEarly == frozen /\ sinceIncident < Cooldown
ThawsNever == frozen
\* The flush finds the baseline frozen and the cooldown not over.
StaysFrozen == frozen /\ sinceIncident <= Cooldown

\* Mutant: the samples that expired under the freeze are merged as well.
MergedAlways == Expired
\* What the flush merges: under a freeze expired samples are discarded.
Merged == IF StaysFrozen THEN {} ELSE Expired
MergedOf(p) == Cardinality({e \in Merged : e.proto = p})

Counted(p) == Least(samples[p] + MergedOf(p), WindowSize)

\* _update_running_percentile() for each merged sample: the first time the
\* window is large enough its percentile, later a small step down or up for
\* each sample, and never below the median, wherever that has moved.
Steps(p) ==
  IF MergedOf(p) = 0 \/ Counted(p) < minSamples THEN {level[p]}
  ELSE IF level[p] = NoLevel THEN Level
  ELSE {l \in Level : level[p] - MergedOf(p) <= l}

\* _dynamic_threshold(): a protocol that is scored gets its threshold as soon
\* as its window is large enough.
Cached(p, l) == IF l = NoLevel /\ Counted(p) >= minSamples THEN Level ELSE {l}

\* Without a threshold, a scale or a covariance every score is 0.
ColdStart(p, l) == l = NoLevel /\ Counted(p) < minSamples /\ latents' < LatentMin

\* A sample that looks normal waits, unless the baseline is frozen.
Enqueue(p, low) ==
  IF low /\ ~frozen'
  THEN \E s \in Slot \ {e.slot : e \in Waiting} :
         quarantine' = Waiting \cup
           {[slot |-> s, proto |-> p, age |-> 0, spoiled |-> FALSE]}
  ELSE quarantine' = Waiting

\* score(): flush, threshold, score, quarantine.
Score(p, low) ==
  /\ frozen' = StaysFrozen
  /\ samples' = [q \in Protocol |-> Counted(q)]
  /\ latents' = Least(latents + Cardinality(Merged), LatentMin)
  /\ \E moved \in [Protocol -> Level \cup {NoLevel}] :
       /\ \A q \in Protocol : moved[q] \in Steps(q)
       /\ \E l \in Cached(p, moved[p]) :
            /\ level' = [moved EXCEPT ![p] = l]
            /\ ColdStart(p, l) => low
  /\ Enqueue(p, low)
  /\ silence' = 0
  /\ UNCHANGED <<sinceIncident, minSamples>>

\* freeze_baseline(), at every verdict of decide() that is not "normal".
Incident ==
  /\ Strike
  /\ quarantine' = {[e EXCEPT !.spoiled = TRUE] : e \in quarantine}
  /\ UNCHANGED <<samples, level, latents, minSamples, silence>>

\* Mutant: the threshold follows the suppressed sample down as well.
CalibrateBothWays(p) ==
  /\ level[p] # NoLevel
  /\ \E l \in Level : level' = [level EXCEPT ![p] = l]
  /\ UNCHANGED <<frozen, sinceIncident, quarantine, samples, latents,
                 minSamples, silence>>

\* calibrate_on_fp(): a suppressed event above the threshold lifts it.
Calibrate(p) ==
  /\ level[p] # NoLevel
  /\ \E l \in Level : l > level[p] /\ level' = [level EXCEPT ![p] = l]
  /\ UNCHANGED <<frozen, sinceIncident, quarantine, samples, latents,
                 minSamples, silence>>

\* MLEngine.reload_config() hands the scorer the configured minimum; the
\* rest of the scorer survives.
Reconfigure(m) ==
  /\ minSamples' = m
  /\ UNCHANGED <<frozen, sinceIncident, quarantine, samples, level, latents,
                 silence>>

\* A restart of the consumer builds a new scorer.
Restart ==
  /\ Anew
  /\ quarantine' = {}
  /\ samples' = [p \in Protocol |-> 0]
  /\ level' = [p \in Protocol |-> NoLevel]
  /\ latents' = 0
  /\ minSamples' \in MinSamples
  /\ UNCHANGED silence

Tick ==
  /\ Pass
  /\ silence' = Older(silence)
  /\ quarantine' = {[e EXCEPT !.age = Older(@)] : e \in quarantine}
  /\ UNCHANGED <<samples, level, latents, minSamples>>

Traffic == \E p \in Protocol, low \in BOOLEAN : Score(p, low)
Next ==
  \/ Traffic \/ Incident \/ Restart \/ Tick
  \/ \E p \in Protocol : Calibrate(p)
  \/ \E m \in MinSamples : Reconfigure(m)

Spec == Init /\ [][Next]_vars

\* Time passes, and traffic goes on: nothing in the code thaws the baseline
\* on its own.
FairSpec == Spec /\ WF_vars(Tick) /\ WF_vars(Traffic)
-----------------------------------------------------------------------------
(***************************************************************************)
(* Properties                                                              *)
(***************************************************************************)

\* A sample that was waiting when an incident came can only enter the baseline
\* after a silence: unless nothing at all was scored for longer than
\* Cooldown - Hold ticks, the flush under the freeze has discarded it.
\* (_flush_quarantine_unlocked(), the freeze "to prevent contamination")
ContaminationNeedsSilence ==
  [][\A e \in quarantine :
       e.spoiled /\ e \in Merged /\ samples'[e.proto] # samples[e.proto]
         => silence > Cooldown - Hold]_vars

\* While the baseline is frozen no sample enters a window and no threshold
\* falls: whoever sends traffic during an incident cannot make the detector
\* less strict, and only an operator's suppression lifts a threshold.
FrozenHolds ==
  [][frozen /\ frozen' =>
       /\ samples' = samples
       /\ \A p \in Protocol : level[p] # NoLevel => level'[p] >= level[p]]_vars

\* Once incidents stop, a baseline that keeps seeing traffic thaws for good.
Thaws == <>[](sinceIncident > Cooldown) => <>[](~frozen)
=============================================================================
