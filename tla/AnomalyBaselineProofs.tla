------------------------- MODULE AnomalyBaselineProofs -------------------------
(***************************************************************************)
(* What AnomalyBaseline guarantees for any number of protocols and waiting *)
(* samples, for any window, hold time and cooldown: the types, the two     *)
(* action properties about contamination, and that it implements the clock *)
(* other modules rely on.                                                  *)
(***************************************************************************)
EXTENDS AnomalyBaseline, FunctionTheorems, FiniteSetTheorems, TLAPS

\* No sample is older than what a flush leaves behind plus the time since then:
\* every score has looked at the queue.
Flushed == \A e \in quarantine : e.age <= Hold + silence

\* A sample that was waiting when an incident came is gone by the time the
\* baseline thaws, and it has waited since before the last incident.
SpoiledWaits == \A e \in quarantine : e.spoiled => frozen /\ sinceIncident <= e.age

Inv == TypeOK /\ IsFiniteSet(quarantine) /\ Flushed /\ SpoiledWaits
-----------------------------------------------------------------------------
(***************************************************************************)
(* Operators                                                               *)
(***************************************************************************)

LEMMA AgeType ==
  /\ Cap \in Nat /\ Cooldown \in Nat /\ Hold \in Nat /\ Hold < Cooldown
  /\ Cap = Cooldown + 1 /\ 0 \in Age /\ Cap \in Age
  /\ \A a \in Age : a \in Nat /\ a <= Cap
BY CooldownAssumption, HoldAssumption DEF Cap, Age

\* A tick makes an age older by one, up to Cap, and keeps two ages in order.
LEMMA OlderAge ==
  /\ \A a \in Age : Older(a) \in Age /\ Older(a) <= a + 1 /\ a <= Older(a)
  /\ \A a, b \in Age : a <= b => Older(a) <= Older(b)
  /\ \A a, b \in Age : a <= Hold + b => Older(a) <= Hold + Older(b)
BY AgeType DEF Older, Age

LEMMA LeastType ==
  ASSUME NEW a \in Nat, NEW b \in Nat
  PROVE  Least(a, b) \in 0 .. b /\ (a <= b => Least(a, b) = a)
BY DEF Least

LEMMA SizeTypes ==
  /\ WindowSize \in Nat /\ LatentMin \in Nat /\ MaxLevel \in Nat
  /\ Level \subseteq Nat /\ NoLevel \notin Level /\ NoLevel \in Nat
  /\ 0 \in 0 .. WindowSize /\ 0 \in 0 .. LatentMin
BY SizeAssumption DEF Level, NoLevel

\* The image of a finite set is finite.
LEMMA FiniteImages ==
  ASSUME IsFiniteSet(quarantine)
  PROVE  /\ IsFiniteSet({[e EXCEPT !.spoiled = TRUE] : e \in quarantine})
         /\ IsFiniteSet({[e EXCEPT !.age = Older(@)] : e \in quarantine})
<1> DEFINE Spoil == [e \in quarantine |-> [e EXCEPT !.spoiled = TRUE]]
           Aging == [e \in quarantine |-> [e EXCEPT !.age = Older(@)]]
           Spoiled == {[e EXCEPT !.spoiled = TRUE] : e \in quarantine}
           Aged == {[e EXCEPT !.age = Older(@)] : e \in quarantine}
<1>1. Spoil \in Surjection(quarantine, Spoiled)
  BY DEF Surjection
<1>2. Aging \in Surjection(quarantine, Aged)
  BY DEF Surjection
<1> HIDE DEF Spoil, Aging, Spoiled, Aged
<1>3. IsFiniteSet(Spoiled) /\ IsFiniteSet(Aged)
  BY <1>1, <1>2, FS_Surjection
<1> QED
  BY <1>3 DEF Spoiled, Aged

\* What a flush takes and what it leaves.
LEMMA FlushSets ==
  ASSUME TypeOK, IsFiniteSet(quarantine)
  PROVE  /\ Waiting \subseteq quarantine /\ Merged \subseteq quarantine
         /\ \A e \in Waiting : e.age <= Hold
         /\ \A e \in Merged : e.age > Hold
         /\ IsFiniteSet(Waiting) /\ Cardinality(Merged) \in Nat
         /\ \A p : MergedOf(p) \in Nat
<1>1. Waiting \subseteq quarantine /\ Merged \subseteq quarantine
  BY DEF Waiting, Merged, Expired
<1>2. \A e \in quarantine : e.age \in Nat
  BY AgeType DEF TypeOK, Sample
<1>3. \A e \in Waiting : e.age <= Hold
  BY <1>2, AgeType DEF Waiting, Expired
<1>4. \A e \in Merged : e.age > Hold
  BY DEF Merged, Expired
<1>5. IsFiniteSet(Waiting) /\ IsFiniteSet(Merged)
  BY <1>1, FS_Subset
<1>6. Cardinality(Merged) \in Nat
  BY <1>5, FS_CardinalityType
<1>7. ASSUME NEW p PROVE MergedOf(p) \in Nat
  <2> DEFINE M == {e \in Merged : e.proto = p}
  <2>1. IsFiniteSet(M)
    BY <1>5, FS_Subset
  <2>2. Cardinality(M) \in Nat
    BY <2>1, FS_CardinalityType
  <2> QED
    BY <2>2 DEF MergedOf
<1> QED
  BY <1>1, <1>3, <1>4, <1>5, <1>6, <1>7

\* Under a freeze the windows and the thresholds stay what they are.
LEMMA NothingMerged ==
  ASSUME TypeOK, StaysFrozen
  PROVE  /\ \A p \in Protocol : Counted(p) = samples[p]
         /\ \A p \in Protocol : Steps(p) = {level[p]}
<1>1. \A p : MergedOf(p) = 0
  BY FS_EmptySet DEF MergedOf, Merged
<1>2. ASSUME NEW p \in Protocol PROVE Counted(p) = samples[p]
  <2>1. samples[p] \in 0 .. WindowSize /\ WindowSize \in Nat
    BY SizeTypes DEF TypeOK
  <2> QED
    BY <1>1, <2>1 DEF Counted, Least
<1>3. \A p \in Protocol : Steps(p) = {level[p]}
  BY <1>1 DEF Steps
<1> QED
  BY <1>2, <1>3
-----------------------------------------------------------------------------
(***************************************************************************)
(* The invariant                                                           *)
(***************************************************************************)

\* A score leaves in the queue only what it found there and one new sample.
LEMMA ScoreQueue ==
  ASSUME Inv, NEW p \in Protocol, NEW low \in BOOLEAN, Score(p, low)
  PROVE  /\ quarantine' \subseteq Sample /\ IsFiniteSet(quarantine')
         /\ \A e \in quarantine' : e \in Waiting \/ (e.age = 0 /\ ~e.spoiled)
<1>1. Waiting \subseteq quarantine /\ IsFiniteSet(Waiting) /\ quarantine \subseteq Sample
  BY FlushSets DEF Inv, TypeOK
<1>2. Enqueue(p, low)
  BY DEF Score
<1>3. CASE low /\ ~frozen'
  <2>1. PICK s \in Slot : quarantine' = Waiting \cup
                 {[slot |-> s, proto |-> p, age |-> 0, spoiled |-> FALSE]}
    BY <1>2, <1>3 DEF Enqueue
  <2> DEFINE new == [slot |-> s, proto |-> p, age |-> 0, spoiled |-> FALSE]
  <2>2. new \in Sample /\ new.age = 0 /\ ~new.spoiled
    BY AgeType DEF Sample
  <2>3. quarantine' = Waiting \cup {new}
    BY <2>1
  <2> HIDE DEF new
  <2>4. IsFiniteSet(quarantine')
    BY <1>1, <2>3, FS_AddElement
  <2> QED
    BY <1>1, <2>2, <2>3, <2>4
<1>4. CASE ~(low /\ ~frozen')
  BY <1>1, <1>2, <1>4 DEF Enqueue
<1> QED
  BY <1>3, <1>4

LEMMA ScoreStep ==
  ASSUME Inv, NEW p \in Protocol, NEW low \in BOOLEAN, Score(p, low)
  PROVE  Inv'
<1>1. TypeOK /\ IsFiniteSet(quarantine)
  BY DEF Inv
<1>2. TypeOK'
  <2>1. samples' \in [Protocol -> 0 .. WindowSize]
    <3>1. ASSUME NEW q \in Protocol PROVE Counted(q) \in 0 .. WindowSize
      <4>1. samples[q] \in Nat /\ MergedOf(q) \in Nat /\ WindowSize \in Nat
        BY <1>1, FlushSets, SizeTypes DEF TypeOK
      <4>2. samples[q] + MergedOf(q) \in Nat
        BY <4>1
      <4> QED
        BY <4>1, <4>2, LeastType DEF Counted
    <3> QED
      BY <3>1 DEF Score
  <2>2. latents' \in 0 .. LatentMin
    <3>1. latents \in Nat /\ Cardinality(Merged) \in Nat /\ LatentMin \in Nat
      BY <1>1, FlushSets, SizeTypes DEF TypeOK
    <3>2. latents + Cardinality(Merged) \in Nat
      BY <3>1
    <3> QED
      BY <3>1, <3>2, LeastType DEF Score
  <2>3. level' \in [Protocol -> Level \cup {NoLevel}]
    <3>1. PICK moved \in [Protocol -> Level \cup {NoLevel}] :
            \E l \in Cached(p, moved[p]) : level' = [moved EXCEPT ![p] = l]
      BY DEF Score
    <3>2. Cached(p, moved[p]) \subseteq Level \cup {NoLevel}
      BY <3>1 DEF Cached
    <3> QED
      BY <3>1, <3>2
  <2>4. frozen' \in BOOLEAN /\ sinceIncident' \in Age /\ silence' \in Age
        /\ minSamples' \in MinSamples
    BY <1>1, AgeType DEF Score, TypeOK, StaysFrozen
  <2> QED
    BY <2>1, <2>2, <2>3, <2>4, ScoreQueue DEF TypeOK
<1>3. silence' = 0 /\ frozen' = StaysFrozen /\ sinceIncident' = sinceIncident
  BY DEF Score
<1>4. Flushed'
  <2>1. \A e \in quarantine' : e.age <= Hold + 0
    BY ScoreQueue, FlushSets, <1>1, AgeType
  <2> QED
    BY <1>3, <2>1 DEF Flushed
<1>5. SpoiledWaits'
  <2>1. ASSUME NEW e \in quarantine', e.spoiled
        PROVE  frozen' /\ sinceIncident' <= e.age
    <3>1. e \in Waiting
      BY <2>1, ScoreQueue
    <3>2. e \in quarantine /\ e.age <= Hold
      BY <1>1, <3>1, FlushSets
    <3>3. frozen /\ sinceIncident <= e.age
      BY <2>1, <3>2 DEF Inv, SpoiledWaits
    <3>4. sinceIncident \in Nat /\ e.age \in Nat
      BY <3>2, AgeType DEF Inv, TypeOK, Sample
    <3>5. sinceIncident <= Cooldown
      BY <3>2, <3>3, <3>4, AgeType
    <3> QED
      BY <1>3, <3>3, <3>5 DEF StaysFrozen
  <2> QED
    BY <2>1 DEF SpoiledWaits
<1> QED
  BY <1>2, <1>4, <1>5, ScoreQueue DEF Inv

LEMMA IncidentStep == Inv /\ Incident => Inv'
<1> SUFFICES ASSUME Inv, Incident PROVE Inv'
  OBVIOUS
<1>1. quarantine' = {[e EXCEPT !.spoiled = TRUE] : e \in quarantine}
  BY DEF Incident
<1>2. IsFiniteSet(quarantine')
  BY <1>1, FiniteImages DEF Inv
<1>3. ASSUME NEW e \in quarantine'
      PROVE  e \in Sample /\ \E d \in quarantine : e.age = d.age
  BY <1>1 DEF Inv, TypeOK, Sample
<1>4. frozen' /\ sinceIncident' = 0 /\ silence' = silence
  BY DEF Incident, Strike
<1>5. TypeOK'
  BY <1>3, <1>4, AgeType DEF Inv, TypeOK, Incident, Strike
<1>6. Flushed'
  BY <1>3, <1>4 DEF Inv, Flushed
<1>7. \A e \in quarantine' : e.age \in Nat
  BY <1>3, AgeType DEF Sample
<1>8. SpoiledWaits'
  BY <1>4, <1>7 DEF SpoiledWaits
<1> QED
  BY <1>2, <1>5, <1>6, <1>8 DEF Inv

LEMMA TickStep == Inv /\ Tick => Inv'
<1> SUFFICES ASSUME Inv, Tick PROVE Inv'
  OBVIOUS
<1>1. quarantine' = {[e EXCEPT !.age = Older(@)] : e \in quarantine}
  BY DEF Tick
<1>2. IsFiniteSet(quarantine')
  BY <1>1, FiniteImages DEF Inv
<1>3. ASSUME NEW e \in quarantine'
      PROVE  /\ e \in Sample
             /\ \E d \in quarantine : /\ d.age \in Age /\ e.age = Older(d.age)
                                      /\ e.spoiled = d.spoiled
  <2>1. PICK d \in quarantine : e = [d EXCEPT !.age = Older(@)]
    BY <1>1
  <2>2. d \in Sample /\ Older(d.age) \in Age
    BY OlderAge DEF Inv, TypeOK, Sample
  <2> QED
    BY <2>1, <2>2 DEF Sample
<1>4. frozen' = frozen /\ sinceIncident' = Older(sinceIncident)
      /\ silence' = Older(silence)
  BY DEF Tick, Pass
<1>5. sinceIncident \in Age /\ silence \in Age
  BY DEF Inv, TypeOK
<1>6. TypeOK'
  BY <1>3, <1>4, <1>5, OlderAge DEF Inv, TypeOK, Tick
<1>7. Flushed'
  BY <1>3, <1>4, <1>5, OlderAge DEF Inv, Flushed
<1>8. SpoiledWaits'
  BY <1>3, <1>4, <1>5, OlderAge DEF Inv, SpoiledWaits
<1> QED
  BY <1>2, <1>6, <1>7, <1>8 DEF Inv

\* What does not touch the queue or the clock cannot break the invariant, and a
\* new process starts with an empty queue.
LEMMA OtherSteps ==
  ASSUME Inv,
         \/ Restart
         \/ \E p \in Protocol : Calibrate(p)
         \/ \E m \in MinSamples : Reconfigure(m)
         \/ UNCHANGED vars
  PROVE  Inv'
<1>1. CASE Restart
  <2>1. quarantine' = {} /\ frozen' = FALSE /\ sinceIncident' = Cap /\ silence' = silence
    BY <1>1 DEF Restart, Anew
  <2>2. TypeOK'
    <3>1. /\ samples' \in [Protocol -> 0 .. WindowSize]
          /\ level' \in [Protocol -> Level \cup {NoLevel}]
          /\ latents' \in 0 .. LatentMin /\ minSamples' \in MinSamples
      BY <1>1, SizeTypes DEF Restart
    <3>2. frozen' \in BOOLEAN /\ sinceIncident' \in Age /\ silence' \in Age
      BY <2>1, AgeType DEF Inv, TypeOK
    <3> QED
      BY <2>1, <3>1, <3>2 DEF TypeOK
  <2>3. Flushed' /\ SpoiledWaits'
    BY <2>1 DEF Flushed, SpoiledWaits
  <2> QED
    BY <2>1, <2>2, <2>3, FS_EmptySet DEF Inv
<1>2. CASE \E p \in Protocol : Calibrate(p)
  BY <1>2 DEF Inv, TypeOK, Flushed, SpoiledWaits, Calibrate
<1>3. CASE \E m \in MinSamples : Reconfigure(m)
  BY <1>3 DEF Inv, TypeOK, Flushed, SpoiledWaits, Reconfigure
<1>4. CASE UNCHANGED vars
  BY <1>4 DEF Inv, TypeOK, Flushed, SpoiledWaits, vars
<1> QED
  BY <1>1, <1>2, <1>3, <1>4

LEMMA InvInit == Init => Inv
<1> SUFFICES ASSUME Init PROVE Inv
  OBVIOUS
<1>1. TypeOK
  <2>1. /\ samples \in [Protocol -> 0 .. WindowSize]
        /\ level \in [Protocol -> Level \cup {NoLevel}]
        /\ latents \in 0 .. LatentMin /\ minSamples \in MinSamples
    BY SizeTypes DEF Init
  <2>2. frozen \in BOOLEAN /\ sinceIncident \in Age /\ silence \in Age
    BY AgeType DEF Init, ClockInit
  <2> QED
    BY <2>1, <2>2 DEF Init, TypeOK
<1>2. Flushed /\ SpoiledWaits
  BY DEF Init, Flushed, SpoiledWaits
<1> QED
  BY <1>1, <1>2, FS_EmptySet DEF Inv, Init

LEMMA InvStep == Inv /\ [Next]_vars => Inv'
BY ScoreStep, IncidentStep, TickStep, OtherSteps DEF Next, Traffic

\* The types hold for every value of the constants.
THEOREM TypesInvariant == Spec => []TypeOK
<1>1. Inv => TypeOK
  BY DEF Inv
<1> QED
  BY <1>1, InvInit, InvStep, PTL DEF Spec
-----------------------------------------------------------------------------
(***************************************************************************)
(* The action properties                                                   *)
(***************************************************************************)

\* Only a flush changes a window, and the samples it merges cannot have been
\* waiting at an incident unless nothing was scored for Cap ticks less Hold.
LEMMA MergedNeedsSilence ==
  ASSUME Inv, NEW e \in quarantine, e.spoiled, e \in Merged
  PROVE  silence > Cooldown - Hold
<1>1. TypeOK /\ IsFiniteSet(quarantine)
  BY DEF Inv
<1>2. ~StaysFrozen
  BY DEF Merged
<1>3. frozen /\ sinceIncident <= e.age /\ e.age <= Hold + silence
  BY DEF Inv, SpoiledWaits, Flushed
<1>4. sinceIncident \in Nat /\ silence \in Nat /\ e.age \in Nat
  BY <1>1, AgeType DEF TypeOK, Sample
<1>5. sinceIncident > Cooldown
  BY <1>2, <1>3, <1>4, AgeType DEF StaysFrozen
<1> QED
  BY <1>3, <1>4, <1>5, AgeType

\* A sample that was waiting when an incident came enters the baseline only
\* after a silence longer than Cooldown - Hold.
THEOREM ContaminationTheorem == Spec => ContaminationNeedsSilence
<1>1. ASSUME Inv, [Next]_vars
      PROVE  \A e \in quarantine :
               e.spoiled /\ e \in Merged /\ samples'[e.proto] # samples[e.proto]
                 => silence > Cooldown - Hold
  BY <1>1, MergedNeedsSilence
<1> QED
  BY <1>1, InvInit, InvStep, PTL DEF Spec, ContaminationNeedsSilence

\* While the baseline is frozen no window changes and no threshold falls.
LEMMA FrozenStep ==
  ASSUME TypeOK, [Next]_vars, frozen, frozen'
  PROVE  /\ samples' = samples
         /\ \A p \in Protocol : level[p] # NoLevel => level'[p] >= level[p]
<1>1. \A p \in Protocol : level[p] \in Nat
  BY SizeTypes DEF TypeOK
<1>2. ASSUME NEW p \in Protocol, NEW low \in BOOLEAN, Score(p, low)
      PROVE  /\ samples' = samples
             /\ \A q \in Protocol : level[q] # NoLevel => level'[q] >= level[q]
  <2>1. StaysFrozen
    BY <1>2 DEF Score
  <2>2. samples' = [q \in Protocol |-> samples[q]]
    BY <1>2, <2>1, NothingMerged DEF Score
  <2>3. samples' = samples
    BY <2>2 DEF TypeOK
  <2>4. PICK moved \in [Protocol -> Level \cup {NoLevel}] :
          /\ \A q \in Protocol : moved[q] \in Steps(q)
          /\ \E l \in Cached(p, moved[p]) : level' = [moved EXCEPT ![p] = l]
    BY <1>2 DEF Score
  <2>5. \A q \in Protocol : moved[q] = level[q]
    BY <2>1, <2>4, NothingMerged
  <2>6. PICK l \in Cached(p, level[p]) : level' = [moved EXCEPT ![p] = l]
    BY <2>4, <2>5
  <2>7. ASSUME NEW q \in Protocol, level[q] # NoLevel PROVE level'[q] >= level[q]
    <3>1. q = p => l = level[p]
      BY <2>6, <2>7 DEF Cached
    <3>2. level'[q] = IF q = p THEN l ELSE moved[q]
      BY <2>6
    <3>3. level'[q] = level[q]
      BY <2>5, <3>1, <3>2
    <3> QED
      BY <1>1, <3>3
  <2> QED
    BY <2>3, <2>7
<1>3. ASSUME NEW p \in Protocol, Calibrate(p)
      PROVE  /\ samples' = samples
             /\ \A q \in Protocol : level[q] # NoLevel => level'[q] >= level[q]
  <2>1. PICK l \in Level : l > level[p] /\ level' = [level EXCEPT ![p] = l]
    BY <1>3 DEF Calibrate
  <2>2. l \in Nat
    BY SizeTypes
  <2>3. ASSUME NEW q \in Protocol PROVE level'[q] >= level[q]
    <3>1. level'[q] = IF q = p THEN l ELSE level[q]
      BY <2>1 DEF TypeOK
    <3> QED
      BY <1>1, <2>1, <2>2, <3>1
  <2> QED
    BY <1>3, <2>3 DEF Calibrate
<1>4. CASE Incident \/ Tick \/ UNCHANGED vars \/ \E m \in MinSamples : Reconfigure(m)
  <2>1. samples' = samples /\ level' = level
    BY <1>4 DEF Incident, Tick, Reconfigure, vars
  <2> QED
    BY <1>1, <2>1
<1>5. ~Restart
  BY DEF Restart, Anew
<1> QED
  BY <1>2, <1>3, <1>4, <1>5 DEF Next, Traffic

\* Whoever sends traffic while the baseline is frozen cannot make the detector
\* less strict.
THEOREM FrozenTheorem == Spec => FrozenHolds
<1>1. ASSUME Inv, [Next]_vars
      PROVE  frozen /\ frozen' =>
               /\ samples' = samples
               /\ \A p \in Protocol : level[p] # NoLevel => level'[p] >= level[p]
  BY <1>1, FrozenStep DEF Inv
<1> QED
  BY <1>1, InvInit, InvStep, PTL DEF Spec, FrozenHolds
-----------------------------------------------------------------------------
(***************************************************************************)
(* The refinement                                                          *)
(***************************************************************************)

\* The scorer implements the clock BaselineRefresh is built on: an incident
\* freezes, and nothing thaws before Cooldown ticks have passed.
THEOREM ClockRefinement == Spec => ClockSpec
<1>1. Init => ClockInit
  BY DEF Init
<1>2. ASSUME Inv, [Next]_vars
      PROVE  [ClockNext]_<<frozen, sinceIncident>>
  <2> USE DEF ClockNext
  <2>1. ASSUME NEW p \in Protocol, NEW low \in BOOLEAN, Score(p, low)
        PROVE  [ClockNext]_<<frozen, sinceIncident>>
    <3>1. frozen' = StaysFrozen /\ sinceIncident' = sinceIncident
      BY <2>1 DEF Score
    <3>2. frozen \in BOOLEAN /\ sinceIncident \in Nat
      BY <1>2, AgeType DEF Inv, TypeOK
    <3>3. CASE StaysFrozen
      BY <3>1, <3>2, <3>3 DEF StaysFrozen
    <3>4. CASE ~StaysFrozen /\ frozen
      <4>1. frozen' = FALSE
        BY <3>1, <3>4
      <4>2. sinceIncident > Cooldown
        BY <3>2, <3>4, AgeType DEF StaysFrozen
      <4> QED
        BY <3>1, <3>4, <4>1, <4>2 DEF Thaw
    <3>5. CASE ~StaysFrozen /\ ~frozen
      BY <3>1, <3>2, <3>5 DEF StaysFrozen
    <3> QED
      BY <3>3, <3>4, <3>5
  <2>2. CASE Incident
    BY <2>2 DEF Incident
  <2>3. CASE Restart
    BY <2>3 DEF Restart
  <2>4. CASE Tick
    BY <2>4 DEF Tick
  <2>5. CASE \/ UNCHANGED vars
             \/ \E p \in Protocol : Calibrate(p)
             \/ \E m \in MinSamples : Reconfigure(m)
    BY <2>5 DEF vars, Calibrate, Reconfigure
  <2> QED
    BY <1>2, <2>1, <2>2, <2>3, <2>4, <2>5 DEF Next, Traffic
<1> QED
  BY <1>1, <1>2, InvInit, InvStep, PTL DEF Spec, ClockSpec
=============================================================================
