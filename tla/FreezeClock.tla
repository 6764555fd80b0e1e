------------------------------ MODULE FreezeClock ------------------------------
(***************************************************************************)
(* What the rest of the engine may rely on about the freeze of the anomaly *)
(* baseline: an incident freezes it, and it thaws no earlier than Cooldown *)
(* ticks after the last incident, unless the process restarts.             *)
(* AnomalyBaseline implements this; BaselineRefresh is built on it.        *)
(***************************************************************************)
EXTENDS Integers

CONSTANT
  Cooldown     \* the 300 s of _flush_quarantine_unlocked(), in ticks

ASSUME CooldownAssumption == Cooldown \in Nat

VARIABLES
  frozen,        \* _baseline_frozen
  sinceIncident  \* ticks since _last_incident_time

\* Time passes in ticks and every age stops at Cap, the first age at which no
\* comparison of the code can change any more.
Cap == Cooldown + 1
Age == 0 .. Cap
Older(a) == IF a < Cap THEN a + 1 ELSE Cap

ClockInit == frozen = FALSE /\ sinceIncident = Cap

\* A verdict other than "normal".
Strike == frozen' = TRUE /\ sinceIncident' = 0
Thaw == frozen /\ sinceIncident > Cooldown /\ frozen' = FALSE /\ UNCHANGED sinceIncident
\* A new process: _last_incident_time is 0.0, long ago.
Anew == frozen' = FALSE /\ sinceIncident' = Cap
Pass == sinceIncident' = Older(sinceIncident) /\ UNCHANGED frozen

ClockNext == Strike \/ Thaw \/ Anew \/ Pass
ClockSpec == ClockInit /\ [][ClockNext]_<<frozen, sinceIncident>>
=============================================================================
