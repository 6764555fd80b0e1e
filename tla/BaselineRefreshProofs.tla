------------------------- MODULE BaselineRefreshProofs -------------------------
(***************************************************************************)
(* What BaselineRefresh guarantees for any number of refresh tasks and     *)
(* schemas and for any bounds of the buffer.                               *)
(***************************************************************************)
EXTENDS BaselineRefresh, TLAPS

\* The message the listener waits with has passed the checks before the key.
MessageChecked == message # None => message.sender = "peer" /\ message.fresh

\* An incident that froze the baseline came while the task slept.
FrozenWhileAsleep ==
  \A t \in Task : Sleeping(t) /\ frozen => sinceIncident <= task[t].age

Inv == TypeOK /\ OneRefresh /\ TrustedOrigin /\ MessageChecked /\ FrozenWhileAsleep
-----------------------------------------------------------------------------
(***************************************************************************)
(* Operators                                                               *)
(***************************************************************************)

LEMMA AgeType ==
  /\ Cap \in Nat /\ 0 \in Age /\ Cap \in Age
  /\ \A a \in Age : a \in Nat
BY CooldownAssumption DEF Cap, Age

LEMMA OlderAge ==
  /\ \A a \in Age : Older(a) \in Age
  /\ \A a, b \in Age : a <= b => Older(a) <= Older(b)
BY AgeType DEF Older, Age, Cap

LEMMA IdleType == Idle \in RefreshTask /\ Idle.phase = "none"
BY AgeType DEF Idle, RefreshTask

LEMMA LoadedType ==
  ASSUME NEW s \in Schema
  PROVE  /\ Loaded(s) \in Detector
         /\ {Loaded(s).threshold, Loaded(s).encoder, Loaded(s).decoder} = {"file"}
BY DEF Loaded, Detector, Origin

\* A refresh changes only where the threshold comes from.
LEMMA RefreshedType ==
  ASSUME TypeOK, detector # None, NEW t \in Task
  PROVE  /\ Refreshed(t) \in Detector
         /\ Refreshed(t).threshold \in {"own", "foreign"}
         /\ Refreshed(t).encoder = detector.encoder
         /\ Refreshed(t).decoder = detector.decoder
BY DEF TypeOK, Refreshed, Detector, Origin

\* A message that was checked and signed comes from a peer.
LEMMA OriginChecked ==
  ASSUME NEW m, m.sender = "peer", m.fresh, m.signed
  PROVE  OriginOf(m) = "peer"
BY DEF OriginOf
\* An empty buffer and one of a single vector fit; so does one more vector where
\* there is room.
LEMMA BufferType ==
  /\ <<>> \in Seq(Schema) /\ Len(<<>>) <= BufferMax
  /\ \A s \in Schema : <<s>> \in Seq(Schema) /\ Len(<<s>>) <= BufferMax
  /\ \A b \in Seq(Schema), s \in Schema :
       Len(b) < BufferMax =>
         Append(b, s) \in Seq(Schema) /\ Len(Append(b, s)) <= BufferMax
<1>1. BufferMax \in Nat /\ 1 <= BufferMax
  BY BufferAssumption
<1>2. <<>> \in Seq(Schema) /\ Len(<<>>) = 0
  OBVIOUS
<1>3. \A s \in Schema : <<s>> \in Seq(Schema) /\ Len(<<s>>) = 1
  OBVIOUS
<1>4. ASSUME NEW b \in Seq(Schema), NEW s \in Schema
      PROVE  Append(b, s) \in Seq(Schema) /\ Len(Append(b, s)) = Len(b) + 1 /\ Len(b) \in Nat
  OBVIOUS
<1> QED
  BY <1>1, <1>2, <1>3, <1>4
-----------------------------------------------------------------------------
(***************************************************************************)
(* Steps                                                                   *)
(***************************************************************************)

\* Creating a task starts no refresh.
LEMMA JudgeStep ==
  ASSUME Inv, NEW drift \in BOOLEAN, NEW vector \in BOOLEAN, JudgeNormal(drift, vector)
  PROVE  Inv'
<1>0. /\ UNCHANGED <<frozen, sinceIncident, schema, detector, updating,
                    subscribed, message, suppressed>>
      /\ monitored' \in BOOLEAN
  BY DEF JudgeNormal, broker
<1>1. /\ task' \in [Task -> RefreshTask]
      /\ \A t \in Task : task'[t] = task[t] \/ task'[t].phase = "created"
  <2>1. CASE UNCHANGED task
    BY <2>1 DEF Inv, TypeOK
  <2>2. CASE StartsRefresh(drift) /\ \E t \in Task : Create(t)
    <3>1. PICK t \in Task :
            task' = [task EXCEPT ![t] = [phase |-> "created", schema |-> buffer[1], age |-> 0]]
      BY <2>2 DEF Create
    <3>2. buffer \in Seq(Schema) /\ Len(buffer) \in Nat /\ Len(buffer) > 0
      BY <2>2, BufferAssumption DEF Inv, TypeOK, StartsRefresh
    <3>3. buffer[1] \in Schema
      BY <3>2
    <3>4. [phase |-> "created", schema |-> buffer[1], age |-> 0] \in RefreshTask
      BY <3>3, AgeType DEF RefreshTask
    <3> QED
      BY <3>1, <3>4 DEF Inv, TypeOK
  <2> QED
    BY <2>1, <2>2 DEF JudgeNormal
<1>2. buffer' \in Seq(Schema) /\ Len(buffer') <= BufferMax
  <2>1. schema \in Schema /\ buffer \in Seq(Schema) /\ Len(buffer) \in Nat
        /\ Len(buffer) <= BufferMax /\ BufferMax \in Nat /\ 1 <= BufferMax
    BY BufferAssumption DEF Inv, TypeOK
  <2>2. buffer' \in {<<>>, <<schema>>, buffer} \/ (Room /\ buffer' = Append(buffer, schema))
    BY DEF JudgeNormal
  <2> QED
    BY <2>1, <2>2, BufferType DEF Room
<1>3. TypeOK'
  BY <1>0, <1>1, <1>2 DEF Inv, TypeOK
<1>4. \A t \in Task : Sleeping(t)' => Sleeping(t) /\ task'[t] = task[t]
  BY <1>1 DEF Sleeping
<1>5. OneRefresh'
  BY <1>0, <1>4 DEF Inv, OneRefresh
<1>6. FrozenWhileAsleep'
  BY <1>0, <1>4 DEF Inv, FrozenWhileAsleep
<1>7. TrustedOrigin' /\ MessageChecked'
  BY <1>0 DEF Inv, TrustedOrigin, MessageChecked
<1> QED
  BY <1>3, <1>5, <1>6, <1>7 DEF Inv

\* A refresh starts only when none is under way and the baseline is not frozen.
LEMMA StartStep ==
  ASSUME Inv, NEW t \in Task, RefreshStart(t)
  PROVE  Inv'
<1>0. /\ UNCHANGED <<frozen, sinceIncident, schema, detector, monitored, buffer,
                    subscribed, message, suppressed>>
      /\ frozen \in BOOLEAN /\ sinceIncident \in Age
  BY DEF RefreshStart, scores, broker, Inv, TypeOK
<1>1. TrustedOrigin' /\ MessageChecked'
  BY <1>0 DEF Inv, TrustedOrigin, MessageChecked
<1>2. CASE updating \/ frozen
  <2>1. task' = [task EXCEPT ![t] = Idle] /\ updating' = updating
    BY <1>2 DEF RefreshStart
  <2>2. TypeOK'
    BY <1>0, <2>1, IdleType DEF Inv, TypeOK
  <2>3. \A u \in Task : Sleeping(u)' => Sleeping(u) /\ task'[u] = task[u]
    BY <2>1, IdleType DEF Inv, TypeOK, Sleeping
  <2>4. OneRefresh' /\ FrozenWhileAsleep'
    BY <1>0, <2>1, <2>3 DEF Inv, OneRefresh, FrozenWhileAsleep
  <2> QED
    BY <1>1, <2>2, <2>4 DEF Inv
<1>3. CASE ~(updating \/ frozen)
  <2>1. task' = [task EXCEPT ![t].phase = "sleeping"] /\ updating' = TRUE
    BY <1>3 DEF RefreshStart
  <2>2. TypeOK'
    BY <1>0, <2>1 DEF Inv, TypeOK, RefreshTask
  <2>3. \A u \in Task : ~Sleeping(u)
    BY <1>3 DEF Inv, OneRefresh
  <2>4. \A u \in Task : Sleeping(u)' => u = t
    BY <2>1, <2>3 DEF Inv, TypeOK, Sleeping
  <2>5. OneRefresh'
    BY <2>1, <2>4 DEF OneRefresh
  <2>6. FrozenWhileAsleep'
    BY <1>0, <1>3 DEF FrozenWhileAsleep
  <2> QED
    BY <1>1, <2>2, <2>5, <2>6 DEF Inv
<1> QED
  BY <1>2, <1>3

LEMMA EndStep ==
  ASSUME Inv, NEW t \in Task, RefreshEnd(t)
  PROVE  Inv'
<1>0. /\ UNCHANGED <<frozen, sinceIncident, schema, monitored, buffer,
                    subscribed, message, suppressed>>
      /\ task' = [task EXCEPT ![t] = Idle] /\ updating' = FALSE
      /\ detector' = detector \/ (detector # None /\ detector' = Refreshed(t))
  BY DEF RefreshEnd, scores, broker
<1>1. detector' \in Detector \cup {None} /\ TrustedOrigin'
  BY <1>0, RefreshedType DEF Inv, TypeOK, TrustedOrigin
<1>2. TypeOK'
  BY <1>0, <1>1, IdleType DEF Inv, TypeOK
<1>3. \A u \in Task : ~Sleeping(u)'
  <2>1. Sleeping(t)
    BY DEF RefreshEnd, Sleeping
  <2>2. \A u \in Task : Sleeping(u) => u = t
    BY <2>1 DEF Inv, OneRefresh
  <2> QED
    BY <1>0, <2>2, IdleType DEF Inv, TypeOK, Sleeping
<1>4. OneRefresh' /\ FrozenWhileAsleep'
  BY <1>3 DEF OneRefresh, FrozenWhileAsleep
<1>5. MessageChecked'
  BY <1>0 DEF Inv, MessageChecked
<1> QED
  BY <1>1, <1>2, <1>4, <1>5 DEF Inv

\* The broker writes to the detector only what a checked and signed message says.
LEMMA BrokerStep ==
  ASSUME Inv,
         \/ Listen \/ LoseSubscription \/ Reject \/ Apply
         \/ \E m \in Message : Receive(m)
  PROVE  Inv'
<1>0. /\ UNCHANGED <<frozen, sinceIncident, schema, monitored, buffer, task, updating>>
      /\ subscribed' \in BOOLEAN /\ suppressed' \in BOOLEAN
      /\ message' \in {message, None} \/ message' \in Message
  BY DEF Listen, LoseSubscription, Reject, Apply, Receive, scores, refresh, Inv, TypeOK
<1>1. OneRefresh' /\ FrozenWhileAsleep'
  BY <1>0 DEF Inv, OneRefresh, FrozenWhileAsleep, Sleeping
<1>2. MessageChecked'
  <2>1. CASE \E m \in Message : Receive(m)
    BY <2>1 DEF Receive, Message, MessageChecked
  <2>2. CASE Listen \/ LoseSubscription \/ Reject \/ Apply
    BY <2>2 DEF Listen, LoseSubscription, Reject, Apply, Inv, MessageChecked
  <2> QED
    BY <2>1, <2>2
<1>3. detector' \in Detector \cup {None} /\ TrustedOrigin'
  <2>1. CASE Apply
    <3>1. OriginOf(message) = "peer"
      BY <2>1, OriginChecked DEF Apply, Inv, MessageChecked
    <3>2. \/ detector' = detector
          \/ /\ detector # None
             /\ \/ detector' = [detector EXCEPT !.threshold = "peer"]
                \/ detector' = [detector EXCEPT !.encoder = "peer"]
                \/ detector' = [detector EXCEPT !.encoder = "peer", !.decoder = "peer"]
      BY <2>1, <3>1 DEF Apply
    <3> QED
      BY <3>2 DEF Inv, TypeOK, TrustedOrigin, Detector, Origin
  <2>2. CASE Listen \/ LoseSubscription \/ Reject \/ \E m \in Message : Receive(m)
    <3>1. detector' = detector
      BY <2>2 DEF Listen, LoseSubscription, Reject, Receive
    <3> QED
      BY <3>1 DEF Inv, TypeOK, TrustedOrigin
  <2> QED
    BY <2>1, <2>2
<1>4. TypeOK'
  BY <1>0, <1>3 DEF Inv, TypeOK
<1> QED
  BY <1>1, <1>2, <1>3, <1>4 DEF Inv

LEMMA ReloadStep ==
  ASSUME Inv, NEW s \in Schema, Reload(s)
  PROVE  Inv'
<1>0. /\ UNCHANGED <<frozen, sinceIncident, monitored, buffer, task, updating,
                    subscribed, message, suppressed>>
      /\ schema' = s /\ detector' \in {detector, None, Loaded(s)}
  BY DEF Reload, scores, refresh, broker
<1>1. TypeOK' /\ TrustedOrigin'
  BY <1>0, LoadedType DEF Inv, TypeOK, TrustedOrigin
<1>2. OneRefresh' /\ FrozenWhileAsleep' /\ MessageChecked'
  BY <1>0 DEF Inv, OneRefresh, FrozenWhileAsleep, MessageChecked, Sleeping
<1> QED
  BY <1>1, <1>2 DEF Inv

LEMMA RestartStep ==
  ASSUME Inv, Restart
  PROVE  Inv'
<1>0. /\ frozen' = FALSE /\ sinceIncident' = Cap /\ schema' \in Schema
      /\ detector' \in {None, Loaded(schema')}
      /\ monitored' = FALSE /\ buffer' = <<>>
      /\ task' = [t \in Task |-> Idle] /\ updating' = FALSE
      /\ subscribed' = FALSE /\ message' = None /\ suppressed' = suppressed
  BY DEF Restart, Anew
<1>1. detector' \in Detector \cup {None} /\ TrustedOrigin'
  BY <1>0, LoadedType DEF TrustedOrigin
<1>2. TypeOK'
  BY <1>0, <1>1, AgeType, IdleType, BufferType DEF Inv, TypeOK
<1>3. OneRefresh' /\ FrozenWhileAsleep' /\ MessageChecked'
  BY <1>0, IdleType DEF OneRefresh, FrozenWhileAsleep, MessageChecked, Sleeping
<1> QED
  BY <1>1, <1>2, <1>3 DEF Inv

\* An incident is younger than any sleep, and both grow older together.
LEMMA ClockStep ==
  ASSUME Inv, Incident \/ BaselineThaws \/ Tick
  PROVE  Inv'
<1> DEFINE Same == UNCHANGED <<schema, detector, monitored, buffer, updating,
                               subscribed, message, suppressed>>
<1>1. CASE Incident
  <2>1. Same /\ task' = task /\ frozen' = TRUE /\ sinceIncident' = 0
    BY <1>1 DEF Incident, Strike, Others, scores, refresh, broker
  <2>2. TypeOK'
    BY <2>1, AgeType DEF Inv, TypeOK
  <2>3. \A t \in Task : task[t].age \in Nat
    BY AgeType DEF Inv, TypeOK, RefreshTask
  <2>4. FrozenWhileAsleep'
    BY <2>1, <2>3 DEF FrozenWhileAsleep
  <2> QED
    BY <2>1, <2>2, <2>4 DEF Inv, OneRefresh, TrustedOrigin, MessageChecked, Sleeping
<1>2. CASE BaselineThaws
  <2>1. Same /\ task' = task /\ frozen' = FALSE /\ sinceIncident' = sinceIncident
    BY <1>2 DEF BaselineThaws, Thaw, Others, scores, refresh, broker
  <2> QED
    BY <2>1 DEF Inv, TypeOK, OneRefresh, TrustedOrigin, MessageChecked,
      FrozenWhileAsleep, Sleeping
<1>3. CASE Tick
  <2>1. /\ Same /\ task' = [t \in Task |-> Slept(task[t])]
        /\ frozen' = frozen /\ sinceIncident' = Older(sinceIncident)
    BY <1>3 DEF Tick, Pass, scores, broker
  <2>2. ASSUME NEW t \in Task
        PROVE  /\ Slept(task[t]) \in RefreshTask
               /\ Slept(task[t]).phase = task[t].phase
               /\ Sleeping(t) => Slept(task[t]).age = Older(task[t].age)
    <3>1. task[t] \in RefreshTask /\ Older(task[t].age) \in Age
      BY OlderAge DEF Inv, TypeOK, RefreshTask
    <3> QED
      BY <3>1 DEF Slept, Sleeping, RefreshTask
  <2>3. \A t \in Task : Sleeping(t)' <=> Sleeping(t)
    BY <2>1, <2>2 DEF Sleeping
  <2>4. TypeOK'
    BY <2>1, <2>2, OlderAge DEF Inv, TypeOK
  <2>5. OneRefresh'
    BY <2>1, <2>3 DEF Inv, OneRefresh
  <2>6. FrozenWhileAsleep'
    <3>1. ASSUME NEW t \in Task, Sleeping(t)', frozen'
          PROVE  sinceIncident' <= task'[t].age
      <4>1. Sleeping(t) /\ sinceIncident <= task[t].age
        BY <2>1, <2>3, <3>1 DEF Inv, FrozenWhileAsleep
      <4>2. sinceIncident \in Age /\ task[t].age \in Age
        BY DEF Inv, TypeOK, RefreshTask
      <4>3. Older(sinceIncident) <= Older(task[t].age)
        BY <4>1, <4>2, OlderAge
      <4> QED
        BY <2>1, <2>2, <4>1, <4>3
    <3> QED
      BY <3>1 DEF FrozenWhileAsleep
  <2> QED
    BY <2>1, <2>4, <2>5, <2>6 DEF Inv, TrustedOrigin, MessageChecked
<1> QED
  BY <1>1, <1>2, <1>3

LEMMA InvInit == Init => Inv
<1> SUFFICES ASSUME Init PROVE Inv
  OBVIOUS
<1>1. detector \in Detector \cup {None} /\ TrustedOrigin
  BY LoadedType DEF Init, TrustedOrigin
<1>2. TypeOK
  BY <1>1, AgeType, IdleType, BufferType DEF Init, ClockInit, TypeOK
<1>3. OneRefresh /\ FrozenWhileAsleep /\ MessageChecked
  BY IdleType DEF Init, OneRefresh, FrozenWhileAsleep, MessageChecked, Sleeping
<1> QED
  BY <1>1, <1>2, <1>3 DEF Inv

LEMMA InvStep == Inv /\ [Next]_vars => Inv'
<1> SUFFICES ASSUME Inv, [Next]_vars PROVE Inv'
  OBVIOUS
<1>1. CASE UNCHANGED vars
  BY <1>1 DEF Inv, TypeOK, OneRefresh, TrustedOrigin, MessageChecked,
    FrozenWhileAsleep, Sleeping, vars, scores, refresh, broker
<1> QED
  BY <1>1, JudgeStep, StartStep, EndStep, BrokerStep, ReloadStep, RestartStep,
    ClockStep DEF Next, RefreshStep
-----------------------------------------------------------------------------
\* The types hold for every value of the constants.
THEOREM TypesInvariant == Spec => []TypeOK
<1>1. Inv => TypeOK
  BY DEF Inv
<1> QED
  BY <1>1, InvInit, InvStep, PTL DEF Spec

\* However many tasks the drifts create, run_update() lets one through at a time.
THEOREM OneRefreshInvariant == Spec => []OneRefresh
<1>1. Inv => OneRefresh
  BY DEF Inv
<1> QED
  BY <1>1, InvInit, InvStep, PTL DEF Spec

\* Nothing unsigned, old or of this node's own reaches the detector.
THEOREM OriginInvariant == Spec => []TrustedOrigin
<1>1. Inv => TrustedOrigin
  BY DEF Inv
<1> QED
  BY <1>1, InvInit, InvStep, PTL DEF Spec

\* A refresh that moves the threshold of a frozen engine slept when the incident
\* came.
THEOREM FreezeTheorem == Spec => FreezeStopsRefresh
<1>1. ASSUME Inv, [Next]_vars
      PROVE  \A t \in Task :
               /\ Sleeping(t) /\ task'[t] = Idle
               /\ frozen /\ frozen' /\ detector' # detector
               => sinceIncident <= task[t].age
  BY <1>1 DEF Inv, FrozenWhileAsleep
<1> QED
  BY <1>1, InvInit, InvStep, PTL DEF Spec, FreezeStopsRefresh
=============================================================================
