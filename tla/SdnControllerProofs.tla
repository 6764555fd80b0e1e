-------------------------- MODULE SdnControllerProofs --------------------------
(***************************************************************************)
(* What SdnController guarantees for any number of sources, switches and   *)
(* clients, and for any bounds.                                            *)
(***************************************************************************)
EXTENDS SdnController, TLAPS

\* A switch that is not connected has been told nothing.
ToldLinked == \A s \in Switch \ linked, i \in IP : told[s][i] = "nothing"

Inv == TypeOK /\ ToldLinked /\ BlockStands /\ ReleasedClean /\ ListedUntilNoticed
-----------------------------------------------------------------------------
(***************************************************************************)
(* Types                                                                   *)
(***************************************************************************)

LEMMA InstallType ==
  ASSUME TypeOK, NEW S, NEW i \in IP, NEW slot \in Slot, NEW a \in Action,
         Install(S, i, slot, a)
  PROVE  table' \in [Switch -> [IP -> [Slot -> Action]]]
BY DEF Install, TypeOK

LEMMA TellType ==
  ASSUME TypeOK, NEW i \in IP, NEW op \in Op, Tell(i, op)
  PROVE  told' \in [Switch -> [IP -> Op \cup {"nothing"}]]
BY DEF Tell, TypeOK

LEMMA IdleType == Idle \in Request
<1>1. (CHOOSE i \in IP : TRUE) \in IP
  BY AddressAssumption
<1> QED
  BY <1>1 DEF Idle, Request, Op, Whole

LEMMA RuleType == \A op \in Op : RuleOf(op) \in Action
BY DEF RuleOf, Op, Whole, Action, Timed

LEMMA EventType ==
  ASSUME NEW i \in IP
  PROVE  /\ Packet(i) \in Event
         /\ \A slot \in Slot : Removed(i, slot) \in Event
BY DEF Packet, Removed, Event

\* A client's step: it changes the lists and the tables through its request.
LEMMA CallTypes ==
  ASSUME TypeOK, NEW c \in Client, Call(c)
  PROVE  TypeOK'
<1> USE DEF TypeOK, Request
<1>0. call[c] \in Request /\ call[c].ip \in IP
  OBVIOUS
<1>1. CASE \E i \in IP, op \in Op : Post(c, i, op)
  BY <1>1, BoundAssumption DEF Post, lists, switches
<1>2. CASE AddBlockFlow(c)
  <2>1. call[c].op \in {"block", "blockTemp"} /\ call[c].op \in Op
    BY <1>2 DEF AddBlockFlow, Serve
  <2>2. Install(linked, call[c].ip, "rule", RuleOf(call[c].op))
    BY <1>2 DEF AddBlockFlow
  <2>3. table' \in [Switch -> [IP -> [Slot -> Action]]]
    BY <1>0, <2>1, <2>2, RuleType, InstallType DEF Slot
  <2>4. told' \in [Switch -> [IP -> Op \cup {"nothing"}]]
    BY <1>0, <1>2, <2>1, TellType DEF AddBlockFlow
  <2> QED
    BY <1>0, <1>2, <2>3, <2>4 DEF AddBlockFlow, Serve
<1>3. CASE RemoveBlockFlow(c)
  <2>1. told' \in [Switch -> [IP -> Op \cup {"nothing"}]]
    BY <1>0, <1>3, TellType DEF RemoveBlockFlow, Op
  <2>2. table' \in [Switch -> [IP -> [Slot -> Action]]]
    BY <1>0, <1>3 DEF RemoveBlockFlow, NoFlows, Action
  <2> QED
    BY <1>0, <1>3, <2>1, <2>2 DEF RemoveBlockFlow, Serve
<1>4. CASE AddQuarantineFlow(c)
  <2>1. table' \in [Switch -> [IP -> [Slot -> Action]]]
    BY <1>0, <1>4, RuleType, InstallType DEF AddQuarantineFlow, Slot, Op, Whole
  <2>2. told' \in [Switch -> [IP -> Op \cup {"nothing"}]]
    BY <1>0, <1>4, TellType DEF AddQuarantineFlow, Op, Whole
  <2> QED
    BY <1>0, <1>4, <2>1, <2>2 DEF AddQuarantineFlow, Serve
<1>5. CASE AddRedirectFlow(c)
  <2>1. table' \in [Switch -> [IP -> [Slot -> Action]]]
    BY <1>0, <1>5, RuleType, InstallType DEF AddRedirectFlow, Slot, Op, Whole
  <2>2. told' \in [Switch -> [IP -> Op \cup {"nothing"}]]
    BY <1>0, <1>5, TellType DEF AddRedirectFlow, Op, Whole
  <2> QED
    BY <1>0, <1>5, <2>1, <2>2 DEF AddRedirectFlow, Serve, lists
<1>6. CASE AddBlockShapeFlow(c)
  <2>1. table' \in [Switch -> [IP -> [Slot -> Action]]]
    BY <1>0, <1>6, InstallType DEF AddBlockShapeFlow, Slot, Action, Timed
  <2>2. told' \in [Switch -> [IP -> Op \cup {"nothing"}]]
    BY <1>0, <1>6 DEF AddBlockShapeFlow
  <2> QED
    BY <1>0, <1>6, <2>1, <2>2 DEF AddBlockShapeFlow, Serve, lists
<1>7. CASE Answer(c) \/ Unreachable(c)
  <2>1. Idle \in [pc : {"idle", "sent", "served"}, ip : IP, op : Op]
    BY IdleType
  <2>2. call' = [call EXCEPT ![c] = Idle] /\ ipset' \subseteq IP
    BY <1>7 DEF Answer, Unreachable, Return
  <2> QED
    BY <1>7, <2>1, <2>2 DEF Answer, Unreachable, lists, switches
<1> QED
  BY <1>1, <1>2, <1>3, <1>4, <1>5, <1>6, <1>7 DEF Call

LEMMA HandleTypes ==
  ASSUME TypeOK, NEW s \in Switch, Handle(s)
  PROVE  TypeOK'
<1>1. events[s] # <<>> /\ events' = [events EXCEPT ![s] = Tail(events[s])]
  BY DEF Handle, FlowRemoved, PacketIn, TakeEvent
<1>2. events[s] \in Seq(Event) /\ Head(events[s]) \in Event
      /\ Tail(events[s]) \in Seq(Event)
  BY <1>1 DEF TypeOK
<1>3. Head(events[s]).ip \in IP
  BY <1>2 DEF Event
<1>4. CASE FlowRemoved(s)
  BY <1>1, <1>2, <1>3, <1>4
  DEF TypeOK, FlowRemoved, lists, switches, clients
<1>5. CASE PacketIn(s)
  <2>1. table' \in [Switch -> [IP -> [Slot -> Action]]]
    BY <1>3, <1>5, InstallType DEF PacketIn, TypeOK, Slot, Action, Timed
  <2> QED
    BY <1>1, <1>2, <1>5, <2>1 DEF TypeOK, PacketIn, lists, clients
<1> QED
  BY <1>4, <1>5 DEF Handle

LEMMA NetworkTypes ==
  ASSUME TypeOK, NEW s \in Switch, Network(s)
  PROVE  TypeOK'
<1>0. NoFlows \in [IP -> [Slot -> Action]] /\ Nothing \in [IP -> Op \cup {"nothing"}]
  BY DEF NoFlows, Nothing, Action
<1>1. CASE Connect(s)
  BY <1>1 DEF TypeOK, Connect, lists, clients
<1>2. CASE Disconnect(s)
  <2>1. \A n \in 0 .. Len(events[s]) : SubSeq(events[s], 1, n) \in Seq(Event)
    BY DEF TypeOK
  <2>2. events' \in [Switch -> Seq(Event)]
    BY <1>2, <2>1 DEF TypeOK, Disconnect
  <2>3. cuts' \in 0 .. MaxCuts
    BY <1>2, BoundAssumption DEF TypeOK, Disconnect
  <2>4. table' \in [Switch -> [IP -> [Slot -> Action]]]
    BY <1>0, <1>2 DEF TypeOK, Disconnect
  <2>5. told' \in [Switch -> [IP -> Op \cup {"nothing"}]]
    BY <1>0, <1>2 DEF TypeOK, Disconnect
  <2> QED
    BY <1>2, <2>2, <2>3, <2>4, <2>5 DEF TypeOK, Disconnect, lists, clients
<1>3. ASSUME NEW i \in IP, Miss(s, i) PROVE TypeOK'
  <2>1. Append(events[s], Packet(i)) \in Seq(Event)
    BY EventType DEF TypeOK
  <2> QED
    BY <1>3, <2>1 DEF TypeOK, Miss, lists, switches, clients
<1>4. ASSUME NEW i \in IP, NEW slot \in Slot, Expire(s, i, slot) PROVE TypeOK'
  <2>1. Append(events[s], Removed(i, slot)) \in Seq(Event)
    BY EventType DEF TypeOK
  <2>2. table' \in [Switch -> [IP -> [Slot -> Action]]]
    BY <1>4 DEF TypeOK, Expire, Action
  <2>3. events' \in [Switch -> Seq(Event)]
    BY <1>4, <2>1 DEF TypeOK, Expire
  <2> QED
    BY <1>4, <2>2, <2>3 DEF TypeOK, Expire, lists, clients
<1> QED
  BY <1>1, <1>2, <1>3, <1>4 DEF Network

LEMMA RestartTypes ==
  ASSUME TypeOK, Restart
  PROVE  TypeOK'
<1>1. Nothing \in [IP -> Op \cup {"nothing"}]
  BY DEF Nothing
<1> QED
  BY <1>1, BoundAssumption DEF TypeOK, Restart, clients
-----------------------------------------------------------------------------
(***************************************************************************)
(* Who is told what                                                        *)
(***************************************************************************)

LEMMA ToldLinkedStep ==
  ASSUME TypeOK, ToldLinked, Next
  PROVE  ToldLinked'
<1> USE DEF TypeOK, ToldLinked
<1>1. ASSUME NEW c \in Client, Call(c) PROVE ToldLinked'
  BY <1>1 DEF Call, Post, AddBlockFlow, RemoveBlockFlow, AddQuarantineFlow,
    AddRedirectFlow, AddBlockShapeFlow, Answer, Unreachable, Tell, switches
<1>2. ASSUME NEW s \in Switch, Handle(s) PROVE ToldLinked'
  BY <1>2 DEF Handle, FlowRemoved, PacketIn, switches
<1>3. ASSUME NEW s \in Switch, Network(s) PROVE ToldLinked'
  <2>1. CASE Connect(s)
    BY <2>1 DEF Connect
  <2>2. CASE Disconnect(s)
    <3>1. told' = [told EXCEPT ![s] = Nothing] /\ linked' = linked \ {s}
      BY <2>2 DEF Disconnect
    <3> QED
      BY <3>1 DEF Nothing
  <2>3. CASE \E i \in IP : Miss(s, i) \/ \E slot \in Slot : Expire(s, i, slot)
    BY <2>3 DEF Miss, Expire, switches
  <2> QED
    BY <1>3, <2>1, <2>2, <2>3 DEF Network
<1>4. CASE Restart
  BY <1>4 DEF Restart, Nothing
<1> QED
  BY <1>1, <1>2, <1>3, <1>4 DEF Next

\* A packet brings no flow but a cached one, of a listed source.
LEMMA PacketTable ==
  ASSUME TypeOK, NEW q \in Switch, PacketIn(q)
  PROVE  /\ UNCHANGED told
         /\ \A s \in Switch, i \in IP, slot \in Slot :
              slot # "cache" \/ ~Listed(i) => table[s][i][slot]' = table[s][i][slot]
<1>1. UNCHANGED told
  BY DEF PacketIn
<1>2. \/ table' = table
      \/ /\ Listed(Head(events[q]).ip)
         /\ \E a \in Action : Install({q} \cap linked, Head(events[q]).ip, "cache", a)
  BY DEF PacketIn, Listed, Action, Timed
<1>3. CASE table' = table
  BY <1>1, <1>3
<1>4. ASSUME NEW a \in Action, Listed(Head(events[q]).ip),
             Install({q} \cap linked, Head(events[q]).ip, "cache", a)
      PROVE  \A s \in Switch, i \in IP, slot \in Slot :
               slot # "cache" \/ ~Listed(i) => table[s][i][slot]' = table[s][i][slot]
  BY <1>4 DEF Install, TypeOK, Slot
<1> QED
  BY <1>1, <1>2, <1>3, <1>4

LEMMA BlockStandsStep ==
  ASSUME TypeOK, BlockStands, Next
  PROVE  BlockStands'
<1> USE DEF TypeOK, BlockStands
<1>1. ASSUME NEW c \in Client, Call(c) PROVE BlockStands'
  <2>0. call[c].ip \in IP
    BY DEF Request
  <2>1. CASE (\E i \in IP, op \in Op : Post(c, i, op)) \/ Answer(c) \/ Unreachable(c)
    BY <2>1 DEF Post, Answer, Unreachable, switches
  <2>2. CASE AddBlockFlow(c)
    BY <2>0, <2>2 DEF AddBlockFlow, Serve, Install, Tell, RuleOf, Slot
  <2>3. CASE RemoveBlockFlow(c)
    BY <2>0, <2>3 DEF RemoveBlockFlow, Tell
  <2>4. CASE AddQuarantineFlow(c) \/ AddRedirectFlow(c)
    <3>1. /\ \E a \in {RuleOf("quarantine"), RuleOf("redirect")} :
               Install(linked, call[c].ip, "rule", a)
          /\ \E op \in {"quarantine", "redirect"} : Tell(call[c].ip, op)
      BY <2>4 DEF AddQuarantineFlow, AddRedirectFlow
    <3> QED
      BY <2>0, <3>1 DEF Install, Tell
  <2>5. CASE AddBlockShapeFlow(c)
    BY <2>0, <2>5 DEF AddBlockShapeFlow, Install, Slot
  <2> QED
    BY <1>1, <2>1, <2>2, <2>3, <2>4, <2>5 DEF Call
<1>2. ASSUME NEW s \in Switch, Handle(s) PROVE BlockStands'
  <2>1. CASE FlowRemoved(s)
    BY <2>1 DEF FlowRemoved, switches
  <2>2. CASE PacketIn(s)
    <3>1. \A s1 \in Switch, i \in IP : table[s1][i]["rule"]' = table[s1][i]["rule"]
      BY <2>2, PacketTable DEF Slot
    <3> QED
      BY <2>2, <3>1 DEF PacketIn
  <2> QED
    BY <1>2, <2>1, <2>2 DEF Handle
<1>3. ASSUME NEW s \in Switch, Network(s) PROVE BlockStands'
  <2>1. CASE Connect(s) \/ \E i \in IP : Miss(s, i)
    BY <2>1 DEF Connect, Miss, switches
  <2>2. CASE Disconnect(s)
    BY <2>2 DEF Disconnect, Nothing
  <2>3. CASE \E i \in IP, slot \in Slot : Expire(s, i, slot)
    BY <2>3 DEF Expire, Timed, Slot
  <2> QED
    BY <1>3, <2>1, <2>2, <2>3 DEF Network
<1>4. CASE Restart
  BY <1>4 DEF Restart, Nothing
<1> QED
  BY <1>1, <1>2, <1>3, <1>4 DEF Next
-----------------------------------------------------------------------------
(***************************************************************************)
(* Releases: while the last word about a source is a release, no list has  *)
(* it, so that no packet brings a flow back.                               *)
(***************************************************************************)

LEMMA ReleasedCleanStep ==
  ASSUME TypeOK, ToldLinked, ReleasedClean, Next
  PROVE  ReleasedClean'
<1> USE DEF TypeOK, ReleasedClean, Listed
<1>1. ASSUME NEW c \in Client, Call(c) PROVE ReleasedClean'
  <2>0. call[c].ip \in IP
    BY DEF Request
  <2>1. CASE (\E i \in IP, op \in Op : Post(c, i, op)) \/ Answer(c) \/ Unreachable(c)
    BY <2>1 DEF Post, Answer, Unreachable, switches, lists
  <2>2. CASE AddBlockFlow(c)
    BY <2>0, <2>2 DEF AddBlockFlow, Serve, Install, Tell, ToldLinked
  <2>3. CASE RemoveBlockFlow(c)
    BY <2>0, <2>3 DEF RemoveBlockFlow, Tell, ToldLinked, NoFlows
  <2>4. CASE AddQuarantineFlow(c)
    BY <2>0, <2>4 DEF AddQuarantineFlow, Install, Tell, ToldLinked
  <2>5. CASE AddRedirectFlow(c)
    BY <2>0, <2>5 DEF AddRedirectFlow, Install, Tell, ToldLinked, lists
  <2>6. CASE AddBlockShapeFlow(c)
    BY <2>0, <2>6 DEF AddBlockShapeFlow, Install, ToldLinked, lists
  <2> QED
    BY <1>1, <2>1, <2>2, <2>3, <2>4, <2>5, <2>6 DEF Call
<1>2. ASSUME NEW s \in Switch, Handle(s) PROVE ReleasedClean'
  <2>1. CASE FlowRemoved(s)
    BY <2>1 DEF FlowRemoved, switches, lists
  <2>2. CASE PacketIn(s)
    <3>1. UNCHANGED <<told, lists>>
      BY <2>2 DEF PacketIn
    <3> QED
      BY <2>2, <3>1, PacketTable DEF lists
  <2> QED
    BY <1>2, <2>1, <2>2 DEF Handle
<1>3. ASSUME NEW s \in Switch, Network(s) PROVE ReleasedClean'
  <2>1. CASE Connect(s) \/ \E i \in IP : Miss(s, i)
    BY <2>1 DEF Connect, Miss, switches, lists
  <2>2. CASE Disconnect(s)
    BY <2>2 DEF Disconnect, Nothing, lists
  <2>3. CASE \E i \in IP, slot \in Slot : Expire(s, i, slot)
    BY <2>3 DEF Expire, lists
  <2> QED
    BY <1>3, <2>1, <2>2, <2>3 DEF Network
<1>4. CASE Restart
  BY <1>4 DEF Restart, Nothing
<1> QED
  BY <1>1, <1>2, <1>3, <1>4 DEF Next
-----------------------------------------------------------------------------
(***************************************************************************)
(* Expiry: the message about it is on its way until a list was corrected   *)
(***************************************************************************)

\* The message that the rule about i expired at s has yet to be handled.
Pending(s, i) == \E n \in 1 .. Len(events[s]) : events[s][n] = Removed(i, "rule")

LEMMA NoticedStep ==
  ASSUME TypeOK, ToldLinked, ListedUntilNoticed, Next
  PROVE  ListedUntilNoticed'
<1> DEFINE Noticed(s, i) ==
      told[s][i] \in Whole /\ Listed(i) => table[s][i]["rule"] # "none" \/ Pending(s, i)
<1>0. \A s \in Switch, i \in IP : Noticed(s, i)
  BY DEF ListedUntilNoticed, Pending
<1> SUFFICES ASSUME NEW s \in Switch, NEW i \in IP PROVE Noticed(s, i)'
  BY DEF ListedUntilNoticed, Pending
<1>1. ASSUME NEW c \in Client, Call(c) PROVE Noticed(s, i)'
  <2>0. call[c].ip \in IP
    BY DEF TypeOK, Request
  <2>1. UNCHANGED events
    BY <1>1 DEF Call, Post, AddBlockFlow, RemoveBlockFlow, AddQuarantineFlow,
      AddRedirectFlow, AddBlockShapeFlow, Answer, Unreachable
  <2>2. Pending(s, i)' <=> Pending(s, i)
    BY <2>1 DEF Pending
  <2>3. CASE (\E j \in IP, op \in Op : Post(c, j, op)) \/ Answer(c) \/ Unreachable(c)
    BY <1>0, <2>2, <2>3 DEF Post, Answer, Unreachable, switches, lists, Listed
  <2>4. CASE AddBlockFlow(c)
    BY <1>0, <2>0, <2>2, <2>4 DEF AddBlockFlow, Serve, Install, Tell, ToldLinked,
      Listed, TypeOK, RuleOf, Slot, Whole
  <2>5. CASE RemoveBlockFlow(c)
    BY <1>0, <2>0, <2>2, <2>5 DEF RemoveBlockFlow, Listed, Tell, TypeOK
  <2>6. CASE AddQuarantineFlow(c)
    BY <1>0, <2>0, <2>2, <2>6 DEF AddQuarantineFlow, Install, Tell, ToldLinked,
      Listed, TypeOK, RuleOf, Slot, Whole
  <2>7. CASE AddRedirectFlow(c)
    BY <1>0, <2>0, <2>2, <2>7 DEF AddRedirectFlow, Install, Tell, ToldLinked,
      Listed, TypeOK, RuleOf, Slot, Whole, lists
  <2>8. CASE AddBlockShapeFlow(c)
    BY <1>0, <2>0, <2>2, <2>8 DEF AddBlockShapeFlow, Install, Listed, TypeOK,
      Slot, Whole, lists
  <2> QED
    BY <1>1, <2>3, <2>4, <2>5, <2>6, <2>7, <2>8 DEF Call
<1>2. ASSUME NEW q \in Switch, Handle(q) PROVE Noticed(s, i)'
  <2>1. /\ events[q] \in Seq(Event) /\ events[q] # <<>>
        /\ events' = [events EXCEPT ![q] = Tail(events[q])]
    BY <1>2 DEF Handle, FlowRemoved, PacketIn, TakeEvent, TypeOK
  <2>2. Head(events[q]) = events[q][1] /\ Len(Tail(events[q])) = Len(events[q]) - 1
        /\ \A n \in 1 .. Len(events[q]) - 1 : Tail(events[q])[n] = events[q][n + 1]
    BY <2>1
  <2>3. ASSUME Pending(s, i), ~(q = s /\ events[q][1] = Removed(i, "rule"))
        PROVE  Pending(s, i)'
    <3>1. PICK n \in 1 .. Len(events[s]) : events[s][n] = Removed(i, "rule")
      BY <2>3 DEF Pending
    <3>2. CASE q # s
      BY <2>1, <3>1, <3>2 DEF Pending, TypeOK
    <3>3. CASE q = s
      <4>1. n # 1
        BY <2>3, <3>1, <3>3
      <4>2. n - 1 \in 1 .. Len(events[s]) - 1 /\ events[s][(n - 1) + 1] = events[s][n]
        BY <2>1, <3>1, <3>3, <4>1
      <4>3. events'[s] = Tail(events[s]) /\ Len(events'[s]) = Len(events[s]) - 1
        BY <2>1, <2>2, <3>3 DEF TypeOK
      <4>4. events'[s][n - 1] = Removed(i, "rule")
        BY <2>2, <3>1, <3>3, <4>2, <4>3
      <4> QED
        BY <4>2, <4>3, <4>4 DEF Pending
    <3> QED
      BY <3>2, <3>3
  <2>4. CASE FlowRemoved(q)
    <3>1. CASE events[q][1] = Removed(i, "rule")
      BY <2>2, <2>4, <3>1 DEF FlowRemoved, Removed, BlockPriority, Listed
    <3>2. CASE events[q][1] # Removed(i, "rule")
      BY <1>0, <2>3, <2>4, <3>2 DEF FlowRemoved, switches, lists, Listed
    <3> QED
      BY <3>1, <3>2
  <2>5. CASE PacketIn(q)
    <3>1. events[q][1] # Removed(i, "rule")
      BY <2>2, <2>5 DEF PacketIn, Removed
    <3>2. table[s][i]["rule"]' = table[s][i]["rule"]
      BY <2>5, PacketTable DEF Slot
    <3> QED
      BY <1>0, <2>3, <2>5, <3>1, <3>2 DEF PacketIn, lists, Listed
  <2> QED
    BY <1>2, <2>4, <2>5 DEF Handle
<1>3. ASSUME NEW q \in Switch, Network(q) PROVE Noticed(s, i)'
  <2>1. CASE Connect(q)
    BY <1>0, <2>1 DEF Connect, lists, Listed, Pending
  <2>2. CASE Disconnect(q)
    <3>1. CASE q = s
      BY <2>2, <3>1 DEF Disconnect, Nothing, TypeOK, Whole
    <3>2. CASE q # s
      BY <1>0, <2>2, <3>2 DEF Disconnect, TypeOK, Pending, Listed, lists
    <3> QED
      BY <3>1, <3>2
  <2>3. ASSUME NEW e \in Event, events' = [events EXCEPT ![q] = Append(@, e)]
        PROVE  /\ Pending(s, i) => Pending(s, i)'
               /\ q = s /\ e = Removed(i, "rule") => Pending(s, i)'
    <3>1. events[q] \in Seq(Event) /\ events[s] \in Seq(Event)
      BY DEF TypeOK
    <3>2. /\ Len(Append(events[q], e)) = Len(events[q]) + 1
          /\ Append(events[q], e)[Len(events[q]) + 1] = e
          /\ \A n \in 1 .. Len(events[q]) : Append(events[q], e)[n] = events[q][n]
      BY <3>1
    <3>3. events'[s] = IF q = s THEN Append(events[q], e) ELSE events[s]
      BY <2>3 DEF TypeOK
    <3> QED
      BY <3>1, <3>2, <3>3 DEF Pending
  <2>4. ASSUME NEW j \in IP, Miss(q, j) PROVE Noticed(s, i)'
    <3>1. Pending(s, i) => Pending(s, i)'
      BY <2>3, <2>4, EventType DEF Miss
    <3> QED
      BY <1>0, <2>4, <3>1 DEF Miss, switches, lists, Listed
  <2>5. ASSUME NEW j \in IP, NEW slot \in Slot, Expire(q, j, slot) PROVE Noticed(s, i)'
    <3>1. CASE q \in linked
      <4>1. events' = [events EXCEPT ![q] = Append(@, Removed(j, slot))]
        BY <2>5, <3>1 DEF Expire, Reports
      <4>2. Pending(s, i) => Pending(s, i)'
        BY <2>3, <4>1, EventType
      <4>3. CASE q = s /\ j = i /\ slot = "rule"
        BY <2>3, <4>1, <4>3, EventType
      <4>4. CASE ~(q = s /\ j = i /\ slot = "rule")
        BY <1>0, <2>5, <4>2, <4>4 DEF Expire, TypeOK, lists, Listed, Slot
      <4> QED
        BY <4>3, <4>4
    <3>2. CASE q \notin linked
      <4>1. events' = events
        BY <2>5, <3>2 DEF Expire
      <4>2. CASE q = s
        BY <2>5, <3>2, <4>2 DEF Expire, ToldLinked, Whole
      <4>3. CASE q # s
        BY <1>0, <2>5, <4>1, <4>3 DEF Expire, TypeOK, lists, Listed, Pending
      <4> QED
        BY <4>2, <4>3
    <3> QED
      BY <3>1, <3>2
  <2> QED
    BY <1>3, <2>1, <2>2, <2>4, <2>5 DEF Network
<1>4. CASE Restart
  BY <1>4 DEF Restart, Listed
<1> QED
  BY <1>1, <1>2, <1>3, <1>4 DEF Next
-----------------------------------------------------------------------------
LEMMA InvInit == Init => Inv
<1> SUFFICES ASSUME Init PROVE Inv
  OBVIOUS
<1> USE DEF Init, Nothing, NoFlows
<1>1. TypeOK
  BY IdleType, AddressAssumption, BoundAssumption DEF TypeOK, Action
<1>2. ToldLinked /\ BlockStands /\ ReleasedClean /\ ListedUntilNoticed
  BY DEF ToldLinked, BlockStands, ReleasedClean, ListedUntilNoticed, Whole
<1> QED
  BY <1>1, <1>2 DEF Inv

LEMMA InvStep == Inv /\ [Next]_vars => Inv'
<1> SUFFICES ASSUME Inv, [Next]_vars PROVE Inv'
  OBVIOUS
<1>1. CASE Next
  <2>1. TypeOK'
    BY <1>1, CallTypes, HandleTypes, NetworkTypes, RestartTypes DEF Inv, Next
  <2> QED
    BY <1>1, <2>1, ToldLinkedStep, BlockStandsStep, ReleasedCleanStep, NoticedStep
    DEF Inv
<1>2. CASE UNCHANGED vars
  BY <1>2 DEF Inv, TypeOK, ToldLinked, BlockStands, ReleasedClean,
    ListedUntilNoticed, Listed, vars, lists, switches, clients
<1> QED
  BY <1>1, <1>2

\* The lists, tables, events and requests have their types in every reachable
\* state.
THEOREM TypesInvariant == Spec => []TypeOK
<1>1. Inv => TypeOK
  BY DEF Inv
<1> QED
  BY <1>1, InvInit, InvStep, PTL DEF Spec

\* A permanent block (add_block_flow with ttl 0) stays in the table of every
\* switch that stays connected and is told nothing else.
THEOREM BlockInvariant == Spec => []BlockStands
<1>1. Inv => BlockStands
  BY DEF Inv
<1> QED
  BY <1>1, InvInit, InvStep, PTL DEF Spec

\* After remove_block_flow() nothing about the source is left or comes back.
THEOREM ReleaseInvariant == Spec => []ReleasedClean
<1>1. Inv => ReleasedClean
  BY DEF Inv
<1> QED
  BY <1>1, InvInit, InvStep, PTL DEF Spec

\* The controller never misses the end of a flow of a listed source at a switch
\* that stays connected.
THEOREM NoticeInvariant == Spec => []ListedUntilNoticed
<1>1. Inv => ListedUntilNoticed
  BY DEF Inv
<1> QED
  BY <1>1, InvInit, InvStep, PTL DEF Spec
=============================================================================
