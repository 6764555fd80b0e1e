----------------------------- MODULE SdnController -----------------------------
(***************************************************************************)
(* The SDN backend: the calls that ml_engine/firewall.py makes of SDNClient*)
(* (ml_engine/sdn_client.py), the Ryu application SentinelController       *)
(* (sdn/sentinel_controller.py), and the switches it programs.             *)
(*                                                                         *)
(* The controller handles one request or event at a time.  What it sends a *)
(* switch arrives at once; what a switch reports (`events`) waits in order *)
(* and may be out of date when it is handled.  A message to a switch that  *)
(* has gone is lost, although `datapaths` never forgets a switch.          *)
(***************************************************************************)
EXTENDS Integers, Sequences

CONSTANTS
  IP,           \* source addresses, each a host with a port of its own
  Switch,
  Client,       \* coroutines of the firewall that call the controller
  Leftover,     \* addresses that the ipset backend left in the kernel
  MaxRequests,  \* bound: requests of a behaviour
  MaxEvents,    \* bound: no packet joins this many waiting events of a switch
  MaxCuts       \* bound: lost connections and controller restarts

ASSUME AddressAssumption == IP # {} /\ Leftover \subseteq IP
ASSUME BoundAssumption == {MaxRequests, MaxEvents, MaxCuts} \subseteq Nat

VARIABLES
  blockList,       \* block_list
  quarantineList,  \* the addresses in quarantine_list
  linked,          \* the switches connected to the controller
  table,           \* each switch's flow table
  events,          \* each switch's events the controller has yet to handle
  call,            \* each client's request
  ipset,           \* the kernel set sentinel_blocks of the ipset backend
  requests, cuts,  \* counted for the bounds
  told             \* history: the last request a connected switch was told of

lists == <<blockList, quarantineList>>
switches == <<linked, table>>
clients == <<call, ipset, requests>>
vars == <<lists, switches, events, clients, cuts, told>>
-----------------------------------------------------------------------------
(***************************************************************************)
(* Flow tables.  At most one flow of a table has a given match and         *)
(* priority, so the flows that match a source address are these:           *)
(*   "rule"   200  ipv4_src: drop, quarantine or redirection               *)
(*   "shape"  200  ipv4_src, protocol and destination port: drop           *)
(*   "cache"  100  ipv4_src: installed when a listed source is seen        *)
(* The other flows (the shield against floods of one port, L2 forwarding,  *)
(* the table miss) match no address and touch none of these: left out.     *)
(***************************************************************************)
Slot == {"rule", "shape", "cache"}
BlockPriority == {"rule", "shape"}       \* slots of priority 200

\* What a flow does; all but "drop" have a hard timeout.
Timed == {"dropTimed", "tag", "divert"}
Action == Timed \cup {"none", "drop"}

Whole == {"block", "blockTemp", "redirect", "quarantine"}
Op == Whole \cup {"unblock", "shape"}

Idle == [pc |-> "idle", ip |-> CHOOSE i \in IP : TRUE, op |-> "unblock"]
Request == [pc : {"idle", "sent", "served"}, ip : IP, op : Op]

\* What a switch reports: the end of a flow, or an IP packet.
Removed(i, slot) == [ip |-> i, of |-> slot]
Packet(i) == [ip |-> i, of |-> "packet"]
Event == [ip : IP, of : Slot \cup {"packet"}]

NoFlows == [i \in IP |-> [slot \in Slot |-> "none"]]
Nothing == [i \in IP |-> "nothing"]
Listed(i) == i \in blockList \cup quarantineList

TypeOK ==
  /\ blockList \subseteq IP /\ quarantineList \subseteq IP
  /\ linked \subseteq Switch
  /\ table \in [Switch -> [IP -> [Slot -> Action]]]
  /\ events \in [Switch -> Seq(Event)]
  /\ call \in [Client -> Request] /\ ipset \subseteq IP
  /\ requests \in 0 .. MaxRequests /\ cuts \in 0 .. MaxCuts
  /\ told \in [Switch -> [IP -> Op \cup {"nothing"}]]

Init ==
  /\ blockList = {} /\ quarantineList = {} /\ linked = {}
  /\ table = [s \in Switch |-> NoFlows]
  /\ events = [s \in Switch |-> <<>>]
  /\ call = [c \in Client |-> Idle] /\ ipset = Leftover
  /\ requests = 0 /\ cuts = 0
  /\ told = [s \in Switch |-> Nothing]

\* add_flow() on the switches of S.
Install(S, i, slot, action) ==
  table' = [s \in Switch |-> IF s \in S THEN [table[s] EXCEPT ![i][slot] = action]
                             ELSE table[s]]

Tell(i, op) ==
  told' = [s \in Switch |-> IF s \in linked THEN [told[s] EXCEPT ![i] = op]
                            ELSE told[s]]
-----------------------------------------------------------------------------
(***************************************************************************)
(* The firewall and its SDNClient                                          *)
(***************************************************************************)

\* block(), micro_block(), redirect_to_honeypot(), quarantine_host() or
\* unblock() posts its request.
Post(c, i, op) ==
  /\ call[c].pc = "idle" /\ requests < MaxRequests
  /\ requests' = requests + 1
  /\ call' = [call EXCEPT ![c] = [pc |-> "sent", ip |-> i, op |-> op]]
  /\ UNCHANGED <<lists, switches, events, ipset, cuts, told>>

\* Only unblock() goes on after the answer, whatever it is: it takes the
\* address out of the kernel set.
Return(c) ==
  /\ call' = [call EXCEPT ![c] = Idle]
  /\ ipset' = IF call[c].op = "unblock" THEN ipset \ {call[c].ip} ELSE ipset

Answer(c) ==
  /\ call[c].pc = "served"
  /\ Return(c)
  /\ UNCHANGED <<lists, switches, events, requests, cuts, told>>

\* The controller is not reached, or its answer is late or lost.  SDNClient
\* catches the exception and returns False, so the `except` branches of the
\* firewall, which hold the fallback to ipset, are never entered.
Unreachable(c) ==
  /\ call[c].pc # "idle"
  /\ Return(c)
  /\ UNCHANGED <<lists, switches, events, requests, cuts, told>>
-----------------------------------------------------------------------------
(***************************************************************************)
(* SentinelRestController and the methods it calls                         *)
(***************************************************************************)

\* Client c's request, if it is for one of ops, is taken up.
Serve(c, ops) ==
  /\ call[c].pc = "sent" /\ call[c].op \in ops
  /\ call' = [call EXCEPT ![c].pc = "served"]

\* The action of the flow that a request about a whole source installs.
RuleOf(op) ==
  CASE op = "block" -> "drop"
    [] op = "blockTemp" -> "dropTimed"
    [] op = "redirect" -> "divert"
    [] OTHER -> "tag"

AddBlockFlow(c) ==
  LET i == call[c].ip  op == call[c].op IN
  /\ Serve(c, {"block", "blockTemp"})
  /\ blockList' = blockList \cup {i}
  /\ Install(linked, i, "rule", RuleOf(op)) /\ Tell(i, op)
  /\ UNCHANGED <<quarantineList, linked, events, ipset, requests, cuts>>

\* Mutant: the quarantine is forgotten.
RemoveBlockFlowOnly(c) ==
  LET i == call[c].ip IN
  /\ Serve(c, {"unblock"})
  /\ blockList' = blockList \ {i} /\ UNCHANGED quarantineList
  /\ table' = [s \in Switch |-> IF s \in linked
                             THEN [table[s] EXCEPT ![i] = NoFlows[i]] ELSE table[s]]
  /\ Tell(i, "unblock")
  /\ UNCHANGED <<linked, events, ipset, requests, cuts>>

\* A non-strict delete: every flow whose match has the source goes.
RemoveBlockFlow(c) ==
  LET i == call[c].ip IN
  /\ Serve(c, {"unblock"})
  /\ blockList' = blockList \ {i} /\ quarantineList' = quarantineList \ {i}
  /\ table' = [s \in Switch |-> IF s \in linked
                             THEN [table[s] EXCEPT ![i] = NoFlows[i]] ELSE table[s]]
  /\ Tell(i, "unblock")
  /\ UNCHANGED <<linked, events, ipset, requests, cuts>>

AddQuarantineFlow(c) ==
  LET i == call[c].ip IN
  /\ Serve(c, {"quarantine"})
  /\ quarantineList' = quarantineList \cup {i}
  /\ Install(linked, i, "rule", RuleOf("quarantine")) /\ Tell(i, "quarantine")
  /\ UNCHANGED <<blockList, linked, events, ipset, requests, cuts>>

\* It replaces a drop flow, and no list records it.
AddRedirectFlow(c) ==
  LET i == call[c].ip IN
  /\ Serve(c, {"redirect"})
  /\ Install(linked, i, "rule", RuleOf("redirect")) /\ Tell(i, "redirect")
  /\ UNCHANGED <<lists, linked, events, ipset, requests, cuts>>

AddBlockShapeFlow(c) ==
  LET i == call[c].ip IN
  /\ Serve(c, {"shape"})
  /\ Install(linked, i, "shape", "dropTimed")
  /\ told' = [s \in Switch |-> IF s \in linked /\ told[s][i] = "unblock"
                               THEN [told[s] EXCEPT ![i] = "nothing"] ELSE told[s]]
  /\ UNCHANGED <<lists, linked, events, ipset, requests, cuts>>
-----------------------------------------------------------------------------
(***************************************************************************)
(* Event handlers of the controller                                        *)
(***************************************************************************)

\* The controller takes the next event of s.
TakeEvent(s) ==
  /\ events[s] # <<>>
  /\ events' = [events EXCEPT ![s] = Tail(events[s])]

\* Mutant: an expired quarantine flow is not looked up in quarantine_list.
FlowRemovedOnlyBlocks(s) ==
  /\ TakeEvent(s) /\ Head(events[s]).of # "packet"
  /\ IF Head(events[s]).of \in BlockPriority
     THEN blockList' = blockList \ {Head(events[s]).ip} /\ UNCHANGED quarantineList
     ELSE UNCHANGED lists
  /\ UNCHANGED <<switches, clients, cuts, told>>

\* _flow_removed_handler(): any flow of priority 200 that expired counts as
\* the block or quarantine of its source.
FlowRemoved(s) ==
  LET e == Head(events[s]) IN
  /\ TakeEvent(s) /\ e.of # "packet"
  /\ IF e.of \in BlockPriority
     THEN blockList' = blockList \ {e.ip} /\ quarantineList' = quarantineList \ {e.ip}
     ELSE UNCHANGED lists
  /\ UNCHANGED <<switches, clients, cuts, told>>

\* Mutant: the flow for a listed source has the priority of a block.
PacketInAtPriority200(s) ==
  LET e == Head(events[s]) IN
  /\ TakeEvent(s) /\ e.of = "packet"
  /\ IF Listed(e.ip) THEN Install({s} \cap linked, e.ip, "rule", "dropTimed")
     ELSE UNCHANGED table
  /\ UNCHANGED <<lists, linked, clients, cuts, told>>

\* _packet_in_handler(): a listed source gets a flow.  The packet of another
\* one, or of a port with more than RATE_THRESHOLD packets within a second, is
\* switched or shielded against, with flows that match no address.
PacketIn(s) ==
  LET e == Head(events[s])
      Cache(action) == Install({s} \cap linked, e.ip, "cache", action)
  IN
  /\ TakeEvent(s) /\ e.of = "packet"
  /\ \/ e.ip \in blockList /\ Cache("dropTimed")
     \/ e.ip \in quarantineList \ blockList /\ Cache("tag")
     \/ UNCHANGED table
  /\ UNCHANGED <<lists, linked, clients, cuts, told>>

\* The controller dies and starts again: lists and connections are gone, the
\* flows stay.
Restart ==
  /\ cuts < MaxCuts /\ cuts' = cuts + 1
  /\ blockList' = {} /\ quarantineList' = {} /\ linked' = {}
  /\ events' = [s \in Switch |-> <<>>]
  /\ told' = [s \in Switch |-> Nothing]
  /\ UNCHANGED <<table, clients>>
-----------------------------------------------------------------------------
(***************************************************************************)
(* Switches                                                                *)
(***************************************************************************)

\* switch_features_handler(): the table-miss flow is all a new switch gets.
Connect(s) ==
  /\ s \notin linked
  /\ linked' = linked \cup {s}
  /\ UNCHANGED <<lists, table, events, clients, cuts, told>>

\* The connection breaks, with the latest events in it; a switch that failed
\* has no flows when it comes back.
Disconnect(s) ==
  /\ s \in linked /\ cuts < MaxCuts /\ cuts' = cuts + 1
  /\ linked' = linked \ {s}
  /\ \E n \in 0 .. Len(events[s]) : events' = [events EXCEPT ![s] = SubSeq(@, 1, n)]
  /\ table' = table \/ table' = [table EXCEPT ![s] = NoFlows]
  /\ told' = [told EXCEPT ![s] = Nothing]
  /\ UNCHANGED <<lists, clients>>

\* An IP packet that matches no flow, one of another shape than a drop flow's.
Miss(s, i) ==
  /\ s \in linked /\ Len(events[s]) < MaxEvents
  /\ table[s][i]["rule"] = "none" /\ table[s][i]["cache"] = "none"
  /\ events' = [events EXCEPT ![s] = Append(@, Packet(i))]
  /\ UNCHANGED <<lists, switches, clients, cuts, told>>

\* Mutant: no flow asks for a message when it is removed.
ReportsNever(action) == FALSE

\* add_flow() sets OFPFF_SEND_FLOW_REM for flows with a timeout.
Reports(action) == action \in Timed

\* A hard timeout; a switch without a controller has nobody to tell.
Expire(s, i, slot) ==
  /\ table[s][i][slot] \in Timed
  /\ table' = [table EXCEPT ![s][i][slot] = "none"]
  /\ events' = IF s \in linked /\ Reports(table[s][i][slot])
               THEN [events EXCEPT ![s] = Append(@, Removed(i, slot))] ELSE events
  /\ UNCHANGED <<lists, linked, clients, cuts, told>>
-----------------------------------------------------------------------------
Handle(s) == FlowRemoved(s) \/ PacketIn(s)

Call(c) ==
  \/ \E i \in IP, op \in Op : Post(c, i, op)
  \/ AddBlockFlow(c) \/ RemoveBlockFlow(c) \/ AddQuarantineFlow(c)
  \/ AddRedirectFlow(c) \/ AddBlockShapeFlow(c)
  \/ Answer(c) \/ Unreachable(c)

Network(s) ==
  \/ Connect(s) \/ Disconnect(s)
  \/ \E i \in IP :
       \/ Miss(s, i)
       \/ \E slot \in Slot : Expire(s, i, slot)

Next ==
  \/ \E c \in Client : Call(c)
  \/ \E s \in Switch : Handle(s) \/ Network(s)
  \/ Restart

Spec == Init /\ [][Next]_vars

\* The controller gets round to every event, and timeouts pass.
Fairness ==
  \A s \in Switch :
    /\ WF_vars(Handle(s))
    /\ \A i \in IP, slot \in Slot : WF_vars(Expire(s, i, slot))

FairSpec == Spec /\ Fairness
-----------------------------------------------------------------------------
(***************************************************************************)
(* Properties                                                              *)
(***************************************************************************)

\* A switch that was told of a permanent block drops the packets of the source
\* for as long as it stays connected and is told nothing else: neither the
\* timeout of an older flow nor a flow that the controller installs for a packet
\* it was sent before replaces the permanent one.
BlockStands ==
  \A s \in Switch, i \in IP :
    told[s][i] = "block" => table[s][i]["rule"] = "drop"

\* After an unblock no flow about the source is left, and none comes back for a
\* packet that was on its way to the controller.
ReleasedClean ==
  \A s \in Switch, i \in IP :
    told[s][i] = "unblock" =>
      /\ ~Listed(i)
      /\ \A slot \in Slot : table[s][i][slot] = "none"

\* A source that is on a list after its flow expired at a switch still has the
\* message about it coming: no block or quarantine stays on the lists because
\* its end went unnoticed.
ListedUntilNoticed ==
  \A s \in Switch, i \in IP :
    told[s][i] \in Whole /\ Listed(i) =>
      \/ table[s][i]["rule"] # "none"
      \/ \E n \in 1 .. Len(events[s]) : events[s][n] = Removed(i, "rule")

\* A block, quarantine or redirection with a timeout ends by itself at a switch
\* that stays connected, also when packets made the controller install more
\* flows meanwhile.
TimedRuleEnds ==
  \A s \in Switch, i \in IP :
    told[s][i] \in {"blockTemp", "redirect", "quarantine"} ~>
      \/ told[s][i] \notin {"blockTemp", "redirect", "quarantine"}
      \/ ~Listed(i) /\ \A slot \in Slot : table[s][i][slot] = "none"
=============================================================================
