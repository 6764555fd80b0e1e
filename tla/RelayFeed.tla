------------------------------- MODULE RelayFeed -------------------------------
(***************************************************************************)
(* How alerts get from the alert stream to the browsers: the relay's       *)
(* redis_stream_listener() and websocket_endpoint() (relay/app.py) and the *)
(* ConnectionManager between them (relay/ws_manager.py).                   *)
(*                                                                         *)
(* Alerts are numbered as they enter the stream.  The listener reads a     *)
(* batch after its cursor, sends it to the connections of that moment, one *)
(* task for each, waits for the tasks three seconds at most, and only then *)
(* moves the cursor.  Clients come, go, break and stop reading meanwhile.  *)
(***************************************************************************)
EXTENDS Integers, FiniteSets

CONSTANTS
  Conn,        \* WebSocket objects, each good for one connection
  MaxAlerts,   \* bound: alerts that enter the stream
  StreamLen,   \* what a trim leaves in the stream (1000)
  BatchCount,  \* messages of a read (count=10)
  MaxErrors,   \* bound: reads that fail
  MaxStalls,   \* bound: times a client stops reading
  MaxRestarts  \* bound: restarts of the relay

AlertId == 1 .. MaxAlerts
New == -1      \* "$": what enters the stream from the call on

VARIABLES
  appended,  \* the last alert in the stream
  first,     \* the first alert still in the stream
  listener,  \* redis_stream_listener(): last_id, what the pending call reads
             \* after, the last message of the batch it broadcasts
  conn,      \* life of each connection
  active,    \* active_connections
  sending,   \* the pending _send_batch_safe tasks and the message each is at
  stale,     \* connections whose task has failed in this batch
  stalled,   \* clients that do not read
  received,  \* history: alerts a client has got
  cut,       \* history: clients whose task was cancelled
  trimmed,   \* history: alerts that left the stream before they were read
  errors, stalls, restarts

clients == <<conn, active, stalled, stalls>>
batch == <<sending, stale>>
history == <<received, cut, trimmed>>
bounds == <<errors, restarts>>
stream == <<appended, first>>
vars == <<stream, listener, clients, batch, history, bounds>>

Idle == 0
Resting(cursor) == [pc |-> "read", cursor |-> cursor, from |-> 0, upto |-> 0]
Up == {c \in Conn : conn[c] = "open"}

TypeOK ==
  /\ appended \in 0 .. MaxAlerts /\ first \in 1 .. MaxAlerts + 1
  /\ listener \in [pc : {"read", "wait", "send"}, cursor : {New} \cup AlertId,
                   from : 0 .. MaxAlerts, upto : 0 .. MaxAlerts]
  /\ conn \in [Conn -> {"new", "open", "broken", "closed"}]
  /\ active \subseteq Conn /\ stale \subseteq Conn /\ stalled \subseteq Conn
  /\ sending \in [Conn -> {Idle} \cup AlertId]
  /\ received \in [Conn -> SUBSET AlertId]
  /\ cut \subseteq Conn /\ trimmed \subseteq AlertId
  /\ errors \in 0 .. MaxErrors /\ stalls \in 0 .. MaxStalls
  /\ restarts \in 0 .. MaxRestarts

Init ==
  /\ appended = 0 /\ first = 1 /\ listener = Resting(New)
  /\ conn = [c \in Conn |-> "new"] /\ active = {} /\ stalled = {} /\ stalls = 0
  /\ sending = [c \in Conn |-> Idle] /\ stale = {}
  /\ received = [c \in Conn |-> {}]
  /\ cut = {} /\ trimmed = {} /\ errors = 0 /\ restarts = 0
-----------------------------------------------------------------------------
(* The stream                                                              *)

\* A worker's batch of alerts enters the stream in one pipeline, which trims
\* the stream at its end.
Publish(n) ==
  /\ appended + n <= MaxAlerts
  /\ appended' = appended + n
  /\ first' = IF appended' - StreamLen >= first THEN appended' - StreamLen + 1 ELSE first
  /\ UNCHANGED <<listener, clients, batch, history, bounds>>

(* redis_stream_listener()                                                 *)

\* XREAD after last_id; "$" is whatever the last message is when the call
\* arrives.
ReadStart ==
  /\ listener.pc = "read"
  /\ listener' = [listener EXCEPT !.pc = "wait",
                    !.from = IF listener.cursor = New THEN appended ELSE listener.cursor]
  /\ UNCHANGED <<stream, clients, batch, history, bounds>>

Readable == {n \in first .. appended : n > listener.from}

\* Nothing within a second.
ReadTimeout ==
  /\ listener.pc = "wait" /\ Readable = {}
  /\ listener' = Resting(listener.cursor)
  /\ UNCHANGED <<stream, clients, batch, history, bounds>>

\* The call raises: two seconds, and once more from the same place.
ReadError ==
  /\ listener.pc = "wait" /\ errors < MaxErrors /\ errors' = errors + 1
  /\ listener' = Resting(listener.cursor)
  /\ UNCHANGED <<stream, clients, batch, history, restarts>>

\* A batch arrives, and broadcast_batch() starts a task for every connection
\* of this moment.  Without a connection it returns.
ReadReply ==
  /\ listener.pc = "wait" /\ Readable # {}
  /\ LET low == CHOOSE n \in Readable : \A m \in Readable : n <= m
         upto == IF low + BatchCount - 1 <= appended THEN low + BatchCount - 1 ELSE appended
     IN  /\ listener' = IF active = {} THEN Resting(upto)
                        ELSE [listener EXCEPT !.pc = "send", !.upto = upto]
         /\ sending' = [c \in Conn |-> IF c \in active THEN low ELSE Idle]
         /\ trimmed' = trimmed \cup {n \in AlertId : listener.from < n /\ n < low}
  /\ UNCHANGED <<stream, clients, stale, received, cut, bounds>>

(* broadcast_batch()                                                       *)

Pending == {c \in Conn : sending[c] # Idle}

\* _send_batch_safe() gets a message to a client that reads ...
Send(c) ==
  /\ c \in Pending /\ conn[c] = "open" /\ c \notin stalled
  /\ received' = [received EXCEPT ![c] = @ \cup {sending[c]}]
  /\ sending' = [sending EXCEPT ![c] = IF @ = listener.upto THEN Idle ELSE @ + 1]
  /\ UNCHANGED <<stream, listener, clients, stale, cut, trimmed, bounds>>

\* ... and gives up on one that is gone.
SendFails(c) ==
  /\ c \in Pending /\ conn[c] \in {"broken", "closed"}
  /\ stale' = stale \cup {c} /\ sending' = [sending EXCEPT ![c] = Idle]
  /\ UNCHANGED <<stream, listener, clients, history, bounds>>

\* Mutant: asyncio.wait() without a timeout.
TimeoutNever == FALSE /\ UNCHANGED vars

\* Three seconds: enough for every client that reads.  The tasks that are left
\* are cancelled, and their connections stay.
Timeout ==
  /\ listener.pc = "send" /\ Pending # {} /\ Pending \subseteq stalled \cap Up
  /\ cut' = cut \cup Pending /\ sending' = [c \in Conn |-> Idle]
  /\ UNCHANGED <<stream, listener, clients, stale, received, trimmed, bounds>>

\* Mutant: the cursor jumps to the end of the stream.
FinishAtEnd ==
  /\ listener.pc = "send" /\ Pending = {}
  /\ active' = active \ stale /\ stale' = {}
  /\ listener' = Resting(appended)
  /\ UNCHANGED <<stream, conn, stalled, stalls, sending, history, bounds>>

\* All tasks are done: the stale connections go, the cursor moves.
Finish ==
  /\ listener.pc = "send" /\ Pending = {}
  /\ active' = active \ stale /\ stale' = {}
  /\ listener' = Resting(listener.upto)
  /\ UNCHANGED <<stream, conn, stalled, stalls, sending, history, bounds>>

(* websocket_endpoint() and the clients                                    *)

\* connect() accepts and adds; if accept() raises the endpoint closes.
Connect(c) ==
  /\ conn[c] = "new"
  /\ \/ conn' = [conn EXCEPT ![c] = "open"] /\ active' = active \cup {c}
     \/ conn' = [conn EXCEPT ![c] = "closed"] /\ UNCHANGED active
  /\ UNCHANGED <<stream, listener, stalled, stalls, batch, history, bounds>>

\* The client goes away; sends fail from now on.
Break(c) ==
  /\ conn[c] = "open" /\ conn' = [conn EXCEPT ![c] = "broken"]
  /\ stalled' = stalled \ {c}
  /\ UNCHANGED <<stream, listener, active, stalls, batch, history, bounds>>

\* The endpoint learns of it and disconnects, whatever the broadcast does.
Disconnect(c) ==
  /\ conn[c] = "broken" /\ conn' = [conn EXCEPT ![c] = "closed"]
  /\ active' = active \ {c}
  /\ UNCHANGED <<stream, listener, stalled, stalls, batch, history, bounds>>

\* The client stops reading, or reads again.
Stall(c) ==
  /\ c \in Up
  /\ \/ /\ c \notin stalled /\ stalls < MaxStalls
        /\ stalled' = stalled \cup {c} /\ stalls' = stalls + 1
     \/ /\ c \in stalled /\ stalled' = stalled \ {c} /\ UNCHANGED stalls
  /\ UNCHANGED <<stream, listener, conn, active, batch, history, bounds>>

\* The relay stops wherever it is and starts again; its connections are gone.
Restart ==
  /\ restarts < MaxRestarts /\ restarts' = restarts + 1
  /\ listener' = Resting(New)
  /\ conn' = [c \in Conn |-> IF conn[c] = "new" THEN "new" ELSE "closed"]
  /\ active' = {} /\ stalled' = {}
  /\ sending' = [c \in Conn |-> Idle] /\ stale' = {}
  /\ UNCHANGED <<stream, stalls, history, errors>>

Listen == ReadStart \/ ReadTimeout \/ ReadReply \/ Timeout \/ Finish
Next ==
  \/ \E n \in AlertId : Publish(n)
  \/ Listen \/ ReadError
  \/ \E c \in Conn :
       Send(c) \/ SendFails(c) \/ Connect(c) \/ Break(c) \/ Disconnect(c) \/ Stall(c)
  \/ Restart

Spec == Init /\ [][Next]_vars

\* The event loop runs what can run.  Clients owe nothing.
Fairness ==
  WF_vars(Listen) /\ \A c \in Conn : WF_vars(Send(c)) /\ WF_vars(SendFails(c))
FairSpec == Spec /\ Fairness
-----------------------------------------------------------------------------
(***************************************************************************)
(* Properties                                                              *)
(***************************************************************************)

\* From its first alert on, a connected client has every alert up to the
\* listener's cursor, over failed reads and while other clients break, unless
\* the alert left the stream unread or the three seconds cut this client off
\* (broadcast_batch(), last_id in redis_stream_listener()).
Gapless ==
  \A c \in (active \cap Up) \ cut : received[c] # {} =>
    \A n \in AlertId :
      /\ \E m \in received[c] : m < n
      /\ n <= listener.cursor
      => n \in received[c] \cup trimmed

\* What a client gets is new to it and younger than all it has got: failed
\* reads, batches cut off and clients that break make the listener neither
\* repeat an alert nor send one late (last_id in redis_stream_listener(),
\* broadcast_batch()).
NextInOrder ==
  \A c \in Conn : received'[c] # received[c] =>
    \E n \in AlertId :
      received'[c] = received[c] \cup {n} /\ \A m \in received[c] : m < n
InOrder == [][NextInOrder]_vars

\* The cursor never goes back; only a restart forgets it (last_id in
\* redis_stream_listener()).
NotBack == listener'.cursor >= listener.cursor \/ restarts' > restarts
Forward == [][NotBack]_vars

\* Clients that stopped reading or broke do not hold up the feed: once the
\* listener has a cursor it gets past every alert in the stream, unless the
\* relay restarts (the three seconds of broadcast_batch()).
FeedMovesOn ==
  \A n \in AlertId :
    (listener.cursor # New /\ appended >= n)
      ~> (listener.cursor >= n \/ listener.cursor = New)
=============================================================================
