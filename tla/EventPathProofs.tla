---------------------------- MODULE EventPathProofs ----------------------------
(***************************************************************************)
(* Proofs about the way of an event: about its two ends, FlowAggregator    *)
(* and RelayFeed, and about StreamPipeline between them.  They hold for    *)
(* any number of events, workers, keys, flows and connections and for any  *)
(* bounds.                                                                 *)
(***************************************************************************)
EXTENDS EventPath, TLAPS
-----------------------------------------------------------------------------
(***************************************************************************)
(* The ingestion process                                                   *)
(*                                                                         *)
(* The inductive invariant adds to the account of Conserved what each      *)
(* coroutine can have in its hands at each point of its program.           *)
(***************************************************************************)

\* What the two coroutines have in their hands: the reader one event to add or
\* something to push, the cleaner an aggregate only while it pushes it.
HandsRight ==
  /\ reader.pc = "read" => reader.hand = Ingestion!Nothing
  /\ reader.pc = "add" => reader.hand.of \in Flow /\ reader.hand.events = 1
  /\ reader.pc = "push" => reader.hand.events > 0
  /\ cleaner.pc # "push" => cleaner.hand = Ingestion!Nothing
  /\ cleaner.pc = "push" => cleaner.hand.of \in Flow /\ cleaner.hand.events > 0

IngestionInv == Ingestion!TypeOK /\ HandsRight /\ Conserved

\* The account of a kind: no number in it exceeds what has arrived.
Account(k) ==
  /\ arrived[k] \in Nat /\ arrived[k] <= MaxReads
  /\ pushed[k] \in Nat /\ lost[k] \in Nat /\ Ingestion!Held(k) \in Nat
  /\ Ingestion!InHand(reader.hand, k) \in Nat
  /\ Ingestion!InHand(cleaner.hand, k) \in Nat
  /\ arrived[k] = Ingestion!Held(k) + Ingestion!InHand(reader.hand, k)
                    + Ingestion!InHand(cleaner.hand, k) + pushed[k] + lost[k]

\* The account of every kind is in order: its numbers are types and add up.
LEMMA AccountLemma ==
  ASSUME IngestionInv
  PROVE  \A k \in Ingestion!Kind : Account(k)
<1> SUFFICES ASSUME NEW k \in Ingestion!Kind PROVE Account(k)
  OBVIOUS
<1>1. /\ arrived[k] \in Nat /\ arrived[k] <= MaxReads
      /\ pushed[k] \in Nat /\ lost[k] \in Nat
  BY IngestionAssumption DEF IngestionInv, Ingestion!TypeOK, Ingestion!Count
<1>2. Ingestion!Held(k) \in Nat
  BY IngestionAssumption
     DEF IngestionInv, Ingestion!TypeOK, Ingestion!Count, Ingestion!Held,
         Ingestion!Kind
<1>3. /\ Ingestion!InHand(reader.hand, k) \in Nat
      /\ Ingestion!InHand(cleaner.hand, k) \in Nat
  BY IngestionAssumption
     DEF IngestionInv, Ingestion!TypeOK, Ingestion!Count, Ingestion!Hand,
         Ingestion!InHand
<1> QED
  BY <1>1, <1>2, <1>3 DEF IngestionInv, Conserved, Ingestion!Conserved, Account

\* The start of the process.
LEMMA IngestionInit == Ingestion!Init => IngestionInv
<1> SUFFICES ASSUME Ingestion!Init PROVE IngestionInv
  OBVIOUS
<1>1. 0 \in Ingestion!Count /\ Alert \in Ingestion!Kind
  BY IngestionAssumption DEF Ingestion!Count, Ingestion!Kind
<1>2. Ingestion!TypeOK
  BY <1>1, IngestionAssumption
     DEF Ingestion!Init, Ingestion!TypeOK, Ingestion!AtRest, Ingestion!Asleep,
         Ingestion!Nothing, Ingestion!NoFlow, Ingestion!Hand
<1>3. HandsRight
  BY DEF Ingestion!Init, HandsRight, Ingestion!AtRest, Ingestion!Asleep
<1>4. Conserved
  BY
     DEF Conserved, Ingestion!Conserved, Ingestion!Init, Ingestion!Held,
         Ingestion!InHand, Ingestion!AtRest, Ingestion!Asleep, Ingestion!Nothing,
         Ingestion!NoFlow, Ingestion!Kind
<1> QED
  BY <1>2, <1>3, <1>4 DEF IngestionInv

\* A push puts what is in a hand on the stream or loses it.
LEMMA DeliverLemma ==
  ASSUME IngestionInv, NEW hand \in {reader.hand, cleaner.hand}, Ingestion!Deliver(hand)
  PROVE  /\ pushed' \in [Ingestion!Kind -> Ingestion!Count]
         /\ lost' \in [Ingestion!Kind -> Ingestion!Count]
         /\ pushFaults' \in 0 .. MaxPushFaults
         /\ \A k \in Ingestion!Kind :
              pushed'[k] + lost'[k] = pushed[k] + lost[k] + Ingestion!InHand(hand, k)
<1>1. /\ pushed \in [Ingestion!Kind -> Ingestion!Count]
      /\ lost \in [Ingestion!Kind -> Ingestion!Count]
      /\ hand \in Ingestion!Hand /\ pushFaults \in 0 .. MaxPushFaults
  BY DEF IngestionInv, Ingestion!TypeOK
<1>2. hand.of \in Ingestion!Kind /\ hand.events \in Nat
  BY <1>1, IngestionAssumption DEF Ingestion!Hand, Ingestion!Count
<1>3. /\ pushed[hand.of] + hand.events \in Ingestion!Count
      /\ lost[hand.of] + hand.events \in Ingestion!Count
  <2>1. Account(hand.of)
    BY <1>2, AccountLemma
  <2>2. Ingestion!InHand(hand, hand.of) = hand.events
    BY DEF Ingestion!InHand
  <2>3. hand.events + pushed[hand.of] + lost[hand.of] <= arrived[hand.of]
    BY <2>1, <2>2, <1>2, IngestionAssumption DEF Account
  <2> QED
    BY <2>1, <2>3, <1>2, IngestionAssumption DEF Account, Ingestion!Count
<1>4. /\ pushed' \in [Ingestion!Kind -> Ingestion!Count]
      /\ lost' \in [Ingestion!Kind -> Ingestion!Count]
  BY <1>1, <1>2, <1>3 DEF Ingestion!Deliver
<1>5. pushFaults' \in 0 .. MaxPushFaults
  BY <1>1, IngestionAssumption DEF Ingestion!Deliver
<1>6. ASSUME NEW k \in Ingestion!Kind
      PROVE  pushed'[k] + lost'[k] = pushed[k] + lost[k] + Ingestion!InHand(hand, k)
  <2>1. pushed[k] \in Nat /\ lost[k] \in Nat
    BY <1>1, IngestionAssumption DEF Ingestion!Count
  <2>2. CASE hand.of = k
    BY <2>1, <2>2, <1>1, <1>2 DEF Ingestion!Deliver, Ingestion!InHand
  <2>3. CASE hand.of # k
    BY <2>1, <2>3, <1>1, <1>2 DEF Ingestion!Deliver, Ingestion!InHand
  <2> QED
    BY <2>2, <2>3
<1> QED
  BY <1>4, <1>5, <1>6

\* What both coroutines hold goes down with them.
LEMMA LostLemma ==
  ASSUME IngestionInv,
         NEW f, f \in {[k \in Ingestion!Kind |->
                          lost[k] + Ingestion!Held(k) + Ingestion!InHand(cleaner.hand, k)],
                       [k \in Ingestion!Kind |->
                          lost[k] + Ingestion!Held(k) + Ingestion!InHand(cleaner.hand, k)
                                  + Ingestion!InHand(reader.hand, k)]}
  PROVE  f \in [Ingestion!Kind -> Ingestion!Count]
<1> SUFFICES ASSUME NEW k \in Ingestion!Kind
             PROVE  /\ lost[k] + Ingestion!Held(k) + Ingestion!InHand(cleaner.hand, k)
                         \in Ingestion!Count
                    /\ lost[k] + Ingestion!Held(k) + Ingestion!InHand(cleaner.hand, k)
                         + Ingestion!InHand(reader.hand, k) \in Ingestion!Count
  OBVIOUS
<1> QED
  BY AccountLemma, IngestionAssumption DEF Account, Ingestion!Count

\* The numbers stay within the bound, since no number of an account exceeds what
\* has arrived.
LEMMA IngestionTypeNext ==
  ASSUME IngestionInv, [Ingestion!Next]_(Ingestion!vars)
  PROVE  Ingestion!TypeOK'
<1> USE IngestionAssumption
<1>0. /\ 0 \in Ingestion!Count /\ 1 \in 0 .. MaxReads + 1
      /\ Alert \in Ingestion!Kind /\ Flow \subseteq Ingestion!Kind
      /\ Ingestion!Nothing \in Ingestion!Hand
      /\ Ingestion!NoFlow \in [events : Ingestion!Count, old : BOOLEAN, idle : BOOLEAN]
  BY
     DEF Ingestion!Count, Ingestion!Kind, Ingestion!Hand, Ingestion!Nothing,
         Ingestion!NoFlow
<1>a. Ingestion!TypeOK
  BY DEF IngestionInv
<1>1. ASSUME NEW k \in Ingestion!Kind, Ingestion!ReadEvent(k) PROVE Ingestion!TypeOK'
  <2>1. arrived[k] + 1 \in Ingestion!Count /\ 1 \in Ingestion!Count
    BY <1>1, <1>a DEF Ingestion!TypeOK, Ingestion!ReadEvent, Ingestion!Count
  <2>2. [of |-> k, events |-> 1] \in Ingestion!Hand
    BY <2>1 DEF Ingestion!Hand
  <2> QED
    BY <1>1, <1>a, <2>1, <2>2 DEF Ingestion!TypeOK, Ingestion!ReadEvent
<1>2. ASSUME Ingestion!AddEvent PROVE Ingestion!TypeOK'
  <2> DEFINE k == reader.hand.of
             flow == [active[k] EXCEPT !.events = @ + 1, !.idle = FALSE]
  <2>1. k \in Flow /\ reader.hand.events > 0 /\ reader.hand.events \in Nat
    BY <1>2
       DEF IngestionInv, Ingestion!TypeOK, HandsRight, Ingestion!AddEvent,
           Ingestion!Hand, Ingestion!Count
  <2>2. active[k] \in [events : Ingestion!Count, old : BOOLEAN, idle : BOOLEAN]
    BY <2>1, <1>a DEF Ingestion!TypeOK
  <2>3. active[k].events + 1 \in Ingestion!Count
    <3>1. Account(k) /\ k # Alert
      BY <2>1, AccountLemma, <1>0
    <3> QED
      BY <3>1, <2>1 DEF Account, Ingestion!Held, Ingestion!InHand, Ingestion!Count
  <2>4. /\ flow \in [events : Ingestion!Count, old : BOOLEAN, idle : BOOLEAN]
        /\ flow.events = active[k].events + 1
    BY <2>2, <2>3
  <2>5. [of |-> k, events |-> flow.events] \in Ingestion!Hand
    BY <2>1, <2>4, <1>0, <2>3 DEF Ingestion!Hand
  <2> HIDE DEF flow
  <2>6. /\ active' \in [Flow -> [events : Ingestion!Count, old : BOOLEAN, idle : BOOLEAN]]
        /\ reader' \in [pc : {"read", "add", "push"}, hand : Ingestion!Hand]
    <3>1. CASE active[k].old
      BY <3>1, <1>2, <1>0, <1>a, <2>1, <2>2, <2>5
         DEF Ingestion!TypeOK, Ingestion!AddEvent, flow
    <3>2. CASE ~active[k].old
      <4>1. active' = [active EXCEPT ![k] = flow] /\ reader' = Ingestion!AtRest("read")
        BY <3>2, <1>2, <2>2 DEF Ingestion!AddEvent, flow
      <4> QED
        BY <4>1, <1>0, <1>a, <2>1, <2>4 DEF Ingestion!TypeOK, Ingestion!AtRest
    <3> QED
      BY <3>1, <3>2
  <2> QED
    BY <1>2, <1>a, <2>6 DEF Ingestion!TypeOK, Ingestion!AddEvent, Ingestion!history
<1>3. ASSUME Ingestion!ReaderPush PROVE Ingestion!TypeOK'
  BY <1>3, <1>0, <1>a, DeliverLemma
     DEF Ingestion!TypeOK, Ingestion!ReaderPush, Ingestion!AtRest
<1>4. ASSUME Ingestion!FindIdle PROVE Ingestion!TypeOK'
  BY <1>4, <1>0, <1>a DEF Ingestion!TypeOK, Ingestion!FindIdle, Ingestion!history
<1>5. ASSUME Ingestion!FlushIdle PROVE Ingestion!TypeOK'
  <2>1. PICK k \in cleaner.todo :
       IF Ingestion!Open(k)
       THEN /\ active' = [active EXCEPT ![k] = Ingestion!NoFlow]
            /\ cleaner' = [pc |-> "push", todo |-> cleaner.todo \ {k},
                           hand |-> [of |-> k, events |-> active[k].events]]
       ELSE /\ cleaner' = [cleaner EXCEPT !.todo = @ \ {k}]
            /\ UNCHANGED active
    BY <1>5 DEF Ingestion!FlushIdle
  <2>2. k \in Flow /\ cleaner.todo \ {k} \in SUBSET Flow
    BY <1>a DEF Ingestion!TypeOK
  <2>3. [of |-> k, events |-> active[k].events] \in Ingestion!Hand
    BY <2>2, <1>0, <1>a DEF Ingestion!TypeOK, Ingestion!Hand
  <2> QED
    BY <2>1, <2>2, <2>3, <1>0, <1>5, <1>a
       DEF Ingestion!TypeOK, Ingestion!FlushIdle, Ingestion!history
<1>6. ASSUME Ingestion!CleanerPush PROVE Ingestion!TypeOK'
  BY <1>6, <1>0, <1>a, DeliverLemma DEF Ingestion!TypeOK, Ingestion!CleanerPush
<1>7. ASSUME Ingestion!CleanerSleep PROVE Ingestion!TypeOK'
  BY <1>7, <1>0, <1>a
     DEF Ingestion!TypeOK, Ingestion!CleanerSleep, Ingestion!Asleep, Ingestion!history
<1>8. ASSUME NEW k \in Flow, Ingestion!Age(k) PROVE Ingestion!TypeOK'
  <2>1. PICK idle \in BOOLEAN :
          active' = [active EXCEPT ![k] = [@ EXCEPT !.old = TRUE, !.idle = idle]]
    BY <1>8 DEF Ingestion!Age
  <2>2. active[k] \in [events : Ingestion!Count, old : BOOLEAN, idle : BOOLEAN]
    BY <1>a DEF Ingestion!TypeOK
  <2>3. [active[k] EXCEPT !.old = TRUE, !.idle = idle]
          \in [events : Ingestion!Count, old : BOOLEAN, idle : BOOLEAN]
    <3> DEFINE f == active[k]
    <3> HIDE DEF f
    <3>1. \A c, o, i, j : f \in [events : c, old : o, idle : i] /\ TRUE \in o /\ j \in i =>
            [f EXCEPT !.old = TRUE, !.idle = j] \in [events : c, old : o, idle : i]
      OBVIOUS
    <3> QED
      BY <2>2, <3>1 DEF f
  <2> QED
    BY <2>1, <2>2, <2>3, <1>8, <1>a DEF Ingestion!TypeOK, Ingestion!Age, Ingestion!history
<1>9. ASSUME Ingestion!Disconnect PROVE Ingestion!TypeOK'
  <2>1. lost' \in [Ingestion!Kind -> Ingestion!Count]
    BY <1>9, LostLemma DEF Ingestion!Disconnect
  <2> QED
    BY <1>9, <2>1, <1>0, <1>a
       DEF Ingestion!TypeOK, Ingestion!Disconnect, Ingestion!Asleep
<1>10. ASSUME Ingestion!Die PROVE Ingestion!TypeOK'
  <2>1. lost' \in [Ingestion!Kind -> Ingestion!Count]
    BY <1>10, LostLemma DEF Ingestion!Die
  <2> QED
    BY <1>10, <2>1, <1>0, <1>a
       DEF Ingestion!TypeOK, Ingestion!Die, Ingestion!Asleep, Ingestion!AtRest
<1>11. CASE UNCHANGED Ingestion!vars
  BY <1>11, <1>a DEF Ingestion!TypeOK, Ingestion!vars, Ingestion!history
<1> QED
  BY <1>1, <1>2, <1>3, <1>4, <1>5, <1>6, <1>7, <1>8, <1>9, <1>10, <1>11
     DEF Ingestion!Next, Ingestion!Reader, Ingestion!Cleaner

\* Each coroutine comes to a point of its program with what it needs there.
LEMMA HandsNext ==
  ASSUME IngestionInv, [Ingestion!Next]_(Ingestion!vars)
  PROVE  HandsRight'
<1> USE IngestionAssumption
<1>a. Ingestion!TypeOK /\ HandsRight
  BY DEF IngestionInv
<1>1. ASSUME NEW k \in Ingestion!Kind, Ingestion!ReadEvent(k) PROVE HandsRight'
  BY <1>1, <1>a DEF HandsRight, Ingestion!ReadEvent, Ingestion!Kind
<1>2. ASSUME Ingestion!AddEvent PROVE HandsRight'
  <2> DEFINE k == reader.hand.of
             flow == [active[k] EXCEPT !.events = @ + 1, !.idle = FALSE]
  <2>1. k \in Flow
    BY <1>2, <1>a DEF HandsRight, Ingestion!AddEvent
  <2>2. active[k] \in [events : Ingestion!Count, old : BOOLEAN, idle : BOOLEAN]
    BY <2>1, <1>a DEF Ingestion!TypeOK
  <2>3. flow.events = active[k].events + 1 /\ flow.events > 0
    BY <2>2 DEF Ingestion!Count
  <2> HIDE DEF flow
  <2>4. \/ reader' = [pc |-> "push", hand |-> [of |-> k, events |-> flow.events]]
        \/ reader' = Ingestion!AtRest("read")
    BY <1>2 DEF Ingestion!AddEvent, flow
  <2> QED
    BY <2>3, <2>4, <1>2, <1>a DEF HandsRight, Ingestion!AddEvent, Ingestion!AtRest
<1>3. ASSUME Ingestion!ReaderPush PROVE HandsRight'
  BY <1>3, <1>a DEF HandsRight, Ingestion!ReaderPush, Ingestion!AtRest
<1>4. ASSUME Ingestion!FindIdle PROVE HandsRight'
  BY <1>4, <1>a DEF HandsRight, Ingestion!FindIdle
<1>5. ASSUME Ingestion!FlushIdle PROVE HandsRight'
  <2>1. PICK k \in cleaner.todo :
       IF Ingestion!Open(k)
       THEN cleaner' = [pc |-> "push", todo |-> cleaner.todo \ {k},
                        hand |-> [of |-> k, events |-> active[k].events]]
       ELSE cleaner' = [cleaner EXCEPT !.todo = @ \ {k}]
    BY <1>5 DEF Ingestion!FlushIdle
  <2>2. k \in Flow
    BY <1>a DEF Ingestion!TypeOK
  <2>3. cleaner.hand = Ingestion!Nothing /\ cleaner.pc = "flush" /\ UNCHANGED reader
    BY <1>5, <1>a DEF Ingestion!FlushIdle, HandsRight
  <2>4. CASE Ingestion!Open(k)
    BY <2>1, <2>2, <2>3, <2>4, <1>a DEF HandsRight, Ingestion!Open
  <2>5. CASE ~Ingestion!Open(k)
    <3>1. cleaner'.pc = cleaner.pc /\ cleaner'.hand = cleaner.hand
      BY <2>1, <2>5, <1>a DEF Ingestion!TypeOK
    <3> QED
      BY <3>1, <2>3, <1>a DEF HandsRight
  <2> QED
    BY <2>4, <2>5
<1>6. ASSUME Ingestion!CleanerPush PROVE HandsRight'
  BY <1>6, <1>a DEF HandsRight, Ingestion!CleanerPush, Ingestion!TypeOK
<1>7. ASSUME Ingestion!CleanerSleep PROVE HandsRight'
  BY <1>7, <1>a DEF HandsRight, Ingestion!CleanerSleep, Ingestion!Asleep
<1>8. ASSUME NEW k \in Flow, Ingestion!Age(k) PROVE HandsRight'
  BY <1>8, <1>a DEF HandsRight, Ingestion!Age
<1>9. ASSUME Ingestion!Disconnect PROVE HandsRight'
  BY <1>9, <1>a DEF HandsRight, Ingestion!Disconnect, Ingestion!Asleep
<1>10. ASSUME Ingestion!Die PROVE HandsRight'
  BY <1>10, <1>a DEF HandsRight, Ingestion!Die, Ingestion!Asleep, Ingestion!AtRest
<1>11. CASE UNCHANGED Ingestion!vars
  BY <1>11, <1>a DEF HandsRight, Ingestion!vars
<1> QED
  BY <1>1, <1>2, <1>3, <1>4, <1>5, <1>6, <1>7, <1>8, <1>9, <1>10, <1>11
     DEF Ingestion!Next, Ingestion!Reader, Ingestion!Cleaner

\* What is held of a kind, by the aggregator and the two coroutines.
InProcess(k) ==
  Ingestion!Held(k) + Ingestion!InHand(reader.hand, k) + Ingestion!InHand(cleaner.hand, k)

\* What leaves the process is pushed or lost.
LEMMA BalanceLemma ==
  ASSUME IngestionInv, Ingestion!TypeOK', NEW k \in Ingestion!Kind, NEW out \in Nat,
         arrived'[k] = arrived[k],
         InProcess(k) = InProcess(k)' + out,
         pushed'[k] + lost'[k] = pushed[k] + lost[k] + out
  PROVE  arrived'[k] = InProcess(k)' + pushed'[k] + lost'[k]
<1>1. Account(k)
  BY AccountLemma
<1>2. /\ pushed'[k] \in Nat /\ lost'[k] \in Nat
      /\ Ingestion!Held(k)' \in Nat /\ Ingestion!InHand(reader.hand, k)' \in Nat
      /\ Ingestion!InHand(cleaner.hand, k)' \in Nat
  BY IngestionAssumption
     DEF Ingestion!TypeOK, Ingestion!Count, Ingestion!Held, Ingestion!InHand,
         Ingestion!Hand, Ingestion!Kind
<1>3. /\ arrived[k] \in Nat /\ pushed[k] \in Nat /\ lost[k] \in Nat
      /\ arrived[k] = InProcess(k) + pushed[k] + lost[k]
  BY <1>1 DEF Account, InProcess
<1>4. InProcess(k)' \in Nat
  BY <1>2 DEF InProcess
<1> QED
  BY <1>2, <1>3, <1>4

\* Every step does.
LEMMA ConservedNext ==
  ASSUME IngestionInv, [Ingestion!Next]_(Ingestion!vars), Ingestion!TypeOK'
  PROVE  Conserved'
<1> USE IngestionAssumption
<1> SUFFICES ASSUME NEW k \in Ingestion!Kind
             PROVE  arrived'[k] = InProcess(k)' + pushed'[k] + lost'[k]
  BY DEF Conserved, Ingestion!Conserved, InProcess
<1> DEFINE Balance == arrived'[k] = InProcess(k)' + pushed'[k] + lost'[k]
           Out(n) == /\ InProcess(k) = InProcess(k)' + n
                     /\ pushed'[k] + lost'[k] = pushed[k] + lost[k] + n
<1>a. Ingestion!TypeOK /\ HandsRight /\ Account(k)
  BY AccountLemma DEF IngestionInv
<1>b. /\ Ingestion!Held(k)' \in Nat /\ Ingestion!InHand(reader.hand, k)' \in Nat
      /\ Ingestion!InHand(cleaner.hand, k)' \in Nat
      /\ pushed'[k] \in Nat /\ lost'[k] \in Nat
  BY DEF Ingestion!TypeOK, Ingestion!Count, Ingestion!Held, Ingestion!InHand,
         Ingestion!Hand, Ingestion!Kind
<1>c. /\ Ingestion!Held(k) \in Nat /\ Ingestion!InHand(reader.hand, k) \in Nat
      /\ Ingestion!InHand(cleaner.hand, k) \in Nat
      /\ pushed[k] \in Nat /\ lost[k] \in Nat
  BY <1>a DEF Account
<1>1. ASSUME NEW j \in Ingestion!Kind, Ingestion!ReadEvent(j) PROVE Balance
  <2>1. /\ arrived'[k] = arrived[k] + Ingestion!InHand(reader.hand, k)'
        /\ Ingestion!InHand(reader.hand, k) = 0
    BY <1>1, <1>a
       DEF Ingestion!ReadEvent, Ingestion!InHand, HandsRight, Ingestion!Nothing,
           Ingestion!TypeOK, Account
  <2>2. UNCHANGED <<Ingestion!Held(k), Ingestion!InHand(cleaner.hand, k), pushed, lost>>
    BY <1>1 DEF Ingestion!ReadEvent, Ingestion!Held, Ingestion!InHand
  <2>3. InProcess(k)' = InProcess(k) + Ingestion!InHand(reader.hand, k)'
    BY <2>1, <2>2, <1>b, <1>c DEF InProcess
  <2>4. InProcess(k) \in Nat /\ arrived[k] = InProcess(k) + pushed[k] + lost[k]
    BY <1>a, <1>c DEF InProcess, Account
  <2> QED
    BY <2>1, <2>2, <2>3, <2>4, <1>b, <1>c
<1>2. ASSUME Ingestion!AddEvent PROVE Balance
  <2>1. PICK j \in Flow : j = reader.hand.of /\ j # Alert
    BY <1>2, <1>a DEF HandsRight, Ingestion!AddEvent
  <2> DEFINE flow == [active[j] EXCEPT !.events = @ + 1, !.idle = FALSE]
  <2>2. active[j] \in [events : Ingestion!Count, old : BOOLEAN, idle : BOOLEAN]
    BY <2>1, <1>a DEF Ingestion!TypeOK
  <2>3. flow.events = active[j].events + 1 /\ flow.old = active[j].old
    BY <2>2
  <2> HIDE DEF flow
  <2>4. \/ /\ active' = [active EXCEPT ![j] = Ingestion!NoFlow]
           /\ reader' = [pc |-> "push", hand |-> [of |-> j, events |-> flow.events]]
        \/ /\ active' = [active EXCEPT ![j] = flow]
           /\ reader' = Ingestion!AtRest("read")
    BY <1>2, <2>1 DEF Ingestion!AddEvent, flow
  <2>5. UNCHANGED <<Ingestion!InHand(cleaner.hand, k), pushed, lost, arrived>>
    BY <1>2 DEF Ingestion!AddEvent, Ingestion!history, Ingestion!InHand
  <2>6. /\ reader.hand.events = 1 /\ Ingestion!Held(j) = active[j].events
        /\ Ingestion!InHand(reader.hand, j) = 1
        /\ \/ /\ Ingestion!Held(j)' = 0
              /\ Ingestion!InHand(reader.hand, j)' = active[j].events + 1
           \/ /\ Ingestion!Held(j)' = active[j].events + 1
              /\ Ingestion!InHand(reader.hand, j)' = 0
    <3>1. /\ reader.hand.events = 1 /\ Ingestion!Held(j) = active[j].events
          /\ Ingestion!InHand(reader.hand, j) = 1
      BY <1>2, <2>1, <1>a
         DEF HandsRight, Ingestion!AddEvent, Ingestion!Held, Ingestion!InHand
    <3>2. CASE /\ active' = [active EXCEPT ![j] = Ingestion!NoFlow]
               /\ reader' = [pc |-> "push", hand |-> [of |-> j, events |-> flow.events]]
      BY <3>1, <3>2, <2>1, <2>3, <1>a
         DEF Ingestion!Held, Ingestion!InHand, Ingestion!NoFlow, Ingestion!TypeOK
    <3>3. CASE /\ active' = [active EXCEPT ![j] = flow]
               /\ reader' = Ingestion!AtRest("read")
      <4>1. active'[j].events = active[j].events + 1
        BY <3>3, <2>1, <2>3, <1>a DEF Ingestion!TypeOK
      <4>2. reader'.hand.events = 0
        BY <3>3 DEF Ingestion!AtRest, Ingestion!Nothing
      <4> QED
        BY <3>1, <4>1, <4>2, <2>1 DEF Ingestion!Held, Ingestion!InHand
    <3> QED
      BY <3>1, <3>2, <3>3, <2>4
  <2>7. CASE k = j
    <3>1. active[j].events \in Nat
      BY <2>2 DEF Ingestion!Count
    <3>2. Out(0)
      BY <2>5, <2>6, <2>7, <3>1, <1>b, <1>c DEF InProcess
    <3> QED
      BY <3>2, <2>5, BalanceLemma
  <2>8. CASE k # j
    <3>1. Ingestion!Held(k)' = Ingestion!Held(k)
      BY <2>1, <2>4, <2>8, <1>a DEF Ingestion!Held, Ingestion!TypeOK, Ingestion!Kind
    <3>2. Ingestion!InHand(reader.hand, k) = 0 /\ Ingestion!InHand(reader.hand, k)' = 0
      BY <2>1, <2>4, <2>8 DEF Ingestion!InHand, Ingestion!AtRest, Ingestion!Nothing
    <3>3. Out(0)
      BY <2>5, <3>1, <3>2, <1>b, <1>c DEF InProcess
    <3> QED
      BY <3>3, <2>5, BalanceLemma
  <2> QED
    BY <2>7, <2>8
<1>3. ASSUME Ingestion!ReaderPush PROVE Balance
  <2>1. pushed'[k] + lost'[k] = pushed[k] + lost[k] + Ingestion!InHand(reader.hand, k)
    BY <1>3, DeliverLemma DEF Ingestion!ReaderPush
  <2>2. /\ Ingestion!InHand(reader.hand, k)' = 0
        /\ UNCHANGED <<Ingestion!Held(k), Ingestion!InHand(cleaner.hand, k), arrived>>
    BY <1>3 DEF Ingestion!ReaderPush, Ingestion!AtRest, Ingestion!Nothing,
                Ingestion!InHand, Ingestion!Held
  <2>3. InProcess(k) = InProcess(k)' + Ingestion!InHand(reader.hand, k)
    BY <2>2, <1>b, <1>c DEF InProcess
  <2> QED
    BY <2>1, <2>2, <2>3, <1>c, BalanceLemma
<1>4. ASSUME Ingestion!FindIdle PROVE Balance
  <2>1. UNCHANGED <<Ingestion!Held(k), Ingestion!InHand(reader.hand, k),
                    Ingestion!InHand(cleaner.hand, k), arrived, pushed, lost>>
    BY <1>4, <1>a DEF Ingestion!FindIdle, Ingestion!Held, Ingestion!InHand,
                      HandsRight, Ingestion!history
  <2>2. Out(0)
    BY <2>1, <1>c DEF InProcess
  <2> QED
    BY <2>1, <2>2, BalanceLemma
<1>5. ASSUME Ingestion!FlushIdle PROVE Balance
  <2>1. PICK j \in cleaner.todo :
       IF Ingestion!Open(j)
       THEN /\ active' = [active EXCEPT ![j] = Ingestion!NoFlow]
            /\ cleaner' = [pc |-> "push", todo |-> cleaner.todo \ {j},
                           hand |-> [of |-> j, events |-> active[j].events]]
       ELSE /\ cleaner' = [cleaner EXCEPT !.todo = @ \ {j}]
            /\ UNCHANGED active
    BY <1>5 DEF Ingestion!FlushIdle
  <2>2. j \in Flow /\ j # Alert
    BY <1>a DEF Ingestion!TypeOK
  <2>3. cleaner.hand = Ingestion!Nothing /\ Ingestion!InHand(cleaner.hand, k) = 0
    BY <1>5, <1>a
       DEF Ingestion!FlushIdle, HandsRight, Ingestion!Nothing, Ingestion!InHand
  <2>4. UNCHANGED <<Ingestion!InHand(reader.hand, k), pushed, lost, arrived>>
    BY <1>5 DEF Ingestion!FlushIdle, Ingestion!history, Ingestion!InHand
  <2>5. CASE Ingestion!Open(j) /\ k = j
    <3>1. /\ Ingestion!Held(j) = active[j].events /\ Ingestion!Held(j)' = 0
          /\ Ingestion!InHand(cleaner.hand, j)' = active[j].events
      BY <2>1, <2>2, <2>5, <1>a
         DEF Ingestion!Held, Ingestion!InHand, Ingestion!NoFlow, Ingestion!TypeOK
    <3>2. Out(0)
      BY <2>3, <2>4, <2>5, <3>1, <1>b, <1>c DEF InProcess
    <3> QED
      BY <2>4, <3>2, BalanceLemma
  <2>6. CASE Ingestion!Open(j) /\ k # j
    <3>1. /\ UNCHANGED Ingestion!Held(k)
          /\ Ingestion!InHand(cleaner.hand, k)' = 0
      BY <2>1, <2>2, <2>6, <1>a
         DEF Ingestion!Held, Ingestion!InHand, Ingestion!TypeOK, Ingestion!Kind
    <3>2. Out(0)
      BY <2>3, <2>4, <3>1, <1>b, <1>c DEF InProcess
    <3> QED
      BY <2>4, <3>2, BalanceLemma
  <2>7. CASE ~Ingestion!Open(j)
    <3>1. cleaner'.hand = cleaner.hand /\ UNCHANGED Ingestion!Held(k)
      BY <2>1, <2>7, <1>a DEF Ingestion!TypeOK, Ingestion!Held
    <3>2. UNCHANGED Ingestion!InHand(cleaner.hand, k)
      BY <3>1 DEF Ingestion!InHand
    <3>3. Out(0)
      BY <2>4, <3>1, <3>2, <1>c DEF InProcess
    <3> QED
      BY <2>4, <3>3, BalanceLemma
  <2> QED
    BY <2>5, <2>6, <2>7
<1>6. ASSUME Ingestion!CleanerPush PROVE Balance
  <2>1. pushed'[k] + lost'[k] = pushed[k] + lost[k] + Ingestion!InHand(cleaner.hand, k)
    BY <1>6, DeliverLemma DEF Ingestion!CleanerPush
  <2>2. cleaner'.hand = Ingestion!Nothing
    BY <1>6, <1>a DEF Ingestion!CleanerPush, Ingestion!TypeOK
  <2>3. /\ Ingestion!InHand(cleaner.hand, k)' = 0
        /\ UNCHANGED <<Ingestion!Held(k), Ingestion!InHand(reader.hand, k), arrived>>
    BY <1>6, <2>2 DEF Ingestion!CleanerPush, Ingestion!Nothing,
                      Ingestion!InHand, Ingestion!Held
  <2>4. InProcess(k) = InProcess(k)' + Ingestion!InHand(cleaner.hand, k)
    BY <2>3, <1>b, <1>c DEF InProcess
  <2> QED
    BY <2>1, <2>3, <2>4, <1>c, BalanceLemma
<1>7. ASSUME Ingestion!CleanerSleep PROVE Balance
  <2>1. UNCHANGED <<Ingestion!Held(k), Ingestion!InHand(reader.hand, k),
                    Ingestion!InHand(cleaner.hand, k), arrived, pushed, lost>>
    BY <1>7, <1>a DEF Ingestion!CleanerSleep, Ingestion!Asleep, Ingestion!Held,
                      Ingestion!InHand, HandsRight, Ingestion!history
  <2>2. Out(0)
    BY <2>1, <1>c DEF InProcess
  <2> QED
    BY <2>1, <2>2, BalanceLemma
<1>8. ASSUME NEW j \in Flow, Ingestion!Age(j) PROVE Balance
  <2>1. active'[k].events = active[k].events \/ k = Alert
    BY <1>8, <1>a DEF Ingestion!Age, Ingestion!TypeOK, Ingestion!Kind
  <2>2. UNCHANGED <<Ingestion!Held(k), Ingestion!InHand(reader.hand, k),
                    Ingestion!InHand(cleaner.hand, k), arrived, pushed, lost>>
    BY <2>1, <1>8
       DEF Ingestion!Age, Ingestion!Held, Ingestion!InHand, Ingestion!history
  <2>3. Out(0)
    BY <2>2, <1>c DEF InProcess
  <2> QED
    BY <2>2, <2>3, BalanceLemma
<1>9. ASSUME Ingestion!Disconnect PROVE Balance
  <2>1. lost'[k] = lost[k] + Ingestion!Held(k) + Ingestion!InHand(cleaner.hand, k)
    BY <1>9 DEF Ingestion!Disconnect
  <2>2. /\ Ingestion!Held(k)' = 0 /\ Ingestion!InHand(cleaner.hand, k)' = 0
        /\ UNCHANGED <<Ingestion!InHand(reader.hand, k), arrived, pushed>>
    BY <1>9
       DEF Ingestion!Disconnect, Ingestion!Held, Ingestion!InHand, Ingestion!Asleep,
           Ingestion!Nothing, Ingestion!NoFlow, Ingestion!Kind
  <2>3. Out(Ingestion!Held(k) + Ingestion!InHand(cleaner.hand, k))
    BY <2>1, <2>2, <1>b, <1>c DEF InProcess
  <2> QED
    BY <2>2, <2>3, <1>c, BalanceLemma
<1>10. ASSUME Ingestion!Die PROVE Balance
  <2>1. lost'[k] = lost[k] + Ingestion!Held(k) + Ingestion!InHand(cleaner.hand, k)
                     + Ingestion!InHand(reader.hand, k)
    BY <1>10 DEF Ingestion!Die
  <2>2. /\ Ingestion!Held(k)' = 0 /\ Ingestion!InHand(cleaner.hand, k)' = 0
        /\ Ingestion!InHand(reader.hand, k)' = 0
        /\ UNCHANGED <<arrived, pushed>>
    BY <1>10 DEF Ingestion!Die, Ingestion!Held, Ingestion!InHand, Ingestion!Asleep,
                 Ingestion!AtRest, Ingestion!Nothing, Ingestion!NoFlow, Ingestion!Kind
  <2>3. Out(Ingestion!Held(k) + Ingestion!InHand(cleaner.hand, k)
              + Ingestion!InHand(reader.hand, k))
    BY <2>1, <2>2, <1>b, <1>c DEF InProcess
  <2> QED
    BY <2>2, <2>3, <1>c, BalanceLemma
<1>11. CASE UNCHANGED Ingestion!vars
  <2>1. UNCHANGED <<Ingestion!Held(k), Ingestion!InHand(reader.hand, k),
                    Ingestion!InHand(cleaner.hand, k), arrived, pushed, lost>>
    BY <1>11 DEF Ingestion!vars, Ingestion!history, Ingestion!Held, Ingestion!InHand
  <2>2. Out(0)
    BY <2>1, <1>c DEF InProcess
  <2> QED
    BY <2>1, <2>2, BalanceLemma
<1> QED
  BY <1>1, <1>2, <1>3, <1>4, <1>5, <1>6, <1>7, <1>8, <1>9, <1>10, <1>11
     DEF Ingestion!Next, Ingestion!Reader, Ingestion!Cleaner

\* The inductive invariant.
LEMMA IngestionInvariant == Ingestion!Spec => []IngestionInv
<1>1. Ingestion!Init => IngestionInv
  BY IngestionInit
<1>2. IngestionInv /\ [Ingestion!Next]_(Ingestion!vars) => IngestionInv'
  BY IngestionTypeNext, HandsNext, ConservedNext DEF IngestionInv
<1> QED
  BY <1>1, <1>2, PTL DEF Ingestion!Spec

\* The declared types of FlowAggregator hold in every reachable state.
THEOREM IngestionTypes == Ingestion!Spec => []Ingestion!TypeOK
<1>1. IngestionInv => Ingestion!TypeOK
  BY DEF IngestionInv
<1> QED
  BY <1>1, IngestionInvariant, PTL

\* No event of the ingestion process is overlooked or summed up twice by reader
\* and cleaner: FlowAggregator's Conserved.
THEOREM ConservedInvariant == Ingestion!Spec => []Conserved
<1>1. IngestionInv => Conserved
  BY DEF IngestionInv
<1> QED
  BY <1>1, IngestionInvariant, PTL
-----------------------------------------------------------------------------
(***************************************************************************)
(* The relay's feed                                                        *)
(*                                                                         *)
(* The inductive invariant follows every connection through the batch      *)
(* under way: how far its alerts have come (Reached), that it has got      *)
(* nothing beyond and nothing is missing before.  ServedNext says what any *)
(* step does to a connection; the rest follows from it.                    *)
(***************************************************************************)

\* How far the alerts have come that connection c is sent.
Reached(c) ==
  IF listener.pc # "send" THEN listener.cursor
  ELSE IF sending[c] = Feed!Idle THEN listener.upto ELSE sending[c] - 1

\* A message under way belongs to the batch under way, which lies ahead of the
\* cursor.
FeedBatchRight ==
  /\ listener.pc # "send" => \A c \in Conn : sending[c] = Feed!Idle
  /\ listener.pc = "send" =>
       /\ listener.from < listener.upto
       /\ \A c \in Conn : sending[c] # Feed!Idle =>
            listener.from < sending[c] /\ sending[c] <= listener.upto
  /\ listener.pc # "read" /\ listener.cursor # Feed!New => listener.from = listener.cursor

\* Who is connected is broadcast to and was not given up.
ConnRight ==
  /\ Feed!Up \subseteq connections /\ stale \cap Feed!Up = {}
  /\ \A c \in Conn : conn[c] = "new" => received[c] = {} /\ c \notin stale

NothingAhead == \A c \in Feed!Up : \A m \in received[c] : m <= Reached(c)

\* Gapless, in the middle of a batch, too.
NoGap ==
  \A c \in Feed!Up \ cut : \A m \in received[c], n \in Feed!AlertId :
    m < n /\ n <= Reached(c) => n \in received[c] \cup trimmed

FeedInv == Feed!TypeOK /\ FeedBatchRight /\ ConnRight /\ NothingAhead /\ NoGap

\* The start of the relay.
LEMMA FeedInit == Feed!Init => FeedInv
<1> SUFFICES ASSUME Feed!Init PROVE FeedInv
  OBVIOUS
<1>1. Feed!TypeOK
  BY FeedAssumption
     DEF Feed!Init, Feed!TypeOK, Feed!Resting, Feed!New, Feed!Idle, Feed!AlertId
<1>2. FeedBatchRight /\ ConnRight /\ NothingAhead /\ NoGap
  BY
     DEF Feed!Init, FeedBatchRight, ConnRight, NothingAhead, NoGap, Feed!Resting,
         Feed!Up
<1> QED
  BY <1>1, <1>2 DEF FeedInv

\* The first message a read finds, and the last one it takes.
LEMMA ReadableLemma ==
  ASSUME Feed!TypeOK, Feed!Readable # {}
  PROVE  \E low, upto \in Feed!AlertId :
           /\ low = CHOOSE n \in Feed!Readable : \A m \in Feed!Readable : n <= m
           /\ upto = IF low + BatchCount - 1 <= appended THEN low + BatchCount - 1
                     ELSE appended
           /\ listener.from < low /\ low <= upto
<1> USE FeedAssumption
<1>1. /\ first \in 1 .. MaxAlerts + 1 /\ appended \in 0 .. MaxAlerts
      /\ listener.from \in 0 .. MaxAlerts
  BY DEF Feed!TypeOK
<1> DEFINE least == IF first > listener.from THEN first ELSE listener.from + 1
<1>2. PICK n \in first .. appended : n > listener.from
  BY DEF Feed!Readable
<1>3. least \in Feed!Readable /\ \A m \in Feed!Readable : least <= m
  BY <1>1, <1>2 DEF Feed!Readable
<1> DEFINE low == CHOOSE x \in Feed!Readable : \A m \in Feed!Readable : x <= m
<1>4. low \in Feed!Readable
  BY <1>3
<1>5. low \in first .. appended /\ low > listener.from
  BY <1>4 DEF Feed!Readable
<1> HIDE DEF low
<1>6. low \in Feed!AlertId /\ listener.from < low /\ low <= appended
  BY <1>1, <1>5 DEF Feed!AlertId
<1> DEFINE upto == IF low + BatchCount - 1 <= appended THEN low + BatchCount - 1 ELSE appended
<1>7. upto \in Feed!AlertId /\ low <= upto
  BY <1>1, <1>6 DEF Feed!AlertId
<1> HIDE DEF upto
<1> QED
  BY <1>6, <1>7 DEF low, upto

\* The declared types are kept.
LEMMA FeedTypeNext ==
  ASSUME FeedInv, [Feed!Next]_(Feed!vars)
  PROVE  Feed!TypeOK'
<1> USE FeedAssumption DEF Feed!AlertId
<1>a. Feed!TypeOK
  BY DEF FeedInv
<1>1. ASSUME NEW n \in Feed!AlertId, Feed!Publish(n) PROVE Feed!TypeOK'
  <2>1. appended' \in 0 .. MaxAlerts /\ first' \in 1 .. MaxAlerts + 1
    BY <1>1, <1>a DEF Feed!Publish, Feed!TypeOK
  <2> QED
    BY <2>1, <1>1, <1>a
       DEF Feed!Publish, Feed!TypeOK, Feed!clients, Feed!batch, Feed!history,
           Feed!bounds
<1>2. ASSUME Feed!ReadStart PROVE Feed!TypeOK'
  <2> DEFINE from == IF listener.cursor = Feed!New THEN appended ELSE listener.cursor
  <2>1. from \in 0 .. MaxAlerts
    BY <1>a DEF Feed!TypeOK
  <2>2. listener' = [listener EXCEPT !.pc = "wait", !.from = from]
    BY <1>2 DEF Feed!ReadStart
  <2> HIDE DEF from
  <2> QED
    BY <2>1, <2>2, <1>2, <1>a
       DEF Feed!ReadStart, Feed!TypeOK, Feed!stream, Feed!clients, Feed!batch,
           Feed!history, Feed!bounds
<1>3. ASSUME Feed!ReadTimeout PROVE Feed!TypeOK'
  BY <1>3, <1>a
     DEF Feed!ReadTimeout, Feed!TypeOK, Feed!Resting, Feed!stream, Feed!clients,
         Feed!batch, Feed!history, Feed!bounds
<1>4. ASSUME Feed!ReadError PROVE Feed!TypeOK'
  BY <1>4, <1>a
     DEF Feed!ReadError, Feed!TypeOK, Feed!Resting, Feed!stream, Feed!clients,
         Feed!batch, Feed!history
<1>5. ASSUME Feed!ReadReply PROVE Feed!TypeOK'
  <2>1. PICK low, upto \in Feed!AlertId :
          /\ low = CHOOSE n \in Feed!Readable : \A m \in Feed!Readable : n <= m
          /\ upto = IF low + BatchCount - 1 <= appended THEN low + BatchCount - 1
                    ELSE appended
    BY <1>5, <1>a, ReadableLemma DEF Feed!ReadReply
  <2>2. /\ listener' = IF connections = {} THEN Feed!Resting(upto)
                       ELSE [listener EXCEPT !.pc = "send", !.upto = upto]
        /\ sending' = [c \in Conn |-> IF c \in connections THEN low ELSE Feed!Idle]
        /\ trimmed' = trimmed \cup {n \in Feed!AlertId : listener.from < n /\ n < low}
    BY <1>5, <2>1 DEF Feed!ReadReply
  <2>3. listener' \in [pc : {"read", "wait", "send"}, cursor : {Feed!New} \cup Feed!AlertId,
                       from : 0 .. MaxAlerts, upto : 0 .. MaxAlerts]
    <3>1. upto \in 0 .. MaxAlerts
      OBVIOUS
    <3>2. CASE connections = {}
      BY <2>2, <3>2 DEF Feed!Resting
    <3>3. CASE connections # {}
      <4>1. listener' = [listener EXCEPT !.pc = "send", !.upto = upto]
        BY <2>2, <3>3
      <4> QED
        BY <3>1, <4>1, <1>a DEF Feed!TypeOK
    <3> QED
      BY <3>2, <3>3
  <2>4. sending' \in [Conn -> {Feed!Idle} \cup Feed!AlertId] /\ trimmed' \subseteq Feed!AlertId
    BY <2>2, <1>a DEF Feed!TypeOK
  <2> QED
    BY <1>5, <2>3, <2>4, <1>a
       DEF Feed!ReadReply, Feed!TypeOK, Feed!stream, Feed!clients, Feed!bounds
<1>6. ASSUME NEW c \in Conn, Feed!Send(c) PROVE Feed!TypeOK'
  <2>1. sending[c] \in Feed!AlertId /\ listener.pc = "send"
    BY <1>6, <1>a DEF Feed!Send, Feed!Pending, Feed!TypeOK, FeedInv, FeedBatchRight
  <2>2. received' \in [Conn -> SUBSET Feed!AlertId]
    BY <1>6, <2>1, <1>a DEF Feed!Send, Feed!TypeOK
  <2>3. sending[c] # listener.upto => sending[c] + 1 \in Feed!AlertId
    BY <2>1, <1>6, <1>a
       DEF Feed!Send, Feed!Pending, Feed!TypeOK, FeedInv, FeedBatchRight
  <2>4. sending' \in [Conn -> {Feed!Idle} \cup Feed!AlertId]
    BY <1>6, <2>3, <1>a DEF Feed!Send, Feed!TypeOK
  <2> QED
    BY <1>6, <2>2, <2>4, <1>a
       DEF Feed!Send, Feed!TypeOK, Feed!stream, Feed!clients, Feed!bounds
<1>7. ASSUME NEW c \in Conn, Feed!SendFails(c) PROVE Feed!TypeOK'
  BY <1>7, <1>a
     DEF Feed!SendFails, Feed!TypeOK, Feed!stream, Feed!clients, Feed!bounds,
         Feed!history
<1>8. ASSUME Feed!Timeout PROVE Feed!TypeOK'
  BY <1>8, <1>a
     DEF Feed!Timeout, Feed!TypeOK, Feed!Pending, Feed!stream, Feed!clients,
         Feed!bounds
<1>9. ASSUME Feed!Finish PROVE Feed!TypeOK'
  <2>1. listener.upto \in Feed!AlertId
    BY <1>9, <1>a DEF Feed!Finish, Feed!TypeOK, FeedInv, FeedBatchRight
  <2> QED
    BY <1>9, <2>1, <1>a
       DEF Feed!Finish, Feed!TypeOK, Feed!Resting, Feed!stream, Feed!history,
           Feed!bounds
<1>10. ASSUME NEW c \in Conn, Feed!Connect(c) PROVE Feed!TypeOK'
  BY <1>10, <1>a
     DEF Feed!Connect, Feed!TypeOK, Feed!stream, Feed!batch, Feed!history, Feed!bounds
<1>11. ASSUME NEW c \in Conn, Feed!Break(c) PROVE Feed!TypeOK'
  BY <1>11, <1>a
     DEF Feed!Break, Feed!TypeOK, Feed!stream, Feed!batch, Feed!history, Feed!bounds
<1>12. ASSUME NEW c \in Conn, Feed!Disconnect(c) PROVE Feed!TypeOK'
  BY <1>12, <1>a
     DEF Feed!Disconnect, Feed!TypeOK, Feed!stream, Feed!batch, Feed!history,
         Feed!bounds
<1>13. ASSUME NEW c \in Conn, Feed!Stall(c) PROVE Feed!TypeOK'
  BY <1>13, <1>a
     DEF Feed!Stall, Feed!TypeOK, Feed!stream, Feed!batch, Feed!history, Feed!bounds
<1>14. ASSUME Feed!Restart PROVE Feed!TypeOK'
  BY <1>14, <1>a
     DEF Feed!Restart, Feed!TypeOK, Feed!Resting, Feed!stream, Feed!history
<1>15. CASE UNCHANGED Feed!vars
  BY <1>15, <1>a
     DEF Feed!TypeOK, Feed!vars, Feed!stream, Feed!clients, Feed!batch, Feed!history,
         Feed!bounds
<1> QED
  BY <1>1, <1>2, <1>3, <1>4, <1>5, <1>6, <1>7, <1>8, <1>9, <1>10, <1>11, <1>12, <1>13, <1>14, <1>15
     DEF Feed!Next, Feed!Listen

\* The batch under way stays ahead of the cursor.
LEMMA FeedBatchNext ==
  ASSUME FeedInv, [Feed!Next]_(Feed!vars)
  PROVE  FeedBatchRight'
<1> USE FeedAssumption
<1>a. Feed!TypeOK /\ FeedBatchRight
  BY DEF FeedInv
<1>1. ASSUME NEW n \in Feed!AlertId, Feed!Publish(n) PROVE FeedBatchRight'
  BY <1>1, <1>a DEF Feed!Publish, FeedBatchRight, Feed!batch
<1>2. ASSUME Feed!ReadStart PROVE FeedBatchRight'
  BY <1>2, <1>a DEF Feed!ReadStart, FeedBatchRight, Feed!batch, Feed!TypeOK
<1>3. ASSUME Feed!ReadTimeout PROVE FeedBatchRight'
  BY <1>3, <1>a DEF Feed!ReadTimeout, FeedBatchRight, Feed!Resting, Feed!batch
<1>4. ASSUME Feed!ReadError PROVE FeedBatchRight'
  BY <1>4, <1>a DEF Feed!ReadError, FeedBatchRight, Feed!Resting, Feed!batch
<1>5. ASSUME Feed!ReadReply PROVE FeedBatchRight'
  <2>1. PICK low, upto \in Feed!AlertId :
          /\ low = CHOOSE n \in Feed!Readable : \A m \in Feed!Readable : n <= m
          /\ upto = IF low + BatchCount - 1 <= appended THEN low + BatchCount - 1
                    ELSE appended
          /\ listener.from < low /\ low <= upto
    BY <1>5, <1>a, ReadableLemma DEF Feed!ReadReply
  <2>2. /\ listener' = IF connections = {} THEN Feed!Resting(upto)
                       ELSE [listener EXCEPT !.pc = "send", !.upto = upto]
        /\ sending' = [c \in Conn |-> IF c \in connections THEN low ELSE Feed!Idle]
    BY <1>5, <2>1 DEF Feed!ReadReply
  <2>3. CASE connections = {}
    BY <2>2, <2>3 DEF FeedBatchRight, Feed!Resting
  <2>4. CASE connections # {}
    <3>1. /\ listener'.pc = "send" /\ listener'.from = listener.from
          /\ listener'.upto = upto /\ listener'.cursor = listener.cursor
      BY <2>2, <2>4, <1>a DEF Feed!TypeOK
    <3>2. listener.from < upto
      BY <2>1, <1>a DEF Feed!TypeOK, Feed!AlertId
    <3>3. listener.pc = "wait"
      BY <1>5 DEF Feed!ReadReply
    <3>4. \A c \in Conn : sending'[c] # Feed!Idle =>
            listener.from < sending'[c] /\ sending'[c] <= upto
      BY <2>1, <2>2
    <3>5. listener.cursor # Feed!New => listener.from = listener.cursor
      BY <3>3, <1>a DEF FeedBatchRight
    <3> HIDE <2>1, <2>2
    <3> QED
      BY <3>1, <3>2, <3>4, <3>5 DEF FeedBatchRight
  <2> QED
    BY <2>3, <2>4
<1>6. ASSUME NEW c \in Conn, Feed!Send(c) PROVE FeedBatchRight'
  <2>1. /\ UNCHANGED listener /\ listener.pc = "send" /\ sending[c] # Feed!Idle
        /\ sending' = [sending EXCEPT ![c] = IF @ = listener.upto THEN Feed!Idle ELSE @ + 1]
    BY <1>6, <1>a DEF Feed!Send, Feed!Pending, FeedBatchRight
  <2>2. ASSUME NEW d \in Conn, sending'[d] # Feed!Idle
        PROVE  listener.from < sending'[d] /\ sending'[d] <= listener.upto
    <3>1. CASE d # c
      BY <2>1, <2>2, <3>1, <1>a DEF FeedBatchRight, Feed!TypeOK
    <3>2. CASE d = c
      <4>1. sending'[c] = sending[c] + 1 /\ sending[c] # listener.upto
        BY <2>1, <2>2, <3>2, <1>a DEF Feed!TypeOK
      <4>2. /\ sending[c] \in Int /\ listener.upto \in Int /\ listener.from \in Int
            /\ listener.from < sending[c] /\ sending[c] <= listener.upto
        BY <2>1, <1>a DEF FeedBatchRight, Feed!TypeOK, Feed!AlertId, Feed!Idle
      <4> QED
        BY <3>2, <4>1, <4>2
    <3> QED
      BY <3>1, <3>2
  <2> QED
    BY <2>1, <2>2, <1>a DEF FeedBatchRight
<1>7. ASSUME NEW c \in Conn, Feed!SendFails(c) PROVE FeedBatchRight'
  BY <1>7, <1>a DEF Feed!SendFails, FeedBatchRight, Feed!TypeOK
<1>8. ASSUME Feed!Timeout PROVE FeedBatchRight'
  BY <1>8, <1>a DEF Feed!Timeout, FeedBatchRight
<1>9. ASSUME Feed!Finish PROVE FeedBatchRight'
  BY <1>9, <1>a DEF Feed!Finish, FeedBatchRight, Feed!Pending, Feed!Resting
<1>10. ASSUME NEW c \in Conn,
              Feed!Connect(c) \/ Feed!Break(c) \/ Feed!Disconnect(c) \/ Feed!Stall(c)
       PROVE FeedBatchRight'
  BY <1>10, <1>a
     DEF Feed!Connect, Feed!Break, Feed!Disconnect, Feed!Stall, FeedBatchRight,
         Feed!batch
<1>11. ASSUME Feed!Restart PROVE FeedBatchRight'
  BY <1>11 DEF Feed!Restart, FeedBatchRight, Feed!Resting
<1>12. CASE UNCHANGED Feed!vars
  BY <1>12, <1>a DEF FeedBatchRight, Feed!vars, Feed!batch
<1> QED
  BY <1>1, <1>2, <1>3, <1>4, <1>5, <1>6, <1>7, <1>8, <1>9, <1>10, <1>11, <1>12
     DEF Feed!Next, Feed!Listen

\* Connections join before they are sent to, and leave when they are given up.
LEMMA ConnNext ==
  ASSUME FeedInv, [Feed!Next]_(Feed!vars)
  PROVE  ConnRight'
<1>a. Feed!TypeOK /\ ConnRight
  BY DEF FeedInv
<1>1. ASSUME NEW c \in Conn, Feed!Send(c) PROVE ConnRight'
  BY <1>1, <1>a DEF Feed!Send, ConnRight, Feed!Up, Feed!clients, Feed!TypeOK
<1>2. ASSUME NEW c \in Conn, Feed!SendFails(c) PROVE ConnRight'
  BY <1>2, <1>a DEF Feed!SendFails, ConnRight, Feed!Up, Feed!clients, Feed!history
<1>3. ASSUME Feed!Finish PROVE ConnRight'
  BY <1>3, <1>a DEF Feed!Finish, ConnRight, Feed!Up, Feed!history
<1>4. ASSUME NEW c \in Conn, Feed!Connect(c) PROVE ConnRight'
  <2>1. /\ UNCHANGED <<stale, received>> /\ conn[c] = "new"
        /\ \/ conn' = [conn EXCEPT ![c] = "open"] /\ connections' = connections \cup {c}
           \/ conn' = [conn EXCEPT ![c] = "closed"] /\ UNCHANGED connections
    BY <1>4 DEF Feed!Connect, Feed!batch, Feed!history
  <2>2. c \notin stale
    BY <2>1, <1>a DEF ConnRight
  <2>3. \A d \in Conn : d # c => conn'[d] = conn[d]
    BY <2>1, <1>a DEF Feed!TypeOK
  <2>4. conn'[c] \in {"open", "closed"} /\ (conn'[c] = "open" => c \in connections')
    BY <2>1, <1>a DEF Feed!TypeOK
  <2>5. Feed!Up' \subseteq Feed!Up \cup {c} /\ connections \subseteq connections'
    BY <2>1, <2>3 DEF Feed!Up
  <2>6. Feed!Up' \subseteq connections'
    BY <2>4, <2>5, <1>a DEF ConnRight, Feed!Up
  <2> QED
    BY <2>1, <2>2, <2>3, <2>4, <2>5, <2>6, <1>a DEF ConnRight
<1>5. ASSUME NEW c \in Conn, Feed!Break(c) PROVE ConnRight'
  BY <1>5, <1>a
     DEF Feed!Break, ConnRight, Feed!Up, Feed!TypeOK, Feed!batch, Feed!history
<1>6. ASSUME NEW c \in Conn, Feed!Disconnect(c) PROVE ConnRight'
  BY <1>6, <1>a
     DEF Feed!Disconnect, ConnRight, Feed!Up, Feed!TypeOK, Feed!batch, Feed!history
<1>7. ASSUME NEW c \in Conn, Feed!Stall(c) PROVE ConnRight'
  BY <1>7, <1>a DEF Feed!Stall, ConnRight, Feed!Up, Feed!batch, Feed!history
<1>8. ASSUME Feed!Restart PROVE ConnRight'
  BY <1>8, <1>a DEF Feed!Restart, ConnRight, Feed!Up, Feed!TypeOK, Feed!history
<1>9. ASSUME \/ \E n \in Feed!AlertId : Feed!Publish(n)
             \/ Feed!ReadStart \/ Feed!ReadTimeout \/ Feed!ReadError \/ Feed!ReadReply
             \/ Feed!Timeout \/ UNCHANGED Feed!vars
      PROVE ConnRight'
  <2>1. UNCHANGED <<conn, connections, stale, received>>
    BY <1>9 DEF Feed!Publish, Feed!ReadStart, Feed!ReadTimeout, Feed!ReadError,
                Feed!ReadReply, Feed!Timeout, Feed!vars, Feed!clients, Feed!batch, Feed!history
  <2> QED
    BY <2>1, <1>a DEF ConnRight, Feed!Up
<1> QED
  BY <1>1, <1>2, <1>3, <1>4, <1>5, <1>6, <1>7, <1>8, <1>9 DEF Feed!Next, Feed!Listen

\* What a step does to a connection: nothing; or the cursor, or the batch, gets
\* past alerts that are no longer in the stream, or past any when the client
\* has got none or was cut off; or the client gets the next alert.
Served(c) ==
  \/ /\ received'[c] = received[c]
     /\ received[c] # {} => Reached(c) <= Reached(c)'
     /\ \A n \in Feed!AlertId :
          Reached(c) < n /\ n <= Reached(c)'
            => n \in trimmed' \/ received[c] = {} \/ c \in cut'
  \/ \E n \in Feed!AlertId :
       received'[c] = received[c] \cup {n} /\ Reached(c) = n - 1 /\ Reached(c)' = n

\* A place in the stream is a number.
LEMMA ReachedType ==
  ASSUME Feed!TypeOK, NEW c \in Conn
  PROVE  Reached(c) \in Int
BY FeedAssumption DEF Feed!TypeOK, Feed!New, Feed!Idle, Feed!AlertId, Reached

\* Where the client and its place stay the same nothing happens.
LEMMA ServedSame ==
  ASSUME FeedInv, NEW c \in Conn, received'[c] = received[c], Reached(c)' = Reached(c)
  PROVE  Served(c)
<1>1. Reached(c) \in Int
  BY ReachedType DEF FeedInv
<1>2. \A n \in Feed!AlertId : ~(Reached(c) < n /\ n <= Reached(c)')
  BY <1>1 DEF Feed!AlertId
<1> QED
  BY <1>1, <1>2 DEF Served

\* Every step serves every client that is connected afterwards.
LEMMA ServedNext ==
  ASSUME FeedInv, [Feed!Next]_(Feed!vars)
  PROVE  /\ \A c \in Feed!Up' : (c \in Feed!Up /\ Served(c)) \/ received'[c] = {}
         /\ \A c \in Conn : received'[c] = received[c] \/ (c \in Feed!Up' /\ Served(c))
         /\ cut \subseteq cut' /\ trimmed \subseteq trimmed'
<1> USE FeedAssumption
<1> DEFINE Good == /\ \A c \in Feed!Up' : (c \in Feed!Up /\ Served(c)) \/ received'[c] = {}
                   /\ \A c \in Conn : received'[c] = received[c] \/ (c \in Feed!Up' /\ Served(c))
                   /\ cut \subseteq cut' /\ trimmed \subseteq trimmed'
<1>a. Feed!TypeOK /\ FeedBatchRight /\ ConnRight /\ NothingAhead
  BY DEF FeedInv
<1>1. ASSUME Feed!ReadReply PROVE Good
  <2>1. PICK low, upto \in Feed!AlertId :
          /\ low = CHOOSE n \in Feed!Readable : \A m \in Feed!Readable : n <= m
          /\ upto = IF low + BatchCount - 1 <= appended THEN low + BatchCount - 1
                    ELSE appended
          /\ listener.from < low /\ low <= upto
    BY <1>1, <1>a, ReadableLemma DEF Feed!ReadReply
  <2>2. /\ listener' = IF connections = {} THEN Feed!Resting(upto)
                       ELSE [listener EXCEPT !.pc = "send", !.upto = upto]
        /\ sending' = [c \in Conn |-> IF c \in connections THEN low ELSE Feed!Idle]
        /\ trimmed' = trimmed \cup {n \in Feed!AlertId : listener.from < n /\ n < low}
        /\ UNCHANGED <<received, cut, conn, connections>> /\ listener.pc = "wait"
    BY <1>1, <2>1 DEF Feed!ReadReply, Feed!clients
  <2>3. Feed!Up' = Feed!Up
    BY <2>2 DEF Feed!Up
  <2>4. ASSUME NEW c \in Feed!Up PROVE Served(c)
    <3>1. c \in Conn /\ c \in connections
      BY <1>a DEF ConnRight, Feed!Up
    <3>2. Reached(c) = listener.cursor
      BY <2>2 DEF Reached
    <3>3. Reached(c)' = low - 1
      <4>1. listener'.pc = "send" /\ sending'[c] = low
        BY <3>1, <2>2, <1>a DEF Feed!TypeOK
      <4>2. low # Feed!Idle
        BY DEF Feed!AlertId, Feed!Idle
      <4> QED
        BY <4>1, <4>2 DEF Reached
    <3>4. CASE listener.cursor = Feed!New
      <4>1. received[c] = {}
        BY <3>1, <3>2, <3>4, <1>a
           DEF NothingAhead, Feed!TypeOK, Feed!New, Feed!AlertId
      <4> QED
        BY <4>1, <2>2 DEF Served
    <3>5. CASE listener.cursor # Feed!New
      <4>1. listener.from = listener.cursor /\ listener.from \in Int
        BY <3>5, <2>2, <1>a DEF FeedBatchRight, Feed!TypeOK
      <4>2. \A n \in Feed!AlertId : Reached(c) < n /\ n <= Reached(c)' => n \in trimmed'
        BY <4>1, <3>2, <3>3, <2>2 DEF Feed!AlertId
      <4>3. Reached(c) <= Reached(c)'
        BY <4>1, <3>2, <3>3, <2>1 DEF Feed!AlertId
      <4> QED
        BY <4>2, <4>3, <2>2 DEF Served
    <3> QED
      BY <3>4, <3>5
  <2> QED
    BY <2>2, <2>3, <2>4
<1>2. ASSUME NEW c \in Conn, Feed!Send(c) PROVE Good
  <2>1. /\ UNCHANGED <<listener, conn, cut, trimmed>> /\ listener.pc = "send" /\ c \in Feed!Up
        /\ received' = [received EXCEPT ![c] = @ \cup {sending[c]}]
        /\ sending[c] # Feed!Idle
        /\ sending' = [sending EXCEPT ![c] = IF @ = listener.upto THEN Feed!Idle ELSE @ + 1]
    BY <1>2, <1>a DEF Feed!Send, Feed!Pending, FeedBatchRight, Feed!clients, Feed!Up
  <2>2. Feed!Up' = Feed!Up
    BY <2>1 DEF Feed!Up
  <2>3. \A d \in Conn : d # c => Served(d) /\ received'[d] = received[d]
    <3> SUFFICES ASSUME NEW d \in Conn, d # c PROVE Served(d) /\ received'[d] = received[d]
      OBVIOUS
    <3>1. received'[d] = received[d] /\ sending'[d] = sending[d]
      BY <2>1, <1>a DEF Feed!TypeOK
    <3>2. Reached(d)' = Reached(d)
      BY <3>1, <2>1 DEF Reached
    <3> QED
      BY <3>1, <3>2, ServedSame
  <2>4. Served(c)
    <3>1. sending[c] \in Feed!AlertId
      BY <2>1, <1>a DEF Feed!TypeOK
    <3>2. received'[c] = received[c] \cup {sending[c]}
      BY <2>1, <1>a DEF Feed!TypeOK
    <3>3. Reached(c) = sending[c] - 1
      BY <2>1 DEF Reached
    <3>4. Reached(c)' = sending[c]
      <4>1. CASE sending[c] = listener.upto
        <5>1. sending'[c] = Feed!Idle
          BY <4>1, <2>1, <1>a DEF Feed!TypeOK
        <5> QED
          BY <4>1, <5>1, <2>1 DEF Reached
      <4>2. CASE sending[c] # listener.upto
        <5>1. sending'[c] = sending[c] + 1
          BY <4>2, <2>1, <1>a DEF Feed!TypeOK
        <5>2. sending'[c] # Feed!Idle /\ sending'[c] - 1 = sending[c]
          BY <5>1, <3>1 DEF Feed!AlertId, Feed!Idle
        <5> QED
          BY <5>2, <2>1 DEF Reached
      <4> QED
        BY <4>1, <4>2
    <3> QED
      BY <3>1, <3>2, <3>3, <3>4 DEF Served
  <2> QED
    BY <2>1, <2>2, <2>3, <2>4 DEF Feed!Up
<1>3. ASSUME NEW c \in Conn, Feed!SendFails(c) PROVE Good
  <2>1. /\ UNCHANGED <<listener, conn, received, cut, trimmed>> /\ c \notin Feed!Up
        /\ sending' = [sending EXCEPT ![c] = Feed!Idle]
    BY <1>3 DEF Feed!SendFails, Feed!clients, Feed!history, Feed!Up
  <2>2. Feed!Up' = Feed!Up
    BY <2>1 DEF Feed!Up
  <2>3. \A d \in Feed!Up : Served(d)
    <3> SUFFICES ASSUME NEW d \in Feed!Up PROVE Served(d)
      OBVIOUS
    <3>1. d \in Conn /\ sending'[d] = sending[d]
      BY <2>1, <1>a DEF Feed!TypeOK, Feed!Up
    <3>2. Reached(d)' = Reached(d)
      BY <3>1, <2>1 DEF Reached
    <3> QED
      BY <3>1, <3>2, <2>1, ServedSame
  <2> QED
    BY <2>1, <2>2, <2>3
<1>4. ASSUME Feed!Timeout PROVE Good
  <2>1. /\ UNCHANGED <<listener, conn, received, trimmed>> /\ listener.pc = "send"
        /\ cut' = cut \cup Feed!Pending /\ sending' = [c \in Conn |-> Feed!Idle]
    BY <1>4 DEF Feed!Timeout, Feed!clients
  <2>2. Feed!Up' = Feed!Up
    BY <2>1 DEF Feed!Up
  <2>3. \A d \in Feed!Up : Served(d)
    <3> SUFFICES ASSUME NEW d \in Feed!Up PROVE Served(d)
      OBVIOUS
    <3>1. d \in Conn
      BY DEF Feed!Up
    <3>2. CASE sending[d] = Feed!Idle
      BY <3>1, <3>2, <2>1, ServedSame DEF Reached
    <3>3. CASE sending[d] # Feed!Idle
      <4>1. d \in cut' /\ received'[d] = received[d]
        BY <3>1, <3>3, <2>1 DEF Feed!Pending
      <4>2. Reached(d) = sending[d] - 1 /\ Reached(d)' = listener.upto
        BY <3>1, <3>3, <2>1 DEF Reached
      <4>3. sending[d] \in Int /\ listener.upto \in Int /\ sending[d] <= listener.upto
        BY <3>1, <3>3, <2>1, <1>a
           DEF FeedBatchRight, Feed!TypeOK, Feed!AlertId, Feed!Idle
      <4> QED
        BY <4>1, <4>2, <4>3 DEF Served
    <3> QED
      BY <3>2, <3>3
  <2> QED
    BY <2>1, <2>2, <2>3
<1>5. ASSUME NEW c \in Conn, Feed!Connect(c) PROVE Good
  <2>1. /\ UNCHANGED <<listener, sending, received, cut, trimmed>> /\ conn[c] = "new"
        /\ \A d \in Conn : d # c => conn'[d] = conn[d]
    BY <1>5, <1>a DEF Feed!Connect, Feed!batch, Feed!history, Feed!TypeOK
  <2>2. received'[c] = {}
    BY <2>1, <1>a DEF ConnRight
  <2>3. \A d \in Conn : d \in Feed!Up' => d \in Feed!Up \/ d = c
    BY <2>1 DEF Feed!Up
  <2>4. \A d \in Conn : Reached(d)' = Reached(d)
    BY <2>1 DEF Reached
  <2>5. \A d \in Conn : Served(d)
    BY <2>1, <2>4, ServedSame
  <2> QED
    BY <2>1, <2>2, <2>3, <2>5 DEF Feed!Up
<1>6. ASSUME Feed!Restart PROVE Good
  <2>1. Feed!Up' = {} /\ UNCHANGED <<received, cut, trimmed>>
    BY <1>6 DEF Feed!Restart, Feed!Up, Feed!history
  <2> QED
    BY <2>1
<1>7. ASSUME Feed!Finish PROVE Good
  <2>1. /\ UNCHANGED <<conn, received, cut, trimmed>> /\ listener.pc = "send" /\ Feed!Pending = {}
        /\ listener'.pc = "read" /\ listener'.cursor = listener.upto
    BY <1>7 DEF Feed!Finish, Feed!Resting, Feed!history
  <2>2. Feed!Up' = Feed!Up
    BY <2>1 DEF Feed!Up
  <2>3. \A d \in Conn : Reached(d)' = Reached(d)
    BY <2>1 DEF Reached, Feed!Pending
  <2>4. \A d \in Conn : Served(d)
    BY <2>1, <2>3, ServedSame
  <2> QED
    BY <2>1, <2>2, <2>4 DEF Feed!Up
<1>8. ASSUME \/ \E n \in Feed!AlertId : Feed!Publish(n)
             \/ \E c \in Conn : Feed!Break(c) \/ Feed!Disconnect(c) \/ Feed!Stall(c)
             \/ Feed!ReadStart \/ Feed!ReadTimeout \/ Feed!ReadError \/ UNCHANGED Feed!vars
      PROVE Good
  <2>1. UNCHANGED <<received, cut, trimmed, sending>>
    BY <1>8 DEF Feed!Publish, Feed!Break, Feed!Disconnect, Feed!Stall, Feed!ReadStart,
                Feed!ReadTimeout, Feed!ReadError, Feed!vars, Feed!clients, Feed!batch, Feed!history
  <2>2. \/ listener' = listener
        \/ /\ listener'.cursor = listener.cursor
           /\ listener.pc # "send" /\ listener'.pc # "send"
    <3>1. CASE Feed!ReadStart
      BY <3>1, <1>a DEF Feed!ReadStart, Feed!TypeOK
    <3>2. CASE Feed!ReadTimeout \/ Feed!ReadError
      BY <3>2 DEF Feed!ReadTimeout, Feed!ReadError, Feed!Resting
    <3> QED
      BY <3>1, <3>2, <1>8
         DEF Feed!Publish, Feed!Break, Feed!Disconnect, Feed!Stall, Feed!vars
  <2>3. Feed!Up' \subseteq Feed!Up
    BY <1>8, <1>a
       DEF Feed!Publish, Feed!Break, Feed!Disconnect, Feed!Stall, Feed!ReadStart,
           Feed!ReadTimeout, Feed!ReadError, Feed!vars, Feed!clients, Feed!TypeOK, Feed!Up
  <2>4. \A d \in Conn : Reached(d)' = Reached(d)
    BY <2>1, <2>2 DEF Reached
  <2>5. \A d \in Conn : Served(d)
    BY <2>1, <2>4, ServedSame
  <2> QED
    BY <2>1, <2>3, <2>5 DEF Feed!Up
<1> QED
  BY <1>1, <1>2, <1>3, <1>4, <1>5, <1>6, <1>7, <1>8 DEF Feed!Next, Feed!Listen

\* So nobody gets ahead of the cursor and nobody misses an alert.
LEMMA ReachNext ==
  ASSUME FeedInv, [Feed!Next]_(Feed!vars), Feed!TypeOK'
  PROVE  NothingAhead' /\ NoGap'
<1>a. Feed!TypeOK /\ NothingAhead /\ NoGap
  BY DEF FeedInv
<1>1. ASSUME NEW c \in Feed!Up'
      PROVE  /\ \A m \in received'[c] : m <= Reached(c)'
             /\ c \notin cut' => \A m \in received'[c], n \in Feed!AlertId :
                   m < n /\ n <= Reached(c)' => n \in received'[c] \cup trimmed'
  <2>1. CASE received'[c] = {}
    BY <2>1
  <2>2. CASE c \in Feed!Up /\ Served(c)
    <3>1. c \in Conn /\ received[c] \subseteq Feed!AlertId /\ Reached(c) \in Int
      BY <2>2, <1>a, ReachedType DEF Feed!Up, Feed!TypeOK
    <3>2. Reached(c)' \in Int
      <4>1. \A d \in Conn : Reached(d)' \in Int
        BY FeedAssumption DEF Feed!TypeOK, Feed!New, Feed!Idle, Feed!AlertId, Reached
      <4> QED
        BY <3>1, <4>1
    <3>3. /\ \A m \in received[c] : m <= Reached(c)
          /\ c \notin cut' => \A m \in received[c], n \in Feed!AlertId :
                   m < n /\ n <= Reached(c) => n \in received[c] \cup trimmed'
      BY <2>2, <1>a, ServedNext DEF NothingAhead, NoGap
    <3>4. CASE /\ received'[c] = received[c]
               /\ received[c] # {} => Reached(c) <= Reached(c)'
               /\ \A n \in Feed!AlertId :
                    Reached(c) < n /\ n <= Reached(c)'
                      => n \in trimmed' \/ received[c] = {} \/ c \in cut'
      BY <3>1, <3>2, <3>3, <3>4 DEF Feed!AlertId
    <3>5. ASSUME NEW n \in Feed!AlertId,
                 received'[c] = received[c] \cup {n}, Reached(c) = n - 1, Reached(c)' = n
          PROVE  /\ \A m \in received'[c] : m <= Reached(c)'
                 /\ c \notin cut' => \A m \in received'[c], k \in Feed!AlertId :
                   m < k /\ k <= Reached(c)' => k \in received'[c] \cup trimmed'
      <4>1. \A m \in received'[c] : m <= n
        BY <3>1, <3>3, <3>5 DEF Feed!AlertId
      <4>2. ASSUME c \notin cut', NEW m \in received'[c], NEW k \in Feed!AlertId, m < k, k <= n
            PROVE  k \in received'[c] \cup trimmed'
        <5>1. CASE k = n
          BY <5>1, <3>5
        <5>2. CASE k # n
          <6>1. k <= n - 1 /\ m # n
            BY <4>2, <5>2 DEF Feed!AlertId
          <6> QED
            BY <6>1, <3>3, <3>5, <4>2
        <5> QED
          BY <5>1, <5>2
      <4> QED
        BY <4>1, <4>2, <3>5
    <3> QED
      BY <2>2, <3>4, <3>5 DEF Served
  <2> QED
    BY <2>1, <2>2, ServedNext
<1> QED
  BY <1>1 DEF NothingAhead, NoGap

\* The inductive invariant.
LEMMA FeedInvariant == Feed!Spec => []FeedInv
<1>1. Feed!Init => FeedInv
  BY FeedInit
<1>2. FeedInv /\ [Feed!Next]_(Feed!vars) => FeedInv'
  BY FeedTypeNext, FeedBatchNext, ConnNext, ReachNext DEF FeedInv
<1> QED
  BY <1>1, <1>2, PTL DEF Feed!Spec

\* The declared types of RelayFeed hold in every reachable state.
THEOREM FeedTypes == Feed!Spec => []Feed!TypeOK
<1>1. FeedInv => Feed!TypeOK
  BY DEF FeedInv
<1> QED
  BY <1>1, FeedInvariant, PTL

\* A connected client that was not cut off has every alert from its first one to
\* the cursor: RelayFeed's Gapless.
THEOREM GaplessInvariant == Feed!Spec => []Gapless
<1>1. FeedInv => Gapless
  <2> SUFFICES ASSUME FeedInv, NEW c \in (connections \cap Feed!Up) \ cut,
                      NEW m \in received[c], NEW n \in Feed!AlertId,
                      m < n, n <= listener.cursor
               PROVE  n \in received[c] \cup trimmed
    BY DEF Gapless, Feed!Gapless
  <2>1. listener.cursor <= Reached(c)
    BY FeedAssumption
       DEF FeedInv, FeedBatchRight, Feed!TypeOK, Reached, Feed!Up, Feed!AlertId,
           Feed!Idle, Feed!New
  <2>2. n <= Reached(c)
    BY <2>1, ReachedType DEF FeedInv, Feed!TypeOK, Feed!AlertId, Feed!New, Feed!Up
  <2> QED
    BY <2>2 DEF FeedInv, NoGap
<1> QED
  BY <1>1, FeedInvariant, PTL

\* A client never gets an alert again, nor an older one after a younger one:
\* RelayFeed's InOrder.
THEOREM InOrderTheorem == Feed!Spec => Feed!InOrder
<1>1. FeedInv /\ [Feed!Next]_(Feed!vars) => [Feed!NextInOrder]_(Feed!vars)
  <2> SUFFICES ASSUME FeedInv, [Feed!Next]_(Feed!vars), NEW c \in Conn,
                      received'[c] # received[c]
               PROVE  \E n \in Feed!AlertId :
                        received'[c] = received[c] \cup {n} /\ \A m \in received[c] : m < n
    BY DEF Feed!NextInOrder
  <2>1. Served(c) /\ received'[c] # {}
    BY ServedNext DEF FeedInv, Served
  <2>2. c \in Feed!Up
    BY <2>1, ServedNext
  <2>3. PICK n \in Feed!AlertId : received'[c] = received[c] \cup {n} /\ Reached(c) = n - 1
    BY <2>1 DEF Served
  <2>4. \A m \in received[c] : m \in Feed!AlertId /\ m <= n - 1
    BY <2>2, <2>3 DEF FeedInv, NothingAhead, Feed!TypeOK, Feed!Up
  <2> QED
    BY <2>3, <2>4 DEF Feed!AlertId
<1> QED
  BY <1>1, FeedInvariant, PTL DEF Feed!Spec, Feed!InOrder

\* The cursor only goes back to "$", with a restart: RelayFeed's Forward.
THEOREM ForwardTheorem == Feed!Spec => Feed!Forward
<1>1. FeedInv /\ [Feed!Next]_(Feed!vars) => [Feed!NotBack]_(Feed!vars)
  <2> SUFFICES ASSUME FeedInv, [Feed!Next]_(Feed!vars) PROVE Feed!NotBack
    OBVIOUS
  <2> USE FeedAssumption
  <2>a. Feed!TypeOK /\ FeedBatchRight /\ listener.cursor \in Int
    BY DEF FeedInv, Feed!TypeOK, Feed!New, Feed!AlertId
  <2>1. CASE Feed!Restart
    BY <2>1, <2>a DEF Feed!Restart, Feed!NotBack, Feed!TypeOK
  <2>2. CASE Feed!Finish
    <3>1. listener'.cursor = listener.upto
      BY <2>2 DEF Feed!Finish, Feed!Resting
    <3>2. /\ listener.from < listener.upto
          /\ listener.cursor = Feed!New \/ listener.from = listener.cursor
      BY <2>2, <2>a DEF Feed!Finish, FeedBatchRight
    <3> QED
      BY <3>1, <3>2, <2>a DEF Feed!NotBack, Feed!TypeOK, Feed!New
  <2>3. CASE Feed!ReadReply
    <3>1. PICK low, upto \in Feed!AlertId :
          /\ low = CHOOSE n \in Feed!Readable : \A m \in Feed!Readable : n <= m
          /\ upto = IF low + BatchCount - 1 <= appended THEN low + BatchCount - 1
                    ELSE appended
          /\ listener.from < low /\ low <= upto
      BY <2>3, <2>a, ReadableLemma DEF Feed!ReadReply
    <3>2. /\ listener' = IF connections = {} THEN Feed!Resting(upto)
                         ELSE [listener EXCEPT !.pc = "send", !.upto = upto]
          /\ listener.pc = "wait"
      BY <2>3, <3>1 DEF Feed!ReadReply
    <3>3. listener'.cursor \in {listener.cursor, upto}
      BY <3>2, <2>a DEF Feed!TypeOK, Feed!Resting
    <3>4. listener.cursor = Feed!New \/ listener.from = listener.cursor
      BY <3>2, <2>a DEF FeedBatchRight
    <3> QED
      BY <3>1, <3>3, <3>4, <2>a DEF Feed!NotBack, Feed!New, Feed!AlertId, Feed!TypeOK
  <2>4. CASE Feed!ReadStart
    BY <2>4, <2>a DEF Feed!ReadStart, Feed!NotBack, Feed!TypeOK
  <2>5. CASE Feed!ReadTimeout \/ Feed!ReadError
    BY <2>5, <2>a DEF Feed!ReadTimeout, Feed!ReadError, Feed!NotBack, Feed!Resting
  <2>6. ASSUME \/ \E n \in Feed!AlertId : Feed!Publish(n)
               \/ Feed!Timeout \/ UNCHANGED Feed!vars
               \/ \E c \in Conn : \/ Feed!Send(c) \/ Feed!SendFails(c) \/ Feed!Connect(c)
                                \/ Feed!Break(c) \/ Feed!Disconnect(c) \/ Feed!Stall(c)
        PROVE Feed!NotBack
    <3>1. UNCHANGED listener
      BY <2>6 DEF Feed!Publish, Feed!Timeout, Feed!Send, Feed!SendFails, Feed!Connect,
                  Feed!Break, Feed!Disconnect, Feed!Stall, Feed!vars
    <3> QED
      BY <3>1, <2>a DEF Feed!NotBack
  <2> QED
    BY <2>1, <2>2, <2>3, <2>4, <2>5, <2>6 DEF Feed!Next, Feed!Listen
<1> QED
  BY <1>1, FeedInvariant, PTL DEF Feed!Spec, Feed!Forward
-----------------------------------------------------------------------------
(***************************************************************************)
(* The pipeline                                                            *)
(*                                                                         *)
(* The inductive invariant says who holds an event and how far it can be   *)
(* then: the batches of two workers share no event, an event of a batch    *)
(* was read, is pending for that worker, and is settled once the worker is *)
(* about to acknowledge; and nothing is ever pending for the recovery      *)
(* worker.  Each part has a lemma with a step per action that writes one   *)
(* of its variables.                                                       *)
(***************************************************************************)

\* Stages of an event that some worker has read.
Taken == {"read", "ready", "alerted", "suppressed", "duplicate", "failed"} \cup Preparing

\* Stages that an acknowledged event may have.
Settled == {"alerted", "suppressed", "duplicate"}

Pending == pel[RecoveryWorker] = {} /\ \A w \in Worker : batch[w] \subseteq pel[w]

BatchOk(w) ==
  /\ pc[w] \in {"read", "backoff"} => batch[w] = {}
  /\ \A e \in batch[w] : stage[e] \in Taken
  /\ pc[w] = "predict" => \A e \in batch[w] : stage[e] = "read"
  /\ pc[w] \in {"publish", "ack"} => \A e \in batch[w] : stage[e] \in Settled

Batches ==
  /\ \A w \in Worker : BatchOk(w)
  /\ \A v, w \in Worker : v # w => batch[v] \cap batch[w] = {}

Counted == \A e \in Event : sent[e] = IF stage[e] = "alerted" THEN 1 ELSE 0

\* The type invariant in parts.
TypeFlow ==
  /\ stage \in [Event -> Stage]
  /\ group \in BOOLEAN /\ pel \in [Consumer -> SUBSET Event]
  /\ up \in {"down", "up", "stopping"}
  /\ pc \in [Worker -> Label] /\ batch \in [Worker -> SUBSET Event]
TypeCache ==
  dedup \in [Key -> 0 .. MaxEvents] /\ covers \in [Event -> 0 .. MaxEvents]
TypeAlerts ==
  /\ sent \in [Event -> Nat] /\ published \subseteq Event
  /\ queued \subseteq Event /\ writing \subseteq Event /\ stored \subseteq Event
TypeBounds == faults \in 0 .. MaxFaults /\ stops \in 0 .. MaxStops

USE BoundAssumption, NameAssumption, KeyAssumption
-----------------------------------------------------------------------------
(***************************************************************************)
(* Types                                                                   *)
(***************************************************************************)

\* The parts make up the type invariant.
LEMMA TypeParts == TypeOK <=> TypeFlow /\ TypeCache /\ TypeAlerts /\ TypeBounds
  BY DEF TypeOK, TypeFlow, TypeCache, TypeAlerts, TypeBounds

\* Stages, pending lists and batches keep their types.
LEMMA FlowNext ==
  ASSUME TypeFlow, [Next]_vars
  PROVE  TypeFlow'
<1>1. ASSUME NEW e \in Event, Push(e) PROVE TypeFlow'
  BY <1>1
     DEF Push, TypeFlow, Stage, Preparing, Label, Consumer, redisVars, workerVars,
         writerVars
<1>2. ASSUME NEW e \in Event, Suppress(e) PROVE TypeFlow'
  BY <1>2
     DEF Suppress, TypeFlow, Stage, Preparing, Label, Consumer, redisVars,
         workerVars, writerVars
<1>3. ASSUME NEW e \in Event, Dedup(e) PROVE TypeFlow'
  BY <1>3
     DEF Dedup, TypeFlow, Stage, Preparing, Label, Consumer, redisVars, workerVars,
         writerVars
<1>4. ASSUME NEW e \in Event, Mitigate(e) PROVE TypeFlow'
  BY <1>4
     DEF Mitigate, Fault, TypeFlow, Stage, Preparing, Label, Consumer, redisVars,
         workerVars, writerVars
<1>5. ASSUME NEW w \in Worker, NEW b \in SUBSET Event, Read(w, b) PROVE TypeFlow'
  BY <1>5
     DEF Read, NextBatch, Unread, Moved, Goto, Fail, Fault, TypeFlow, Stage,
         Preparing, Label, Consumer, redisVars, workerVars, writerVars
<1>6. ASSUME NEW w \in Worker, Predict(w) PROVE TypeFlow'
  BY <1>6
     DEF Predict, Moved, Goto, Fail, Fault, TypeFlow, Stage, Preparing, Label,
         Consumer, redisVars, workerVars, writerVars
<1>7. ASSUME NEW w \in Worker, Gather(w) PROVE TypeFlow'
  BY <1>7
     DEF Gather, HandOver, Moved, Goto, TypeFlow, Stage, Preparing, Label, Consumer,
         redisVars, workerVars, writerVars
<1>8. ASSUME NEW w \in Worker, GatherFail(w) PROVE TypeFlow'
  BY <1>8
     DEF GatherFail, Goto, TypeFlow, Stage, Preparing, Label, Consumer, redisVars,
         workerVars, writerVars
<1>9. ASSUME NEW w \in Worker, Publish(w) PROVE TypeFlow'
  BY <1>9
     DEF Publish, Goto, Fault, TypeFlow, Stage, Preparing, Label, Consumer,
         redisVars, workerVars, writerVars
<1>10. ASSUME NEW w \in Worker, Ack(w) PROVE TypeFlow'
  BY <1>10
     DEF Ack, Goto, Fail, Fault, TypeFlow, Stage, Preparing, Label, Consumer,
         redisVars, workerVars, writerVars
<1>11. ASSUME NEW w \in Worker, Backoff(w) PROVE TypeFlow'
  BY <1>11
     DEF Backoff, Goto, TypeFlow, Stage, Preparing, Label, Consumer, redisVars,
         workerVars, writerVars
<1>12. ASSUME Recover PROVE TypeFlow'
  BY <1>12
     DEF Recover, PendingToRecover, HandOver, Moved, TypeFlow, Stage, Preparing,
         Label, Consumer, redisVars, workerVars, writerVars
<1>13. ASSUME Start PROVE TypeFlow'
  BY <1>13
     DEF Start, Moved, Unread, TypeFlow, Stage, Preparing, Label, Consumer,
         redisVars, workerVars, writerVars
<1>14. ASSUME Shutdown PROVE TypeFlow'
  BY <1>14
     DEF Shutdown, Abandon, TypeFlow, Stage, Preparing, Label, Consumer, redisVars,
         workerVars, writerVars
<1>15. ASSUME Exit PROVE TypeFlow'
  BY <1>15
     DEF Exit, Vanish, TypeFlow, Stage, Preparing, Label, Consumer, redisVars,
         workerVars, writerVars
<1>16. ASSUME Crash PROVE TypeFlow'
  BY <1>16
     DEF Crash, Abandon, Vanish, TypeFlow, Stage, Preparing, Label, Consumer,
         redisVars, workerVars, writerVars
<1>17. CASE \/ \E k \in Key : DedupExpire(k)
            \/ Take \/ Write
  BY <1>17
     DEF DedupExpire, Take, Write, Fault, TypeFlow, Stage, Preparing, Label,
         Consumer, redisVars, workerVars, writerVars
<1>18. ASSUME UNCHANGED vars PROVE TypeFlow'
  BY <1>18
     DEF vars, redisVars, workerVars, writerVars, TypeFlow, Stage, Preparing, Label,
         Consumer
<1> QED
  BY <1>1, <1>2, <1>3, <1>4, <1>5, <1>6, <1>7, <1>8, <1>9, <1>10, <1>11, <1>12,
     <1>13, <1>14, <1>15, <1>16, <1>17, <1>18
     DEF Next, Prepare, Work, Flush

\* The dedup cache holds events.
LEMMA CacheNext ==
  ASSUME TypeCache, [Next]_vars
  PROVE  TypeCache'
<1>1. ASSUME NEW e \in Event, Dedup(e) PROVE TypeCache'
  <2>1. KeyOf[e] \in Key /\ e \in 0 .. MaxEvents
    BY DEF Event
  <2>2. \/ dedup' = dedup /\ covers' = [covers EXCEPT ![e] = dedup[KeyOf[e]]]
        \/ dedup' = [dedup EXCEPT ![KeyOf[e]] = e] /\ covers' = covers
    BY <1>1 DEF Dedup
  <2> QED
    BY <2>1, <2>2 DEF TypeCache
<1>2. ASSUME NEW k \in Key, DedupExpire(k) PROVE TypeCache'
  BY <1>2 DEF DedupExpire, TypeCache, redisVars, workerVars, writerVars
<1>3. ASSUME Exit PROVE TypeCache'
  BY <1>3 DEF Exit, Vanish, TypeCache, redisVars, workerVars, writerVars
<1>4. ASSUME Crash PROVE TypeCache'
  BY <1>4 DEF Crash, Abandon, Vanish, TypeCache, redisVars, workerVars, writerVars
<1>5. CASE \/ \E e \in Event : Push(e) \/ Suppress(e) \/ Mitigate(e)
           \/ \E w \in Worker, b \in SUBSET Event : Read(w, b)
           \/ \E w \in Worker : Predict(w) \/ Gather(w) \/ GatherFail(w) \/ Publish(w) \/ Ack(w) \/
              Backoff(w)
           \/ Recover \/ Take \/ Write \/ Start \/ Shutdown
  BY <1>5
     DEF Push, Suppress, Mitigate, Read, Predict, Gather, GatherFail, Publish, Ack,
         Backoff, Recover, Take, Write, Start, Shutdown, Fault, NextBatch, Unread,
         Moved, Goto, Fail, HandOver, PendingToRecover, Abandon, TypeCache,
         redisVars, workerVars, writerVars
<1>6. ASSUME UNCHANGED vars PROVE TypeCache'
  BY <1>6 DEF vars, redisVars, workerVars, writerVars, TypeCache
<1> QED
  BY <1>1, <1>2, <1>3, <1>4, <1>5, <1>6
     DEF Next, Prepare, Work, Flush

\* So do the queue, the database and the alert stream.
LEMMA AlertsNext ==
  ASSUME TypeFlow, TypeAlerts, [Next]_vars
  PROVE  TypeAlerts'
<1>1. ASSUME NEW w \in Worker, Gather(w) PROVE TypeAlerts'
  BY <1>1
     DEF Gather, HandOver, Moved, Goto, TypeFlow, TypeAlerts, Consumer, redisVars,
         workerVars, writerVars
<1>2. ASSUME NEW w \in Worker, Publish(w) PROVE TypeAlerts'
  BY <1>2
     DEF Publish, Goto, Fault, TypeFlow, TypeAlerts, Consumer, redisVars, workerVars,
         writerVars
<1>3. ASSUME Recover PROVE TypeAlerts'
  BY <1>3
     DEF Recover, PendingToRecover, HandOver, Moved, TypeFlow, TypeAlerts, Consumer,
         redisVars, workerVars, writerVars
<1>4. ASSUME Take PROVE TypeAlerts'
  BY <1>4
     DEF Take, TypeFlow, TypeAlerts, Consumer, redisVars, workerVars, writerVars
<1>5. ASSUME Write PROVE TypeAlerts'
  BY <1>5
     DEF Write, Fault, TypeFlow, TypeAlerts, Consumer, redisVars, workerVars,
         writerVars
<1>6. ASSUME Exit PROVE TypeAlerts'
  BY <1>6
     DEF Exit, Vanish, TypeFlow, TypeAlerts, Consumer, redisVars, workerVars,
         writerVars
<1>7. ASSUME Crash PROVE TypeAlerts'
  BY <1>7
     DEF Crash, Abandon, Vanish, TypeFlow, TypeAlerts, Consumer, redisVars,
         workerVars, writerVars
<1>8. CASE \/ \E e \in Event : Push(e) \/ Suppress(e) \/ Dedup(e) \/ Mitigate(e)
           \/ \E w \in Worker, b \in SUBSET Event : Read(w, b)
           \/ \E w \in Worker : Predict(w) \/ GatherFail(w) \/ Ack(w) \/ Backoff(w)
           \/ \E k \in Key : DedupExpire(k)
           \/ Start \/ Shutdown
  BY <1>8
     DEF Push, Suppress, Dedup, Mitigate, Read, Predict, GatherFail, Ack, Backoff,
         DedupExpire, Start, Shutdown, Fault, NextBatch, Unread, Moved, Goto, Fail,
         Abandon, TypeFlow, TypeAlerts, Consumer, redisVars, workerVars, writerVars
<1>9. ASSUME UNCHANGED vars PROVE TypeAlerts'
  BY <1>9
     DEF vars, redisVars, workerVars, writerVars, TypeFlow, TypeAlerts, Consumer
<1> QED
  BY <1>1, <1>2, <1>3, <1>4, <1>5, <1>6, <1>7, <1>8, <1>9
     DEF Next, Prepare, Work, Flush

\* Faults and stops stay within their bounds.
LEMMA BoundsNext ==
  ASSUME TypeBounds, [Next]_vars
  PROVE  TypeBounds'
<1>1. ASSUME NEW e \in Event, Mitigate(e) PROVE TypeBounds'
  BY <1>1 DEF Mitigate, Fault, TypeBounds, redisVars, workerVars, writerVars
<1>2. ASSUME NEW w \in Worker, NEW b \in SUBSET Event, Read(w, b) PROVE TypeBounds'
  BY <1>2
     DEF Read, NextBatch, Unread, Moved, Goto, Fail, Fault, TypeBounds, redisVars,
         workerVars, writerVars
<1>3. ASSUME NEW w \in Worker, Predict(w) PROVE TypeBounds'
  BY <1>3
     DEF Predict, Moved, Goto, Fail, Fault, TypeBounds, redisVars, workerVars,
         writerVars
<1>4. ASSUME NEW w \in Worker, Publish(w) PROVE TypeBounds'
  BY <1>4 DEF Publish, Goto, Fault, TypeBounds, redisVars, workerVars, writerVars
<1>5. ASSUME NEW w \in Worker, Ack(w) PROVE TypeBounds'
  BY <1>5 DEF Ack, Goto, Fail, Fault, TypeBounds, redisVars, workerVars, writerVars
<1>6. ASSUME Write PROVE TypeBounds'
  BY <1>6 DEF Write, Fault, TypeBounds, redisVars, workerVars, writerVars
<1>7. ASSUME Shutdown PROVE TypeBounds'
  BY <1>7 DEF Shutdown, Abandon, TypeBounds, redisVars, workerVars, writerVars
<1>8. ASSUME Crash PROVE TypeBounds'
  BY <1>8 DEF Crash, Abandon, Vanish, TypeBounds, redisVars, workerVars, writerVars
<1>9. CASE \/ \E e \in Event : Push(e) \/ Suppress(e) \/ Dedup(e)
           \/ \E w \in Worker : Gather(w) \/ GatherFail(w) \/ Backoff(w)
           \/ \E k \in Key : DedupExpire(k)
           \/ Recover \/ Take \/ Start \/ Exit
  BY <1>9
     DEF Push, Suppress, Dedup, Gather, GatherFail, Backoff, DedupExpire, Recover,
         Take, Start, Exit, HandOver, Moved, Goto, PendingToRecover, Unread, Vanish,
         TypeBounds, redisVars, workerVars, writerVars
<1>10. ASSUME UNCHANGED vars PROVE TypeBounds'
  BY <1>10 DEF vars, redisVars, workerVars, writerVars, TypeBounds
<1> QED
  BY <1>1, <1>2, <1>3, <1>4, <1>5, <1>6, <1>7, <1>8, <1>9, <1>10
     DEF Next, Prepare, Work, Flush

\* The initial state is typed.
LEMMA InitTypes == Init => TypeOK
<1> SUFFICES ASSUME Init PROVE TypeOK
  OBVIOUS
<1>1. TypeFlow
  BY DEF Init, TypeFlow, Stage, Label
<1>2. TypeCache
  <2>1. 0 \in 0 .. MaxEvents
    OBVIOUS
  <2> QED
    BY <2>1 DEF Init, TypeCache
<1>3. TypeAlerts
  BY DEF Init, TypeAlerts
<1>4. TypeBounds
  BY DEF Init, TypeBounds
<1> QED
  BY <1>1, <1>2, <1>3, <1>4, TypeParts

\* The declared types hold in every reachable state: StreamPipeline's TypeOK.
THEOREM TypesInvariant == Spec => []TypeOK
<1>1. Init => TypeOK
  BY InitTypes
<1>2. TypeOK /\ [Next]_vars => TypeOK'
  <2> SUFFICES ASSUME TypeOK, [Next]_vars PROVE TypeOK'
    OBVIOUS
  <2>1. TypeFlow' /\ TypeCache' /\ TypeAlerts' /\ TypeBounds'
    BY TypeParts, FlowNext, CacheNext, AlertsNext, BoundsNext
  <2> QED
    BY <2>1 DEF TypeOK, TypeFlow, TypeCache, TypeAlerts, TypeBounds
<1> QED
  BY <1>1, <1>2, PTL DEF Spec
-----------------------------------------------------------------------------
(***************************************************************************)
(* Who holds an event                                                      *)
(***************************************************************************)

\* A worker's batch is pending for it, and nothing is for the recovery worker.
LEMMA PendingNext ==
  ASSUME TypeOK, Pending, [Next]_vars
  PROVE  Pending'
<1>1. ASSUME NEW w \in Worker, NEW b \in SUBSET Event, Read(w, b) PROVE Pending'
  BY <1>1
     DEF Read, NextBatch, Unread, Moved, Goto, Fail, Fault, TypeOK, Pending,
         Consumer, redisVars, workerVars, writerVars
<1>2. ASSUME NEW w \in Worker, Predict(w) PROVE Pending'
  BY <1>2
     DEF Predict, Moved, Goto, Fail, Fault, TypeOK, Pending, Consumer, redisVars,
         workerVars, writerVars
<1>3. ASSUME NEW w \in Worker, GatherFail(w) PROVE Pending'
  BY <1>3
     DEF GatherFail, Goto, TypeOK, Pending, Consumer, redisVars, workerVars,
         writerVars
<1>4. ASSUME NEW w \in Worker, Ack(w) PROVE Pending'
  BY <1>4
     DEF Ack, Goto, Fail, Fault, TypeOK, Pending, Consumer, redisVars, workerVars,
         writerVars
<1>5. ASSUME Recover PROVE Pending'
  BY <1>5
     DEF Recover, PendingToRecover, HandOver, Moved, TypeOK, Pending, Consumer,
         redisVars, workerVars, writerVars
<1>6. ASSUME Shutdown PROVE Pending'
  BY <1>6
     DEF Shutdown, Abandon, TypeOK, Pending, Consumer, redisVars, workerVars,
         writerVars
<1>7. ASSUME Crash PROVE Pending'
  BY <1>7
     DEF Crash, Abandon, Vanish, TypeOK, Pending, Consumer, redisVars, workerVars,
         writerVars
<1>8. CASE \/ \E e \in Event : Push(e) \/ Suppress(e) \/ Dedup(e) \/ Mitigate(e)
           \/ \E w \in Worker : Gather(w) \/ Publish(w) \/ Backoff(w)
           \/ \E k \in Key : DedupExpire(k)
           \/ Take \/ Write \/ Start \/ Exit
  BY <1>8
     DEF Push, Suppress, Dedup, Mitigate, Gather, Publish, Backoff, DedupExpire,
         Take, Write, Start, Exit, Fault, HandOver, Moved, Goto, Unread, Vanish,
         TypeOK, Pending, Consumer, redisVars, workerVars, writerVars
<1>9. ASSUME UNCHANGED vars PROVE Pending'
  BY <1>9 DEF vars, redisVars, workerVars, writerVars, TypeOK, Pending, Consumer
<1> QED
  BY <1>1, <1>2, <1>3, <1>4, <1>5, <1>6, <1>7, <1>8, <1>9
     DEF Next, Prepare, Work, Flush

\* No two workers hold the same event, and a batch is as far as its worker.
LEMMA BatchesNext ==
  ASSUME TypeOK, Pending, Batches, [Next]_vars
  PROVE  Batches'
<1>1. ASSUME NEW e \in Event, Push(e) PROVE Batches'
  BY <1>1
     DEF Push, TypeOK, Pending, Batches, BatchOk, Taken, Settled, Preparing, Label,
         Stage, Consumer, redisVars, workerVars, writerVars
<1>2. ASSUME NEW e \in Event, Suppress(e) PROVE Batches'
  BY <1>2
     DEF Suppress, TypeOK, Pending, Batches, BatchOk, Taken, Settled, Preparing,
         Label, Stage, Consumer, redisVars, workerVars, writerVars
<1>3. ASSUME NEW e \in Event, Dedup(e) PROVE Batches'
  BY <1>3
     DEF Dedup, TypeOK, Pending, Batches, BatchOk, Taken, Settled, Preparing, Label,
         Stage, Consumer, redisVars, workerVars, writerVars
<1>4. ASSUME NEW e \in Event, Mitigate(e) PROVE Batches'
  BY <1>4
     DEF Mitigate, Fault, TypeOK, Pending, Batches, BatchOk, Taken, Settled,
         Preparing, Label, Stage, Consumer, redisVars, workerVars, writerVars
<1>5. ASSUME NEW w \in Worker, NEW b \in SUBSET Event, Read(w, b) PROVE Batches'
  BY <1>5
     DEF Read, NextBatch, Unread, Moved, Goto, Fail, Fault, TypeOK, Pending, Batches,
         BatchOk, Taken, Settled, Preparing, Label, Stage, Consumer, redisVars,
         workerVars, writerVars
<1>6. ASSUME NEW w \in Worker, Predict(w) PROVE Batches'
  BY <1>6
     DEF Predict, Moved, Goto, Fail, Fault, TypeOK, Pending, Batches, BatchOk, Taken,
         Settled, Preparing, Label, Stage, Consumer, redisVars, workerVars,
         writerVars
<1>7. ASSUME NEW w \in Worker, Gather(w) PROVE Batches'
  BY <1>7
     DEF Gather, HandOver, Moved, Goto, TypeOK, Pending, Batches, BatchOk, Taken,
         Settled, Preparing, Label, Stage, Consumer, redisVars, workerVars,
         writerVars
<1>8. ASSUME NEW w \in Worker, GatherFail(w) PROVE Batches'
  BY <1>8
     DEF GatherFail, Goto, TypeOK, Pending, Batches, BatchOk, Taken, Settled,
         Preparing, Label, Stage, Consumer, redisVars, workerVars, writerVars
<1>9. ASSUME NEW w \in Worker, Publish(w) PROVE Batches'
  BY <1>9
     DEF Publish, Goto, Fault, TypeOK, Pending, Batches, BatchOk, Taken, Settled,
         Preparing, Label, Stage, Consumer, redisVars, workerVars, writerVars
<1>10. ASSUME NEW w \in Worker, Ack(w) PROVE Batches'
  BY <1>10
     DEF Ack, Goto, Fail, Fault, TypeOK, Pending, Batches, BatchOk, Taken, Settled,
         Preparing, Label, Stage, Consumer, redisVars, workerVars, writerVars
<1>11. ASSUME NEW w \in Worker, Backoff(w) PROVE Batches'
  BY <1>11
     DEF Backoff, Goto, TypeOK, Pending, Batches, BatchOk, Taken, Settled, Preparing,
         Label, Stage, Consumer, redisVars, workerVars, writerVars
<1>12. ASSUME Recover PROVE Batches'
  BY <1>12
     DEF Recover, PendingToRecover, HandOver, Moved, TypeOK, Pending, Batches,
         BatchOk, Taken, Settled, Preparing, Label, Stage, Consumer, redisVars,
         workerVars, writerVars
<1>13. ASSUME Start PROVE Batches'
  BY <1>13
     DEF Start, Moved, Unread, TypeOK, Pending, Batches, BatchOk, Taken, Settled,
         Preparing, Label, Stage, Consumer, redisVars, workerVars, writerVars
<1>14. ASSUME Shutdown PROVE Batches'
  BY <1>14
     DEF Shutdown, Abandon, TypeOK, Pending, Batches, BatchOk, Taken, Settled,
         Preparing, Label, Stage, Consumer, redisVars, workerVars, writerVars
<1>15. ASSUME Crash PROVE Batches'
  BY <1>15
     DEF Crash, Abandon, Vanish, TypeOK, Pending, Batches, BatchOk, Taken, Settled,
         Preparing, Label, Stage, Consumer, redisVars, workerVars, writerVars
<1>16. CASE \/ \E k \in Key : DedupExpire(k)
            \/ Take \/ Write \/ Exit
  BY <1>16
     DEF DedupExpire, Take, Write, Exit, Fault, Vanish, TypeOK, Pending, Batches,
         BatchOk, Taken, Settled, Preparing, Label, Stage, Consumer, redisVars,
         workerVars, writerVars
<1>17. ASSUME UNCHANGED vars PROVE Batches'
  BY <1>17
     DEF vars, redisVars, workerVars, writerVars, TypeOK, Pending, Batches, BatchOk,
         Taken, Settled, Preparing, Label, Stage, Consumer
<1> QED
  BY <1>1, <1>2, <1>3, <1>4, <1>5, <1>6, <1>7, <1>8, <1>9, <1>10, <1>11, <1>12,
     <1>13, <1>14, <1>15, <1>16, <1>17
     DEF Next, Prepare, Work, Flush

\* An alert is handed on exactly when its event becomes alerted.
LEMMA CountedNext ==
  ASSUME TypeOK, Pending, Batches, Counted, [Next]_vars
  PROVE  Counted'
<1>1. ASSUME NEW e \in Event, Push(e) PROVE Counted'
  BY <1>1
     DEF Push, TypeOK, Pending, Batches, BatchOk, Counted, Preparing, redisVars,
         workerVars, writerVars
<1>2. ASSUME NEW e \in Event, Suppress(e) PROVE Counted'
  BY <1>2
     DEF Suppress, TypeOK, Pending, Batches, BatchOk, Counted, Preparing, redisVars,
         workerVars, writerVars
<1>3. ASSUME NEW e \in Event, Dedup(e) PROVE Counted'
  BY <1>3
     DEF Dedup, TypeOK, Pending, Batches, BatchOk, Counted, Preparing, redisVars,
         workerVars, writerVars
<1>4. ASSUME NEW e \in Event, Mitigate(e) PROVE Counted'
  BY <1>4
     DEF Mitigate, Fault, TypeOK, Pending, Batches, BatchOk, Counted, Preparing,
         redisVars, workerVars, writerVars
<1>5. ASSUME NEW w \in Worker, NEW b \in SUBSET Event, Read(w, b) PROVE Counted'
  BY <1>5
     DEF Read, NextBatch, Unread, Moved, Goto, Fail, Fault, TypeOK, Pending, Batches,
         BatchOk, Counted, Preparing, redisVars, workerVars, writerVars
<1>6. ASSUME NEW w \in Worker, Predict(w) PROVE Counted'
  BY <1>6
     DEF Predict, Moved, Goto, Fail, Fault, TypeOK, Pending, Batches, BatchOk,
         Counted, Preparing, redisVars, workerVars, writerVars
<1>7. ASSUME NEW w \in Worker, Gather(w) PROVE Counted'
  BY <1>7
     DEF Gather, HandOver, Moved, Goto, TypeOK, Pending, Batches, BatchOk, Counted,
         Preparing, redisVars, workerVars, writerVars
<1>8. ASSUME Recover PROVE Counted'
  BY <1>8
     DEF Recover, PendingToRecover, HandOver, Moved, TypeOK, Pending, Batches,
         BatchOk, Counted, Preparing, redisVars, workerVars, writerVars
<1>9. ASSUME Start PROVE Counted'
  BY <1>9
     DEF Start, Moved, Unread, TypeOK, Pending, Batches, BatchOk, Counted, Preparing,
         redisVars, workerVars, writerVars
<1>10. ASSUME Shutdown PROVE Counted'
  BY <1>10
     DEF Shutdown, Abandon, TypeOK, Pending, Batches, BatchOk, Counted, Preparing,
         redisVars, workerVars, writerVars
<1>11. ASSUME Crash PROVE Counted'
  BY <1>11
     DEF Crash, Abandon, Vanish, TypeOK, Pending, Batches, BatchOk, Counted,
         Preparing, redisVars, workerVars, writerVars
<1>12. CASE \/ \E w \in Worker : GatherFail(w) \/ Publish(w) \/ Ack(w) \/ Backoff(w)
            \/ \E k \in Key : DedupExpire(k)
            \/ Take \/ Write \/ Exit
  BY <1>12
     DEF GatherFail, Publish, Ack, Backoff, DedupExpire, Take, Write, Exit, Goto,
         Fault, Fail, Vanish, TypeOK, Pending, Batches, BatchOk, Counted, Preparing,
         redisVars, workerVars, writerVars
<1>13. ASSUME UNCHANGED vars PROVE Counted'
  BY <1>13
     DEF vars, redisVars, workerVars, writerVars, TypeOK, Pending, Batches, BatchOk,
         Counted, Preparing
<1> QED
  BY <1>1, <1>2, <1>3, <1>4, <1>5, <1>6, <1>7, <1>8, <1>9, <1>10, <1>11, <1>12,
     <1>13
     DEF Next, Prepare, Work, Flush

\* What an acknowledgement takes off a pending list is settled.
LEMMA AckNext ==
  ASSUME TypeOK, Pending, Batches, AckedIsSettled, [Next]_vars
  PROVE  AckedIsSettled'
<1>1. ASSUME NEW e \in Event, Push(e) PROVE AckedIsSettled'
  BY <1>1
     DEF Push, TypeOK, Pending, Batches, BatchOk, AckedIsSettled, Settled, Preparing,
         Consumer, redisVars, workerVars, writerVars
<1>2. ASSUME NEW e \in Event, Suppress(e) PROVE AckedIsSettled'
  BY <1>2
     DEF Suppress, TypeOK, Pending, Batches, BatchOk, AckedIsSettled, Settled,
         Preparing, Consumer, redisVars, workerVars, writerVars
<1>3. ASSUME NEW e \in Event, Dedup(e) PROVE AckedIsSettled'
  BY <1>3
     DEF Dedup, TypeOK, Pending, Batches, BatchOk, AckedIsSettled, Settled,
         Preparing, Consumer, redisVars, workerVars, writerVars
<1>4. ASSUME NEW e \in Event, Mitigate(e) PROVE AckedIsSettled'
  BY <1>4
     DEF Mitigate, Fault, TypeOK, Pending, Batches, BatchOk, AckedIsSettled, Settled,
         Preparing, Consumer, redisVars, workerVars, writerVars
<1>5. ASSUME NEW w \in Worker, NEW b \in SUBSET Event, Read(w, b) PROVE AckedIsSettled'
  BY <1>5
     DEF Read, NextBatch, Unread, Moved, Goto, Fail, Fault, TypeOK, Pending, Batches,
         BatchOk, AckedIsSettled, Settled, Preparing, Consumer, redisVars,
         workerVars, writerVars
<1>6. ASSUME NEW w \in Worker, Predict(w) PROVE AckedIsSettled'
  BY <1>6
     DEF Predict, Moved, Goto, Fail, Fault, TypeOK, Pending, Batches, BatchOk,
         AckedIsSettled, Settled, Preparing, Consumer, redisVars, workerVars,
         writerVars
<1>7. ASSUME NEW w \in Worker, Gather(w) PROVE AckedIsSettled'
  BY <1>7
     DEF Gather, HandOver, Moved, Goto, TypeOK, Pending, Batches, BatchOk,
         AckedIsSettled, Settled, Preparing, Consumer, redisVars, workerVars,
         writerVars
<1>8. ASSUME NEW w \in Worker, Ack(w) PROVE AckedIsSettled'
  BY <1>8
     DEF Ack, Goto, Fail, Fault, TypeOK, Pending, Batches, BatchOk, AckedIsSettled,
         Settled, Preparing, Consumer, redisVars, workerVars, writerVars
<1>9. ASSUME Recover PROVE AckedIsSettled'
  BY <1>9
     DEF Recover, PendingToRecover, HandOver, Moved, TypeOK, Pending, Batches,
         BatchOk, AckedIsSettled, Settled, Preparing, Consumer, redisVars,
         workerVars, writerVars
<1>10. ASSUME Start PROVE AckedIsSettled'
  BY <1>10
     DEF Start, Moved, Unread, TypeOK, Pending, Batches, BatchOk, AckedIsSettled,
         Settled, Preparing, Consumer, redisVars, workerVars, writerVars
<1>11. ASSUME Shutdown PROVE AckedIsSettled'
  BY <1>11
     DEF Shutdown, Abandon, TypeOK, Pending, Batches, BatchOk, AckedIsSettled,
         Settled, Preparing, Consumer, redisVars, workerVars, writerVars
<1>12. ASSUME Crash PROVE AckedIsSettled'
  BY <1>12
     DEF Crash, Abandon, Vanish, TypeOK, Pending, Batches, BatchOk, AckedIsSettled,
         Settled, Preparing, Consumer, redisVars, workerVars, writerVars
<1>13. CASE \/ \E w \in Worker : GatherFail(w) \/ Publish(w) \/ Backoff(w)
            \/ \E k \in Key : DedupExpire(k)
            \/ Take \/ Write \/ Exit
  BY <1>13
     DEF GatherFail, Publish, Backoff, DedupExpire, Take, Write, Exit, Goto, Fault,
         Vanish, TypeOK, Pending, Batches, BatchOk, AckedIsSettled, Settled,
         Preparing, Consumer, redisVars, workerVars, writerVars
<1>14. ASSUME UNCHANGED vars PROVE AckedIsSettled'
  BY <1>14
     DEF vars, redisVars, workerVars, writerVars, TypeOK, Pending, Batches, BatchOk,
         AckedIsSettled, Settled, Preparing, Consumer
<1> QED
  BY <1>1, <1>2, <1>3, <1>4, <1>5, <1>6, <1>7, <1>8, <1>9, <1>10, <1>11, <1>12,
     <1>13, <1>14
     DEF Next, Prepare, Work, Flush

Inv == TypeOK /\ Pending /\ Batches /\ Counted /\ AckedIsSettled

\* The inductive invariant.
THEOREM InvInvariant == Spec => []Inv
<1>1. Init => Inv
  <2>1. Init => Pending /\ Batches /\ Counted /\ AckedIsSettled
    BY
       DEF Init, Pending, Batches, BatchOk, Counted, AckedIsSettled, Consumer,
           Preparing
  <2> QED
    BY <2>1, InitTypes DEF Inv
<1>2. Inv /\ [Next]_vars => Inv'
  <2> SUFFICES ASSUME Inv, [Next]_vars PROVE Inv'
    OBVIOUS
  <2>1. TypeOK /\ Pending /\ Batches /\ Counted /\ AckedIsSettled
    BY DEF Inv
  <2>2. TypeFlow' /\ TypeCache' /\ TypeAlerts' /\ TypeBounds'
    BY <2>1, TypeParts, FlowNext, CacheNext, AlertsNext, BoundsNext
  <2>3. TypeOK'
    BY <2>2 DEF TypeOK, TypeFlow, TypeCache, TypeAlerts, TypeBounds
  <2>4. Pending' /\ Batches' /\ Counted' /\ AckedIsSettled'
    BY <2>1, PendingNext, BatchesNext, CountedNext, AckNext
  <2> QED
    BY <2>3, <2>4 DEF Inv
<1> QED
  BY <1>1, <1>2, PTL DEF Spec

\* An alert about an event is handed on at most once: NoDoubleAlert.
THEOREM OnceInvariant == Spec => []NoDoubleAlert
<1>1. Inv => NoDoubleAlert
  BY DEF Inv, Counted, NoDoubleAlert
<1> QED
  BY <1>1, InvInvariant, PTL

\* Nothing unfinished or failed is acknowledged: AckedIsSettled.
THEOREM AckInvariant == Spec => []AckedIsSettled
<1>1. Inv => AckedIsSettled
  BY DEF Inv
<1> QED
  BY <1>1, InvInvariant, PTL

-----------------------------------------------------------------------------
(***************************************************************************)
(* StreamPipeline implements AlertDelivery                                 *)
(***************************************************************************)

\* What the status of an event is, case by case.
StatusFacts(e) ==
  /\ StatusOf(e) \in Delivery!Status
  /\ stage[e] = "absent" <=> StatusOf(e) = "new"
  /\ stage[e] = "alerted" <=> StatusOf(e) = "alerted"
  /\ stage[e] = "stream" => StatusOf(e) = "accepted"
  /\ stage[e] \in {"read", "ready"} \cup Preparing
       => StatusOf(e) = IF Owned(e) THEN "accepted" ELSE "gone"
  /\ stage[e] \in {"trimmed", "skipped", "suppressed", "duplicate", "failed"}
       => StatusOf(e) = "gone"

LEMMA StatusNow ==
  ASSUME NEW e \in Event, stage[e] \in Stage PROVE StatusFacts(e)
  BY DEF StatusFacts, StatusOf, Delivery!Status, Stage, Preparing

LEMMA StatusThen ==
  ASSUME NEW e \in Event, (stage[e] \in Stage)' PROVE StatusFacts(e)'
  BY DEF StatusFacts, StatusOf, Delivery!Status, Stage, Preparing

\* How an event may move: never back, and to an alert only from a batch.
Advance(e) ==
  \/ stage'[e] = stage[e] /\ (Owned(e)' => Owned(e))
  \/ stage[e] = "absent" /\ stage'[e] = "stream"
  \/ stage[e] = "stream" /\ stage'[e] \in {"trimmed", "skipped", "failed"}
  \/ stage[e] = "stream" /\ stage'[e] = "read"
  \/ /\ stage[e] \in {"read", "ready"} \cup Preparing
     /\ stage'[e] \in {"ready", "suppressed", "duplicate", "failed"} \cup Preparing
     /\ Owned(e)' => Owned(e)
  \/ stage[e] = "ready" /\ Owned(e) /\ stage'[e] = "alerted"

\* Every step moves every event that way.
LEMMA AdvanceNext ==
  ASSUME Inv, [Next]_vars
  PROVE  \A d \in Event : Advance(d)
<1>1. ASSUME NEW e \in Event, Push(e) PROVE \A d \in Event : Advance(d)
  BY <1>1
     DEF Push, Inv, TypeOK, Pending, Batches, BatchOk, Advance, Owned, Taken,
         Settled, Preparing, Consumer, redisVars, workerVars, writerVars
<1>2. ASSUME NEW e \in Event, Suppress(e) PROVE \A d \in Event : Advance(d)
  BY <1>2
     DEF Suppress, Inv, TypeOK, Pending, Batches, BatchOk, Advance, Owned, Taken,
         Settled, Preparing, Consumer, redisVars, workerVars, writerVars
<1>3. ASSUME NEW e \in Event, Dedup(e) PROVE \A d \in Event : Advance(d)
  BY <1>3
     DEF Dedup, Inv, TypeOK, Pending, Batches, BatchOk, Advance, Owned, Taken,
         Settled, Preparing, Consumer, redisVars, workerVars, writerVars
<1>4. ASSUME NEW e \in Event, Mitigate(e) PROVE \A d \in Event : Advance(d)
  BY <1>4
     DEF Mitigate, Fault, Inv, TypeOK, Pending, Batches, BatchOk, Advance, Owned,
         Taken, Settled, Preparing, Consumer, redisVars, workerVars, writerVars
<1>5. ASSUME NEW w \in Worker, NEW b \in SUBSET Event, Read(w, b) PROVE \A d \in Event : Advance(d)
  BY <1>5
     DEF Read, NextBatch, Unread, Moved, Goto, Fail, Fault, Inv, TypeOK, Pending,
         Batches, BatchOk, Advance, Owned, Taken, Settled, Preparing, Consumer,
         redisVars, workerVars, writerVars
<1>6. ASSUME NEW w \in Worker, Predict(w) PROVE \A d \in Event : Advance(d)
  BY <1>6
     DEF Predict, Moved, Goto, Fail, Fault, Inv, TypeOK, Pending, Batches, BatchOk,
         Advance, Owned, Taken, Settled, Preparing, Consumer, redisVars, workerVars,
         writerVars
<1>7. ASSUME NEW w \in Worker, Gather(w) PROVE \A d \in Event : Advance(d)
  BY <1>7
     DEF Gather, HandOver, Moved, Goto, Inv, TypeOK, Pending, Batches, BatchOk,
         Advance, Owned, Taken, Settled, Preparing, Consumer, redisVars, workerVars,
         writerVars
<1>8. ASSUME NEW w \in Worker, GatherFail(w) PROVE \A d \in Event : Advance(d)
  BY <1>8
     DEF GatherFail, Goto, Inv, TypeOK, Pending, Batches, BatchOk, Advance, Owned,
         Taken, Settled, Preparing, Consumer, redisVars, workerVars, writerVars
<1>9. ASSUME NEW w \in Worker, Ack(w) PROVE \A d \in Event : Advance(d)
  BY <1>9
     DEF Ack, Goto, Fail, Fault, Inv, TypeOK, Pending, Batches, BatchOk, Advance,
         Owned, Taken, Settled, Preparing, Consumer, redisVars, workerVars,
         writerVars
<1>10. ASSUME Recover PROVE \A d \in Event : Advance(d)
  BY <1>10
     DEF Recover, PendingToRecover, HandOver, Moved, Inv, TypeOK, Pending, Batches,
         BatchOk, Advance, Owned, Taken, Settled, Preparing, Consumer, redisVars,
         workerVars, writerVars
<1>11. ASSUME Start PROVE \A d \in Event : Advance(d)
  BY <1>11
     DEF Start, Moved, Unread, Inv, TypeOK, Pending, Batches, BatchOk, Advance,
         Owned, Taken, Settled, Preparing, Consumer, redisVars, workerVars,
         writerVars
<1>12. ASSUME Shutdown PROVE \A d \in Event : Advance(d)
  BY <1>12
     DEF Shutdown, Abandon, Inv, TypeOK, Pending, Batches, BatchOk, Advance, Owned,
         Taken, Settled, Preparing, Consumer, redisVars, workerVars, writerVars
<1>13. ASSUME Crash PROVE \A d \in Event : Advance(d)
  BY <1>13
     DEF Crash, Abandon, Vanish, Inv, TypeOK, Pending, Batches, BatchOk, Advance,
         Owned, Taken, Settled, Preparing, Consumer, redisVars, workerVars,
         writerVars
<1>14. CASE \/ \E w \in Worker : Publish(w) \/ Backoff(w)
            \/ \E k \in Key : DedupExpire(k)
            \/ Take \/ Write \/ Exit
  BY <1>14
     DEF Publish, Backoff, DedupExpire, Take, Write, Exit, Goto, Fault, Vanish, Inv,
         TypeOK, Pending, Batches, BatchOk, Advance, Owned, Taken, Settled,
         Preparing, Consumer, redisVars, workerVars, writerVars
<1>15. ASSUME UNCHANGED vars PROVE \A d \in Event : Advance(d)
  BY <1>15
     DEF vars, redisVars, workerVars, writerVars, Inv, TypeOK, Pending, Batches,
         BatchOk, Advance, Owned, Taken, Settled, Preparing, Consumer
<1> QED
  BY <1>1, <1>2, <1>3, <1>4, <1>5, <1>6, <1>7, <1>8, <1>9, <1>10, <1>11, <1>12,
     <1>13, <1>14, <1>15
     DEF Next, Prepare, Work, Flush

\* A move of an event is one of its status.
LEMMA StatusMoves ==
  ASSUME Inv, Inv', NEW e \in Event, Advance(e)
  PROVE  Delivery!MayBecome(StatusOf(e), StatusOf(e)')
<1>1. stage[e] \in Stage /\ stage'[e] \in Stage
  BY DEF Inv, TypeOK
<1>2. StatusFacts(e) /\ StatusFacts(e)'
  BY <1>1, StatusNow, StatusThen
<1>3. CASE stage'[e] = stage[e] /\ (Owned(e)' => Owned(e))
  BY <1>1, <1>2, <1>3 DEF StatusFacts, Delivery!MayBecome, Stage, Preparing
<1>4. CASE \/ stage[e] = "absent" /\ stage'[e] = "stream"
           \/ stage[e] = "stream" /\ stage'[e] \in {"trimmed", "skipped", "failed"}
  BY <1>2, <1>4 DEF StatusFacts, Delivery!MayBecome
<1>5. CASE stage[e] = "stream" /\ stage'[e] = "read"
  BY <1>2, <1>5 DEF StatusFacts, Delivery!MayBecome
<1>6. CASE /\ stage[e] \in {"read", "ready"} \cup Preparing
           /\ stage'[e] \in {"ready", "suppressed", "duplicate", "failed"} \cup Preparing
           /\ Owned(e)' => Owned(e)
  BY <1>2, <1>6 DEF StatusFacts, Delivery!MayBecome, Preparing, Settled
<1>7. CASE stage[e] = "ready" /\ Owned(e) /\ stage'[e] = "alerted"
  BY <1>2, <1>7 DEF StatusFacts, Delivery!MayBecome
<1> QED
  BY <1>3, <1>4, <1>5, <1>6, <1>7 DEF Advance

\* Every step is one of AlertDelivery: StreamPipeline's ImplementsDelivery.
THEOREM DeliveryRefinement == Spec => ImplementsDelivery
<1>1. Init => Delivery!Init
  <2> SUFFICES ASSUME Init PROVE Delivery!Init
    OBVIOUS
  <2>1. \A e \in Event : StatusOf(e) = "new"
    BY InitTypes, StatusNow DEF Init, TypeOK, StatusFacts
  <2> QED
    BY <2>1 DEF Init, Delivery!Init
<1>2. Inv /\ Inv' /\ [Next]_vars => Delivery!Step
  <2> SUFFICES ASSUME Inv, Inv', [Next]_vars PROVE Delivery!Step
    OBVIOUS
  <2> DEFINE next == [e \in Event |-> StatusOf(e)']
  <2>1. \A e \in Event : Delivery!MayBecome(StatusOf(e), next[e])
    BY AdvanceNext, StatusMoves
  <2>2. \A e \in Event : /\ StatusFacts(e) /\ StatusFacts(e)'
                         /\ stage[e] = "alerted" => stage'[e] = "alerted"
    <3> SUFFICES ASSUME NEW e \in Event
                 PROVE  /\ StatusFacts(e) /\ StatusFacts(e)'
                        /\ stage[e] = "alerted" => stage'[e] = "alerted"
      OBVIOUS
    <3>1. stage[e] \in Stage /\ stage'[e] \in Stage
      BY DEF Inv, TypeOK
    <3>2. Advance(e)
      BY AdvanceNext
    <3> QED
      BY <3>1, <3>2, StatusNow, StatusThen DEF Advance, Preparing, Settled
  <2>3. next \in [Event -> Delivery!Status]
    BY <2>2 DEF StatusFacts
  <2>4. sent' = [e \in Event |->
                   IF next[e] = "alerted" /\ StatusOf(e) # "alerted" THEN sent[e] + 1
                   ELSE sent[e]]
    <3>1. sent \in [Event -> Nat] /\ sent' \in [Event -> Nat]
      BY DEF Inv, TypeOK
    <3>2. \A e \in Event : sent'[e] =
            IF next[e] = "alerted" /\ StatusOf(e) # "alerted" THEN sent[e] + 1
            ELSE sent[e]
      BY <2>2 DEF Inv, Counted, StatusFacts
    <3> QED
      BY <3>1, <3>2
  <2>5. [e \in Event |-> StatusOf(e)]' = next
    OBVIOUS
  <2> QED
    BY <2>1, <2>3, <2>4, <2>5 DEF Delivery!Step
<1> QED
  BY <1>1, <1>2, InvInvariant, PTL DEF Spec, ImplementsDelivery, Delivery!Spec
=============================================================================
