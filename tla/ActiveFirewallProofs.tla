------------------------- MODULE ActiveFirewallProofs -------------------------
(***************************************************************************)
(* Proofs about ActiveFirewall, for any number of addresses, processes and *)
(* threads, any thresholds, and any bound on scores and crashes.           *)
(***************************************************************************)
EXTENDS ActiveFirewall, TLAPS

USE DEF Thread

\* The labels of a thread that is working on an address.
Working == {"incident", "score", "clamp", "switch", "block", "add", "pin",
            "limit", "limitAdd", "unblock", "unlimit", "forget", "finalise",
            "whitelist", "unfinalise"}

\* The labels of process_incident() and rate_limit().
Judging == {"incident", "score", "clamp", "switch", "limit", "limitAdd"}

\* The shape of a frame: a working thread has an address, and only workers
\* judge one.
WellFramed(f, t) ==
  /\ f \in Frame
  /\ f.pc \in Working => f.ip \in IP
  /\ f.pc \in Judging => t \in Worker

\* Every thread's frame is well shaped.
FramesOK ==
  /\ frame \in [Thread -> Frame]
  /\ \A t \in Thread : WellFramed(frame[t], t)

\* A cached status is cached for every address.
CacheOK == \A p \in Process : cache[p] = NoCache \/ cache[p] \in [IP -> Verdict]

\* The types, and what the types do not say.
Shape == TypeOK /\ FramesOK /\ CacheOK

-----------------------------------------------------------------------------
(* Steps of one thread *)

\* A step of t touches no other thread, and leaves t with a frame of the type.
LEMMA GotoFrame ==
  ASSUME NEW t \in Thread, NEW l \in Label, frame \in [Thread -> Frame],
         Goto(t, l)
  PROVE  /\ frame' \in [Thread -> Frame]
         /\ frame'[t] = [frame[t] EXCEPT !.pc = l]
         /\ frame'[t].pc = l /\ frame'[t].ip = frame[t].ip
         /\ frame'[t].ttl = frame[t].ttl /\ frame'[t].op = frame[t].op
         /\ \A u \in Thread \ {t} : frame'[u] = frame[u]
BY DEF Goto, Frame

LEMMA IdleIsFrame == IdleFrame \in Frame
BY DEF IdleFrame, Frame, Label, Ttl

LEMMA FinishFrame ==
  ASSUME NEW t \in Thread, frame \in [Thread -> Frame], Finish(t)
  PROVE  /\ frame' \in [Thread -> Frame]
         /\ frame'[t].pc = "idle" /\ frame'[t].ip = None
         /\ \A u \in Thread \ {t} : frame'[u] = frame[u]
BY IdleIsFrame DEF Finish, IdleFrame

LEMMA RevisitFrame ==
  ASSUME NEW t \in Thread, frame \in [Thread -> Frame], Revisit(t)
  PROVE  /\ frame' \in [Thread -> Frame]
         /\ frame'[t].pc = "visit" /\ frame'[t].ip = None
         /\ \A u \in Thread \ {t} : frame'[u] = frame[u]
BY DEF Revisit, IdleFrame, Frame, Label, Ttl

LEMMA DecayedRange ==
  ASSUME NEW s \in MinScore .. MaxScore
  PROVE  Decayed(s) \in 0 .. MaxScore /\ (s >= 0 => Decayed(s) <= s)
BY ThresholdAssumption DEF Decayed

LEMMA BlockReturns ==
  ASSUME NEW t \in Thread, frame \in [Thread -> Frame], ReturnFromBlock(t)
  PROVE  /\ frame' \in [Thread -> Frame]
         /\ frame'[t].pc \in {"finalise", "visit", "idle"}
         /\ frame'[t].pc = "finalise" => t \in Handler /\ frame'[t].ip = frame[t].ip
         /\ \A u \in Thread \ {t} : frame'[u] = frame[u]
<1>1. CASE t \in Handler
  BY <1>1, GotoFrame DEF ReturnFromBlock, Label
<1>2. CASE t \notin Handler /\ t \in Auditor \cup Booter
  BY <1>2, RevisitFrame DEF ReturnFromBlock
<1>3. CASE t \notin Handler /\ t \notin Auditor \cup Booter
  BY <1>3, FinishFrame DEF ReturnFromBlock
<1> QED BY <1>1, <1>2, <1>3

LEMMA UnblockReturns ==
  ASSUME NEW t \in Thread, frame \in [Thread -> Frame], ReturnFromUnblock(t)
  PROVE  /\ frame' \in [Thread -> Frame]
         /\ frame'[t].pc \in {"unfinalise", "whitelist", "visit", "idle"}
         /\ frame'[t].pc \in Working => frame'[t].ip = frame[t].ip
         /\ \A u \in Thread \ {t} : frame'[u] = frame[u]
<1>1. CASE t \in Decayer
  BY <1>1, RevisitFrame DEF ReturnFromUnblock, Working
<1>2. CASE t \notin Decayer /\ frame[t].op = "unblock"
  BY <1>2, GotoFrame DEF ReturnFromUnblock, Label
<1>3. CASE t \notin Decayer /\ frame[t].op = "whitelist"
  BY <1>3, GotoFrame DEF ReturnFromUnblock, Label
<1>4. CASE t \notin Decayer /\ frame[t].op \notin {"unblock", "whitelist"}
  BY <1>4, FinishFrame DEF ReturnFromUnblock, Working
<1> QED BY <1>1, <1>2, <1>3, <1>4

LEMMA EnsureTypes ==
  ASSUME NEW p \in Process, setsReady \in [Process -> BOOLEAN],
         setsExist \in BOOLEAN, EnsureKernelSets(p)
  PROVE  setsReady' \in [Process -> BOOLEAN] /\ setsExist' \in BOOLEAN
BY DEF EnsureKernelSets


LEMMA Numbers ==
  /\ REPUTATION_LIMIT \in Nat /\ REPUTATION_TEMP_BLOCK \in Nat
  /\ REPUTATION_PERM_BLOCK \in Nat /\ MaxScore \in Nat /\ MaxCrashes \in Nat
  /\ MinScore \in Int /\ MinScore <= 0
  /\ 0 < REPUTATION_LIMIT /\ REPUTATION_LIMIT < REPUTATION_TEMP_BLOCK
  /\ REPUTATION_TEMP_BLOCK < REPUTATION_PERM_BLOCK
  /\ REPUTATION_PERM_BLOCK <= MaxScore
  /\ 0 \in MinScore .. MaxScore /\ REPUTATION_PERM_BLOCK \in MinScore .. MaxScore
BY ThresholdAssumption

LEMMA InitShape == Init => Shape
<1> SUFFICES ASSUME Init PROVE Shape  OBVIOUS
<1>1. reputation \in [IP -> MinScore .. MaxScore] /\ crashes \in 0 .. MaxCrashes
  BY Numbers DEF Init
<1>2. frame \in [Thread -> Frame]
  BY IdleIsFrame DEF Init
<1>3. FramesOK
  BY <1>2 DEF Init, FramesOK, WellFramed, IdleFrame, Working, Judging
<1>4. NothingToDo \in [IP -> Verdict] /\ NoCache \in [IP -> Verdict \cup {"none"}]
  BY DEF NothingToDo, NoCache, Verdict, Ttl
<1>5. TypeOK
  BY <1>1, <1>2, <1>4 DEF Init, TypeOK, Ttl
<1>6. CacheOK
  BY DEF Init, CacheOK
<1> QED BY <1>3, <1>5, <1>6 DEF Shape

\* The step of one thread keeps the frames well shaped if its own is.
LEMMA OneFrame ==
  ASSUME NEW t \in Thread, FramesOK, frame' \in [Thread -> Frame],
         \A u \in Thread \ {t} : frame'[u] = frame[u],
         frame'[t].pc \in Working => frame'[t].ip \in IP,
         frame'[t].pc \in Judging => t \in Worker
  PROVE  FramesOK'
BY DEF FramesOK, WellFramed

LEMMA LoseFrames ==
  ASSUME FramesOK, NEW P, Lose(P)
  PROVE  FramesOK'
<1>1. \A t \in Thread : frame'[t] = IdleFrame \/ frame'[t] = frame[t]
  BY DEF Lose
<1>2. frame' \in [Thread -> Frame]
  BY IdleIsFrame DEF Lose, FramesOK
<1>3. \A t \in Thread : WellFramed(IdleFrame, t)
  BY IdleIsFrame DEF WellFramed, IdleFrame, Working, Judging
<1> QED BY <1>1, <1>2, <1>3 DEF FramesOK, WellFramed

LEMMA NextFrames == Shape /\ [Next]_vars => FramesOK'
<1> SUFFICES ASSUME Shape, [Next]_vars PROVE FramesOK'  OBVIOUS
<1>0. FramesOK /\ frame \in [Thread -> Frame] /\ \A u \in Thread : WellFramed(frame[u], u)
  BY DEF Shape, FramesOK
<1> USE <1>0
<1> USE DEF At, Working, Judging, Label
<1>1. ASSUME NEW t \in Thread, RepopulateRead(t) PROVE FramesOK'
  BY <1>1, RevisitFrame, OneFrame DEF RepopulateRead
<1>2. ASSUME NEW t \in Thread, Reblock(t) PROVE FramesOK'
  <2>1. CASE Finish(t)
    BY <2>1, FinishFrame, OneFrame
  <2>2. ASSUME NEW i \in IP,
              frame' = [frame EXCEPT ![t].pc = "block", ![t].ip = i,
                                      ![t].ttl = TtlOf(todo[t][i])]
       PROVE  FramesOK'
    <3>1. TtlOf(todo[t][i]) \in Ttl
      BY DEF Shape, TypeOK, TtlOf, Verdict, Ttl
    <3>2. frame' \in [Thread -> Frame] /\ frame'[t].ip = i /\ frame'[t].pc = "block"
      BY <2>2, <3>1 DEF Frame
    <3>3. \A u \in Thread \ {t} : frame'[u] = frame[u]
      BY <2>2
    <3> QED BY <3>2, <3>3, OneFrame
  <2> QED BY <1>2, <2>1, <2>2 DEF Reblock
<1>3. ASSUME NEW t \in Thread, BlockCheck(t) PROVE FramesOK'
  <2>1. frame[t].ip \in IP
    BY <1>3 DEF BlockCheck, WellFramed
  <2>2. CASE ReturnFromBlock(t)
    BY <2>1, <2>2, BlockReturns, OneFrame
  <2>3. CASE Goto(t, "add")
    BY <2>1, <2>3, GotoFrame, OneFrame
  <2> QED BY <1>3, <2>2, <2>3 DEF BlockCheck
<1>4. ASSUME NEW t \in Thread, BlockAdd(t) PROVE FramesOK'
  <2>1. frame[t].ip \in IP
    BY <1>4 DEF BlockAdd, WellFramed
  <2>2. CASE ReturnFromBlock(t)
    BY <2>1, <2>2, BlockReturns, OneFrame
  <2>3. CASE Goto(t, "pin")
    BY <2>1, <2>3, GotoFrame, OneFrame
  <2> QED BY <1>4, <2>2, <2>3 DEF BlockAdd
<1>5. ASSUME NEW t \in Thread, BlockPin(t) PROVE FramesOK'
  <2>1. frame[t].ip \in IP
    BY <1>5 DEF BlockPin, WellFramed
  <2> QED BY <1>5, <2>1, BlockReturns, OneFrame DEF BlockPin
<1>6. ASSUME NEW t \in Thread, LimitCheck(t) PROVE FramesOK'
  <2>1. frame[t].ip \in IP
    BY <1>6 DEF LimitCheck, WellFramed
  <2>2. CASE ReturnFromBlock(t)
    BY <2>1, <2>2, BlockReturns, OneFrame
  <2>3. CASE Goto(t, "limitAdd")
    BY <1>6, <2>1, <2>3, GotoFrame, OneFrame DEF LimitCheck, WellFramed
  <2> QED BY <1>6, <2>2, <2>3 DEF LimitCheck
<1>7. ASSUME NEW t \in Thread, LimitAdd(t) PROVE FramesOK'
  <2>1. frame[t].ip \in IP
    BY <1>7 DEF LimitAdd, WellFramed
  <2> QED BY <1>7, <2>1, BlockReturns, OneFrame DEF LimitAdd
<1>8. ASSUME NEW t \in Thread, UnblockBlocks(t) PROVE FramesOK'
  <2>1. frame[t].ip \in IP
    BY <1>8 DEF UnblockBlocks, WellFramed
  <2> QED BY <1>8, <2>1, GotoFrame, OneFrame DEF UnblockBlocks
<1>9. ASSUME NEW t \in Thread, UnblockLimited(t) PROVE FramesOK'
  <2>1. frame[t].ip \in IP
    BY <1>9 DEF UnblockLimited, WellFramed
  <2> QED BY <1>9, <2>1, GotoFrame, OneFrame DEF UnblockLimited
<1>10. ASSUME NEW t \in Thread, UnblockForget(t) PROVE FramesOK'
  <2>1. frame[t].ip \in IP
    BY <1>10 DEF UnblockForget, WellFramed
  <2> QED BY <1>10, <2>1, UnblockReturns, OneFrame DEF UnblockForget
<1>11. ASSUME NEW t \in Thread, IncidentCheck(t) PROVE FramesOK'
  <2>1. frame[t].ip \in IP /\ t \in Worker
    BY <1>11 DEF IncidentCheck, WellFramed
  <2> QED BY <1>11, <2>1, FinishFrame, GotoFrame, OneFrame DEF IncidentCheck
<1>12. ASSUME NEW t \in Thread, NEW d \in Delta, IncidentScore(t, d)
       PROVE  FramesOK'
  <2> DEFINE s == reputation[frame[t].ip] + d
  <2>1. frame[t].ip \in IP /\ t \in Worker
    BY <1>12 DEF IncidentScore, WellFramed
  <2>2. CASE Goto(t, "clamp") \/ Finish(t)
    BY <2>1, <2>2, FinishFrame, GotoFrame, OneFrame
  <2>3. CASE frame' = [frame EXCEPT ![t].pc = "switch", ![t].ttl = Sentence(s)]
    <3>1. Sentence(s) \in Ttl
      BY DEF Sentence, Ttl
    <3>2. /\ frame' \in [Thread -> Frame]
          /\ frame'[t].ip = frame[t].ip /\ \A u \in Thread \ {t} : frame'[u] = frame[u]
      BY <2>3, <3>1 DEF Frame
    <3> QED BY <2>1, <3>2, OneFrame
  <2> QED BY <1>12, <2>2, <2>3 DEF IncidentScore
<1>13. ASSUME NEW t \in Thread, IncidentClamp(t) PROVE FramesOK'
  BY <1>13, FinishFrame, OneFrame DEF IncidentClamp
<1>14. ASSUME NEW t \in Thread, IncidentSwitch(t) PROVE FramesOK'
  <2>1. frame[t].ip \in IP /\ t \in Worker
    BY <1>14 DEF IncidentSwitch, WellFramed
  <2> QED BY <1>14, <2>1, FinishFrame, GotoFrame, OneFrame DEF IncidentSwitch
<1>15. ASSUME NEW t \in Thread, Rehabilitate(t) PROVE FramesOK'
  <2>1. CASE Finish(t)
    BY <2>1, FinishFrame, OneFrame
  <2>2. ASSUME NEW i \in IP, frame' = [frame EXCEPT ![t].pc = "unblock", ![t].ip = i]
        PROVE  FramesOK'
    BY <2>2, OneFrame DEF Frame
  <2>3. CASE UNCHANGED frame
    BY <2>3 DEF FramesOK
  <2> QED BY <1>15, <2>1, <2>2, <2>3 DEF Rehabilitate
<1>16. ASSUME NEW t \in Thread, Finalise(t) PROVE FramesOK'
  BY <1>16, FinishFrame, OneFrame DEF Finalise
<1>17. ASSUME NEW t \in Thread, WhitelistAdd(t) PROVE FramesOK'
  <2>1. frame[t].ip \in IP
    BY <1>17 DEF WhitelistAdd, WellFramed
  <2> QED BY <1>17, <2>1, GotoFrame, OneFrame DEF WhitelistAdd
<1>18. ASSUME NEW t \in Thread, Unfinalise(t) PROVE FramesOK'
  BY <1>18, FinishFrame, OneFrame DEF Unfinalise
<1>19. ASSUME NEW t \in Thread, StatusReputation(t) PROVE FramesOK'
  BY <1>19, GotoFrame, OneFrame DEF StatusReputation
<1>20. ASSUME NEW t \in Thread, StatusFinal(t) PROVE FramesOK'
  BY <1>20, GotoFrame, OneFrame DEF StatusFinal
<1>21. ASSUME NEW t \in Thread, StatusKernel(t) PROVE FramesOK'
  BY <1>21, GotoFrame, OneFrame DEF StatusKernel
<1>22. ASSUME NEW t \in Thread, StatusStore(t) PROVE FramesOK'
  BY <1>22, RevisitFrame, FinishFrame, OneFrame DEF StatusStore, StatusReturn
<1>23. ASSUME NEW t \in Thread, AuditSwitch(t) PROVE FramesOK'
  BY <1>23, FinishFrame, GotoFrame, OneFrame DEF AuditSwitch
<1>24. ASSUME NEW t \in Thread, StatusEnter(t) PROVE FramesOK'
  BY <1>24, RevisitFrame, FinishFrame, GotoFrame, OneFrame DEF StatusEnter, StatusReturn
<1>25. ASSUME NEW t \in Thread, Initialize(t) PROVE FramesOK'
  BY <1>25, GotoFrame, OneFrame DEF Initialize
<1>26. ASSUME NEW t \in Thread, DecayTick(t) PROVE FramesOK'
  BY <1>26, RevisitFrame, OneFrame DEF DecayTick
<1>27. ASSUME NEW t \in Thread, AuditBegin(t) PROVE FramesOK'
  BY <1>27, GotoFrame, OneFrame DEF AuditBegin
<1>28. ASSUME NEW t \in Thread, NEW i \in IP, IncidentBegin(t, i)
       PROVE  FramesOK'
  <2>1. t \in Worker /\ frame' = [frame EXCEPT ![t] = [IdleFrame EXCEPT !.pc = "incident", !.ip = i]]
    BY <1>28 DEF IncidentBegin
  <2>2. /\ frame' \in [Thread -> Frame]
        /\ frame'[t].ip = i /\ \A u \in Thread \ {t} : frame'[u] = frame[u]
    BY <2>1 DEF IdleFrame, Frame, Ttl
  <2> QED BY <2>1, <2>2, OneFrame
<1>29. ASSUME NEW t \in Thread, NEW i \in IP, RequestBlock(t, i) PROVE FramesOK'
  BY <1>29, OneFrame DEF RequestBlock, Frame, Ttl, AllRequests
<1>30. ASSUME NEW t \in Thread, NEW i \in IP, RequestUnwhitelist(t, i)
       PROVE  FramesOK'
  BY <1>30 DEF RequestUnwhitelist, FramesOK
<1>31. ASSUME NEW t \in Thread, NEW i \in IP, NEW r \in AllRequests, RequestUnblock(t, i, r)
       PROVE  FramesOK'
  BY <1>31, OneFrame DEF RequestUnblock, Frame, Ttl, AllRequests
<1>32. ASSUME NEW t \in Thread, NEW off \in BOOLEAN, RequestToggle(t, off)
       PROVE  FramesOK'
  BY <1>32 DEF RequestToggle, FramesOK
<1>33. ASSUME NEW t \in Thread, RequestStatus(t) PROVE FramesOK'
  <2>1. frame' = [frame EXCEPT ![t] = [IdleFrame EXCEPT !.pc = "status", !.op = "status"]]
    BY <1>33 DEF RequestStatus
  <2>2. "status" \in AllRequests
    BY DEF AllRequests
  <2> QED BY <2>1, <2>2, OneFrame DEF IdleFrame, Frame, Ttl
<1>34. ASSUME NEW i \in IP, BlockExpire(i) PROVE FramesOK'
  BY <1>34 DEF BlockExpire, FramesOK
<1>35. ASSUME NEW i \in IP, LimitExpire(i) PROVE FramesOK'
  BY <1>35 DEF LimitExpire, FramesOK
<1>36. ASSUME NEW p \in Process, CacheExpire(p) PROVE FramesOK'
  BY <1>36 DEF CacheExpire, FramesOK
<1>37. ASSUME NEW p \in Process, Crash(p) PROVE FramesOK'
  BY <1>37, LoseFrames DEF Crash
<1>38. ASSUME Reboot PROVE FramesOK'
  BY <1>38, LoseFrames DEF Reboot
<1>39. ASSUME SetsVanish PROVE FramesOK'
  BY <1>39 DEF SetsVanish, FramesOK
<1>40. CASE UNCHANGED vars
  BY <1>40 DEF vars, FramesOK
<1> QED BY <1>1, <1>2, <1>3, <1>4, <1>5, <1>6, <1>7, <1>8, <1>9, <1>10,
         <1>11, <1>12, <1>13, <1>14, <1>15, <1>16, <1>17, <1>18, <1>19,
         <1>20, <1>21, <1>22, <1>23, <1>24, <1>25, <1>26, <1>27, <1>28,
         <1>29, <1>30, <1>31, <1>32, <1>33, <1>34, <1>35, <1>36, <1>37,
         <1>38, <1>39, <1>40 DEF Next, Continue, Loop, Demand, Environment
LEMMA CacheCleared ==
  ASSUME NEW p \in Process, TypeOK, CacheOK, ClearCache(p)
  PROVE  cache' \in [Process -> [IP -> Verdict \cup {"none"}]] /\ CacheOK'
BY DEF TypeOK, CacheOK, ClearCache, NoCache

LEMMA NoneToDo == NothingToDo \in [IP -> Verdict]
BY DEF NothingToDo, Verdict, Ttl

LEMMA Visited ==
  ASSUME NEW t \in Thread, NEW i \in IP, todo \in [Thread -> [IP -> Verdict]],
         todo' = [todo EXCEPT ![t][i] = "no"]
  PROVE  todo' \in [Thread -> [IP -> Verdict]]
BY DEF Verdict, Ttl

LEMMA LoseTypes ==
  ASSUME TypeOK, CacheOK, NEW P, Lose(P)
  PROVE  /\ cache' \in [Process -> [IP -> Verdict \cup {"none"}]] /\ CacheOK'
         /\ setsReady' \in [Process -> BOOLEAN]
         /\ initialized' \in [Process -> BOOLEAN]
         /\ todo' \in [Thread -> [IP -> Verdict]]
         /\ crashes' \in 0 .. MaxCrashes
<1>1. NoCache \in [IP -> Verdict \cup {"none"}]
  BY DEF NoCache
<1>2. cache' \in [Process -> [IP -> Verdict \cup {"none"}]] /\ CacheOK'
  BY <1>1 DEF TypeOK, CacheOK, Lose
<1>3. todo' \in [Thread -> [IP -> Verdict]]
  BY NoneToDo DEF TypeOK, Lose
<1>4. crashes' \in 0 .. MaxCrashes
  BY Numbers DEF TypeOK, Lose
<1> QED BY <1>2, <1>3, <1>4 DEF TypeOK, Lose

LEMMA NextTypes == Shape /\ [Next]_vars => TypeOK' /\ CacheOK'
<1> SUFFICES ASSUME Shape, [Next]_vars PROVE TypeOK' /\ CacheOK'  OBVIOUS
<1>0. FramesOK /\ CacheOK /\ TypeOK /\ frame' \in [Thread -> Frame]
  BY NextFrames DEF Shape, FramesOK
<1>a. Home \in [Thread -> Process]
  BY ThreadAssumption
<1> USE <1>0, <1>a
<1> USE DEF TypeOK, redisVars, kernelVars, processVars, history
<1>1. ASSUME NEW t \in Thread, RepopulateRead(t) PROVE TypeOK' /\ CacheOK'
  <2>1. todo' \in [Thread -> [IP -> Verdict]]
    BY <1>1 DEF RepopulateRead, Sentence, Verdict, Ttl
  <2> QED BY <1>1, <2>1 DEF RepopulateRead, CacheOK
<1>2. ASSUME NEW t \in Thread, Reblock(t) PROVE TypeOK' /\ CacheOK'
  <2>0. UNCHANGED todo \/ \E i \in IP : todo' = [todo EXCEPT ![t][i] = "no"]
    BY <1>2 DEF Reblock
  <2>1. todo' \in [Thread -> [IP -> Verdict]]
    BY <2>0, Visited
  <2> QED BY <1>2, <2>1 DEF Reblock, CacheOK
<1>3. ASSUME NEW t \in Thread, BlockCheck(t) PROVE TypeOK' /\ CacheOK'
  BY <1>3, CacheCleared DEF BlockCheck, CacheOK
<1>4. ASSUME NEW t \in Thread, BlockAdd(t) PROVE TypeOK' /\ CacheOK'
  <2>0. setsReady' \in [Process -> BOOLEAN] /\ setsExist' \in BOOLEAN
    BY <1>4, EnsureTypes DEF BlockAdd
  <2>1. frame[t].ttl \in Ttl
    BY DEF Frame
  <2> QED BY <1>4, <2>0, <2>1 DEF BlockAdd, CacheOK
<1>5. ASSUME NEW t \in Thread, BlockPin(t) PROVE TypeOK' /\ CacheOK'
  BY <1>5, Numbers DEF BlockPin, CacheOK
<1>6. ASSUME NEW t \in Thread, LimitCheck(t) PROVE TypeOK' /\ CacheOK'
  BY <1>6 DEF LimitCheck, CacheOK
<1>7. ASSUME NEW t \in Thread, LimitAdd(t) PROVE TypeOK' /\ CacheOK'
  <2>1. frame[t].ip \in IP
    BY <1>7 DEF LimitAdd, FramesOK, WellFramed, At, Working
  <2>0. setsReady' \in [Process -> BOOLEAN] /\ setsExist' \in BOOLEAN
    BY <1>7, EnsureTypes DEF LimitAdd
  <2> QED BY <1>7, <2>0, <2>1, CacheCleared DEF LimitAdd, CacheOK
<1>8. ASSUME NEW t \in Thread, UnblockBlocks(t) PROVE TypeOK' /\ CacheOK'
  <2>0. setsReady' \in [Process -> BOOLEAN] /\ setsExist' \in BOOLEAN
    BY <1>8, EnsureTypes DEF UnblockBlocks
  <2> QED BY <1>8, <2>0, CacheCleared DEF UnblockBlocks, CacheOK, Ttl
<1>9. ASSUME NEW t \in Thread, UnblockLimited(t) PROVE TypeOK' /\ CacheOK'
  BY <1>9 DEF UnblockLimited, CacheOK
<1>10. ASSUME NEW t \in Thread, UnblockForget(t) PROVE TypeOK' /\ CacheOK'
  BY <1>10, Numbers DEF UnblockForget, CacheOK
<1>11. ASSUME NEW t \in Thread, IncidentCheck(t) PROVE TypeOK' /\ CacheOK'
  BY <1>11 DEF IncidentCheck, CacheOK
<1>12. ASSUME NEW t \in Thread, NEW d \in Delta, IncidentScore(t, d)
       PROVE  TypeOK' /\ CacheOK'
  <2>1. frame[t].ip \in IP
    BY <1>12 DEF IncidentScore, FramesOK, WellFramed, At, Working
  <2>2. reputation' \in [IP -> MinScore .. MaxScore]
    BY <1>12, <2>1, Numbers, ThresholdAssumption DEF IncidentScore
  <2>3. convicted' \subseteq IP
    BY <1>12, <2>1 DEF IncidentScore
  <2> QED BY <1>12, <2>2, <2>3 DEF IncidentScore, CacheOK
<1>13. ASSUME NEW t \in Thread, IncidentClamp(t) PROVE TypeOK' /\ CacheOK'
  BY <1>13, Numbers DEF IncidentClamp, CacheOK
<1>14. ASSUME NEW t \in Thread, IncidentSwitch(t) PROVE TypeOK' /\ CacheOK'
  BY <1>14 DEF IncidentSwitch, CacheOK
<1>15. ASSUME NEW t \in Thread, Rehabilitate(t) PROVE TypeOK' /\ CacheOK'
  <2>0. UNCHANGED todo \/ \E i \in IP : todo' = [todo EXCEPT ![t][i] = "no"]
    BY <1>15 DEF Rehabilitate
  <2>1. todo' \in [Thread -> [IP -> Verdict]]
    BY <2>0, Visited
  <2> QED BY <1>15, <2>1 DEF Rehabilitate, CacheOK
<1>16. ASSUME NEW t \in Thread, Finalise(t) PROVE TypeOK' /\ CacheOK'
  <2>1. frame[t].ip \in IP
    BY <1>16 DEF Finalise, FramesOK, WellFramed, At, Working
  <2> QED BY <1>16, <2>1 DEF Finalise, CacheOK
<1>17. ASSUME NEW t \in Thread, WhitelistAdd(t) PROVE TypeOK' /\ CacheOK'
  <2>1. frame[t].ip \in IP
    BY <1>17 DEF WhitelistAdd, FramesOK, WellFramed, At, Working
  <2> QED BY <1>17, <2>1 DEF WhitelistAdd, CacheOK
<1>18. ASSUME NEW t \in Thread, Unfinalise(t) PROVE TypeOK' /\ CacheOK'
  BY <1>18 DEF Unfinalise, CacheOK
<1>19. ASSUME NEW t \in Thread, StatusReputation(t) PROVE TypeOK' /\ CacheOK'
  <2>1. todo' \in [Thread -> [IP -> Verdict]]
    BY <1>19 DEF StatusReputation, Sentence, Verdict, Ttl
  <2> QED BY <1>19, <2>1 DEF StatusReputation, CacheOK
<1>20. ASSUME NEW t \in Thread, StatusFinal(t) PROVE TypeOK' /\ CacheOK'
  <2>1. todo' \in [Thread -> [IP -> Verdict]]
    BY <1>20 DEF StatusFinal, Sentence, Verdict, Ttl
  <2> QED BY <1>20, <2>1 DEF StatusFinal, CacheOK
<1>21. ASSUME NEW t \in Thread, StatusKernel(t) PROVE TypeOK' /\ CacheOK'
  <2>1. todo' \in [Thread -> [IP -> Verdict]]
    BY <1>21 DEF StatusKernel, Sentence, Verdict, Ttl
  <2> QED BY <1>21, <2>1 DEF StatusKernel, CacheOK
<1>22. ASSUME NEW t \in Thread, StatusStore(t) PROVE TypeOK' /\ CacheOK'
  <2>1. todo' \in [Thread -> [IP -> Verdict]]
    BY <1>22, NoneToDo DEF StatusStore, StatusReturn
  <2>2. cache' \in [Process -> [IP -> Verdict \cup {"none"}]] /\ CacheOK'
    BY <1>22 DEF StatusStore, CacheOK
  <2> QED BY <1>22, <2>1, <2>2 DEF StatusStore
<1>23. ASSUME NEW t \in Thread, AuditSwitch(t) PROVE TypeOK' /\ CacheOK'
  BY <1>23 DEF AuditSwitch, CacheOK
<1>24. ASSUME NEW t \in Thread, StatusEnter(t) PROVE TypeOK' /\ CacheOK'
  <2>0. setsReady' \in [Process -> BOOLEAN] /\ setsExist' \in BOOLEAN
    BY <1>24, EnsureTypes DEF StatusEnter
  <2>1. todo' \in [Thread -> [IP -> Verdict]]
    BY <1>24, NoneToDo DEF StatusEnter, StatusReturn, CacheOK
  <2> QED BY <1>24, <2>0, <2>1 DEF StatusEnter, CacheOK
<1>25. ASSUME NEW t \in Thread, Initialize(t) PROVE TypeOK' /\ CacheOK'
  <2>0. setsReady' \in [Process -> BOOLEAN] /\ setsExist' \in BOOLEAN
    BY <1>25, EnsureTypes DEF Initialize
  <2> QED BY <1>25, <2>0 DEF Initialize, CacheOK
<1>26. ASSUME NEW t \in Thread, DecayTick(t) PROVE TypeOK' /\ CacheOK'
  <2>1. reputation' \in [IP -> MinScore .. MaxScore]
    BY <1>26, Numbers, DecayedRange DEF DecayTick
  <2>2. todo' \in [Thread -> [IP -> Verdict]]
    BY <1>26 DEF DecayTick, Verdict, Ttl
  <2> QED BY <1>26, <2>1, <2>2 DEF DecayTick, CacheOK
<1>27. ASSUME NEW t \in Thread, AuditBegin(t) PROVE TypeOK' /\ CacheOK'
  <2>0. setsReady' \in [Process -> BOOLEAN] /\ setsExist' \in BOOLEAN
    BY <1>27, EnsureTypes DEF AuditBegin
  <2> QED BY <1>27, <2>0 DEF AuditBegin, CacheOK
<1>28. ASSUME NEW t \in Thread, NEW i \in IP, IncidentBegin(t, i)
       PROVE  TypeOK' /\ CacheOK'
  BY <1>28 DEF IncidentBegin, CacheOK
<1>29. ASSUME NEW t \in Thread, NEW i \in IP, RequestBlock(t, i)
       PROVE  TypeOK' /\ CacheOK'
  BY <1>29 DEF RequestBlock, CacheOK
<1>30. ASSUME NEW t \in Thread, NEW i \in IP, RequestUnwhitelist(t, i)
       PROVE  TypeOK' /\ CacheOK'
  BY <1>30 DEF RequestUnwhitelist, CacheOK
<1>31. ASSUME NEW t \in Thread, NEW i \in IP, NEW r \in AllRequests, RequestUnblock(t, i, r)
       PROVE  TypeOK' /\ CacheOK'
  BY <1>31 DEF RequestUnblock, CacheOK
<1>32. ASSUME NEW t \in Thread, NEW off \in BOOLEAN, RequestToggle(t, off)
       PROVE  TypeOK' /\ CacheOK'
  BY <1>32 DEF RequestToggle, CacheOK
<1>33. ASSUME NEW t \in Thread, RequestStatus(t) PROVE TypeOK' /\ CacheOK'
  BY <1>33 DEF RequestStatus, CacheOK
<1>34. ASSUME NEW i \in IP, BlockExpire(i) PROVE TypeOK' /\ CacheOK'
  BY <1>34 DEF BlockExpire, CacheOK, Ttl
<1>35. ASSUME NEW i \in IP, LimitExpire(i) PROVE TypeOK' /\ CacheOK'
  BY <1>35 DEF LimitExpire, CacheOK
<1>36. ASSUME NEW p \in Process, CacheExpire(p) PROVE TypeOK' /\ CacheOK'
  BY <1>36, CacheCleared DEF CacheExpire, CacheOK
<1>37. ASSUME NEW p \in Process, Crash(p) PROVE TypeOK' /\ CacheOK'
  BY <1>37, LoseTypes DEF Crash
<1>38. ASSUME Reboot PROVE TypeOK' /\ CacheOK'
  BY <1>38, LoseTypes DEF Reboot, NoSets, Ttl
<1>39. ASSUME SetsVanish PROVE TypeOK' /\ CacheOK'
  BY <1>39 DEF SetsVanish, CacheOK, NoSets, Ttl
<1>40. CASE UNCHANGED vars
  BY <1>40 DEF vars, CacheOK
<1> QED BY <1>1, <1>2, <1>3, <1>4, <1>5, <1>6, <1>7, <1>8, <1>9, <1>10,
         <1>11, <1>12, <1>13, <1>14, <1>15, <1>16, <1>17, <1>18, <1>19,
         <1>20, <1>21, <1>22, <1>23, <1>24, <1>25, <1>26, <1>27, <1>28,
         <1>29, <1>30, <1>31, <1>32, <1>33, <1>34, <1>35, <1>36, <1>37,
         <1>38, <1>39, <1>40 DEF Next, Continue, Loop, Demand, Environment

\* Every reachable state has the types the model declares, so scores stay
\* within their bounds and no thread works on anything but an address.
THEOREM TypesInvariant == Spec => []TypeOK
<1>1. Init => Shape
  BY InitShape
<1>2. Shape /\ [Next]_vars => Shape'
  BY NextTypes, NextFrames DEF Shape
<1>3. Shape => TypeOK
  BY DEF Shape
<1> QED BY <1>1, <1>2, <1>3, PTL DEF Spec

-----------------------------------------------------------------------------
(***************************************************************************)
(* BlockedForCause is not inductive: an address reaches the kernel through *)
(* a score, a list of final blocks, a cached status, a todo list or a      *)
(* frame, each read some steps before.  The invariant says of every one of *)
(* these places that what it holds has a cause; the cause is never lost,   *)
(* which is why old snapshots do no harm.                                  *)
(***************************************************************************)

Cause == ordered \cup (convicted \ Protected)

ScoresHaveCause ==
  \A i \in IP : reputation[i] >= REPUTATION_TEMP_BLOCK => i \in Cause
TodoHasCause ==
  \A t \in Thread : \A i \in IP : todo[t][i] # "no" => i \in Cause
CacheHasCause ==
  \A p \in Process : \A i \in IP : cache[p][i] \notin {"no", "none"} => i \in Cause

\* What a frame knows: the address that a thread blocks or finalises has a
\* cause, also when the block is only decided, and no protected one is judged.
CausedFrame(f) ==
  /\ f.pc \in {"block", "add", "pin", "finalise"} => f.ip \in Cause
  /\ f.pc = "switch" /\ f.ttl # "no" => f.ip \in Cause
  /\ f.pc \in Judging => f.ip \notin Protected

FramesCaused == \A t \in Thread : CausedFrame(frame[t])

Caused ==
  /\ ScoresHaveCause /\ finalBlocks \subseteq Cause
  /\ TodoHasCause /\ CacheHasCause
  /\ BlockedForCause

LEMMA DecayedScore ==
  ASSUME NEW s \in Int, Decayed(s) >= REPUTATION_TEMP_BLOCK
  PROVE  s >= REPUTATION_TEMP_BLOCK
BY Numbers DEF Decayed

LEMMA ClearedHasCause ==
  ASSUME NEW p \in Process, TypeOK, CacheHasCause, ClearCache(p), Cause' = Cause
  PROVE  CacheHasCause'
BY DEF TypeOK, CacheHasCause, ClearCache, NoCache

LEMMA VisitedHasCause ==
  ASSUME NEW t \in Thread, NEW i \in IP, TypeOK, TodoHasCause, Cause' = Cause,
         todo' = [todo EXCEPT ![t][i] = "no"]
  PROVE  TodoHasCause'
BY DEF TypeOK, TodoHasCause

LEMMA NothingHasCause == \A i \in IP : NothingToDo[i] = "no"
BY DEF NothingToDo

\* A cached status holds a verdict for every address.
LEMMA CachedHasCause ==
  ASSUME NEW p \in Process, CacheOK, CacheHasCause, cache[p] # NoCache
  PROVE  \A i \in IP : cache[p][i] # "no" => i \in Cause
BY DEF CacheOK, CacheHasCause, Verdict, Ttl

LEMMA LoseCaused ==
  ASSUME TypeOK, NEW P, Lose(P), UNCHANGED history, TodoHasCause, CacheHasCause
  PROVE  TodoHasCause' /\ CacheHasCause' /\ Cause' = Cause
BY DEF TypeOK, Lose, TodoHasCause, CacheHasCause, Cause, history, NothingToDo, NoCache

LEMMA LoseFramesCaused ==
  ASSUME FramesCaused, NEW P, Lose(P), UNCHANGED history
  PROVE  FramesCaused'
<1>1. \A t \in Thread : frame'[t] = IdleFrame \/ frame'[t] = frame[t]
  BY DEF Lose
<1>2. IdleFrame.pc = "idle" /\ Cause' = Cause
  BY DEF IdleFrame, Cause, history
<1> QED BY <1>1, <1>2 DEF FramesCaused, CausedFrame, Judging

\* The step of one thread keeps the cause of every frame if its own has one.
LEMMA OneCaused ==
  ASSUME NEW t \in Thread, FramesCaused, Cause \subseteq Cause',
         \A u \in Thread \ {t} : frame'[u] = frame[u],
         frame'[t].pc \in {"block", "add", "pin", "finalise"} => frame'[t].ip \in Cause',
         frame'[t].pc = "switch" /\ frame'[t].ttl # "no" => frame'[t].ip \in Cause',
         frame'[t].pc \in Judging => frame'[t].ip \notin Protected
  PROVE  FramesCaused'
BY DEF FramesCaused, CausedFrame

LEMMA NextCaused == Shape /\ Caused /\ FramesCaused /\ [Next]_vars => Caused'
<1> SUFFICES ASSUME Shape, Caused, FramesCaused, [Next]_vars PROVE Caused'  OBVIOUS
<1>0. FramesOK /\ CacheOK /\ TypeOK
  BY DEF Shape
<1> USE <1>0
<1> USE DEF TypeOK, Caused, ScoresHaveCause, TodoHasCause, CacheHasCause,
            BlockedForCause, Cause, redisVars, kernelVars, processVars, history
<1>1. ASSUME NEW t \in Thread, RepopulateRead(t) PROVE Caused'
  BY <1>1, Numbers DEF RepopulateRead, Sentence
<1>2. ASSUME NEW t \in Thread, Reblock(t) PROVE Caused'
  <2>0. UNCHANGED todo \/ \E i \in IP : todo' = [todo EXCEPT ![t][i] = "no"]
    BY <1>2 DEF Reblock
  <2>1. TodoHasCause'
    BY <2>0, VisitedHasCause, <1>2 DEF Reblock
  <2> QED BY <1>2, <2>1 DEF Reblock
<1>3. ASSUME NEW t \in Thread, BlockCheck(t) PROVE Caused'
  <2>1. CacheHasCause'
    <3> HIDE DEF CacheHasCause, TypeOK
    <3>1. Cause' = Cause
      BY <1>3 DEF BlockCheck
    <3>2. CASE UNCHANGED cache
      BY <3>1, <3>2 DEF CacheHasCause
    <3>3. CASE ClearCache(Home[t])
      BY <3>1, <3>3, ClearedHasCause, ThreadAssumption
    <3> QED BY <1>3, <3>2, <3>3 DEF BlockCheck
  <2> QED BY <1>3, <2>1 DEF BlockCheck
<1>4. ASSUME NEW t \in Thread, BlockAdd(t) PROVE Caused'
  <2>1. frame[t].ip \in Cause
    BY <1>4 DEF BlockAdd, At, FramesCaused, CausedFrame
  <2> QED BY <1>4, <2>1 DEF BlockAdd
<1>5. ASSUME NEW t \in Thread, BlockPin(t) PROVE Caused'
  <2>1. frame[t].ip \in Cause
    BY <1>5 DEF BlockPin, At, FramesCaused, CausedFrame
  <2> QED BY <1>5, <2>1 DEF BlockPin
<1>6. ASSUME NEW t \in Thread, LimitCheck(t) PROVE Caused'
  BY <1>6 DEF LimitCheck
<1>7. ASSUME NEW t \in Thread, LimitAdd(t) PROVE Caused'
  <2>1. frame[t].ip \notin Protected
    BY <1>7 DEF LimitAdd, At, FramesCaused, CausedFrame, Judging
  <2>2. CacheHasCause'
    <3> HIDE DEF CacheHasCause, TypeOK
    <3>1. Cause' = Cause
      BY <1>7 DEF LimitAdd
    <3>2. CASE UNCHANGED cache
      BY <3>1, <3>2 DEF CacheHasCause
    <3>3. CASE ClearCache(Home[t])
      BY <3>1, <3>3, ClearedHasCause, ThreadAssumption
    <3> QED BY <1>7, <3>2, <3>3 DEF LimitAdd
  <2> QED BY <1>7, <2>1, <2>2 DEF LimitAdd
<1>8. ASSUME NEW t \in Thread, UnblockBlocks(t) PROVE Caused'
  <2>1. CacheHasCause'
    <3> HIDE DEF CacheHasCause, TypeOK
    <3>1. Cause' = Cause
      BY <1>8 DEF UnblockBlocks
    <3>2. CASE UNCHANGED cache
      BY <3>1, <3>2 DEF CacheHasCause
    <3>3. CASE ClearCache(Home[t])
      BY <3>1, <3>3, ClearedHasCause, ThreadAssumption
    <3> QED BY <1>8, <3>2, <3>3 DEF UnblockBlocks
  <2> QED BY <1>8, <2>1 DEF UnblockBlocks
<1>9. ASSUME NEW t \in Thread, UnblockLimited(t) PROVE Caused'
  BY <1>9 DEF UnblockLimited
<1>10. ASSUME NEW t \in Thread, UnblockForget(t) PROVE Caused'
  BY <1>10, Numbers DEF UnblockForget
<1>11. ASSUME NEW t \in Thread, IncidentCheck(t) PROVE Caused'
  BY <1>11 DEF IncidentCheck
<1>12. ASSUME NEW t \in Thread, NEW d \in Delta, IncidentScore(t, d)
       PROVE  Caused'
  <2>1. frame[t].ip \notin Protected /\ Cause \subseteq Cause'
    BY <1>12 DEF IncidentScore, At, FramesCaused, CausedFrame, Judging
  <2>2. ScoresHaveCause'
    BY <1>12, <2>1 DEF IncidentScore
  <2> QED BY <1>12, <2>1, <2>2 DEF IncidentScore
<1>13. ASSUME NEW t \in Thread, IncidentClamp(t) PROVE Caused'
  BY <1>13, Numbers DEF IncidentClamp
<1>14. ASSUME NEW t \in Thread, IncidentSwitch(t) PROVE Caused'
  BY <1>14 DEF IncidentSwitch
<1>15. ASSUME NEW t \in Thread, Rehabilitate(t) PROVE Caused'
  <2>0. UNCHANGED todo \/ \E i \in IP : todo' = [todo EXCEPT ![t][i] = "no"]
    BY <1>15 DEF Rehabilitate
  <2>1. TodoHasCause'
    BY <2>0, VisitedHasCause, <1>15 DEF Rehabilitate
  <2> QED BY <1>15, <2>1 DEF Rehabilitate
<1>16. ASSUME NEW t \in Thread, Finalise(t) PROVE Caused'
  <2>1. frame[t].ip \in Cause
    BY <1>16 DEF Finalise, At, FramesCaused, CausedFrame
  <2> QED BY <1>16, <2>1 DEF Finalise
<1>17. ASSUME NEW t \in Thread, WhitelistAdd(t) PROVE Caused'
  BY <1>17 DEF WhitelistAdd
<1>18. ASSUME NEW t \in Thread, Unfinalise(t) PROVE Caused'
  BY <1>18 DEF Unfinalise
<1>19. ASSUME NEW t \in Thread, StatusReputation(t) PROVE Caused'
  BY <1>19, Numbers DEF StatusReputation, Sentence
<1>20. ASSUME NEW t \in Thread, StatusFinal(t) PROVE Caused'
  <2>1. TodoHasCause'
    BY <1>20 DEF StatusFinal
  <2> QED BY <1>20, <2>1 DEF StatusFinal
<1>21. ASSUME NEW t \in Thread, StatusKernel(t) PROVE Caused'
  <2>1. TodoHasCause'
    BY <1>21 DEF StatusKernel
  <2> QED BY <1>21, <2>1 DEF StatusKernel
<1>22. ASSUME NEW t \in Thread, StatusStore(t) PROVE Caused'
  <2>1. TodoHasCause' /\ CacheHasCause'
    BY <1>22, NothingHasCause DEF StatusStore, StatusReturn
  <2> QED BY <1>22, <2>1 DEF StatusStore
<1>23. ASSUME NEW t \in Thread, AuditSwitch(t) PROVE Caused'
  BY <1>23 DEF AuditSwitch
<1>24. ASSUME NEW t \in Thread, StatusEnter(t) PROVE Caused'
  <2>1. \/ todo' = todo
        \/ todo' = [todo EXCEPT ![t] = NothingToDo]
        \/ cache[Home[t]] # NoCache /\ todo' = [todo EXCEPT ![t] = cache[Home[t]]]
    BY <1>24 DEF StatusEnter, StatusReturn
  <2>2. TodoHasCause'
    <3>1. CASE todo' = todo
      BY <1>24, <3>1 DEF StatusEnter
    <3>2. CASE todo' = [todo EXCEPT ![t] = NothingToDo]
      BY <1>24, <3>2, NothingHasCause DEF StatusEnter
    <3>3. CASE cache[Home[t]] # NoCache /\ todo' = [todo EXCEPT ![t] = cache[Home[t]]]
      <4>1. \A i \in IP : cache[Home[t]][i] # "no" => i \in Cause
        BY <3>3, CachedHasCause, ThreadAssumption
      <4> QED BY <1>24, <3>3, <4>1 DEF StatusEnter
    <3> QED BY <2>1, <3>1, <3>2, <3>3
  <2> QED BY <1>24, <2>2 DEF StatusEnter
<1>25. ASSUME NEW t \in Thread, Initialize(t) PROVE Caused'
  BY <1>25 DEF Initialize
<1>26. ASSUME NEW t \in Thread, DecayTick(t) PROVE Caused'
  <2>1. ScoresHaveCause'
    BY <1>26, DecayedScore DEF DecayTick
  <2>2. TodoHasCause'
    BY <1>26 DEF DecayTick
  <2> QED BY <1>26, <2>1, <2>2 DEF DecayTick
<1>27. ASSUME NEW t \in Thread, AuditBegin(t) PROVE Caused'
  BY <1>27 DEF AuditBegin
<1>28. ASSUME NEW t \in Thread, NEW i \in IP, IncidentBegin(t, i) PROVE Caused'
  BY <1>28 DEF IncidentBegin
<1>29. ASSUME NEW t \in Thread, NEW i \in IP, RequestBlock(t, i) PROVE Caused'
  <2>1. Cause \subseteq Cause'
    BY <1>29 DEF RequestBlock
  <2> QED BY <1>29, <2>1 DEF RequestBlock
<1>30. ASSUME NEW t \in Thread, NEW i \in IP, RequestUnwhitelist(t, i)
       PROVE  Caused'
  BY <1>30 DEF RequestUnwhitelist
<1>31. ASSUME NEW t \in Thread, NEW i \in IP, NEW r \in AllRequests, RequestUnblock(t, i, r)
       PROVE  Caused'
  BY <1>31 DEF RequestUnblock
<1>32. ASSUME NEW t \in Thread, NEW off \in BOOLEAN, RequestToggle(t, off)
       PROVE  Caused'
  BY <1>32 DEF RequestToggle
<1>33. ASSUME NEW t \in Thread, RequestStatus(t) PROVE Caused'
  BY <1>33 DEF RequestStatus
<1>34. ASSUME NEW i \in IP, BlockExpire(i) PROVE Caused'
  BY <1>34 DEF BlockExpire
<1>35. ASSUME NEW i \in IP, LimitExpire(i) PROVE Caused'
  BY <1>35 DEF LimitExpire
<1>36. ASSUME NEW p \in Process, CacheExpire(p) PROVE Caused'
  BY <1>36, ClearedHasCause DEF CacheExpire
<1>37. ASSUME NEW p \in Process, Crash(p) PROVE Caused'
  BY <1>37, LoseCaused DEF Crash
<1>38. ASSUME Reboot PROVE Caused'
  BY <1>38, LoseCaused DEF Reboot, NoSets
<1>39. ASSUME SetsVanish PROVE Caused'
  BY <1>39 DEF SetsVanish, NoSets
<1>40. CASE UNCHANGED vars
  BY <1>40 DEF vars
<1> QED BY <1>1, <1>2, <1>3, <1>4, <1>5, <1>6, <1>7, <1>8, <1>9, <1>10,
         <1>11, <1>12, <1>13, <1>14, <1>15, <1>16, <1>17, <1>18, <1>19,
         <1>20, <1>21, <1>22, <1>23, <1>24, <1>25, <1>26, <1>27, <1>28,
         <1>29, <1>30, <1>31, <1>32, <1>33, <1>34, <1>35, <1>36, <1>37,
         <1>38, <1>39, <1>40 DEF Next, Continue, Loop, Demand, Environment

LEMMA NextFramesCaused ==
  Shape /\ Caused /\ FramesCaused /\ [Next]_vars => FramesCaused'
<1> SUFFICES ASSUME Shape, Caused, FramesCaused, [Next]_vars PROVE FramesCaused'
  OBVIOUS
<1>0. FramesOK /\ TypeOK /\ frame \in [Thread -> Frame] /\ \A u \in Thread : CausedFrame(frame[u])
  BY DEF Shape, FramesOK, FramesCaused
<1> USE <1>0
<1> USE DEF TypeOK, CausedFrame, Cause, history, At, Judging, Label
<1>1. ASSUME NEW t \in Thread, RepopulateRead(t) PROVE FramesCaused'
  BY <1>1, RevisitFrame, OneCaused DEF RepopulateRead
<1>2. ASSUME NEW t \in Thread, Reblock(t) PROVE FramesCaused'
  <2>1. CASE Finish(t)
    BY <1>2, <2>1, FinishFrame, OneCaused DEF Reblock
  <2>2. ASSUME NEW i \in IP, todo[t][i] # "no",
              frame' = [frame EXCEPT ![t].pc = "block", ![t].ip = i,
                                      ![t].ttl = TtlOf(todo[t][i])]
       PROVE  FramesCaused'
    <3>1. i \in Cause
      BY <2>2 DEF Caused, TodoHasCause
    <3>2. /\ frame'[t].pc = "block" /\ frame'[t].ip = i
          /\ \A u \in Thread \ {t} : frame'[u] = frame[u]
      BY <2>2 DEF Frame
    <3> QED BY <1>2, <3>1, <3>2, OneCaused DEF Reblock
  <2> QED BY <1>2, <2>1, <2>2 DEF Reblock
<1>3. ASSUME NEW t \in Thread, BlockCheck(t) PROVE FramesCaused'
  BY <1>3, BlockReturns, GotoFrame, OneCaused DEF BlockCheck
<1>4. ASSUME NEW t \in Thread, BlockAdd(t) PROVE FramesCaused'
  BY <1>4, BlockReturns, GotoFrame, OneCaused DEF BlockAdd
<1>5. ASSUME NEW t \in Thread, BlockPin(t) PROVE FramesCaused'
  BY <1>5, BlockReturns, OneCaused DEF BlockPin
<1>6. ASSUME NEW t \in Thread, LimitCheck(t) PROVE FramesCaused'
  <2>1. t \notin Handler
    BY <1>6, ThreadAssumption DEF LimitCheck, FramesOK, WellFramed
  <2> QED BY <1>6, <2>1, BlockReturns, GotoFrame, OneCaused DEF LimitCheck
<1>7. ASSUME NEW t \in Thread, LimitAdd(t) PROVE FramesCaused'
  <2>1. t \notin Handler
    BY <1>7, ThreadAssumption DEF LimitAdd, FramesOK, WellFramed
  <2> QED BY <1>7, <2>1, BlockReturns, OneCaused DEF LimitAdd
<1>8. ASSUME NEW t \in Thread, UnblockBlocks(t) PROVE FramesCaused'
  BY <1>8, GotoFrame, OneCaused DEF UnblockBlocks
<1>9. ASSUME NEW t \in Thread, UnblockLimited(t) PROVE FramesCaused'
  BY <1>9, GotoFrame, OneCaused DEF UnblockLimited
<1>10. ASSUME NEW t \in Thread, UnblockForget(t) PROVE FramesCaused'
  BY <1>10, UnblockReturns, OneCaused DEF UnblockForget
<1>11. ASSUME NEW t \in Thread, IncidentCheck(t) PROVE FramesCaused'
  BY <1>11, FinishFrame, GotoFrame, OneCaused DEF IncidentCheck
<1>12. ASSUME NEW t \in Thread, NEW d \in Delta, IncidentScore(t, d)
       PROVE  FramesCaused'
  <2> DEFINE s == reputation[frame[t].ip] + d
  <2>0. frame[t].ip \notin Protected /\ frame[t].ip \in IP /\ Cause \subseteq Cause'
    BY <1>12 DEF IncidentScore, FramesOK, WellFramed, Working, Cause
  <2>1. s >= REPUTATION_TEMP_BLOCK => frame[t].ip \in Cause'
    BY <1>12, <2>0 DEF IncidentScore, Cause
  <2>2. CASE Goto(t, "clamp") \/ Finish(t)
    BY <2>0, <2>2, FinishFrame, GotoFrame, OneCaused
  <2>3. CASE frame' = [frame EXCEPT ![t].pc = "switch", ![t].ttl = Sentence(s)]
    <3>1. Sentence(s) # "no" => frame[t].ip \in Cause'
      <4>1. s \in Int
        BY <2>0, ThresholdAssumption
      <4> QED BY <2>1, <4>1, Numbers DEF Sentence
    <3>2. /\ frame'[t].pc = "switch" /\ frame'[t].ip = frame[t].ip /\ frame'[t].ttl = Sentence(s)
          /\ \A u \in Thread \ {t} : frame'[u] = frame[u]
      BY <2>3 DEF Frame
    <3> QED BY <2>0, <3>1, <3>2, OneCaused
  <2> QED BY <1>12, <2>2, <2>3 DEF IncidentScore
<1>13. ASSUME NEW t \in Thread, IncidentClamp(t) PROVE FramesCaused'
  BY <1>13, FinishFrame, OneCaused DEF IncidentClamp
<1>14. ASSUME NEW t \in Thread, IncidentSwitch(t) PROVE FramesCaused'
  BY <1>14, FinishFrame, GotoFrame, OneCaused DEF IncidentSwitch
<1>15. ASSUME NEW t \in Thread, Rehabilitate(t) PROVE FramesCaused'
  <2>1. CASE Finish(t)
    BY <1>15, <2>1, FinishFrame, OneCaused DEF Rehabilitate
  <2>2. ASSUME NEW i \in IP, frame' = [frame EXCEPT ![t].pc = "unblock", ![t].ip = i]
        PROVE  FramesCaused'
    <3>1. frame'[t].pc = "unblock" /\ \A u \in Thread \ {t} : frame'[u] = frame[u]
      BY <2>2 DEF Frame
    <3> QED BY <1>15, <3>1, OneCaused DEF Rehabilitate
  <2>3. CASE UNCHANGED frame
    BY <1>15, <2>3 DEF Rehabilitate, FramesCaused, CausedFrame, Cause
  <2> QED BY <1>15, <2>1, <2>2, <2>3 DEF Rehabilitate
<1>16. ASSUME NEW t \in Thread, Finalise(t) PROVE FramesCaused'
  BY <1>16, FinishFrame, OneCaused DEF Finalise
<1>17. ASSUME NEW t \in Thread, WhitelistAdd(t) PROVE FramesCaused'
  BY <1>17, GotoFrame, OneCaused DEF WhitelistAdd
<1>18. ASSUME NEW t \in Thread, Unfinalise(t) PROVE FramesCaused'
  BY <1>18, FinishFrame, OneCaused DEF Unfinalise
<1>19. ASSUME NEW t \in Thread, StatusReputation(t) PROVE FramesCaused'
  BY <1>19, GotoFrame, OneCaused DEF StatusReputation
<1>20. ASSUME NEW t \in Thread, StatusFinal(t) PROVE FramesCaused'
  BY <1>20, GotoFrame, OneCaused DEF StatusFinal
<1>21. ASSUME NEW t \in Thread, StatusKernel(t) PROVE FramesCaused'
  BY <1>21, GotoFrame, OneCaused DEF StatusKernel
<1>22. ASSUME NEW t \in Thread, StatusStore(t) PROVE FramesCaused'
  BY <1>22, RevisitFrame, FinishFrame, OneCaused DEF StatusStore, StatusReturn
<1>23. ASSUME NEW t \in Thread, AuditSwitch(t) PROVE FramesCaused'
  BY <1>23, FinishFrame, GotoFrame, OneCaused DEF AuditSwitch
<1>24. ASSUME NEW t \in Thread, StatusEnter(t) PROVE FramesCaused'
  BY <1>24, RevisitFrame, FinishFrame, GotoFrame, OneCaused DEF StatusEnter, StatusReturn
<1>25. ASSUME NEW t \in Thread, Initialize(t) PROVE FramesCaused'
  BY <1>25, GotoFrame, OneCaused DEF Initialize
<1>26. ASSUME NEW t \in Thread, DecayTick(t) PROVE FramesCaused'
  BY <1>26, RevisitFrame, OneCaused DEF DecayTick
<1>27. ASSUME NEW t \in Thread, AuditBegin(t) PROVE FramesCaused'
  BY <1>27, GotoFrame, OneCaused DEF AuditBegin
<1>28. ASSUME NEW t \in Thread, NEW i \in IP, IncidentBegin(t, i)
       PROVE  FramesCaused'
  <2>1. /\ frame'[t].pc = "incident" /\ frame'[t].ip = i
        /\ \A u \in Thread \ {t} : frame'[u] = frame[u]
    BY <1>28 DEF IncidentBegin, IdleFrame
  <2> QED BY <1>28, <2>1, OneCaused DEF IncidentBegin
<1>29. ASSUME NEW t \in Thread, NEW i \in IP, RequestBlock(t, i)
       PROVE  FramesCaused'
  <2>1. /\ frame'[t].pc = "block" /\ frame'[t].ip = i
        /\ \A u \in Thread \ {t} : frame'[u] = frame[u]
    BY <1>29 DEF RequestBlock
  <2> QED BY <1>29, <2>1, OneCaused DEF RequestBlock, Cause
<1>30. ASSUME NEW t \in Thread, NEW i \in IP, RequestUnwhitelist(t, i)
       PROVE  FramesCaused'
  BY <1>30 DEF RequestUnwhitelist, FramesCaused, CausedFrame, Cause
<1>31. ASSUME NEW t \in Thread, NEW i \in IP, NEW r \in AllRequests, RequestUnblock(t, i, r)
       PROVE  FramesCaused'
  <2>1. frame'[t].pc = "unblock" /\ \A u \in Thread \ {t} : frame'[u] = frame[u]
    BY <1>31 DEF RequestUnblock
  <2> QED BY <1>31, <2>1, OneCaused DEF RequestUnblock
<1>32. ASSUME NEW t \in Thread, NEW off \in BOOLEAN, RequestToggle(t, off)
       PROVE  FramesCaused'
  BY <1>32 DEF RequestToggle, FramesCaused, CausedFrame, Cause
<1>33. ASSUME NEW t \in Thread, RequestStatus(t) PROVE FramesCaused'
  <2>1. frame'[t].pc = "status" /\ \A u \in Thread \ {t} : frame'[u] = frame[u]
    BY <1>33 DEF RequestStatus, IdleFrame
  <2> QED BY <1>33, <2>1, OneCaused DEF RequestStatus
<1>34. ASSUME NEW i \in IP, BlockExpire(i) PROVE FramesCaused'
  BY <1>34 DEF BlockExpire, FramesCaused, CausedFrame, Cause
<1>35. ASSUME NEW i \in IP, LimitExpire(i) PROVE FramesCaused'
  BY <1>35 DEF LimitExpire, FramesCaused, CausedFrame, Cause
<1>36. ASSUME NEW p \in Process, CacheExpire(p) PROVE FramesCaused'
  BY <1>36 DEF CacheExpire, FramesCaused, CausedFrame, Cause
<1>37. ASSUME NEW p \in Process, Crash(p) PROVE FramesCaused'
  BY <1>37, LoseFramesCaused DEF Crash
<1>38. ASSUME Reboot PROVE FramesCaused'
  BY <1>38, LoseFramesCaused DEF Reboot
<1>39. ASSUME SetsVanish PROVE FramesCaused'
  BY <1>39 DEF SetsVanish, FramesCaused, CausedFrame, Cause
<1>40. CASE UNCHANGED vars
  BY <1>40 DEF vars, FramesCaused
<1> QED BY <1>1, <1>2, <1>3, <1>4, <1>5, <1>6, <1>7, <1>8, <1>9, <1>10,
         <1>11, <1>12, <1>13, <1>14, <1>15, <1>16, <1>17, <1>18, <1>19,
         <1>20, <1>21, <1>22, <1>23, <1>24, <1>25, <1>26, <1>27, <1>28,
         <1>29, <1>30, <1>31, <1>32, <1>33, <1>34, <1>35, <1>36, <1>37,
         <1>38, <1>39, <1>40 DEF Next, Continue, Loop, Demand, Environment

\* For any number of threads and processes: whatever is in the kernel has a
\* cause, also across crashes and with snapshots of any age in the auditors'
\* hands; no protected address is blocked but by an operator.
THEOREM CauseInvariant == Spec => []BlockedForCause
<1>1. Init => Shape /\ Caused /\ FramesCaused
  <2>1. Init => Caused
    BY Numbers DEF Init, Caused, ScoresHaveCause, TodoHasCause, CacheHasCause,
       BlockedForCause, NothingToDo, NoCache
  <2>2. Init => FramesCaused
    BY DEF Init, FramesCaused, CausedFrame, IdleFrame, Judging
  <2> QED BY <2>1, <2>2, InitShape
<1>2. Shape /\ Caused /\ FramesCaused /\ [Next]_vars => (Shape /\ Caused /\ FramesCaused)'
  BY NextTypes, NextFrames, NextCaused, NextFramesCaused DEF Shape
<1>3. Caused => BlockedForCause
  BY DEF Caused
<1> QED BY <1>1, <1>2, <1>3, PTL DEF Spec

-----------------------------------------------------------------------------
(* A whitelisted address that is quiet stays quiet *)

\* The step of one thread keeps w quiet if it neither leaves w in the kernel
\* nor gets past a whitelist check with it.
LEMMA OneQuiet ==
  ASSUME NEW t \in Thread, NEW w \in IP, Quiet(w),
         \A u \in Thread \ {t} : frame'[u] = frame[u],
         frame'[t].ip = w => frame'[t].pc \notin {"add", "limitAdd"},
         blocks'[w] = "no", w \notin limited'
  PROVE  Quiet(w)'
BY DEF Quiet

LEMMA LoseQuiet ==
  ASSUME NEW w \in IP, Quiet(w), NEW P, Lose(P), blocks'[w] = "no",
         w \notin limited'
  PROVE  Quiet(w)'
<1>1. \A t \in Thread : frame'[t] = IdleFrame \/ frame'[t] = frame[t]
  BY DEF Lose
<1>2. IdleFrame.pc = "idle"
  BY DEF IdleFrame
<1> QED BY <1>1, <1>2 DEF Quiet

LEMMA NextQuiet ==
  ASSUME Shape, [Next]_vars, NEW w \in IP, w \in whitelisted, Quiet(w)
  PROVE  Quiet(w)'
<1>0. TypeOK /\ frame \in [Thread -> Frame] /\ blocks[w] = "no" /\ w \notin limited
  BY DEF Shape, FramesOK, Quiet
<1>a. blocks \in [IP -> Ttl]
  BY <1>0 DEF TypeOK
<1> USE <1>0, <1>a
<1> USE DEF redisVars, kernelVars, processVars, history, At, Label
<1>1. ASSUME NEW t \in Thread, RepopulateRead(t) PROVE Quiet(w)'
  BY <1>1, RevisitFrame, OneQuiet DEF RepopulateRead
<1>2. ASSUME NEW t \in Thread, Reblock(t) PROVE Quiet(w)'
  <2>1. CASE Finish(t)
    BY <1>2, <2>1, FinishFrame, OneQuiet DEF Reblock
  <2>2. ASSUME NEW i \in IP,
              frame' = [frame EXCEPT ![t].pc = "block", ![t].ip = i,
                                      ![t].ttl = TtlOf(todo[t][i])]
       PROVE  Quiet(w)'
    <3>1. frame'[t].pc = "block" /\ \A u \in Thread \ {t} : frame'[u] = frame[u]
      BY <2>2 DEF Frame
    <3> QED BY <1>2, <3>1, OneQuiet DEF Reblock
  <2> QED BY <1>2, <2>1, <2>2 DEF Reblock
<1>3. ASSUME NEW t \in Thread, BlockCheck(t) PROVE Quiet(w)'
  <2>1. CASE ReturnFromBlock(t)
    BY <1>3, <2>1, BlockReturns, OneQuiet DEF BlockCheck
  <2>2. CASE Goto(t, "add") /\ frame[t].ip # w
    BY <1>3, <2>2, GotoFrame, OneQuiet DEF BlockCheck
  <2> QED BY <1>3, <2>1, <2>2 DEF BlockCheck
<1>4. ASSUME NEW t \in Thread, BlockAdd(t) PROVE Quiet(w)'
  <2>1. frame[t].ip # w
    BY <1>4 DEF BlockAdd, Quiet
  <2>2. blocks'[w] = "no" /\ w \notin limited'
    BY <1>4, <2>1 DEF BlockAdd, Quiet, TypeOK
  <2> QED BY <1>4, <2>1, <2>2, BlockReturns, GotoFrame, OneQuiet DEF BlockAdd
<1>5. ASSUME NEW t \in Thread, BlockPin(t) PROVE Quiet(w)'
  BY <1>5, BlockReturns, OneQuiet DEF BlockPin
<1>6. ASSUME NEW t \in Thread, LimitCheck(t) PROVE Quiet(w)'
  <2>1. CASE ReturnFromBlock(t)
    BY <1>6, <2>1, BlockReturns, OneQuiet DEF LimitCheck
  <2>2. CASE Goto(t, "limitAdd") /\ frame[t].ip # w
    BY <1>6, <2>2, GotoFrame, OneQuiet DEF LimitCheck
  <2> QED BY <1>6, <2>1, <2>2 DEF LimitCheck
<1>7. ASSUME NEW t \in Thread, LimitAdd(t) PROVE Quiet(w)'
  <2>1. frame[t].ip # w
    BY <1>7 DEF LimitAdd, Quiet
  <2>2. blocks'[w] = "no" /\ w \notin limited'
    BY <1>7, <2>1 DEF LimitAdd, Quiet, TypeOK
  <2> QED BY <1>7, <2>1, <2>2, BlockReturns, GotoFrame, OneQuiet DEF LimitAdd
<1>8. ASSUME NEW t \in Thread, UnblockBlocks(t) PROVE Quiet(w)'
  BY <1>8, GotoFrame, OneQuiet DEF UnblockBlocks
<1>9. ASSUME NEW t \in Thread, UnblockLimited(t) PROVE Quiet(w)'
  BY <1>9, GotoFrame, OneQuiet DEF UnblockLimited
<1>10. ASSUME NEW t \in Thread, UnblockForget(t) PROVE Quiet(w)'
  BY <1>10, UnblockReturns, OneQuiet DEF UnblockForget
<1>11. ASSUME NEW t \in Thread, IncidentCheck(t) PROVE Quiet(w)'
  BY <1>11, FinishFrame, GotoFrame, OneQuiet DEF IncidentCheck
<1>12. ASSUME NEW t \in Thread, NEW d \in Delta, IncidentScore(t, d)
       PROVE  Quiet(w)'
  <2>1. CASE Goto(t, "clamp") \/ Finish(t)
    BY <1>12, <2>1, FinishFrame, GotoFrame, OneQuiet DEF IncidentScore
  <2>2. CASE frame' = [frame EXCEPT ![t].pc = "switch",
                                   ![t].ttl = Sentence(reputation[frame[t].ip] + d)]
    <3>1. frame'[t].pc = "switch" /\ \A u \in Thread \ {t} : frame'[u] = frame[u]
      BY <2>2 DEF Frame
    <3> QED BY <1>12, <3>1, OneQuiet DEF IncidentScore
  <2> QED BY <1>12, <2>1, <2>2 DEF IncidentScore
<1>13. ASSUME NEW t \in Thread, IncidentClamp(t) PROVE Quiet(w)'
  BY <1>13, FinishFrame, OneQuiet DEF IncidentClamp
<1>14. ASSUME NEW t \in Thread, IncidentSwitch(t) PROVE Quiet(w)'
  BY <1>14, FinishFrame, GotoFrame, OneQuiet DEF IncidentSwitch
<1>15. ASSUME NEW t \in Thread, Rehabilitate(t) PROVE Quiet(w)'
  <2>1. CASE Finish(t)
    BY <1>15, <2>1, FinishFrame, OneQuiet DEF Rehabilitate
  <2>2. ASSUME NEW i \in IP, frame' = [frame EXCEPT ![t].pc = "unblock", ![t].ip = i]
        PROVE  Quiet(w)'
    <3>1. frame'[t].pc = "unblock" /\ \A u \in Thread \ {t} : frame'[u] = frame[u]
      BY <2>2 DEF Frame
    <3> QED BY <1>15, <3>1, OneQuiet DEF Rehabilitate
  <2>3. CASE UNCHANGED frame
    BY <1>15, <2>3 DEF Rehabilitate, Quiet
  <2> QED BY <1>15, <2>1, <2>2, <2>3 DEF Rehabilitate
<1>16. ASSUME NEW t \in Thread, Finalise(t) PROVE Quiet(w)'
  BY <1>16, FinishFrame, OneQuiet DEF Finalise
<1>17. ASSUME NEW t \in Thread, WhitelistAdd(t) PROVE Quiet(w)'
  BY <1>17, GotoFrame, OneQuiet DEF WhitelistAdd
<1>18. ASSUME NEW t \in Thread, Unfinalise(t) PROVE Quiet(w)'
  BY <1>18, FinishFrame, OneQuiet DEF Unfinalise
<1>19. ASSUME NEW t \in Thread, StatusReputation(t) PROVE Quiet(w)'
  BY <1>19, GotoFrame, OneQuiet DEF StatusReputation
<1>20. ASSUME NEW t \in Thread, StatusFinal(t) PROVE Quiet(w)'
  BY <1>20, GotoFrame, OneQuiet DEF StatusFinal
<1>21. ASSUME NEW t \in Thread, StatusKernel(t) PROVE Quiet(w)'
  BY <1>21, GotoFrame, OneQuiet DEF StatusKernel
<1>22. ASSUME NEW t \in Thread, StatusStore(t) PROVE Quiet(w)'
  BY <1>22, RevisitFrame, FinishFrame, OneQuiet DEF StatusStore, StatusReturn
<1>23. ASSUME NEW t \in Thread, AuditSwitch(t) PROVE Quiet(w)'
  BY <1>23, FinishFrame, GotoFrame, OneQuiet DEF AuditSwitch
<1>24. ASSUME NEW t \in Thread, StatusEnter(t) PROVE Quiet(w)'
  BY <1>24, RevisitFrame, FinishFrame, GotoFrame, OneQuiet DEF StatusEnter, StatusReturn
<1>25. ASSUME NEW t \in Thread, Initialize(t) PROVE Quiet(w)'
  BY <1>25, GotoFrame, OneQuiet DEF Initialize
<1>26. ASSUME NEW t \in Thread, DecayTick(t) PROVE Quiet(w)'
  BY <1>26, RevisitFrame, OneQuiet DEF DecayTick
<1>27. ASSUME NEW t \in Thread, AuditBegin(t) PROVE Quiet(w)'
  BY <1>27, GotoFrame, OneQuiet DEF AuditBegin
<1>28. ASSUME NEW t \in Thread, NEW i \in IP, IncidentBegin(t, i)
       PROVE  Quiet(w)'
  <2>1. frame'[t].pc = "incident" /\ \A u \in Thread \ {t} : frame'[u] = frame[u]
    BY <1>28 DEF IncidentBegin, IdleFrame, Frame
  <2> QED BY <1>28, <2>1, OneQuiet DEF IncidentBegin
<1>29. ASSUME NEW t \in Thread, NEW i \in IP, RequestBlock(t, i) PROVE Quiet(w)'
  <2>1. frame'[t].pc = "block" /\ \A u \in Thread \ {t} : frame'[u] = frame[u]
    BY <1>29 DEF RequestBlock, IdleFrame, Frame
  <2> QED BY <1>29, <2>1, OneQuiet DEF RequestBlock
<1>30. ASSUME NEW t \in Thread, NEW i \in IP, RequestUnwhitelist(t, i)
       PROVE  Quiet(w)'
  BY <1>30 DEF RequestUnwhitelist, Quiet, TypeOK
<1>31. ASSUME NEW t \in Thread, NEW i \in IP, NEW r \in AllRequests, RequestUnblock(t, i, r)
       PROVE  Quiet(w)'
  <2>1. frame'[t].pc = "unblock" /\ \A u \in Thread \ {t} : frame'[u] = frame[u]
    BY <1>31 DEF RequestUnblock, IdleFrame, Frame
  <2> QED BY <1>31, <2>1, OneQuiet DEF RequestUnblock
<1>32. ASSUME NEW t \in Thread, NEW off \in BOOLEAN, RequestToggle(t, off)
       PROVE  Quiet(w)'
  BY <1>32 DEF RequestToggle, Quiet, TypeOK
<1>33. ASSUME NEW t \in Thread, RequestStatus(t) PROVE Quiet(w)'
  <2>1. frame'[t].pc = "status" /\ \A u \in Thread \ {t} : frame'[u] = frame[u]
    BY <1>33 DEF RequestStatus, IdleFrame, Frame
  <2> QED BY <1>33, <2>1, OneQuiet DEF RequestStatus
<1>34. ASSUME NEW i \in IP, BlockExpire(i) PROVE Quiet(w)'
  BY <1>34 DEF BlockExpire, Quiet, TypeOK
<1>35. ASSUME NEW i \in IP, LimitExpire(i) PROVE Quiet(w)'
  BY <1>35 DEF LimitExpire, Quiet, TypeOK
<1>36. ASSUME NEW p \in Process, CacheExpire(p) PROVE Quiet(w)'
  BY <1>36 DEF CacheExpire, Quiet, TypeOK
<1>37. ASSUME NEW p \in Process, Crash(p) PROVE Quiet(w)'
  BY <1>37, LoseQuiet DEF Crash
<1>38. ASSUME Reboot PROVE Quiet(w)'
  <2>1. blocks'[w] = "no" /\ w \notin limited'
    BY <1>38 DEF Reboot, NoSets
  <2> QED BY <1>38, <2>1, LoseQuiet DEF Reboot
<1>39. ASSUME SetsVanish PROVE Quiet(w)'
  BY <1>39 DEF SetsVanish, NoSets, Quiet
<1>40. CASE UNCHANGED vars
  BY <1>40 DEF vars, Quiet
<1> QED BY <1>1, <1>2, <1>3, <1>4, <1>5, <1>6, <1>7, <1>8, <1>9, <1>10,
         <1>11, <1>12, <1>13, <1>14, <1>15, <1>16, <1>17, <1>18, <1>19,
         <1>20, <1>21, <1>22, <1>23, <1>24, <1>25, <1>26, <1>27, <1>28,
         <1>29, <1>30, <1>31, <1>32, <1>33, <1>34, <1>35, <1>36, <1>37,
         <1>38, <1>39, <1>40 DEF Next, Continue, Loop, Demand, Environment

\* With any number of auditors, workers and starting processes that had picked
\* a whitelisted address before it was whitelisted: it stays out of the kernel
\* once it is out and none of them is past its whitelist check.
THEOREM WhitelistInvariant == Spec => WhitelistedStaysQuiet
<1>1. Init => Shape
  BY InitShape
<1>2. Shape /\ [Next]_vars => Shape'
  BY NextTypes, NextFrames DEF Shape
<1>3. Shape /\ [Next]_vars
        => [\A i \in IP : i \in whitelisted /\ Quiet(i) /\ i \in whitelisted'
              => Quiet(i)']_vars
  BY NextQuiet
<1> QED BY <1>1, <1>2, <1>3, PTL DEF Spec, WhitelistedStaysQuiet
-----------------------------------------------------------------------------
(* A start never waits for itself *)

\* A step of a thread that is at work, or does not start a process, disturbs no
\* start.
LEMMA OneStart ==
  ASSUME NEW t \in Thread, NoSelfDeadlock, UNCHANGED initialized,
         \A u \in Thread \ {t} : frame'[u] = frame[u],
         t \notin Booter \/ ~At(t, "idle")
  PROVE  NoSelfDeadlock'
BY DEF NoSelfDeadlock, At

\* Every operation touches the frame of its own thread alone.
LEMMA OperationStarts ==
  ASSUME frame \in [Thread -> Frame], NoSelfDeadlock, NEW t \in Thread,
         Continue(t) \/ StatusEnter(t) \/ DecayTick(t) \/ AuditBegin(t)
  PROVE  NoSelfDeadlock'
<1> USE DEF processVars
<1>1. CASE RepopulateRead(t) \/ Reblock(t) \/ Rehabilitate(t)
  <2>1. UNCHANGED initialized /\ (At(t, "bootRead") \/ At(t, "visit"))
    BY <1>1, Zenon DEF RepopulateRead, Reblock, Rehabilitate
  <2>2. CASE RepopulateRead(t)
    <3>1. \A u \in Thread \ {t} : frame'[u] = frame[u]
      BY <2>2 DEF RepopulateRead, Revisit
    <3> QED BY <2>1, <3>1, OneStart DEF At
  <2>3. CASE Reblock(t)
    <3>1. ASSUME Finish(t)
          PROVE  \A u \in Thread \ {t} : frame'[u] = frame[u]
      BY <3>1 DEF Finish
    <3>2. ASSUME NEW i \in IP,
                 frame' = [frame EXCEPT ![t].pc = "block", ![t].ip = i,
                                        ![t].ttl = TtlOf(todo[t][i])]
          PROVE  \A u \in Thread \ {t} : frame'[u] = frame[u]
      BY <3>2
    <3>3. \A u \in Thread \ {t} : frame'[u] = frame[u]
      BY <2>3, <3>1, <3>2, Zenon DEF Reblock
    <3> QED BY <2>1, <3>3, OneStart DEF At
  <2>4. CASE Rehabilitate(t)
    <3>1. ASSUME Finish(t) \/ UNCHANGED frame
          PROVE  \A u \in Thread \ {t} : frame'[u] = frame[u]
      BY <3>1 DEF Finish
    <3>2. ASSUME NEW i \in IP,
                 frame' = [frame EXCEPT ![t].pc = "unblock", ![t].ip = i]
          PROVE  \A u \in Thread \ {t} : frame'[u] = frame[u]
      BY <3>2
    <3>3. \A u \in Thread \ {t} : frame'[u] = frame[u]
      BY <2>4, <3>1, <3>2, Zenon DEF Rehabilitate
    <3> QED BY <2>1, <3>3, OneStart DEF At
  <2> QED BY <1>1, <2>2, <2>3, <2>4
<1>2. CASE BlockCheck(t) \/ BlockAdd(t) \/ BlockPin(t) \/ LimitCheck(t) \/ LimitAdd(t)
  <2>1. ReturnFromBlock(t) \/ (\E l \in Label : Goto(t, l))
    BY <1>2 DEF BlockCheck, BlockAdd, BlockPin, LimitCheck, LimitAdd, Label
  <2>2. \A u \in Thread \ {t} : frame'[u] = frame[u]
    BY <2>1, BlockReturns, GotoFrame
  <2> QED BY <1>2, <2>2, OneStart
          DEF BlockCheck, BlockAdd, BlockPin, LimitCheck, LimitAdd, At
<1>3. CASE UnblockBlocks(t) \/ UnblockLimited(t) \/ UnblockForget(t)
  <2>1. ReturnFromUnblock(t) \/ (\E l \in Label : Goto(t, l))
    BY <1>3 DEF UnblockBlocks, UnblockLimited, UnblockForget, Label
  <2>2. \A u \in Thread \ {t} : frame'[u] = frame[u]
    BY <2>1, UnblockReturns, GotoFrame
  <2> QED BY <1>3, <2>2, OneStart DEF UnblockBlocks, UnblockLimited, UnblockForget, At
<1>4. CASE IncidentCheck(t) \/ IncidentClamp(t) \/ IncidentSwitch(t)
           \/ \E d \in Delta : IncidentScore(t, d)
  <2>1. \A u \in Thread \ {t} : frame'[u] = frame[u]
    BY <1>4 DEF IncidentCheck, IncidentClamp, IncidentSwitch, IncidentScore, Goto, Finish
  <2> QED BY <1>4, <2>1, OneStart
          DEF IncidentCheck, IncidentClamp, IncidentSwitch, IncidentScore, At
<1>5. CASE Finalise(t) \/ WhitelistAdd(t) \/ Unfinalise(t)
  <2>1. \A u \in Thread \ {t} : frame'[u] = frame[u]
    BY <1>5 DEF Finalise, WhitelistAdd, Unfinalise, Goto, Finish
  <2> QED BY <1>5, <2>1, OneStart DEF Finalise, WhitelistAdd, Unfinalise, At
<1>6. CASE StatusEnter(t) \/ StatusReputation(t) \/ StatusFinal(t) \/ StatusKernel(t)
           \/ StatusStore(t) \/ AuditSwitch(t)
  <2>1. \A u \in Thread \ {t} : frame'[u] = frame[u]
    BY <1>6 DEF StatusEnter, StatusReputation, StatusFinal, StatusKernel, StatusStore,
      StatusReturn, AuditSwitch, Goto, Finish, Revisit
  <2> QED BY <1>6, <2>1, OneStart
          DEF StatusEnter, StatusReputation, StatusFinal, StatusKernel, StatusStore,
            AuditSwitch, At
<1>7. CASE DecayTick(t) \/ AuditBegin(t)
  <2>1. \A u \in Thread \ {t} : frame'[u] = frame[u]
    BY <1>7 DEF DecayTick, AuditBegin, Goto, Revisit
  <2>2. t \notin Booter
    BY <1>7, ThreadAssumption DEF DecayTick, AuditBegin
  <2> QED BY <1>7, <2>1, <2>2, OneStart DEF DecayTick, AuditBegin
<1> QED BY <1>1, <1>2, <1>3, <1>4, <1>5, <1>6, <1>7 DEF Continue

LEMMA DemandStarts ==
  ASSUME frame \in [Thread -> Frame], NoSelfDeadlock, NEW t \in Thread, Demand(t)
  PROVE  NoSelfDeadlock'
<1> USE DEF processVars
<1>1. ASSUME t \in Worker \cup Handler PROVE t \notin Booter
  BY <1>1, ThreadAssumption
<1>2. ASSUME NEW i \in IP,
             \/ IncidentBegin(t, i) \/ RequestBlock(t, i) \/ RequestUnwhitelist(t, i)
             \/ \E r \in AllRequests : RequestUnblock(t, i, r)
      PROVE  /\ UNCHANGED initialized /\ \A u \in Thread \ {t} : frame'[u] = frame[u]
             /\ t \in Worker \cup Handler
  BY <1>2 DEF IncidentBegin, RequestBlock, RequestUnwhitelist, RequestUnblock, Free
<1>3. CASE (\E off \in BOOLEAN : RequestToggle(t, off)) \/ RequestStatus(t)
  <2>1. /\ UNCHANGED initialized /\ \A u \in Thread \ {t} : frame'[u] = frame[u]
        /\ t \in Worker \cup Handler
    BY <1>3 DEF RequestToggle, RequestStatus, Free
  <2> QED BY <1>1, <2>1, OneStart
<1>4. CASE \E i \in IP :
             \/ IncidentBegin(t, i) \/ RequestBlock(t, i) \/ RequestUnwhitelist(t, i)
             \/ \E r \in AllRequests : RequestUnblock(t, i, r)
  <2>1. /\ UNCHANGED initialized /\ \A u \in Thread \ {t} : frame'[u] = frame[u]
        /\ t \in Worker \cup Handler
    BY <1>2, <1>4
  <2> QED BY <1>1, <2>1, OneStart
<1> QED BY <1>3, <1>4 DEF Demand

\* A crash ends the starts of the processes it takes down.
LEMMA LoseStarts ==
  ASSUME NoSelfDeadlock, NEW P, Lose(P)
  PROVE  NoSelfDeadlock'
<1>1. \A t \in Thread : Home[t] \in Process
  BY ThreadAssumption
<1> QED BY <1>1 DEF NoSelfDeadlock, Lose, At, IdleFrame

LEMMA NextStarts == Shape /\ NoSelfDeadlock /\ [Next]_vars => NoSelfDeadlock'
<1> SUFFICES ASSUME Shape, NoSelfDeadlock, [Next]_vars PROVE NoSelfDeadlock'
  OBVIOUS
<1>0. frame \in [Thread -> Frame] /\ initialized \in [Process -> BOOLEAN]
  BY DEF Shape, FramesOK, TypeOK
<1>1. ASSUME NEW t \in Thread, Initialize(t) PROVE NoSelfDeadlock'
  <2>1. /\ \A u \in Thread \ {t} : frame'[u] = frame[u]
        /\ initialized' = [initialized EXCEPT ![Home[t]] = TRUE]
    BY <1>1 DEF Initialize, Goto
  <2>2. \A u \in Thread : Home[u] \in Process
    BY ThreadAssumption
  <2> QED BY <1>0, <2>1, <2>2 DEF NoSelfDeadlock, At
<1>2. ASSUME NEW t \in Thread,
             Continue(t) \/ StatusEnter(t) \/ DecayTick(t) \/ AuditBegin(t) \/ Demand(t)
      PROVE  NoSelfDeadlock'
  BY <1>0, <1>2, OperationStarts, DemandStarts
<1>3. CASE \/ \E i \in IP : BlockExpire(i) \/ LimitExpire(i)
           \/ \E p \in Process : CacheExpire(p)
           \/ SetsVanish \/ UNCHANGED vars
  BY <1>3 DEF BlockExpire, LimitExpire, CacheExpire, SetsVanish, processVars, vars,
    NoSelfDeadlock, At
<1>4. ASSUME NEW p \in Process, Crash(p) PROVE NoSelfDeadlock'
  BY <1>4, LoseStarts DEF Crash
<1>5. ASSUME Reboot PROVE NoSelfDeadlock'
  BY <1>5, LoseStarts DEF Reboot
<1> QED BY <1>1, <1>2, <1>3, <1>4, <1>5 DEF Next, Loop, Environment

\* In every process, whoever else crashes or runs: _initialize() never comes to
\* block() in a process that is not initialised, where it would wait for itself.
THEOREM StartInvariant == Spec => []NoSelfDeadlock
<1>1. Init => Shape /\ NoSelfDeadlock
  BY InitShape DEF Init, NoSelfDeadlock, At, IdleFrame
<1>2. Shape /\ [Next]_vars => Shape'
  BY NextTypes, NextFrames DEF Shape
<1> QED BY <1>1, <1>2, NextStarts, PTL DEF Spec
=============================================================================
