---------------------------- MODULE ActiveFirewall ----------------------------
(***************************************************************************)
(* The mitigation core: class ActiveFirewall (ml_engine/firewall.py) with  *)
(* its legacy ipset backend, the MitigationAuditor, and the REST handlers  *)
(* of relay/routes/mitigation_api.py that drive it.                        *)
(*                                                                         *)
(* Several operating-system processes (the ML consumer and the relay API)  *)
(* each load the class.  They share Redis (reputation, whitelist, final    *)
(* blocks, the banning switch) and the kernel's ipset sets; each has its   *)
(* own `_initialized` flag, kernel-set flag, status cache, decay loop and  *)
(* auditor.  Inside a process every coroutine is a thread of this module:  *)
(* a step of it ends at an `await`, so the steps of all threads interleave.*)
(***************************************************************************)
EXTENDS Integers, FiniteSets

CONSTANTS
  IP,          \* source addresses
  Protected,   \* the addresses is_ip_protected() accepts
  Process,     \* processes that load the class
  Worker,      \* coroutines calling process_incident()
  Handler,     \* coroutines serving the mitigation API
  Auditor,     \* MitigationAuditor._audit_loop of each process
  Decayer,     \* ActiveFirewall._decay_loop of each process
  Booter,      \* the run of _initialize() of each process
  Home,        \* the process of each thread
  Request,     \* API requests that arrive in this instance
  None         \* no address

CONSTANTS
  REPUTATION_LIMIT, REPUTATION_TEMP_BLOCK, REPUTATION_PERM_BLOCK,
  Delta,         \* reputation deltas of incidents (benign traffic: negative)
  MinScore,      \* bound: no incident takes a score below it
  MaxScore,      \* bound: no incident takes a score above it
  MaxCrashes,    \* bound: crashes and reboots of a behaviour
  SetupMayFail,  \* may _setup_kernel_sets() fail?
  SetsMayVanish  \* may somebody else destroy the kernel sets?

Thread == Worker \cup Handler \cup Auditor \cup Decayer \cup Booter

ASSUME ThresholdAssumption ==
  /\ {REPUTATION_LIMIT, REPUTATION_TEMP_BLOCK, REPUTATION_PERM_BLOCK,
      MaxScore, MaxCrashes} \subseteq Nat
  /\ MinScore \in Int /\ MinScore <= 0
  /\ 0 < REPUTATION_LIMIT /\ REPUTATION_LIMIT < REPUTATION_TEMP_BLOCK
  /\ REPUTATION_TEMP_BLOCK < REPUTATION_PERM_BLOCK
  /\ REPUTATION_PERM_BLOCK <= MaxScore
  /\ Delta \subseteq Int
ASSUME ThreadAssumption ==
  /\ Home \in [Thread -> Process]
  /\ Worker \cap (Handler \cup Auditor \cup Decayer \cup Booter) = {}
  /\ Handler \cap (Auditor \cup Decayer \cup Booter) = {}
  /\ Auditor \cap (Decayer \cup Booter) = {}
  /\ Decayer \cap Booter = {}
ASSUME AddressAssumption == Protected \subseteq IP /\ None \notin IP
ASSUME FaultAssumption == SetupMayFail \in BOOLEAN /\ SetsMayVanish \in BOOLEAN

VARIABLES
  reputation,   \* Redis hash: the score of each address
  whitelisted,  \* Redis set sentinel_whitelisted_ips
  finalBlocks,  \* Redis set sentinel_final_blocks
  banningOff,   \* Redis key sentinel_banning_disabled
  blocks,       \* ipset sentinel_blocks: how each address is blocked
  limited,      \* ipset sentinel_limited
  setsExist,    \* do the kernel sets exist?
  setsReady,    \* each process's _kernel_sets_initialized
  initialized,  \* each process's _initialized
  cache,        \* each process's _status_cache, as what its auditor would do
  frame,        \* each thread's program counter and local variables
  todo,         \* the addresses a loop of a thread still has to visit
  crashes,      \* crashes so far
  convicted,    \* history: incidents took the score to REPUTATION_TEMP_BLOCK
  ordered       \* history: an operator asked for a block

redisVars   == <<reputation, whitelisted, finalBlocks, banningOff>>
kernelVars  == <<blocks, limited, setsExist>>
processVars == <<setsReady, initialized, cache>>
history     == <<convicted, ordered>>
vars == <<redisVars, kernelVars, processVars, frame, todo, crashes, history>>
-----------------------------------------------------------------------------
(***************************************************************************)
(* Local state of a thread                                                 *)
(***************************************************************************)

Label == {"idle", "incident", "score", "clamp", "switch",
          "block", "add", "pin", "limit", "limitAdd",
          "unblock", "unlimit", "forget",
          "finalise", "whitelist", "unfinalise",
          "auditSwitch", "status", "statusReputation", "statusFinal",
          "statusKernel", "statusStore", "bootRead", "visit"}

\* How an address is (to be) blocked: "temp" expires, "perm" does not.
Ttl == {"no", "temp", "perm"}

\* What a loop will do about an address; "final" is "perm" for an address
\* that was read from sentinel_final_blocks.
Verdict == Ttl \cup {"final"}
TtlOf(v) == IF v = "final" THEN "perm" ELSE v

AllRequests == {"unblock", "block", "whitelist", "unwhitelist",
                "falsePositive", "toggle", "status"}

IdleFrame == [pc |-> "idle", ip |-> None, ttl |-> "no", op |-> "no"]
Frame == [pc : Label, ip : IP \cup {None}, ttl : Ttl,
          op : AllRequests \cup {"no"}]

\* An emptied todo list and an empty _status_cache.
NothingToDo == [i \in IP |-> "no"]
NoCache == [i \in IP |-> "none"]

At(t, label) == frame[t].pc = label
Goto(t, label) == frame' = [frame EXCEPT ![t].pc = label]
Finish(t) == frame' = [frame EXCEPT ![t] = IdleFrame]
Revisit(t) == frame' = [frame EXCEPT ![t] = [IdleFrame EXCEPT !.pc = "visit"]]
ClearCache(p) == cache' = [cache EXCEPT ![p] = NoCache]

\* Where block() and rate_limit() return to.
ReturnFromBlock(t) ==
  IF t \in Handler THEN Goto(t, "finalise")
  ELSE IF t \in Auditor \cup Booter THEN Revisit(t)
  ELSE Finish(t)

\* Where unblock() returns to.
ReturnFromUnblock(t) ==
  IF t \in Decayer THEN Revisit(t)
  ELSE CASE frame[t].op = "unblock" -> Goto(t, "unfinalise")
         [] frame[t].op = "whitelist" -> Goto(t, "whitelist")
         [] OTHER -> Finish(t)

\* _ensure_kernel_sets(): a process sets the kernel up only until it succeeded
\* once; creating a set that exists keeps its entries, and a setup may fail
\* after it created the sets.
EnsureKernelSets(p) ==
  \/ setsReady[p] /\ UNCHANGED <<setsReady, setsExist>>
  \/ /\ ~setsReady[p]
     /\ setsReady' = [setsReady EXCEPT ![p] = TRUE]
     /\ setsExist' = TRUE
  \/ /\ ~setsReady[p] /\ SetupMayFail
     /\ UNCHANGED setsReady
     /\ setsExist' \in {setsExist, TRUE}

\* score * 0.9, and nothing is left of less than 0.1.
Decayed(s) == IF s <= 0 THEN 0 ELSE (9 * s) \div 10

\* Mutant: a temporary block from REPUTATION_LIMIT on.
SentenceAtLimit(s) ==
  IF s >= REPUTATION_PERM_BLOCK THEN "perm"
  ELSE IF s >= REPUTATION_LIMIT THEN "temp" ELSE "no"

\* What a score calls for.
Sentence(s) ==
  IF s >= REPUTATION_PERM_BLOCK THEN "perm"
  ELSE IF s >= REPUTATION_TEMP_BLOCK THEN "temp" ELSE "no"

TypeOK ==
  /\ reputation \in [IP -> MinScore .. MaxScore]
  /\ whitelisted \subseteq IP /\ finalBlocks \subseteq IP
  /\ banningOff \in BOOLEAN
  /\ blocks \in [IP -> Ttl] /\ limited \subseteq IP /\ setsExist \in BOOLEAN
  /\ setsReady \in [Process -> BOOLEAN] /\ initialized \in [Process -> BOOLEAN]
  /\ cache \in [Process -> [IP -> Verdict \cup {"none"}]]
  /\ frame \in [Thread -> Frame]
  /\ todo \in [Thread -> [IP -> Verdict]]
  /\ crashes \in 0 .. MaxCrashes
  /\ convicted \subseteq IP /\ ordered \subseteq IP

Init ==
  /\ reputation = [i \in IP |-> 0]
  /\ whitelisted = {} /\ finalBlocks = {} /\ banningOff = FALSE
  /\ blocks = [i \in IP |-> "no"] /\ limited = {} /\ setsExist = FALSE
  /\ setsReady = [p \in Process |-> FALSE]
  /\ initialized = [p \in Process |-> FALSE]
  /\ cache = [p \in Process |-> NoCache]
  /\ frame = [t \in Thread |-> IdleFrame]
  /\ todo = [t \in Thread |-> NothingToDo]
  /\ crashes = 0 /\ convicted = {} /\ ordered = {}
-----------------------------------------------------------------------------
(***************************************************************************)
(* _initialize(): `_initialized` is set before the offenders that Redis    *)
(* remembers are blocked again, because block() itself waits for it.       *)
(***************************************************************************)

\* Mutant: `_initialized` is set when nothing is left to block again.
InitializeLate(t) ==
  LET p == Home[t] IN
  /\ t \in Booter /\ At(t, "idle") /\ ~initialized[p]
  /\ EnsureKernelSets(p)
  /\ initialized' = [initialized EXCEPT ![p] = \A i \in IP : Sentence(reputation[i]) = "no"]
  /\ Goto(t, "bootRead")
  /\ UNCHANGED <<redisVars, blocks, limited, cache, todo, crashes, history>>

Initialize(t) ==
  LET p == Home[t] IN
  /\ t \in Booter /\ At(t, "idle") /\ ~initialized[p]
  /\ EnsureKernelSets(p)
  /\ initialized' = [initialized EXCEPT ![p] = TRUE]
  /\ Goto(t, "bootRead")
  /\ UNCHANGED <<redisVars, blocks, limited, cache, todo, crashes, history>>

\* _repopulate_from_reputation() reads the whole reputation hash at once.
RepopulateRead(t) ==
  /\ t \in Booter /\ At(t, "bootRead")
  /\ todo' = [todo EXCEPT ![t] = [i \in IP |-> Sentence(reputation[i])]]
  /\ Revisit(t)
  /\ UNCHANGED <<redisVars, kernelVars, processVars, crashes, history>>

\* The next address that a repopulation or an audit blocks, in any order.
Reblock(t) ==
  /\ t \in Booter \cup Auditor /\ At(t, "visit")
  /\ \/ /\ \A i \in IP : todo[t][i] = "no"
        /\ Finish(t) /\ UNCHANGED todo
     \/ \E i \in IP :
          /\ todo[t][i] # "no"
          /\ todo' = [todo EXCEPT ![t][i] = "no"]
          /\ frame' = [frame EXCEPT ![t].pc = "block", ![t].ip = i,
                                   ![t].ttl = TtlOf(todo[t][i])]
  /\ UNCHANGED <<redisVars, kernelVars, processVars, crashes, history>>
-----------------------------------------------------------------------------
(***************************************************************************)
(* block() and _legacy_block()                                             *)
(***************************************************************************)

\* Mutant: block() does not ask the whitelist.
BlockUnchecked(t) ==
  /\ At(t, "block") /\ initialized[Home[t]]
  /\ Goto(t, "add") /\ ClearCache(Home[t])
  /\ UNCHANGED <<redisVars, kernelVars, setsReady, initialized, todo, crashes,
                 history>>

\* The whitelist is asked first; an address that is not on it clears the
\* status cache of this process before anything else is awaited.
BlockCheck(t) ==
  /\ At(t, "block") /\ initialized[Home[t]]
  /\ \/ /\ frame[t].ip \in whitelisted
        /\ ReturnFromBlock(t) /\ UNCHANGED cache
     \/ /\ frame[t].ip \notin whitelisted
        /\ Goto(t, "add") /\ ClearCache(Home[t])
  /\ UNCHANGED <<redisVars, kernelVars, setsReady, initialized, todo, crashes,
                 history>>

\* `ipset add -!` sets the timeout of an entry that is already there; it fails
\* when the set does not exist.
BlockAdd(t) ==
  LET f == frame[t] IN
  /\ At(t, "add")
  /\ EnsureKernelSets(Home[t])
  /\ \/ /\ setsExist'
        /\ blocks' = [blocks EXCEPT ![f.ip] = f.ttl]
        /\ IF f.ttl = "perm" THEN Goto(t, "pin") ELSE ReturnFromBlock(t)
     \/ /\ ~setsExist'
        /\ ReturnFromBlock(t) /\ UNCHANGED blocks
  /\ UNCHANGED <<redisVars, limited, initialized, cache, todo, crashes, history>>

\* A permanent block pins the score to REPUTATION_PERM_BLOCK.
BlockPin(t) ==
  /\ At(t, "pin")
  /\ reputation' = [reputation EXCEPT ![frame[t].ip] = REPUTATION_PERM_BLOCK]
  /\ ReturnFromBlock(t)
  /\ UNCHANGED <<whitelisted, finalBlocks, banningOff, kernelVars, processVars,
                 todo, crashes, history>>
-----------------------------------------------------------------------------
(***************************************************************************)
(* rate_limit()                                                            *)
(***************************************************************************)

LimitCheck(t) ==
  /\ At(t, "limit") /\ initialized[Home[t]]
  /\ IF frame[t].ip \in whitelisted THEN ReturnFromBlock(t) ELSE Goto(t, "limitAdd")
  /\ UNCHANGED <<redisVars, kernelVars, processVars, todo, crashes, history>>

LimitAdd(t) ==
  /\ At(t, "limitAdd")
  /\ EnsureKernelSets(Home[t])
  /\ ClearCache(Home[t])
  /\ limited' = IF setsExist' THEN limited \cup {frame[t].ip} ELSE limited
  /\ ReturnFromBlock(t)
  /\ UNCHANGED <<redisVars, blocks, initialized, todo, crashes, history>>
-----------------------------------------------------------------------------
(***************************************************************************)
(* unblock(): it asks neither the whitelist nor sentinel_final_blocks      *)
(***************************************************************************)

UnblockBlocks(t) ==
  /\ At(t, "unblock") /\ initialized[Home[t]]
  /\ EnsureKernelSets(Home[t])
  /\ ClearCache(Home[t])
  /\ blocks' = [blocks EXCEPT ![frame[t].ip] = "no"]
  /\ Goto(t, "unlimit")
  /\ UNCHANGED <<redisVars, limited, initialized, todo, crashes, history>>

UnblockLimited(t) ==
  /\ At(t, "unlimit")
  /\ limited' = limited \ {frame[t].ip}
  /\ Goto(t, "forget")
  /\ UNCHANGED <<redisVars, blocks, setsExist, processVars, todo, crashes, history>>

UnblockForget(t) ==
  /\ At(t, "forget")
  /\ reputation' = [reputation EXCEPT ![frame[t].ip] = 0]
  /\ ReturnFromUnblock(t)
  /\ UNCHANGED <<whitelisted, finalBlocks, banningOff, kernelVars, processVars,
                 todo, crashes, history>>
-----------------------------------------------------------------------------
(***************************************************************************)
(* process_incident()                                                      *)
(***************************************************************************)

\* A worker calls it for the source of an event; a protected address is
\* skipped before anything is read.
IncidentBegin(t, i) ==
  /\ t \in Worker /\ At(t, "idle") /\ initialized[Home[t]]
  /\ i \notin Protected
  /\ frame' = [frame EXCEPT ![t] = [IdleFrame EXCEPT !.pc = "incident", !.ip = i]]
  /\ UNCHANGED <<redisVars, kernelVars, processVars, todo, crashes, history>>

IncidentCheck(t) ==
  /\ At(t, "incident")
  /\ IF frame[t].ip \in whitelisted THEN Finish(t) ELSE Goto(t, "score")
  /\ UNCHANGED <<redisVars, kernelVars, processVars, todo, crashes, history>>

\* HINCRBYFLOAT, and what the new score calls for.
IncidentScore(t, d) ==
  LET i == frame[t].ip
      s == reputation[i] + d
  IN
  /\ At(t, "score")
  /\ MinScore <= s /\ s <= MaxScore
  /\ reputation' = [reputation EXCEPT ![i] = s]
  /\ convicted' = IF s >= REPUTATION_TEMP_BLOCK THEN convicted \cup {i} ELSE convicted
  /\ IF s < 0 THEN Goto(t, "clamp")
     ELSE IF s < REPUTATION_LIMIT THEN Finish(t)
     ELSE frame' = [frame EXCEPT ![t].pc = "switch", ![t].ttl = Sentence(s)]
  /\ UNCHANGED <<whitelisted, finalBlocks, banningOff, kernelVars, processVars,
                 todo, crashes, ordered>>

\* The score went below zero: HSET 0, one await later.
IncidentClamp(t) ==
  /\ At(t, "clamp")
  /\ reputation' = [reputation EXCEPT ![frame[t].ip] = 0]
  /\ Finish(t)
  /\ UNCHANGED <<whitelisted, finalBlocks, banningOff, kernelVars, processVars,
                 todo, crashes, history>>

\* is_banning_disabled(), asked after the score has been raised.
IncidentSwitch(t) ==
  /\ At(t, "switch")
  /\ IF banningOff THEN Finish(t)
     ELSE IF frame[t].ttl = "no" THEN Goto(t, "limit") ELSE Goto(t, "block")
  /\ UNCHANGED <<redisVars, kernelVars, processVars, todo, crashes, history>>
-----------------------------------------------------------------------------
(***************************************************************************)
(* _decay_loop()                                                           *)
(***************************************************************************)

\* The Lua script decays every score in one step and returns the addresses
\* that fell below REPUTATION_TEMP_BLOCK in it.
DecayTick(t) ==
  /\ t \in Decayer /\ At(t, "idle") /\ initialized[Home[t]]
  /\ reputation' = [i \in IP |-> Decayed(reputation[i])]
  /\ todo' = [todo EXCEPT ![t] =
       [i \in IP |-> IF reputation[i] >= REPUTATION_TEMP_BLOCK
                         /\ Decayed(reputation[i]) < REPUTATION_TEMP_BLOCK
                     THEN "temp" ELSE "no"]]
  /\ Revisit(t)
  /\ UNCHANGED <<whitelisted, finalBlocks, banningOff, kernelVars, processVars,
                 crashes, history>>

\* Each of them is unblocked unless it is finally blocked when its turn comes.
Rehabilitate(t) ==
  /\ t \in Decayer /\ At(t, "visit")
  /\ \/ /\ \A i \in IP : todo[t][i] = "no"
        /\ Finish(t) /\ UNCHANGED todo
     \/ \E i \in IP :
          /\ todo[t][i] # "no"
          /\ todo' = [todo EXCEPT ![t][i] = "no"]
          /\ IF i \in finalBlocks THEN UNCHANGED frame
             ELSE frame' = [frame EXCEPT ![t].pc = "unblock", ![t].ip = i]
  /\ UNCHANGED <<redisVars, kernelVars, processVars, crashes, history>>
-----------------------------------------------------------------------------
(***************************************************************************)
(* relay/routes/mitigation_api.py                                          *)
(***************************************************************************)

Free(t) == t \in Handler /\ At(t, "idle") /\ initialized[Home[t]]

\* POST block and block-final: block(ip), then SADD sentinel_final_blocks.
RequestBlock(t, i) ==
  /\ Free(t) /\ "block" \in Request
  /\ frame' = [frame EXCEPT ![t] = [pc |-> "block", ip |-> i, ttl |-> "perm",
                                    op |-> "block"]]
  /\ ordered' = ordered \cup {i}
  /\ UNCHANGED <<redisVars, kernelVars, processVars, todo, crashes, convicted>>

\* POST unblock, whitelist and false-positive: unblock(ip) and what follows it.
RequestUnblock(t, i, r) ==
  /\ Free(t) /\ r \in Request \cap {"unblock", "whitelist", "falsePositive"}
  /\ frame' = [frame EXCEPT ![t] = [pc |-> "unblock", ip |-> i, ttl |-> "no",
                                    op |-> r]]
  /\ UNCHANGED <<redisVars, kernelVars, processVars, todo, crashes, history>>

\* The answer of block() is not looked at.
Finalise(t) ==
  /\ At(t, "finalise")
  /\ finalBlocks' = finalBlocks \cup {frame[t].ip}
  /\ Finish(t)
  /\ UNCHANGED <<reputation, whitelisted, banningOff, kernelVars, processVars,
                 todo, crashes, history>>

WhitelistAdd(t) ==
  /\ At(t, "whitelist")
  /\ whitelisted' = whitelisted \cup {frame[t].ip}
  /\ Goto(t, "unfinalise")
  /\ UNCHANGED <<reputation, finalBlocks, banningOff, kernelVars, processVars,
                 todo, crashes, history>>

Unfinalise(t) ==
  /\ At(t, "unfinalise")
  /\ finalBlocks' = finalBlocks \ {frame[t].ip}
  /\ Finish(t)
  /\ UNCHANGED <<reputation, whitelisted, banningOff, kernelVars, processVars,
                 todo, crashes, history>>

\* POST unwhitelist: a single Redis command.
RequestUnwhitelist(t, i) ==
  /\ Free(t) /\ "unwhitelist" \in Request
  /\ whitelisted' = whitelisted \ {i}
  /\ UNCHANGED <<reputation, finalBlocks, banningOff, kernelVars, processVars,
                 frame, todo, crashes, history>>

\* POST toggle: a single Redis command.
RequestToggle(t, off) ==
  /\ Free(t) /\ "toggle" \in Request
  /\ banningOff' = off
  /\ UNCHANGED <<reputation, whitelisted, finalBlocks, kernelVars, processVars,
                 frame, todo, crashes, history>>

\* The dashboard polls get_detailed_status().
RequestStatus(t) ==
  /\ Free(t) /\ "status" \in Request
  /\ frame' = [frame EXCEPT ![t] = [IdleFrame EXCEPT !.pc = "status", !.op = "status"]]
  /\ UNCHANGED <<redisVars, kernelVars, processVars, todo, crashes, history>>
-----------------------------------------------------------------------------
(***************************************************************************)
(* get_detailed_status(): one refresh at a time in a process (_status_lock)*)
(* reads reputation, final blocks and kernel sets in separate steps.  The  *)
(* result is kept as the verdict an audit draws from it.                   *)
(***************************************************************************)

StatusLockFree(p) ==
  \A u \in Thread : Home[u] = p =>
    frame[u].pc \notin {"statusReputation", "statusFinal", "statusKernel",
                      "statusStore"}

StatusReturn(t, verdict) ==
  IF t \in Auditor
  THEN Revisit(t) /\ todo' = [todo EXCEPT ![t] = verdict]
  ELSE Finish(t) /\ todo' = [todo EXCEPT ![t] = NothingToDo]

StatusEnter(t) ==
  LET p == Home[t] IN
  /\ At(t, "status") /\ StatusLockFree(p)
  /\ EnsureKernelSets(p)
  /\ IF cache[p] # NoCache THEN StatusReturn(t, cache[p])
     ELSE Goto(t, "statusReputation") /\ UNCHANGED todo
  /\ UNCHANGED <<redisVars, blocks, limited, initialized, cache, crashes, history>>

\* Mutant: only permanent offenders are expected in the kernel.
StatusReputationPerm(t) ==
  /\ At(t, "statusReputation")
  /\ todo' = [todo EXCEPT ![t] = [i \in IP |->
       IF reputation[i] >= REPUTATION_PERM_BLOCK THEN "perm" ELSE "no"]]
  /\ Goto(t, "statusFinal")
  /\ UNCHANGED <<redisVars, kernelVars, processVars, crashes, history>>

StatusReputation(t) ==
  /\ At(t, "statusReputation")
  /\ todo' = [todo EXCEPT ![t] = [i \in IP |-> Sentence(reputation[i])]]
  /\ Goto(t, "statusFinal")
  /\ UNCHANGED <<redisVars, kernelVars, processVars, crashes, history>>

\* Mutant: the final blocks are not expected in the kernel.
StatusFinalForgotten(t) ==
  /\ At(t, "statusFinal")
  /\ Goto(t, "statusKernel")
  /\ UNCHANGED <<redisVars, kernelVars, processVars, todo, crashes, history>>

StatusFinal(t) ==
  /\ At(t, "statusFinal")
  /\ todo' = [todo EXCEPT ![t] =
       [i \in IP |-> IF i \in finalBlocks THEN "final" ELSE todo[t][i]]]
  /\ Goto(t, "statusKernel")
  /\ UNCHANGED <<redisVars, kernelVars, processVars, crashes, history>>

\* permanent_ips leaves out the final blocks; temporary_ips holds the limited
\* addresses too.
InKernelStatus(i, verdict) ==
  \/ blocks[i] = "temp"
  \/ i \in limited
  \/ blocks[i] = "perm" /\ verdict # "final"

StatusKernel(t) ==
  /\ At(t, "statusKernel")
  /\ todo' = [todo EXCEPT ![t] =
       [i \in IP |-> IF InKernelStatus(i, todo[t][i]) THEN "no" ELSE todo[t][i]]]
  /\ Goto(t, "statusStore")
  /\ UNCHANGED <<redisVars, kernelVars, processVars, crashes, history>>

\* The result is cached, also when the cache was cleared since it was read.
StatusStore(t) ==
  /\ At(t, "statusStore")
  /\ cache' = [cache EXCEPT ![Home[t]] = todo[t]]
  /\ StatusReturn(t, todo[t])
  /\ UNCHANGED <<redisVars, kernelVars, setsReady, initialized, crashes, history>>

\* _status_cache_ttl seconds have passed.
CacheExpire(p) ==
  /\ cache[p] # NoCache
  /\ ClearCache(p)
  /\ UNCHANGED <<redisVars, kernelVars, setsReady, initialized, frame, todo,
                 crashes, history>>
-----------------------------------------------------------------------------
(***************************************************************************)
(* MitigationAuditor.audit_mitigations()                                   *)
(***************************************************************************)

\* A missing set calls _ensure_kernel_sets(), which trusts the process's flag.
AuditBegin(t) ==
  /\ t \in Auditor /\ At(t, "idle") /\ initialized[Home[t]]
  /\ IF setsExist THEN UNCHANGED <<setsReady, setsExist>>
     ELSE EnsureKernelSets(Home[t])
  /\ Goto(t, "auditSwitch")
  /\ UNCHANGED <<redisVars, blocks, limited, initialized, cache, todo, crashes,
                 history>>

AuditSwitch(t) ==
  /\ At(t, "auditSwitch")
  /\ IF banningOff THEN Finish(t) ELSE Goto(t, "status")
  /\ UNCHANGED <<redisVars, kernelVars, processVars, todo, crashes, history>>
-----------------------------------------------------------------------------
(***************************************************************************)
(* The kernel, crashes and other programs                                  *)
(***************************************************************************)

BlockExpire(i) ==
  /\ blocks[i] = "temp"
  /\ blocks' = [blocks EXCEPT ![i] = "no"]
  /\ UNCHANGED <<redisVars, limited, setsExist, processVars, frame, todo, crashes,
                 history>>

LimitExpire(i) ==
  /\ i \in limited
  /\ limited' = limited \ {i}
  /\ UNCHANGED <<redisVars, blocks, setsExist, processVars, frame, todo, crashes,
                 history>>

\* The processes in P die; the supervisor of start.sh starts them again.
Lose(P) ==
  /\ crashes < MaxCrashes /\ crashes' = crashes + 1
  /\ setsReady' = [p \in Process |-> p \notin P /\ setsReady[p]]
  /\ initialized' = [p \in Process |-> p \notin P /\ initialized[p]]
  /\ cache' = [p \in Process |-> IF p \in P THEN NoCache ELSE cache[p]]
  /\ frame' = [t \in Thread |-> IF Home[t] \in P THEN IdleFrame ELSE frame[t]]
  /\ todo' = [t \in Thread |-> IF Home[t] \in P THEN NothingToDo ELSE todo[t]]

Crash(p) == Lose({p}) /\ UNCHANGED <<redisVars, kernelVars, history>>

\* The host restarts: the kernel sets are gone, Redis has its data on disk.
NoSets ==
  /\ blocks' = [i \in IP |-> "no"] /\ limited' = {} /\ setsExist' = FALSE
Reboot == Lose(Process) /\ NoSets /\ UNCHANGED <<redisVars, history>>

\* Somebody else destroys the sets under running processes.
SetsVanish ==
  /\ SetsMayVanish /\ setsExist
  /\ NoSets
  /\ UNCHANGED <<redisVars, processVars, frame, todo, crashes, history>>
-----------------------------------------------------------------------------
\* What a thread does by itself once it has begun an operation.
Continue(t) ==
  \/ RepopulateRead(t) \/ Reblock(t)
  \/ BlockCheck(t) \/ BlockAdd(t) \/ BlockPin(t)
  \/ LimitCheck(t) \/ LimitAdd(t)
  \/ UnblockBlocks(t) \/ UnblockLimited(t) \/ UnblockForget(t)
  \/ IncidentCheck(t) \/ \E d \in Delta : IncidentScore(t, d)
  \/ IncidentClamp(t) \/ IncidentSwitch(t)
  \/ Rehabilitate(t)
  \/ Finalise(t) \/ WhitelistAdd(t) \/ Unfinalise(t)
  \/ StatusReputation(t) \/ StatusFinal(t) \/ StatusKernel(t) \/ StatusStore(t)
  \/ AuditSwitch(t)

\* What the loops begin by themselves.
Loop(t) == Initialize(t) \/ DecayTick(t) \/ AuditBegin(t)

Demand(t) ==
  \/ \E i \in IP :
       \/ IncidentBegin(t, i) \/ RequestBlock(t, i) \/ RequestUnwhitelist(t, i)
       \/ \E r \in AllRequests : RequestUnblock(t, i, r)
  \/ \E off \in BOOLEAN : RequestToggle(t, off)
  \/ RequestStatus(t)

Environment ==
  \/ \E i \in IP : BlockExpire(i) \/ LimitExpire(i)
  \/ \E p \in Process : CacheExpire(p) \/ Crash(p)
  \/ Reboot \/ SetsVanish

Next ==
  \/ \E t \in Thread : Continue(t) \/ StatusEnter(t) \/ Loop(t) \/ Demand(t)
  \/ Environment

Spec == Init /\ [][Next]_vars

\* A coroutine that can run is run by its event loop, the loops wake up from
\* their sleep, asyncio.Lock serves its waiters in order, and timers expire.
\* Nothing makes incidents, requests or crashes happen.
Fairness ==
  /\ \A t \in Thread : WF_vars(Continue(t)) /\ WF_vars(Loop(t)) /\ SF_vars(StatusEnter(t))
  /\ \A p \in Process : WF_vars(CacheExpire(p))
  /\ \A i \in IP : WF_vars(BlockExpire(i)) /\ WF_vars(LimitExpire(i))

FairSpec == Spec /\ Fairness
-----------------------------------------------------------------------------
(***************************************************************************)
(* Properties                                                              *)
(***************************************************************************)

\* No address is dropped by the kernel unless incidents once took its score to
\* REPUTATION_TEMP_BLOCK or an operator asked for it, whichever of the worker,
\* the auditor with its old snapshot, and the repopulation of a restart put the
\* entry there; and a protected address is dropped only at an operator's
\* request and never rate limited.
BlockedForCause ==
  /\ \A i \in IP : blocks[i] # "no" => i \in ordered \cup (convicted \ Protected)
  /\ limited \cap Protected = {}

\* Nothing in the kernel concerns i, and no thread is about to change that.
Quiet(i) ==
  /\ blocks[i] = "no" /\ i \notin limited
  /\ \A t \in Thread : frame[t].ip = i => frame[t].pc \notin {"add", "limitAdd"}

\* An address that is whitelisted and quiet stays quiet for as long as it is
\* whitelisted: audits, repopulations and incidents that had picked it before
\* it was whitelisted come to nothing.
WhitelistedStaysQuiet ==
  [][\A i \in IP : i \in whitelisted /\ Quiet(i) /\ i \in whitelisted'
       => Quiet(i)']_vars

\* A finally blocked address does not stay out of the kernel, whatever becomes
\* of its entry (rehabilitated by a decay that raced the operator, turned into
\* a temporary one by an incident, lost with the host): audits bring it back
\* while it is not whitelisted and banning is on.
FinalBlockEnforced ==
  \A i \in IP :
    <>[](i \in finalBlocks /\ i \notin whitelisted /\ ~banningOff)
      => []<>(blocks[i] # "no")

\* The same of an address whose score stays at REPUTATION_TEMP_BLOCK or above:
\* a lost or expired entry is put back.
OffenderEnforced ==
  \A i \in IP :
    <>[](reputation[i] >= REPUTATION_TEMP_BLOCK /\ i \notin whitelisted /\ ~banningOff)
      => []<>(blocks[i] # "no")

\* A start of a process never waits for its own end: _initialize() holds the
\* initialisation lock while it blocks the remembered offenders, and block()
\* would take that lock in a process that is not initialised.
NoSelfDeadlock ==
  \A t \in Booter : ~At(t, "idle") => initialized[Home[t]]
=============================================================================
