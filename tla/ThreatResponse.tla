---------------------------- MODULE ThreatResponse ----------------------------
(***************************************************************************)
(* From a classified event to the kernel: decide() starts a SOAR playbook  *)
(* (common/soar_engine.py) as a task of its own, while prepare_alert()     *)
(* (ml_engine/worker_pool.py) goes on with the same event, asks the threat *)
(* intelligence client (ml_engine/cti_client.py), may decide a second time *)
(* and charges the source's reputation.  The playbooks' actions are the    *)
(* micro-blocks and honeypot redirects of ml_engine/firewall.py, with the  *)
(* legacy backend, whose rules each own a sleeping task that deletes them. *)
(*                                                                         *)
(* One step of a task ends where it awaits.  process_incident() and the    *)
(* calls below it are one step here: ActiveFirewall has their detail.      *)
(***************************************************************************)
EXTENDS DecisionFusion, Sequences

CONSTANTS
  Event,        \* events the workers take from the stream
  Source,       \* source addresses
  SourceOf,     \* the source of each event
  Protected,    \* the addresses is_ip_protected() accepts
  V6,           \* the IPv6 addresses among them
  EvidenceSeen, \* what the detectors may say of an event in this instance
  TechniqueSeen, \* techniques an event or its signature names in this instance
  CtiScore,     \* reputation scores the intelligence service may answer
  MAX_CACHE_SIZE,
  REPUTATION_LIMIT, REPUTATION_TEMP_BLOCK, REPUTATION_PERM_BLOCK,
  MaxFailures,  \* bound: commands that fail in a behaviour
  MaxCrashes,   \* bound: crashes of the consumer
  MaxOrders     \* bound: orders of the operator

\* The techniques a playbook asks for; any other counts as None.
Technique == {"T1498", "T1595", None}

ASSUME PlaceAssumption ==
  /\ SourceOf \in [Event -> Source] /\ Protected \subseteq Source /\ V6 \subseteq Source
  /\ EvidenceSeen \subseteq Evidence
  /\ \A v \in EvidenceSeen : v.cti = None
  /\ TechniqueSeen \subseteq Technique
ASSUME LimitAssumption ==
  /\ REPUTATION_LIMIT \in Nat /\ REPUTATION_TEMP_BLOCK \in Nat
  /\ REPUTATION_PERM_BLOCK \in Nat
  /\ 0 < REPUTATION_LIMIT /\ REPUTATION_LIMIT < REPUTATION_TEMP_BLOCK
  /\ REPUTATION_TEMP_BLOCK < REPUTATION_PERM_BLOCK
  /\ MAX_CACHE_SIZE \in Nat \ {0} /\ CtiScore \subseteq Score
  /\ MaxFailures \in Nat /\ MaxCrashes \in Nat /\ MaxOrders \in Nat

VARIABLES
  stage,       \* how far prepare_alert() is with each event
  evidence,    \* what was said of it, and its verdict
  plays,       \* tasks that will run execute_playbook()
  runs,        \* tasks inside _run_actions(), with the actions left
  reputation,  \* Redis: the score of each source, in thousandths
  restricted,  \* kernel: the sources in the ipset sets
  rules,       \* kernel: micro-block and redirect rules of each source
  timers,      \* tasks that sleep for a rule's TTL and then delete it
  orphans,     \* history: rules whose task a crash has taken
  judged,      \* history: verdicts ever given about each source
  cache,       \* CTIClient.cache, ordered by time stamp
  enforcing,   \* sentinel_banning_disabled is not "true"
  whitelisted, \* Redis set sentinel_whitelisted_ips
  failures, crashes, orders

tasks == <<plays, runs>>
kernel == <<restricted, rules, timers, orphans>>
world == <<enforcing, whitelisted, crashes, orders>>
vars == <<stage, evidence, plays, runs, reputation, kernel, judged, cache,
          world, failures>>

Kind == {"micro", "redirect"}
Playbook == {"ddos_mitigation", "recon_deception", "zeroday_anomaly"}
Action == {"micro_block", "log_forensics", "honeypot_redirect",
           "penalize_reputation", "rate_limit", "elevated_logging"}

\* config/playbooks.yaml
Actions(p) ==
  IF p = "ddos_mitigation" THEN <<"micro_block", "log_forensics">>
  ELSE IF p = "recon_deception" THEN <<"honeypot_redirect", "penalize_reputation">>
  ELSE <<"rate_limit", "honeypot_redirect", "elevated_logging">>
Triggered(play) ==
  {p \in Playbook :
     \/ p = "ddos_mitigation" /\ play.technique = "T1498" /\ play.score >= 800
     \/ p = "recon_deception" /\ play.technique = "T1595" /\ play.score >= 700
     \/ p = "zeroday_anomaly" /\ play.class = "anomaly" /\ play.score >= 600}

\* A cached answer, and whether it is younger than CACHE_TTL.
Answer == [ip : Source, score : CtiScore, fresh : BOOLEAN]
Verdict == [class : Class, score : Score]
Play == [event : Event, round : {1, 2}, class : Class, score : Score,
         technique : Technique]
Run == [event : Event, round : {1, 2}, playbook : Playbook, begun : BOOLEAN,
        left : Seq(Action)]

TypeOK ==
  /\ stage \in [Event -> {"queued", "decided", "asking", "enriched", "done"}]
  /\ evidence \in [Event -> [of : Evidence \cup {None}, verdict : Verdict]]
  /\ plays \subseteq Play /\ runs \subseteq Run
  /\ reputation \in [Source -> Nat]
  /\ restricted \in [{"block", "limit"} -> SUBSET Source]
  /\ rules \in [Kind -> [Source -> Nat]] /\ timers \in [Kind -> [Source -> Nat]]
  /\ orphans \in [Kind -> [Source -> Nat]]
  /\ judged \in [Source -> SUBSET Class]
  /\ cache \in Seq(Answer)
  /\ enforcing \in BOOLEAN /\ whitelisted \subseteq Source
  /\ failures \in 0 .. MaxFailures /\ crashes \in 0 .. MaxCrashes
  /\ orders \in 0 .. MaxOrders

NoRules == [k \in Kind |-> [s \in Source |-> 0]]

Init ==
  /\ stage = [e \in Event |-> "queued"]
  /\ evidence = [e \in Event |-> [of |-> None,
                                  verdict |-> [class |-> "normal", score |-> 0]]]
  /\ plays = {} /\ runs = {}
  /\ reputation = [s \in Source |-> 0]
  /\ restricted = [b \in {"block", "limit"} |-> {}]
  /\ rules = NoRules /\ timers = NoRules /\ orphans = NoRules
  /\ judged = [s \in Source |-> {}]
  /\ cache = <<>>
  /\ enforcing = TRUE /\ whitelisted = {}
  /\ failures = 0 /\ crashes = 0 /\ orders = 0
-----------------------------------------------------------------------------
(***************************************************************************)
(* The firewall                                                            *)
(***************************************************************************)

\* A command to the kernel succeeds, or fails while failures are left.
Succeeds == UNCHANGED failures
Fails == failures < MaxFailures /\ failures' = failures + 1

\* block() and rate_limit(): a whitelisted source is left alone.
Restrict(set, s) ==
  \/ s \in whitelisted /\ UNCHANGED <<restricted, failures>>
  \/ s \notin whitelisted /\ Succeeds
     /\ restricted' = [restricted EXCEPT ![set] = @ \cup {s}]
  \/ s \notin whitelisted /\ Fails /\ UNCHANGED restricted

\* Mutant: the task that deletes the rule is never created.
AddRuleForGood(kind, s) ==
  /\ rules' = [rules EXCEPT ![kind][s] = @ + 1]
  /\ UNCHANGED timers

\* micro_block() and _legacy_redirect_to_honeypot() append a rule, whoever
\* the source is, and leave a task behind that will delete one like it.
AddRule(kind, s) ==
  /\ rules' = [rules EXCEPT ![kind][s] = @ + 1]
  /\ timers' = [timers EXCEPT ![kind][s] = @ + 1]

\* process_incident()
Incident(s, delta) ==
  LET new == reputation[s] + delta
      score(x) == reputation' = [reputation EXCEPT ![s] = x]
  IN \/ /\ s \in Protected \cup whitelisted
        /\ UNCHANGED <<reputation, restricted, failures>>
     \/ /\ s \notin Protected \cup whitelisted
        /\ new < REPUTATION_LIMIT \/ ~enforcing
        /\ score(Greatest(0, new)) /\ UNCHANGED <<restricted, failures>>
     \/ /\ s \notin Protected \cup whitelisted /\ enforcing
        /\ REPUTATION_LIMIT <= new /\ new < REPUTATION_PERM_BLOCK
        /\ Restrict(IF new < REPUTATION_TEMP_BLOCK THEN "limit" ELSE "block", s)
        /\ score(new)
     \/ /\ s \notin Protected \cup whitelisted /\ enforcing
        /\ REPUTATION_PERM_BLOCK <= new
        /\ \/ Succeeds /\ score(REPUTATION_PERM_BLOCK)
              /\ restricted' = [restricted EXCEPT !["block"] = @ \cup {s}]
           \/ Fails /\ score(new) /\ UNCHANGED restricted

\* The sleeping task of a rule wakes up and deletes a rule like its own.
RuleExpires(kind, s) ==
  /\ timers[kind][s] > 0
  /\ timers' = [timers EXCEPT ![kind][s] = @ - 1]
  /\ rules' = [rules EXCEPT ![kind][s] = IF @ > 0 THEN @ - 1 ELSE 0]
  /\ UNCHANGED <<stage, evidence, tasks, reputation, restricted, orphans, judged,
                 cache, world, failures>>

\* The timeout of a blocked source runs out in the kernel.
BlockExpires(s) ==
  /\ s \in restricted["block"]
  /\ restricted' = [restricted EXCEPT !["block"] = @ \ {s}]
  /\ UNCHANGED <<stage, evidence, tasks, reputation, rules, timers, orphans,
                 judged, cache, world, failures>>
-----------------------------------------------------------------------------
(***************************************************************************)
(* The worker: predict_batch(), prepare_alert() and the CTI client         *)
(***************************************************************************)

Decided(e, d) == judged' = [judged EXCEPT ![SourceOf[e]] = @ \cup {d.class}]

\* Mutant: a playbook for every verdict.
RespondToAll(e, round, d, t) ==
  plays' = plays \cup {[event |-> e, round |-> round, class |-> d.class,
                       score |-> d.score, technique |-> t]}

\* decide() leaves a playbook behind for every verdict but "normal".
Respond(e, round, d, t) ==
  plays' = IF d.class = "normal" THEN plays
           ELSE plays \cup {[event |-> e, round |-> round, class |-> d.class,
                             score |-> d.score, technique |-> t]}

\* predict_batch(): the first decision, from what the detectors say.
Detect(e) ==
  /\ stage[e] = "queued"
  /\ stage' = [stage EXCEPT ![e] = "decided"]
  /\ \E v \in EvidenceSeen, t \in TechniqueSeen :
       /\ evidence' = [evidence EXCEPT ![e] = [of |-> v, verdict |-> Decide(v)]]
       /\ Decided(e, Decide(v))
       /\ Respond(e, 1, Decide(v), t)
  /\ UNCHANGED <<runs, reputation, kernel, cache, world, failures>>

\* An analyst has suppressed the signature, or the alert repeats an earlier one.
Suppress(e) ==
  /\ stage[e] = "decided"
  /\ stage' = [stage EXCEPT ![e] = "done"]
  /\ UNCHANGED <<evidence, tasks, reputation, kernel, judged, cache, world, failures>>

Learn(e, score) ==
  evidence' = [evidence EXCEPT ![e].of = [@ EXCEPT !.cti = score]]

\* The answers c without the one about s.
Position(c, s) == CHOOSE i \in DOMAIN c : c[i].ip = s
Without(c, s) ==
  IF \E i \in DOMAIN c : c[i].ip = s
  THEN [j \in 1 .. Len(c) - 1 |-> c[IF j < Position(c, s) THEN j ELSE j + 1]]
  ELSE c

\* get_ip_reputation(): a fresh answer is served, a stale one deleted.
CtiHit(e) ==
  /\ stage[e] = "decided"
  /\ \E i \in DOMAIN cache :
       /\ cache[i].ip = SourceOf[e] /\ cache[i].fresh
       /\ Learn(e, cache[i].score)
  /\ stage' = [stage EXCEPT ![e] = "enriched"]
  /\ UNCHANGED <<tasks, reputation, kernel, judged, cache, world, failures>>
CtiMiss(e) ==
  /\ stage[e] = "decided"
  /\ ~ \E i \in DOMAIN cache : cache[i].ip = SourceOf[e] /\ cache[i].fresh
  /\ cache' = Without(cache, SourceOf[e])
  /\ stage' = [stage EXCEPT ![e] = "asking"]
  /\ UNCHANGED <<evidence, tasks, reputation, kernel, judged, world, failures>>

\* Mutant: room is made only when the cache is over its size.
CtiAnswerOverfull(e) ==
  /\ stage[e] = "asking"
  /\ stage' = [stage EXCEPT ![e] = "enriched"]
  /\ \E score \in CtiScore :
       LET kept == IF Len(cache) > MAX_CACHE_SIZE THEN Tail(cache) ELSE cache
       IN /\ Learn(e, score)
          /\ cache' = Append(kept, [ip |-> SourceOf[e], score |-> score, fresh |-> TRUE])
  /\ UNCHANGED <<tasks, reputation, kernel, judged, world, failures>>

\* The service answers; when the cache is full its oldest entry makes room,
\* also for an address that another lookup has put there meanwhile.
CtiAnswer(e) ==
  /\ stage[e] = "asking"
  /\ stage' = [stage EXCEPT ![e] = "enriched"]
  /\ \E score \in CtiScore :
       LET kept == IF Len(cache) >= MAX_CACHE_SIZE THEN Tail(cache) ELSE cache
       IN /\ Learn(e, score)
          /\ cache' = Append(Without(kept, SourceOf[e]),
                       [ip |-> SourceOf[e], score |-> score, fresh |-> TRUE])
  /\ UNCHANGED <<tasks, reputation, kernel, judged, world, failures>>

\* No key, no network, an error status, or an address that is not looked up.
CtiNoAnswer(e) ==
  /\ stage[e] \in {"decided", "asking"}
  /\ stage' = [stage EXCEPT ![e] = "enriched"]
  /\ UNCHANGED <<evidence, tasks, reputation, kernel, judged, cache, world, failures>>

\* CACHE_TTL passes for the oldest answer that was still fresh.
CacheAges ==
  /\ \E i \in DOMAIN cache :
       /\ cache[i].fresh /\ \A j \in 1 .. i - 1 : ~cache[j].fresh
       /\ cache' = [cache EXCEPT ![i] = [@ EXCEPT !.fresh = FALSE]]
  /\ UNCHANGED <<stage, evidence, tasks, reputation, kernel, judged, world, failures>>

\* Mutant: the alert does not say that a signature matched.
RecheckUnsigned(v) ==
  [v EXCEPT !.ml = Raw(v.ml), !.anomaly = Raw(v.anomaly), !.c2 = Raw(v.c2),
            !.sig = FALSE, !.volume = FALSE, !.features = FALSE, !.signs = {}]

\* What the second decision sees: the rounded scores of the result, in which no
\* opinion has become 0, and no feature vector, which _worker_loop() has popped.
Recheck(v) ==
  [v EXCEPT !.ml = Raw(v.ml), !.anomaly = Raw(v.anomaly), !.c2 = Raw(v.c2),
            !.volume = FALSE, !.features = FALSE, !.signs = {}]

SecondVerdict(e) ==
  LET v == evidence[e].of
  IN IF Raw(v.cti) > 0 THEN Decide(Recheck(v)) ELSE evidence[e].verdict

\* The rest of prepare_alert(): decide again if the intelligence service knows
\* the source, then charge its reputation in _apply_mitigation().
Settle(e) ==
  /\ stage[e] = "enriched"
  /\ stage' = [stage EXCEPT ![e] = "done"]
  /\ evidence' = [evidence EXCEPT ![e].verdict = SecondVerdict(e)]
  /\ IF Raw(evidence[e].of.cti) > 0
     THEN Decided(e, SecondVerdict(e)) /\ Respond(e, 2, SecondVerdict(e), None)
     ELSE UNCHANGED <<judged, plays>>
  /\ Incident(SourceOf[e], ReputationDelta(SecondVerdict(e)))
  /\ UNCHANGED <<runs, rules, timers, orphans, cache, world>>
-----------------------------------------------------------------------------
(***************************************************************************)
(* SOAREngine                                                              *)
(***************************************************************************)

\* The penalty when no playbook asks for the event.
Penalty(class) == IF class = "anomaly" THEN 10000
                  ELSE IF class = "suspicious" THEN 25000 ELSE 50000

\* Mutant: protected sources are not asked for.
ExecutePlaybookOnAnyone(p) ==
  /\ p \in plays
  /\ plays' = plays \ {p}
  /\ \/ /\ Triggered(p) = {}
        /\ Incident(SourceOf[p.event], Penalty(p.class)) /\ UNCHANGED runs
     \/ /\ Triggered(p) # {}
        /\ runs' = runs \cup {[event |-> p.event, round |-> p.round,
                               playbook |-> b, begun |-> FALSE,
                               left |-> Actions(b)] : b \in Triggered(p)}
        /\ UNCHANGED <<reputation, restricted, failures>>
  /\ UNCHANGED <<stage, evidence, rules, timers, orphans, judged, cache, world>>

\* execute_playbook()
ExecutePlaybook(p) ==
  LET s == SourceOf[p.event]
  IN /\ p \in plays
     /\ plays' = plays \ {p}
     /\ \/ s \in Protected /\ UNCHANGED <<runs, reputation, restricted, failures>>
        \/ /\ s \notin Protected /\ Triggered(p) = {}
           /\ Incident(s, Penalty(p.class)) /\ UNCHANGED runs
        \/ /\ s \notin Protected /\ Triggered(p) # {}
           /\ runs' = runs \cup {[event |-> p.event, round |-> p.round,
                                  playbook |-> b, begun |-> FALSE,
                                  left |-> Actions(b)] : b \in Triggered(p)}
           /\ UNCHANGED <<reputation, restricted, failures>>
     /\ UNCHANGED <<stage, evidence, rules, timers, orphans, judged, cache, world>>

\* _run_actions() asks once whether banning is disabled, before the first action.
BeginRun(r) ==
  /\ r \in runs /\ ~r.begun
  /\ runs' = (runs \ {r}) \cup (IF enforcing THEN {[r EXCEPT !.begun = TRUE]} ELSE {})
  /\ UNCHANGED <<stage, evidence, plays, reputation, kernel, judged, cache, world,
                 failures>>

\* Mutant: an action that fails has no second choice.
PerformOrNothing(action, s) ==
  \/ /\ action = "micro_block" /\ AddRule("micro", s)
     /\ UNCHANGED <<reputation, restricted, failures>>
  \/ /\ action # "rate_limit"
     /\ UNCHANGED <<reputation, restricted, rules, timers, failures>>

\* One action. A micro-block without a port or whose command fails becomes a
\* block, a redirect that fails (for IPv6 it always does) a rate limit.
Perform(action, s) ==
  \/ /\ action = "micro_block" /\ AddRule("micro", s)
     /\ UNCHANGED <<reputation, restricted, failures>>
  \/ /\ action = "micro_block" /\ Restrict("block", s)
     /\ UNCHANGED <<reputation, rules, timers>>
  \/ /\ action = "honeypot_redirect" /\ s \notin V6 /\ AddRule("redirect", s)
     /\ UNCHANGED <<reputation, restricted, failures>>
  \/ /\ action \in {"honeypot_redirect", "rate_limit"} /\ Restrict("limit", s)
     /\ UNCHANGED <<reputation, rules, timers>>
  \/ /\ action = "penalize_reputation" /\ Incident(s, 25000)
     /\ UNCHANGED <<rules, timers>>
  \/ /\ action \in {"log_forensics", "elevated_logging"}
     /\ UNCHANGED <<reputation, restricted, rules, timers, failures>>

RunAction(r) ==
  /\ r \in runs /\ r.begun
  /\ runs' = (runs \ {r}) \cup
       (IF Len(r.left) > 1 THEN {[r EXCEPT !.left = Tail(@)]} ELSE {})
  /\ Perform(Head(r.left), SourceOf[r.event])
  /\ UNCHANGED <<stage, evidence, plays, orphans, judged, cache, world>>
-----------------------------------------------------------------------------
(***************************************************************************)
(* The operator and the faults                                             *)
(***************************************************************************)

Order == orders < MaxOrders /\ orders' = orders + 1

ToggleBanning ==
  /\ Order /\ enforcing' = ~enforcing
  /\ UNCHANGED <<stage, evidence, tasks, reputation, kernel, judged, cache,
                 whitelisted, crashes, failures>>

\* unblock() empties the ipset sets of the source and forgets its score; it
\* knows nothing of micro-blocks and redirects.
Unblock(s) ==
  /\ restricted' = [b \in {"block", "limit"} |-> restricted[b] \ {s}]
  /\ reputation' = [reputation EXCEPT ![s] = 0]
  /\ UNCHANGED <<stage, evidence, tasks, rules, timers, orphans, judged, cache,
                 enforcing, crashes, failures>>
WhitelistSource(s) == Order /\ Unblock(s) /\ whitelisted' = whitelisted \cup {s}
UnblockSource(s) == Order /\ Unblock(s) /\ UNCHANGED whitelisted

\* The consumer dies: the kernel's rules stay, the tasks that delete them do
\* not. What it had read of the stream comes back as other events.
Crash ==
  /\ crashes < MaxCrashes /\ crashes' = crashes + 1
  /\ stage' = [e \in Event |-> IF stage[e] = "queued" THEN "queued" ELSE "done"]
  /\ plays' = {} /\ runs' = {} /\ cache' = <<>>
  /\ timers' = NoRules
  /\ orphans' = [k \in Kind |-> [s \in Source |-> orphans[k][s] + timers[k][s]]]
  /\ UNCHANGED <<evidence, reputation, restricted, rules, judged, enforcing,
                 whitelisted, orders, failures>>

Pipeline(e) == Detect(e) \/ Suppress(e) \/ CtiHit(e) \/ CtiMiss(e) \/ CtiAnswer(e)
               \/ CtiNoAnswer(e) \/ Settle(e)
Playbooks == \/ \E p \in plays : ExecutePlaybook(p)
             \/ \E r \in runs : BeginRun(r) \/ RunAction(r)
Kernel == \/ \E k \in Kind, s \in Source : RuleExpires(k, s)
          \/ \E s \in Source : BlockExpires(s)
Operator == ToggleBanning \/ \E s \in Source : WhitelistSource(s) \/ UnblockSource(s)

Next == (\E e \in Event : Pipeline(e)) \/ Playbooks \/ Kernel \/ CacheAges
        \/ Operator \/ Crash

Spec == Init /\ [][Next]_vars

\* asyncio runs every task that is ready, and every command returns.
FairSpec == Spec /\ WF_vars(Playbooks)
-----------------------------------------------------------------------------
Restricted(s) == s \in restricted["block"] \cup restricted["limit"]
Ruled(s) == \E k \in Kind : rules[k][s] > 0

\* A rule in the kernel has a task that will delete it; only a crash of the
\* consumer leaves rules behind, and then for good (firewall.py:748).
RulesAccounted == \A k \in Kind, s \in Source :
                    rules[k][s] = timers[k][s] + orphans[k][s]

\* Neither playbooks nor the pipeline touch a protected source, whatever is said
\* of it (soar_engine.py:54, firewall.py:352).
ProtectedUntouched == \A s \in Protected : ~Restricted(s) /\ ~Ruled(s) /\ reputation[s] = 0

\* Only a source one of whose events was found to be more than normal is ever
\* restricted, redirected, or has a score (decision_engine.py:281).
OnlyThreatsPunished ==
  \A s \in Source : Restricted(s) \/ Ruled(s) \/ reputation[s] > 0
                       => judged[s] \cap {"anomaly", "suspicious", "attack"} # {}

\* Raising any score or adding any sign never makes the verdict milder, through
\* all the damping of decide() (decision_engine.py:113).
MoreEvidenceNoMilder ==
  \A e, f \in Event :
    /\ {stage[e], stage[f]} \subseteq {"decided", "asking"}
    /\ Stronger(evidence[f].of, evidence[e].of)
    => Rank(evidence[f].verdict.class) >= Rank(evidence[e].verdict.class)

\* A tagged event with a signature is an attack at the end too: the second
\* decision never takes it back (decision_engine.py:31).
SignatureStands ==
  \A e \in Event :
    stage[e] # "queued" /\ evidence[e].of.sig /\ evidence[e].of.tag
      => evidence[e].verdict.class = "attack"

\* The cache of the intelligence client keeps to its size with one answer for
\* an address, however lookups overlap, and its stale answers are its oldest
\* (cti_client.py:62).
CacheSound ==
  /\ Len(cache) <= MAX_CACHE_SIZE
  /\ \A i, j \in DOMAIN cache : i # j => cache[i].ip # cache[j].ip
  /\ \A i, j \in DOMAIN cache : i < j /\ cache[i].fresh => cache[j].fresh

Same(r, q) == r.event = q.event /\ r.round = q.round /\ r.playbook = q.playbook

\* While banning is disabled no playbook begins, and what a step then adds to
\* the kernel is the work of a playbook that had begun before (soar_engine.py:103).
OffBeginsNothing ==
  [][~enforcing /\ ~enforcing' =>
       /\ \A r \in runs' : r.begun => \E q \in runs : q.begun /\ Same(r, q)
       /\ \A s \in Source : Restricted(s)' /\ ~Restricted(s) =>
            \E q \in runs : q.begun /\ SourceOf[q.event] = s /\ q \notin runs']_vars

\* A flood that a playbook is asked to answer is stopped, by its port or
\* altogether, unless the operator or a fault comes between (soar_engine.py:113).
FloodStopped ==
  \A e \in Event :
    (\E p \in plays : p.event = e /\ "ddos_mitigation" \in Triggered(p)
                      /\ SourceOf[e] \notin Protected)
    ~> (\/ rules["micro"][SourceOf[e]] > 0 \/ SourceOf[e] \in restricted["block"]
        \/ ~enforcing \/ SourceOf[e] \in whitelisted \/ failures > 0 \/ crashes > 0)
=============================================================================
