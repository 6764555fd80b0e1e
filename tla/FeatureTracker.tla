---------------------------- MODULE FeatureTracker ----------------------------
(***************************************************************************)
(* The connection tracker behind the temporal features                     *)
(* (StatefulFeatureTracker, common/feature_extractor.py): a bounded window *)
(* of the last flows, seven counters kept beside it so that a feature is   *)
(* one lookup, and for the C2 features the time stamps and destinations of *)
(* each pair of hosts.  update() holds its lock from end to end, awaits    *)
(* nothing inside and is one step.                                         *)
(*                                                                         *)
(* A flow is entered with the time stamp it carries, not with the time of  *)
(* arrival: stamps come out of order, and one may lie in the future.  An   *)
(* event is a step for each extraction path that enters it: two with a C2  *)
(* specialist beside a forest of the 49-feature schema.                    *)
(***************************************************************************)
EXTENDS Integers, Sequences, FiniteSets

CONSTANTS
  Flow,       \* flows: [src, dst, service, dport, sport]
  Time,       \* time stamps events carry
  Decay,      \* values detection.correlation_window may have
  WindowSize, \* maxlen of the window (10000)
  StampMax    \* maxlen of connection_timestamps (10)

ASSUME TimeAssumption == Time \subseteq Int /\ Decay \subseteq Nat
ASSUME WindowAssumption == WindowSize \in Nat \ {0} /\ StampMax \in Nat \ {0}

\* The seven counters; each counts the flows of the window by one key.
Index == {"src", "dst", "src_srv", "dst_srv", "dst_dport", "dst_sport", "src_dst"}
KeyOf(i, f) ==
  IF i = "src" THEN <<f.src>>
  ELSE IF i = "dst" THEN <<f.dst>>
  ELSE IF i = "src_srv" THEN <<f.src, f.service>>
  ELSE IF i = "dst_srv" THEN <<f.dst, f.service>>
  ELSE IF i = "dst_dport" THEN <<f.dst, f.dport>>
  ELSE IF i = "dst_sport" THEN <<f.dst, f.sport>>
  ELSE <<f.src, f.dst>>
Key == UNION {{KeyOf(i, f) : f \in Flow} : i \in Index}

VARIABLES
  window,   \* window: the flows seen last, with their stamps
  index,    \* idx_src ... idx_src_dst; 0 is a key that is not there
  stamps,   \* connection_timestamps
  dsts,     \* src_dst_counts: how often a source has met each destination
  decay     \* the correlation window the last update read

vars == <<window, index, stamps, dsts, decay>>

Entry == [flow : Flow, time : Time]
Pair == {KeyOf("src_dst", f) : f \in Flow}

TypeOK ==
  /\ window \in Seq(Entry) /\ Len(window) <= WindowSize
  /\ index \in [Index -> [Key -> Nat]]
  /\ stamps \in [Pair -> Seq(Time)]
  /\ \A p \in Pair : Len(stamps[p]) <= StampMax
  /\ dsts \in [Pair -> Nat]
  /\ decay \in Decay

Init ==
  /\ window = <<>>
  /\ index = [i \in Index |-> [k \in Key |-> 0]]
  /\ stamps = [p \in Pair |-> <<>>]
  /\ dsts = [p \in Pair |-> 0]
  /\ decay \in Decay
-----------------------------------------------------------------------------
Least(a, b) == IF a <= b THEN a ELSE b
Monus(a, b) == IF a <= b THEN 0 ELSE a - b

\* Mutant: the oldest entry is looked at once, not as long as it is too old.
AgedOnce(now, d) ==
  IF window # <<>> /\ now - Head(window).time > d THEN 1 ELSE 0
\* How many entries update() takes out because they are older than the
\* correlation window: from the oldest on, up to the first that is not.
Aged(now, d) ==
  CHOOSE n \in 0 .. Len(window) :
    /\ \A m \in 1 .. n : now - window[m].time > d
    /\ n < Len(window) => now - window[n + 1].time <= d

\* Mutant: making room is left to the deque, which tells nobody.
EvictedByAge(now, d) == Aged(now, d)
\* A window that is still full loses its oldest entry first.
Evicted(now, d) ==
  IF Aged(now, d) = 0 /\ Len(window) = WindowSize THEN 1 ELSE Aged(now, d)

\* append() to a deque of maxlen m drops the oldest element of a full one.
Push(s, x, m) == IF Len(s) < m THEN Append(s, x) ELSE Append(Tail(s), x)

\* Flows of the window's first n entries that have key k.
Gone(n, i, k) == Cardinality({m \in 1 .. n : KeyOf(i, window[m].flow) = k})

\* remove(t), and popleft() when t is not there (any more).
Without(s, t) ==
  IF \E m \in DOMAIN s : s[m] = t
  THEN LET first == CHOOSE m \in DOMAIN s : s[m] = t /\ \A l \in 1 .. m - 1 : s[l] # t
       IN  SubSeq(s, 1, first - 1) \o SubSeq(s, first + 1, Len(s))
  ELSE IF s = <<>> THEN s ELSE Tail(s)

\* Mutant: on eviction the pair is looked up the wrong way round.
StampsAfterReversed(n, p) ==
  LET after[m \in 0 .. n] ==
        IF m = 0 THEN stamps[p]
        ELSE IF <<window[m].flow.dst, window[m].flow.src>> = p
        THEN Without(after[m - 1], window[m].time)
        ELSE after[m - 1]
  IN  after[n]
\* The stamps of pair p after the first n entries of the window have left.
StampsAfter(n, p) ==
  LET after[m \in 0 .. n] ==
        IF m = 0 THEN stamps[p]
        ELSE IF KeyOf("src_dst", window[m].flow) = p
        THEN Without(after[m - 1], window[m].time)
        ELSE after[m - 1]
  IN  after[n]

\* update(): evict, append, and keep the indices in step.
Update(f, t, d) ==
  LET n == Evicted(t, d)
      pair == KeyOf("src_dst", f)
  IN  /\ decay' = d
      /\ window' = Push(SubSeq(window, n + 1, Len(window)), [flow |-> f, time |-> t],
                         WindowSize)
      /\ index' = [i \in Index |-> [k \in Key |->
                     Monus(index[i][k], Gone(n, i, k)) + (IF KeyOf(i, f) = k THEN 1 ELSE 0)]]
      /\ stamps' = [p \in Pair |-> IF p = pair THEN Push(StampsAfter(n, p), t, StampMax)
                                   ELSE StampsAfter(n, p)]
      /\ dsts' = [p \in Pair |->
                    Monus(dsts[p], Gone(n, "src_dst", p)) + (IF p = pair THEN 1 ELSE 0)]

\* A restart of the consumer begins with an empty tracker.
Restart ==
  /\ window' = <<>>
  /\ index' = [i \in Index |-> [k \in Key |-> 0]]
  /\ stamps' = [p \in Pair |-> <<>>]
  /\ dsts' = [p \in Pair |-> 0]
  /\ UNCHANGED decay

\* get_ct_stats(): what the extraction of a flow reads after its update.
CtStats(f) ==
  [ct_srv_src |-> index["src_srv"][KeyOf("src_srv", f)],
   ct_srv_dst |-> index["dst_srv"][KeyOf("dst_srv", f)],
   ct_dst_ltm |-> index["dst"][KeyOf("dst", f)],
   ct_src_ltm |-> index["src"][KeyOf("src", f)],
   ct_src_dport_ltm |-> index["dst_dport"][KeyOf("dst_dport", f)],
   ct_dst_sport_ltm |-> index["dst_sport"][KeyOf("dst_sport", f)],
   ct_dst_src_ltm |-> index["src_dst"][KeyOf("src_dst", f)]]

\* get_c2_stats(): the mean and the deviation are those of the intervals.
C2Stats(src, dst) ==
  LET ts == stamps[<<src, dst>>]
  IN  [connection_frequency |-> Len(ts),
       repeated_destination_count |-> Cardinality({p \in Pair : p[1] = src /\ dsts[p] > 0}),
       intervals |-> [n \in 1 .. Len(ts) - 1 |-> ts[n + 1] - ts[n]]]

Next ==
  \/ \E f \in Flow, t \in Time, d \in Decay : Update(f, t, d)
  \/ Restart

Spec == Init /\ [][Next]_vars
-----------------------------------------------------------------------------
(***************************************************************************)
(* Properties                                                              *)
(***************************************************************************)
Among(w, i, f) == Cardinality({m \in DOMAIN w : KeyOf(i, w[m].flow) = KeyOf(i, f)})

\* Every ct_* feature of a flow is the number of flows of the window that share
\* its key, and a source's destinations are those of its flows in the window,
\* whatever was evicted by age or by size and in whatever order the stamps came
\* (_update_indices(), get_ct_stats(), get_c2_stats()).
IndexSound ==
  \A f \in Flow :
    /\ CtStats(f) =
         [ct_srv_src |-> Among(window, "src_srv", f), ct_srv_dst |-> Among(window, "dst_srv", f),
          ct_dst_ltm |-> Among(window, "dst", f), ct_src_ltm |-> Among(window, "src", f),
          ct_src_dport_ltm |-> Among(window, "dst_dport", f),
          ct_dst_sport_ltm |-> Among(window, "dst_sport", f),
          ct_dst_src_ltm |-> Among(window, "src_dst", f)]
    /\ C2Stats(f.src, f.dst).repeated_destination_count =
         Cardinality({window[m].flow.dst : m \in {l \in DOMAIN window : window[l].flow.src = f.src}})

Times(s, t) == Cardinality({m \in DOMAIN s : s[m] = t})
Held(p, t) == Cardinality({m \in DOMAIN window :
                 KeyOf("src_dst", window[m].flow) = p /\ window[m].time = t})

\* A stamp kept for a pair of hosts belongs to a flow that is still in the
\* window: no beacon interval is measured from a connection that has been
\* evicted, not even after the deque of ten has overflowed (get_c2_stats()).
NoGhostStamps == \A p \in Pair, t \in Time : Times(stamps[p], t) <= Held(p, t)

\* As long as the stamps come in order, an update leaves nothing in the window
\* that is older than the correlation window (update()).
Ordered(w) == \A m \in 2 .. Len(w) : w[m - 1].time <= w[m].time
RecentWhenOrdered ==
  [][Ordered(window) /\ Ordered(window') =>
       \A m \in DOMAIN window' :
         window'[Len(window')].time - window'[m].time <= decay']_window
=============================================================================
