------------------------------ MODULE Timeline ------------------------------
(***************************************************************************)
(* What the collector answers to a timeline query                          *)
(* (service/store/reader/timeline).  A stream is what one LAG partition    *)
(* reads: a runner's liveness, GitHub's view of it, or an org's reconcile  *)
(* outcomes; a reading has a time and a value.                             *)
(***************************************************************************)
EXTENDS Integers, FiniteSetsExt

CONSTANTS Streams,
          Limit      \* the query's limit: POLL_LIMIT, for tail

ASSUME LimitAssumption == Limit \in Nat \ {0}

\* The newest n rows; rows of the same time are cut anywhere.
Newest(rows, n) ==
  {kept \in SUBSET rows :
     /\ Cardinality(kept) = Min({n, Cardinality(rows)})
     /\ \A x \in kept, y \in rows \ kept : x.ts >= y.ts}

\* p is the reading before c.
Precedes(p, c, readings) ==
  p.ts < c.ts /\ \A x \in readings : x.ts <= p.ts \/ x.ts >= c.ts

\* Mutant of Edges: the first reading of a window counts as a change.
Edges_BaselineCounts(readings, since) ==
  LET window == {x \in readings : x.ts >= since} IN
  {c \in window : \A p \in window : Precedes(p, c, window) => p.value # c.value}

\* The LAG-derived edges of one stream: LAG only sees the window, so its first
\* reading is a baseline.
Edges(readings, since) ==
  LET window == {x \in readings : x.ts >= since} IN
  {c \in window : \E p \in window : Precedes(p, c, window) /\ p.value # c.value}

\* Mutant of Probe: a full answer and a cut one look the same.
Probe_AtLimit == Limit

\* The rows asked of each stream: one over the limit shows that it cut.
Probe == Limit + 1

\* The readings of one stream.
Of(s, readings) == {x \in readings : x.stream = s}

\* What the probes may give of the transitions of all streams.  The code probes
\* its three queries, each over many streams; of the newest Limit, and of
\* whether there are more, that is the same.
Transitions(readings, since) ==
  {UNION {probed[s] : s \in Streams} :
     probed \in {f \in [Streams -> SUBSET readings] :
                  \A s \in Streams : f[s] \in Newest(Edges(Of(s, readings), since), Probe)}}

\* Job edges carry their own times.
JobEdges(jobs, since) == Newest({x \in jobs : x.ts >= since}, Probe)

\* Bounded::newest: some rows and whether the limit dropped others.
Bounded(rows) ==
  [items : Newest(rows, Limit), limited : {Cardinality(rows) > Limit}]
=============================================================================
