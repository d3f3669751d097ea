------------------------------ MODULE Answers -------------------------------
(***************************************************************************)
(* What the machine-facing verbs say of one fleet: the verdict the         *)
(* collector computes (service/metrics/encode/status.rs), `status` with    *)
(* its filters (ops/status.rs), `explain` (ops/explain/), `doctor`         *)
(* (ops/doctor/) and the poll loop of `wait` (ops/wait.rs).                *)
(*                                                                         *)
(* The collector's snapshot is a local liveness and a GitHub reading per   *)
(* runner, and the age of the last good reconcile per org; the fleet and   *)
(* the collector change between two polls.                                 *)
(***************************************************************************)
EXTENDS Naturals, FiniteSets

CONSTANTS Runners,       \* install dirs
          Org,           \* Org[r] is the login runner r is registered with
          MaxAge,        \* intervals.api_max_age, in steps of an org's age
          Faults,        \* why a query may not reach the collector
          Deadline       \* polls until `wait --timeout` is over

Reasons  == {"NoCollector", "VersionDrift", "Denied", "Unusable", "QueryFailed"}

Orgs     == {Org[r] : r \in Runners}
Liveness == {"up", "offline"}               \* idle and busy are both "up"
GhView   == {"online", "offline", "none"}   \* "none": no fresh reading
Never    == MaxAge + 2                       \* no reconcile yet: no age
Ages     == (0 .. MaxAge + 1) \cup {Never}    \* MaxAge + 1 is every stale age
Progress == {"Held", "NotYet", "Blind", "Unanswerable"}

VARIABLES
  present,  \* runners discovered on this host
  live,     \* their liveness
  gh,       \* GitHub's view of each, as the collector last read it
  age,      \* age of the last successful reconcile of each org
  reach,     \* "up", or why a query does not reach the collector
  wait      \* the `wait` process: scope, polls so far, last progress, outcome

vars == <<present, live, gh, age, reach, wait>>

-----------------------------------------------------------------------------
(* The rows of a snapshot and what is said of them. *)

\* Locally healthy while GitHub says it cannot take work; "none" if unknown.
Divergent(row) == IF row.live = "offline" THEN "no"
                  ELSE CASE row.gh = "offline" -> "yes"
                         [] row.gh = "online"  -> "no"
                         [] OTHER              -> "none"

\* The rows the collector answers with, and those of a local scan.
Collected  == [r \in present |-> [live |-> live[r], gh |-> gh[r]]]
LocalScan  == [r \in present |-> [live |-> live[r], gh |-> "none"]]
Snapshot   == IF reach = "up" THEN Collected ELSE LocalScan

DivergentOf(rows) == {r \in DOMAIN rows : Divergent(rows[r]) = "yes"}
OfflineOf(rows)   == {r \in DOMAIN rows : rows[r].live = "offline"}
OrgsOf(rs)        == {Org[r] : r \in rs}

\* Nothing matched is not health.
Verdict(rows) == IF DOMAIN rows = {} THEN "unknown"
                 ELSE IF DivergentOf(rows) \cup OfflineOf(rows) # {} THEN "degraded"
                 ELSE "ok"

\* An org's own verdict counts only its fresh readings.
OrgVerdict(rows, o) ==
  LET known == {r \in DOMAIN rows : Org[r] = o /\ rows[r].gh # "none"}
  IN  IF known = {} THEN "unknown"
      ELSE IF \E r \in known : rows[r].gh = "offline" THEN "degraded" ELSE "ok"

\* `status --org o`.
Scoped(rows, o) == [r \in {x \in DOMAIN rows : Org[x] = o} |-> rows[r]]

ExitCode(verdict) == CASE verdict = "ok" -> 0 [] verdict = "degraded" -> 1
                       [] OTHER -> 2

-----------------------------------------------------------------------------
(* The exposition of the same snapshot: what a scrape gets (to_prometheus)  *)
(* and what is pushed (to_json). A series that is not there is left out.    *)

Counts(rows) == [offline |-> Cardinality(OfflineOf(rows)),
                 divergent |-> Cardinality(DivergentOf(rows))]

OrgCounts(rows, o) ==
  [total  |-> Cardinality(DOMAIN Scoped(rows, o)),
   online |-> Cardinality({r \in DOMAIN Scoped(rows, o) : rows[r].gh = "online"})]

\* What is known of something: no sample otherwise, which is not a 0.
Known(x) == {x} \ {"none"}

\* A runner's series in a scrape.
Series(row) ==
  {<<"up", row.live>>}
    \cup {<<"github_online", g>> : g \in Known(row.gh)}
    \cup {<<"divergent", d>> : d \in Known(Divergent(row))}

\* ghr_api_reconcile_timestamp_seconds, which is never sent as 0.
ReconcileAge(o) == {age[o]} \ {Never}

\* A pushed runner record has every field, null for what is not known.
Record(row) == [up |-> row.live, github_online |-> row.gh, divergent |-> Divergent(row)]

Pushed(rows) == [verdict |-> Verdict(rows), fleet |-> Counts(rows),
                 runners |-> [r \in DOMAIN rows |-> Record(rows[r])]]

-----------------------------------------------------------------------------
(* explain: findings about rows, and about what the snapshot lacks. *)

\* The orgs a snapshot lists; a local scan lists none.
ListedOrgs   == IF reach = "up" THEN OrgsOf(present) ELSE {}
Reconciled   == {o \in ListedOrgs : age[o] # Never}

Stale(rows)  == {r \in DOMAIN rows : rows[r].gh = "none" /\ Org[r] \in Reconciled}
NeverAsked   == ListedOrgs \ Reconciled

Affected(rows) == OrgsOf(DivergentOf(rows))
Readable(rows) == OrgsOf({r \in DOMAIN rows : rows[r].gh # "none"})

\* The egress is to blame when every org seen through it is affected.
Boundary(rows) ==
  IF Affected(rows) = Readable(rows) /\ Cardinality(Readable(rows)) > 1
  THEN "network" ELSE "github"

\* What github-divergence calls "peer orgs on this host still online".
PeersOnline(rows) == Readable(rows) \ Affected(rows)

UnavailableBoundary(reason) ==
  IF reason \in {"NoCollector", "VersionDrift"} THEN "config" ELSE "local"

If(cond, id, boundary) == IF cond THEN {<<id, boundary>>} ELSE {}

Findings(rows) ==
  If(DivergentOf(rows) # {}, "github-divergence", Boundary(rows))
  \cup If(OfflineOf(rows) # {}, "runners-offline-locally", "local")
  \cup If(Stale(rows) # {}, "github-view-stale", "github")
  \cup If(reach # "up", "github-view-unavailable", UnavailableBoundary(reach))
  \cup If(NeverAsked # {}, "org-never-reconciled", "config")

-----------------------------------------------------------------------------
(* doctor: the checks that read the collector's answer. *)

StaleReconcile == {o \in Reconciled : age[o] > MaxAge}

CollectorChecks ==
  CASE reach = "up"          -> {"pass", IF StaleReconcile = {} THEN "pass" ELSE "fail"}
    [] reach = "QueryFailed" -> {"pass", "fail", "skipped"}
    [] OTHER                -> {"fail", "skipped"}

\* checks: the outcomes of the host's own checks.
DoctorVerdict(checks) ==
  LET all == checks \cup CollectorChecks
  IN  IF "fail" \in all THEN "degraded" ELSE IF "skipped" \in all THEN "unknown" ELSE "ok"

-----------------------------------------------------------------------------
(* wait. *)

\* Mutant: a runner without a reading does not hold the wait up.
Evaluate_UnknownIsOnline(o) ==
  LET scope == DOMAIN Scoped(Snapshot, o)
  IN  IF reach # "up" \/ scope = {} THEN "Unanswerable"
      ELSE IF \A r \in scope : gh[r] # "offline" THEN "Held" ELSE "NotYet"

Evaluate(o) ==
  LET scope == DOMAIN Scoped(Snapshot, o)
  IN  IF reach # "up" \/ scope = {} THEN "Unanswerable"
      ELSE IF \A r \in scope : gh[r] = "online" THEN "Held"
      ELSE IF \E r \in scope : gh[r] = "offline" THEN "NotYet"
      ELSE "Blind"

\* The first poll may give up at once; a later one waits for the deadline.
Outcome(p, polls) ==
  CASE p = "Held" -> "Held"
    [] p = "Unanswerable" /\ polls = 0 -> "Undetermined"
    [] p # "Held" /\ polls >= Deadline -> IF p \in {"Blind", "Unanswerable"}
                                           THEN "Undetermined" ELSE "TimedOut"
    [] OTHER -> "none"

Poll ==
  /\ wait.outcome = "none"
  /\ LET p == Evaluate(wait.org)
     IN  wait' = [wait EXCEPT !.polls = @ + 1, !.last = p, !.outcome = Outcome(p, wait.polls)]
  /\ UNCHANGED <<present, live, gh, age, reach>>

-----------------------------------------------------------------------------
(* The fleet and its collector, between two polls. *)

\* A local tick sees another liveness, or a runner added or gone.
LocalTick(r) ==
  /\ wait.outcome = "none"
  /\ \/ r \in present /\ \E l \in Liveness \ {live[r]} : live' = [live EXCEPT ![r] = l]
                      /\ UNCHANGED present
     \/ present' = (present \ {r}) \cup ({r} \ present) /\ UNCHANGED live
  /\ UNCHANGED <<gh, age, reach, wait>>

\* A reconcile that got through: a fresh reading of each runner GitHub lists.
Reconcile(o) ==
  /\ wait.outcome = "none"
  /\ age' = [age EXCEPT ![o] = 0]
  /\ \E seen \in [{r \in Runners : Org[r] = o} -> GhView] :
       gh' = [r \in Runners |-> IF Org[r] = o THEN seen[r] ELSE gh[r]]
  /\ UNCHANGED <<present, live, reach, wait>>

\* An org's reconcile fails: its readings age, and expire with it.
Aged(o) ==
  /\ wait.outcome = "none"
  /\ age[o] # Never /\ age[o] <= MaxAge
  /\ age' = [age EXCEPT ![o] = @ + 1]
  /\ gh' = [r \in Runners |-> IF Org[r] = o /\ age[o] = MaxAge THEN "none" ELSE gh[r]]
  /\ UNCHANGED <<present, live, reach, wait>>

\* The collector stops answering, or comes back.
Relink ==
  /\ wait.outcome = "none"
  /\ reach' \in {"up"} \cup Faults /\ reach' # reach
  /\ UNCHANGED <<present, live, gh, age, wait>>

Init ==
  /\ present \in SUBSET Runners
  /\ live = [r \in Runners |-> "up"]
  /\ gh = [r \in Runners |-> "none"] /\ age = [o \in Orgs |-> Never]
  /\ reach = "up"
  /\ \E o \in Orgs : wait = [org |-> o, polls |-> 0, last |-> "none", outcome |-> "none"]

Next ==
  \/ \E r \in Runners : LocalTick(r)
  \/ \E o \in Orgs : Reconcile(o) \/ Aged(o)
  \/ Relink
  \/ Poll

Spec == Init /\ [][Next]_vars

-----------------------------------------------------------------------------
(* Properties. *)

\* Every variable has its type, and `wait` polls once past its deadline at most.
TypeOK ==
  /\ present \subseteq Runners /\ live \in [Runners -> Liveness]
  /\ gh \in [Runners -> GhView] /\ age \in [Orgs -> Ages]
  /\ reach \in {"up"} \cup Faults
  /\ wait \in [org : Orgs, polls : 0 .. Deadline + 1, last : Progress \cup {"none"},
              outcome : {"none", "Held", "TimedOut", "Undetermined"}]

\* explain says nothing only when there is nothing to say: every runner is up
\* here and online to GitHub ("silence never reads as all-clear", gaps.rs).
SilenceIsAllClear ==
  Findings(Snapshot) = {} =>
    reach = "up" /\ \A r \in present : live[r] = "up" /\ gh[r] = "online"

\* The verbs do not contradict each other: `status` exits 1 exactly when
\* `explain` names a fault, and when some org's own `status --org` does; what
\* `doctor` calls a stale reconcile, `explain` reports as a stale view.
AnswersAgree ==
  LET faults == {f \in Findings(Snapshot) :
                   f[1] \in {"github-divergence", "runners-offline-locally"}}
  IN  /\ ExitCode(Verdict(Snapshot)) = 1 <=> faults # {}
      /\ ExitCode(Verdict(Snapshot)) = 2 <=> present = {}
      /\ ExitCode(Verdict(Snapshot)) = 1
           <=> \E o \in Orgs : Verdict(Scoped(Snapshot, o)) = "degraded"
      /\ StaleReconcile # {} => <<"github-view-stale", "github">> \in Findings(Snapshot)
      /\ DoctorVerdict({"pass"}) = "ok" =>
           \A o \in ListedOrgs : OrgVerdict(Snapshot, o) # "unknown"
                                  \/ o \in NeverAsked
                                  \/ <<"github-view-stale", "github">> \in Findings(Snapshot)

\* `wait` exits 0 only when GitHub sees every runner of its scope online, 1
\* only when it sees one offline, and 2 when it could not tell.
WaitHonest ==
  LET scope == DOMAIN Scoped(Snapshot, wait.org)
  IN  /\ wait.outcome = "Held" =>
           /\ reach = "up" /\ scope # {} /\ \A r \in scope : gh[r] = "online"
           /\ OrgVerdict(Snapshot, wait.org) = "ok"
      /\ wait.outcome = "TimedOut" => reach = "up" /\ \E r \in scope : gh[r] = "offline"
      /\ wait.outcome = "Undetermined" =>
           /\ reach # "up" \/ \A r \in scope : gh[r] # "offline"
           /\ wait.polls = Deadline + 1 \/ wait.polls = 1

\* "`status`, /metrics and push never disagree" (ipc_server/dispatch.rs:102): an
\* alert on the fleet's gauges, one on the runners' series and the pushed verdict
\* fire together with `status`; a reading GitHub never gave fires none; an org
\* whose runners are all online by its gauges is one `status` calls healthy, and
\* one whose timestamp is too old has no series of GitHub's view.
ExpositionAgrees ==
  LET rows == Collected
      alert(r) == Series(rows[r]) \cap {<<"up", "offline">>, <<"divergent", "yes">>} # {}
  IN  /\ Verdict(rows) = "degraded" <=> \E r \in DOMAIN rows : alert(r)
      /\ Verdict(rows) = "degraded" <=> \E n \in {"offline", "divergent"} : Counts(rows)[n] > 0
      /\ Pushed(rows).verdict = "degraded" <=>
           \E r \in DOMAIN rows : \/ Pushed(rows).runners[r].up = "offline"
                                    \/ Pushed(rows).runners[r].divergent = "yes"
      /\ \A r \in DOMAIN rows :
           <<"github_online", "offline">> \in Series(rows[r]) => gh[r] = "offline"
      /\ \A o \in OrgsOf(DOMAIN rows) :
           /\ OrgCounts(rows, o).online = OrgCounts(rows, o).total
                => OrgVerdict(rows, o) = "ok"
           /\ (\E a \in ReconcileAge(o) : a > MaxAge) \/ ReconcileAge(o) = {}
                => \A r \in DOMAIN Scoped(rows, o) : Pushed(rows).runners[r].github_online = "none"

\* Violated: github-divergence lists as "still online" (faults.rs:72) a peer org
\* whose runners GitHub sees offline, when they are down on this host too.
PeersAreOnline ==
  Affected(Snapshot) # {} =>
    \A o \in PeersOnline(Snapshot) : \E r \in present : Org[r] = o /\ gh[r] = "online"
=============================================================================
