--------------------------- MODULE FleetSnapshot ----------------------------
(***************************************************************************)
(* Snapshot::gather (service/metrics/encode/mod.rs) against a store that   *)
(* is being written: the tables are read one after the other on their own  *)
(* connection, each read its own transaction.                              *)
(***************************************************************************)
EXTENDS FleetStore

VARIABLE snap  \* the scrape in progress; stage is the number of reads done

snapVars == <<storeVars, snap>>

NoSnap == [stage |-> 0, at |-> 0, tick |-> None, latest |-> {}, api |-> {},
           states |-> [r \in Runners |-> None], apiEdges |-> [r \in Runners |-> None]]

Init == StoreInit /\ snap = NoSnap

\* latest_runners: the newest tick's time, and then that tick's rows.
ReadTick ==
  /\ snap.stage = 0
  /\ snap' = [NoSnap EXCEPT !.stage = 1, !.at = now,
                !.tick = IF samples["local"] = {} THEN None
                         ELSE Max({x.ts : x \in samples["local"]})]

ReadLatest ==
  /\ snap.stage = 1
  /\ snap' = [snap EXCEPT !.stage = 2,
                          !.latest = {x \in samples["local"] : x.ts = snap.tick}]

\* runner_states.
ReadStates ==
  /\ snap.stage = 2
  /\ snap' = [snap EXCEPT !.stage = 3, !.states = edges["local"]]

\* latest_api_runners, as the n-th read: each runner's newest reading.
ReadApi(n) ==
  /\ snap.stage = n - 1
  /\ snap' = [snap EXCEPT !.stage = n,
                !.api = {x \in samples["api"] :
                           \A y \in samples["api"] : y.runner = x.runner => y.ts <= x.ts}]

\* api_runner_states, as the n-th read; the reads after it do not bear on the
\* runners.
ReadApiEdges(n) ==
  /\ snap.stage = n - 1
  /\ snap' = [snap EXCEPT !.stage = n, !.apiEdges = edges["api"]]

\* The snapshot is rendered; the next scrape starts over.
Served == snap.stage = 5 /\ snap' = NoSnap

\* Mutant of Gather: the edges are read before the samples.
Gather_EdgesFirst ==
  /\ ReadTick \/ ReadLatest \/ ReadStates \/ ReadApiEdges(4) \/ ReadApi(5) \/ Served
  /\ UNCHANGED storeVars

Gather ==
  /\ ReadTick \/ ReadLatest \/ ReadStates \/ ReadApi(4) \/ ReadApiEdges(5) \/ Served
  /\ UNCHANGED storeVars

Next == (StoreNext /\ UNCHANGED snap) \/ Gather

Spec == Init /\ [][Next]_snapVars

-----------------------------------------------------------------------------
Complete == snap.stage = 5

\* GhView::observed: a reading not older than MaxAge when the gather began.
Fresh(x) == snap.at <= x.ts + MaxAge

\* "A scrape never sees samples without their edge" (writer/github.rs): every
\* reading in a snapshot comes with an edge at least as new.
NoSampleWithoutEdge ==
  Complete =>
    /\ \A x \in snap.latest : snap.states[x.runner] # None
                                /\ snap.states[x.runner].seen >= x.ts
    /\ \A x \in snap.api : snap.apiEdges[x.runner] # None
                             /\ snap.apiEdges[x.runner].seen >= x.ts

\* encode/mod.rs:28: gh_offline_seconds is "`None` when online or no edge yet":
\* a runner shown online by a fresh reading has no offline duration.
OfflineSecondsOnlyWhenOffline ==
  Complete =>
    \A x \in snap.api :
      Fresh(x) /\ x.value = "up" => snap.apiEdges[x.runner].value = "up"
=============================================================================
