----------------------------- MODULE FleetStore -----------------------------
(***************************************************************************)
(* The runner samples and their edges.  Two producers stamp a reading of   *)
(* every runner they can see and send it over the bounded channel; the     *)
(* writer inserts the samples and upserts, in the same transaction, each   *)
(* runner's edge (its value and since when); the pruner deletes samples    *)
(* past the retention and leaves the edges (service/serve, store/writer).  *)
(* Feed "local" is the process sampler (runner_sample, runner_state), feed *)
(* "api" the GitHub reconcile of one org (api_runner_sample,               *)
(* api_runner_state, api_reconcile_state).                                 *)
(***************************************************************************)
EXTENDS Naturals, Sequences, FiniteSetsExt

CONSTANTS Runners,
          ChannelBound,   \* CHANNEL_BOUND
          Retention,      \* retention_days, in clock ticks
          MaxAge,         \* api_max_age, in clock ticks
          Batch,          \* Pruner::BATCH
          None,           \* no message, no row
          MaxTime         \* bound: the clock stops there

ASSUME StoreAssumption ==
  /\ ChannelBound \in Nat \ {0} /\ Batch \in Nat \ {0} /\ MaxTime \in Nat
  /\ MaxAge \in Nat /\ Retention \in Nat
  /\ MaxAge <= Retention  \* a day at least, against 180 s unless configured

Feeds == {"local", "api"}

\* Online or not; a local liveness of busy or idle counts as up.
Values == {"up", "down"}

Outcomes == {"ok", "failed", "unconfigured"}

VARIABLES
  now,       \* the wall clock
  stamped,   \* stamped[f]: the time of feed f's last tick
  pending,   \* pending[f]: the message f's thread is sending, or None
  channel,   \* the bounded channel
  samples,   \* samples[f]: the rows of the sample table
  edges,     \* edges[f][r]: the row of the state table, or None
  health,    \* api_reconcile_state of the org, or None
  everRead,  \* history: samples without the pruning
  everTried  \* history: the org's committed outcomes

feeds == <<stamped, pending>>
tables == <<samples, edges, health>>
history == <<everRead, everTried>>
storeVars == <<now, feeds, channel, tables, history>>

Times == 0..MaxTime
Rows == [ts : Times, runner : Runners, value : Values]
Edges == [value : Values, since : Times, seen : Times]
Healths == [lastOk : Times \cup {None}, lastTry : Times, ok : BOOLEAN, configured : BOOLEAN]
Messages == [feed : Feeds, ts : Times, rows : SUBSET Rows, outcome : Outcomes]

ASSUME NoneAssumption == None \notin Times \cup Edges \cup Healths \cup Messages

-----------------------------------------------------------------------------
StoreInit == /\ now = 0
             /\ stamped = [f \in Feeds |-> 0]
             /\ pending = [f \in Feeds |-> None]
             /\ channel = <<>>
             /\ samples = [f \in Feeds |-> {}]
             /\ edges = [f \in Feeds |-> [r \in Runners |-> None]]
             /\ health = None
             /\ everRead = [f \in Feeds |-> {}]
             /\ everTried = {}

Clock == /\ now < MaxTime
         /\ now' = now + 1
         /\ UNCHANGED <<feeds, channel, tables, history>>

\* One reading, taken now, of the runners feed f can see.
Readings == {rows \in SUBSET [ts : {now}, runner : Runners, value : Values] :
               \A x, y \in rows : x.runner = y.runner => x = y}

\* A tick of local_loop or api_loop: the time is taken first, then the
\* readings.  Ticks are a second apart at least, across restarts too
\* (RestartSec).  Only the API's readings can fail as a whole.
Tick(f, rows, outcome) ==
  /\ pending[f] = None
  /\ now > stamped[f]
  /\ f = "local" => outcome = "ok"
  /\ outcome # "ok" => rows = {}
  /\ stamped' = [stamped EXCEPT ![f] = now]
  /\ pending' = [pending EXCEPT ![f] =
                   [feed |-> f, ts |-> now, rows |-> rows, outcome |-> outcome]]
  /\ UNCHANGED <<now, channel, tables, history>>

Send(f) ==
  /\ pending[f] # None
  /\ Len(channel) < ChannelBound
  /\ channel' = Append(channel, pending[f])
  /\ pending' = [pending EXCEPT ![f] = None]
  /\ UNCHANGED <<now, stamped, tables, history>>

\* Mutant of EdgeAfter: every reading restarts the duration.
EdgeAfter_AlwaysMoves(old, x) == [value |-> x.value, since |-> x.ts, seen |-> x.ts]

\* The edge upsert: since_ts moves only when the value changes.
EdgeAfter(old, x) ==
  [value |-> x.value,
   since |-> IF old # None /\ old.value = x.value THEN old.since ELSE x.ts,
   seen |-> x.ts]

\* Mutant of HealthAfter: without the COALESCE.
HealthAfter_Forgets(old, m) ==
  [lastOk |-> IF m.outcome = "ok" THEN m.ts ELSE None,
   lastTry |-> m.ts, ok |-> m.outcome = "ok", configured |-> m.outcome # "unconfigured"]

\* The health upsert: a failing tick keeps the time of the last success.
HealthAfter(old, m) ==
  [lastOk |-> IF m.outcome = "ok" THEN m.ts
              ELSE IF old = None THEN None ELSE old.lastOk,
   lastTry |-> m.ts, ok |-> m.outcome = "ok", configured |-> m.outcome # "unconfigured"]

\* write_local and write_api_runners: one transaction.
Write ==
  /\ channel # <<>>
  /\ LET m == Head(channel)
         read(r) == {x \in m.rows : x.runner = r}
     IN  /\ samples' = [samples EXCEPT ![m.feed] = @ \cup m.rows]
         /\ edges' = [edges EXCEPT ![m.feed] =
              [r \in Runners |-> IF read(r) = {} THEN @[r]
                                 ELSE EdgeAfter(@[r], CHOOSE x \in read(r) : TRUE)]]
         /\ health' = IF m.feed = "api" THEN HealthAfter(health, m) ELSE health
         /\ everRead' = [everRead EXCEPT ![m.feed] = @ \cup m.rows]
         /\ everTried' = everTried \cup
              IF m.feed = "api" THEN {[ts |-> m.ts, ok |-> m.outcome = "ok"]} ELSE {}
  /\ channel' = Tail(channel)
  /\ UNCHANGED <<now, feeds>>

\* The transaction fails; the message is logged and forgotten.
WriteFails ==
  /\ channel # <<>>
  /\ channel' = Tail(channel)
  /\ UNCHANGED <<now, feeds, tables, history>>

\* Mutant of Expired: the row at the cutoff goes too.
Expired_AtCutoff(f) == {x \in samples[f] : x.ts + Retention <= now}

\* The rows past the cutoff.
Expired(f) == {x \in samples[f] : x.ts + Retention < now}

\* prune_batch: at most Batch rows of each table, in no particular order.
\* When the pruner is due is left open.
Prune ==
  \E gone \in [Feeds -> SUBSET UNION {samples[f] : f \in Feeds}] :
    /\ \A f \in Feeds : /\ gone[f] \subseteq Expired(f)
                        /\ Cardinality(gone[f]) = Min({Batch, Cardinality(Expired(f))})
    /\ \E f \in Feeds : gone[f] # {}
    /\ samples' = [f \in Feeds |-> samples[f] \ gone[f]]
    /\ UNCHANGED <<now, feeds, channel, edges, health, history>>

\* The collector dies and is started again.
Crash == /\ channel' = <<>>
         /\ pending' = [f \in Feeds |-> None]
         /\ UNCHANGED <<now, stamped, tables, history>>

StoreNext ==
  \/ Clock \/ Write \/ WriteFails \/ Prune \/ Crash
  \/ \E f \in Feeds : Send(f)
  \/ \E f \in Feeds, rows \in Readings, outcome \in Outcomes : Tick(f, rows, outcome)

StoreSpec == StoreInit /\ [][StoreNext]_storeVars

-----------------------------------------------------------------------------
TypeOK ==
  /\ now \in Times /\ stamped \in [Feeds -> Times]
  /\ pending \in [Feeds -> Messages \cup {None}]
  /\ channel \in Seq(Messages) /\ Len(channel) <= ChannelBound
  /\ samples \in [Feeds -> SUBSET Rows] /\ everRead \in [Feeds -> SUBSET Rows]
  /\ edges \in [Feeds -> [Runners -> Edges \cup {None}]]
  /\ health \in Healths \cup {None}
  /\ everTried \subseteq [ts : Times, ok : BOOLEAN]

\* An edge says since when a runner has had its value without interruption,
\* over all the readings ever stored: across ticks that failed or did not list
\* the runner, restarts, and the deletion of the samples it came from.
EdgesTrackReadings ==
  \A f \in Feeds, r \in Runners :
    LET read == {x \in everRead[f] : x.runner = r}
        edge == edges[f][r]
    IN  IF read = {} THEN edge = None
        ELSE /\ edge # None
             /\ edge.seen = Max({x.ts : x \in read})
             /\ \E x \in read : x.ts = edge.since
             /\ \A x \in read : x.ts >= edge.since => x.value = edge.value
             /\ LET before == {x \in read : x.ts < edge.since} IN
                \A x \in before : (\A y \in before : y.ts <= x.ts) => x.value # edge.value

\* The org's health remembers the last success through any run of failures,
\* and is ok exactly when the last try was one.
HealthRemembersSuccess ==
  LET oks == {x.ts : x \in {y \in everTried : y.ok}} IN
  IF everTried = {} THEN health = None
  ELSE /\ health.lastOk = IF oks = {} THEN None ELSE Max(oks)
       /\ health.lastTry = Max({x.ts : x \in everTried})
       /\ health.ok <=> health.lastOk = health.lastTry

\* Pruning never takes a reading a consumer would still count as current.
FreshReadingsKept ==
  \A f \in Feeds : \A x \in everRead[f] : now - x.ts <= MaxAge => x \in samples[f]
=============================================================================
