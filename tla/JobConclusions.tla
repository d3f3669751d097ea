--------------------------- MODULE JobConclusions ---------------------------
(***************************************************************************)
(* The conclusions of finished jobs: the api thread reads which rows still *)
(* lack one, looks run attempts up at GitHub one by one, and sends what it *)
(* could match to the writer (serve/github.rs, store/{reader,writer}/jobs).*)
(*                                                                         *)
(* A leg is one job of a run attempt as GitHub knows it: job is the id the *)
(* hook reports, name its display name, legOf the id of the matrix it is a *)
(* leg of ("<id> (...)"). Rows are keyed by what the hook knows, so legs   *)
(* of one matrix on one runner share a row.                                *)
(***************************************************************************)
EXTENDS Integers, FiniteSets, Sequences, FiniteSetsExt

CONSTANTS Legs,      \* [attempt, org, job, runner, name, legOf]
          Before,    \* those that ended before the hooks' logs were read
          Tokenless, \* the orgs without a token
          NoActions, \* the orgs whose token cannot read Actions
          Window,    \* CONCLUSION_WINDOW_S
          Limit,     \* PENDING_LIMIT
          Lookups,   \* RUN_LOOKUPS_PER_CYCLE
          Bound,     \* CHANNEL_BOUND
          None,
          MaxTime,   \* bound: the clock
          MaxFaults  \* bound: failed look-ups and writes, and crashes

\* A display name is no other job's id, and no other job's matrix leg: the match
\* by name (serve/github.rs:193) would take it for one.
ASSUME NamesAssumption ==
  \A l, o \in Legs : /\ l.attempt = o.attempt /\ l.runner = o.runner
                     /\ o.name = l.job \/ o.legOf = l.job
                     => o.job = l.job

ASSUME JobsAssumption ==
  /\ IsFiniteSet(Legs) /\ None \notin Legs
  /\ Before \subseteq Legs /\ Window \in Nat /\ Bound \in Nat
  /\ MaxTime \in Nat \ {0} /\ MaxFaults \in Nat

VARIABLES phase,     \* leg -> waiting for a runner, running there, or concluded
          completed, \* row -> when a job of it completed, 0: none recorded
          recorded,  \* the legs whose completed event is in the database
          conclusion,\* row -> the leg whose conclusion it shows, or None
          worker,    \* the api thread: the attempts it still has to look up
          channel,   \* updates on their way to the writer
          now, faults

vars == <<phase, completed, recorded, conclusion, worker, channel, now, faults>>

KeyOf(l) == [attempt |-> l.attempt, job |-> l.job, runner |-> l.runner]
Keys == {KeyOf(l) : l \in Legs}
OrgOf(attempt) == (CHOOSE l \in Legs : l.attempt = attempt).org
Updates == [Keys -> Legs \cup {None}]
NoUpdates == [k \in Keys |-> None]
Resting == [at |-> "rest", todo |-> {}, pending |-> {}, denied |-> {}, updates |-> NoUpdates]

TypeOK ==
  /\ phase \in [Legs -> {"waiting", "running", "concluded"}]
  /\ completed \in [Keys -> 0 .. MaxTime]
  /\ recorded \in SUBSET Legs
  /\ conclusion \in Updates
  /\ worker \in [at : {"rest", "look", "send"}, todo : SUBSET {l.attempt : l \in Legs},
                 pending : SUBSET Keys, denied : SUBSET {l.org : l \in Legs}, updates : Updates]
  /\ channel \in Seq(Updates) /\ Len(channel) <= Bound
  /\ now \in 1 .. MaxTime /\ faults \in 0 .. MaxFaults

Init ==
  /\ phase = [l \in Legs |-> IF l \in Before THEN "concluded" ELSE "waiting"]
  /\ completed = [k \in Keys |-> 0]
  /\ recorded = {}
  /\ conclusion = NoUpdates
  /\ worker = Resting
  /\ channel = <<>>
  /\ now = 1 /\ faults = 0

-----------------------------------------------------------------------------
\* GitHub assigns a job to its runner, where it ends.
Assign(l) ==
  /\ phase[l] = "waiting"
  /\ phase' = [phase EXCEPT ![l] = "running"]
  /\ UNCHANGED <<completed, recorded, conclusion, worker, channel, now, faults>>

Conclude(l) ==
  /\ phase[l] = "running"
  /\ phase' = [phase EXCEPT ![l] = "concluded"]
  /\ UNCHANGED <<completed, recorded, conclusion, worker, channel, now, faults>>

\* apply_hook_events of a completed event, which runs before GitHub concludes
\* the job and may be ingested long after; the conclusion column is not touched.
Record(l) ==
  /\ phase[l] # "waiting" /\ l \notin recorded
  /\ recorded' = recorded \cup {l}
  /\ completed' = [completed EXCEPT ![KeyOf(l)] = now]
  /\ UNCHANGED <<phase, conclusion, worker, channel, now, faults>>

-----------------------------------------------------------------------------
\* Mutant of Awaiting: the window's edge is not taken in.
Awaiting_OffByOne(k) ==
  completed[k] > 0 /\ completed[k] > now - Window /\ conclusion[k] = None

\* jobs_awaiting_conclusion: the oldest rows of the window without a conclusion.
Awaiting(k) ==
  completed[k] > 0 /\ completed[k] >= now - Window /\ conclusion[k] = None

Oldest(sets, n) ==
  {s \in sets : /\ Cardinality(s) = IF Cardinality(UNION sets) < n THEN Cardinality(UNION sets) ELSE n
                /\ \A k \in s, o \in UNION sets \ s : completed[k] <= completed[o]}

\* The attempts of pending rows, each as old as its oldest row, and the first
\* Lookups of them. Those that will be skipped are counted too.
Attempts(pending) == {k.attempt : k \in pending}
Since(pending, a) == Min({completed[k] : k \in {p \in pending : p.attempt = a}})
Budgets(pending) ==
  LET as == Attempts(pending)
      n == IF Cardinality(as) < Lookups THEN Cardinality(as) ELSE Lookups IN
  {s \in SUBSET as : /\ Cardinality(s) = n
                     /\ \A a \in s, b \in as \ s : Since(pending, a) <= Since(pending, b)}

Skipped(a) == OrgOf(a) \in worker.denied \cup Tokenless

\* reconcile_job_conclusions, to its first look-up.
StartCycle ==
  /\ worker.at = "rest"
  /\ \E pending \in Oldest(SUBSET {k \in Keys : Awaiting(k)}, Limit) :
       /\ pending # {}
       /\ \E budget \in Budgets(pending) :
            worker' = [Resting EXCEPT !.at = "look", !.todo = budget, !.pending = pending]
  /\ UNCHANGED <<phase, completed, recorded, conclusion, channel, now, faults>>

\* Mutant of Match: of several legs the last listed is taken.
Match_AnyLeg(k) ==
  LET on == {l \in Legs : /\ l.attempt = k.attempt /\ phase[l] # "waiting"
                          /\ l.runner = k.runner}
      named == {l \in on : l.name = k.job}
      legs == {l \in on : l.legOf = k.job}
      first == CASE named # {} -> named [] legs # {} -> legs
                 [] Cardinality(on) = 1 -> on [] OTHER -> {} IN
  {l \in first : phase[l] = "concluded"}

\* Mutant of Match: an ambiguous row gets a job of the attempt all the same.
Match_Guesses(k) ==
  LET all == {l \in Legs : l.attempt = k.attempt /\ phase[l] # "waiting"}
      on == {l \in all : l.runner = k.runner}
      first == CASE Cardinality(on) = 1 -> on [] OTHER -> all IN
  {l \in first : phase[l] = "concluded"}

\* match_conclusions, one row: the first job on the row's runner that bears the id
\* as its name, else the only leg of its matrix, else the runner's only job in
\* the attempt; nothing unless it has concluded.
Match(k) ==
  LET on == {l \in Legs : /\ l.attempt = k.attempt /\ phase[l] # "waiting"
                          /\ l.runner = k.runner}
      named == {l \in on : l.name = k.job}
      legs == {l \in on : l.legOf = k.job}
      first == CASE named # {} -> {CHOOSE l \in named : TRUE}
                 [] named = {} /\ Cardinality(legs) = 1 -> legs
                 [] named = {} /\ Cardinality(legs) # 1 /\ Cardinality(on) = 1 -> on
                 [] OTHER -> {} IN
  {l \in first : phase[l] = "concluded"}

Looked(a) ==
  worker' = [worker EXCEPT !.todo = @ \ {a},
                           !.at = IF worker.todo = {a} THEN "send" ELSE @]

\* One attempt of the budget is passed over: its org has no token, or its token
\* was refused before in this cycle.
Skip(a) ==
  /\ worker.at = "look" /\ a \in worker.todo /\ Skipped(a)
  /\ Looked(a)
  /\ UNCHANGED <<phase, completed, recorded, conclusion, channel, now, faults>>

\* attempt_jobs is refused; the org is left alone for the rest of the cycle.
Forbidden(a) ==
  /\ worker.at = "look" /\ a \in worker.todo /\ ~Skipped(a)
  /\ OrgOf(a) \notin NoActions => faults < MaxFaults
  /\ faults' = IF OrgOf(a) \in NoActions THEN faults ELSE faults + 1
  /\ worker' = [worker EXCEPT !.todo = @ \ {a}, !.denied = @ \cup {OrgOf(a)},
                              !.at = IF worker.todo = {a} THEN "send" ELSE @]
  /\ UNCHANGED <<phase, completed, recorded, conclusion, channel, now>>

\* It fails in another way, or answers and the pending rows are matched.
LookUpFails(a) ==
  /\ worker.at = "look" /\ a \in worker.todo /\ ~Skipped(a)
  /\ faults < MaxFaults /\ faults' = faults + 1
  /\ Looked(a)
  /\ UNCHANGED <<phase, completed, recorded, conclusion, channel, now>>

LookUp(a) ==
  /\ worker.at = "look" /\ a \in worker.todo /\ ~Skipped(a) /\ OrgOf(a) \notin NoActions
  /\ worker' = [worker EXCEPT
       !.todo = @ \ {a}, !.at = IF worker.todo = {a} THEN "send" ELSE @,
       !.updates = [k \in Keys |-> IF k \in worker.pending /\ k.attempt = a /\ Match(k) # {}
                                  THEN CHOOSE l \in Match(k) : TRUE ELSE @[k]]]
  /\ UNCHANGED <<phase, completed, recorded, conclusion, channel, now, faults>>

\* The updates are sent, once the channel has room, and the cycle ends.
Send ==
  /\ worker.at = "send"
  /\ IF worker.updates = NoUpdates THEN UNCHANGED channel
     ELSE Len(channel) < Bound /\ channel' = Append(channel, worker.updates)
  /\ worker' = Resting
  /\ UNCHANGED <<phase, completed, recorded, conclusion, now, faults>>

\* apply_job_conclusions: whatever the rows hold by then is overwritten.
Apply ==
  /\ channel # <<>>
  /\ conclusion' = [k \in Keys |-> IF Head(channel)[k] # None THEN Head(channel)[k]
                                   ELSE conclusion[k]]
  /\ channel' = Tail(channel)
  /\ UNCHANGED <<phase, completed, recorded, worker, now, faults>>

\* A failed write is logged, and the batch is gone.
ApplyFails ==
  /\ channel # <<>> /\ faults < MaxFaults
  /\ channel' = Tail(channel)
  /\ faults' = faults + 1
  /\ UNCHANGED <<phase, completed, recorded, conclusion, worker, now>>

Crash ==
  /\ faults < MaxFaults /\ faults' = faults + 1
  /\ worker' = Resting /\ channel' = <<>>
  /\ UNCHANGED <<phase, completed, recorded, conclusion, now>>

Clock ==
  /\ now < MaxTime /\ now' = now + 1
  /\ UNCHANGED <<phase, completed, recorded, conclusion, worker, channel, faults>>

AttemptStep(a) == Skip(a) \/ Forbidden(a) \/ LookUpFails(a) \/ LookUp(a)

ApiThread == StartCycle \/ Send \/ \E a \in {l.attempt : l \in Legs} : AttemptStep(a)
JobEnds == \E l \in Legs : Conclude(l)

Next ==
  \/ ApiThread \/ Apply \/ ApplyFails \/ Crash \/ Clock
  \/ JobEnds \/ \E l \in Legs : Assign(l) \/ Record(l)

Spec == Init /\ [][Next]_vars

\* The api thread's cycles and the writer go on; a job that a runner has taken
\* ends. Nothing makes the clock move, or the look-ups fail for ever.
FairSpec == Spec /\ WF_vars(ApiThread) /\ WF_vars(Apply) /\ WF_vars(JobEnds)

-----------------------------------------------------------------------------
\* "Anything ambiguous stays unresolved" (serve/github.rs:192): the conclusion
\* of a row is that of a job with the row's id on the row's runner, also when
\* its update was made from rows read long before.
ConclusionIsOfRow ==
  \A k \in Keys : conclusion[k] # None =>
    KeyOf(conclusion[k]) = k /\ phase[conclusion[k]] = "concluded"

\* A row that was pending when a cycle began may have been concluded by an
\* update then in the channel, and is looked up again: the late update never
\* replaces one job's conclusion by another's (where SiblingsAlike holds).
ConclusionsStick ==
  [][\A k \in Keys : conclusion[k] # None => conclusion'[k] = conclusion[k]]_vars

\* The jobs that share a row are told apart from their row in the same way: none
\* bears the id as its whole name, and all are legs of its matrix or none is. A
\* workflow can give several legs the id as their name; match_conclusions then
\* takes the first listed (serve/github.rs:205), which may be another one later.
SiblingsAlike ==
  \A l, o \in Legs : l # o /\ KeyOf(l) = KeyOf(o) =>
    l.name # l.job /\ (l.legOf = l.job <=> o.legOf = o.job)

\* A job whose conclusion can be known: its org can be asked, and no other job
\* of the attempt can be taken for it.
Resolvable(l) ==
  /\ l.org \notin Tokenless \cup NoActions
  /\ \A o \in Legs \ {l} : ~(o.attempt = l.attempt /\ o.runner = l.runner)

\* "Fill the conclusion of jobs that finished in the last day" (serve/github.rs
\* :123): a finished job gets its conclusion within the window, whatever else
\* is pending.
Settled(l) == conclusion[KeyOf(l)] # None \/ completed[KeyOf(l)] < now - Window
EveryJobConcludes == \A l \in Legs : Resolvable(l) => (l \in recorded ~> Settled(l))
=============================================================================
