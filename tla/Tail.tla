-------------------------------- MODULE Tail --------------------------------
(***************************************************************************)
(* `ghr-stats tail` (ops/tail.rs): polls the collector's timeline over a   *)
(* window that overlaps the one before, prints what it has not printed     *)
(* yet, and a gap line when the limit cut an answer.                       *)
(***************************************************************************)
EXTENDS Timeline

CONSTANTS JobNames,        \* the ends of jobs, as job_key names them
          Values,
          LocalSecs,       \* intervals.local_secs: tail's own interval
          ReadSecs,        \* the streams' interval, local_secs or api_secs
          LookbackTicks,   \* the 4 and the 60 of lookback
          LookbackFloor,
          PollTime,        \* bound: from an answer to the next window's start
          Slack,           \* bound: how late a reading, its commit or a poll is
          MaxFaults,       \* bound: polls without an answer
          MaxTime          \* bound: the clock stops there

ASSUME TimesAssumption ==
  /\ LocalSecs \in Nat \ {0} /\ ReadSecs \in Nat \ {0}
  /\ LookbackTicks \in Nat /\ LookbackFloor \in Nat
  /\ PollTime \in Nat /\ Slack \in Nat /\ MaxFaults \in Nat /\ MaxTime \in Nat

ASSUME KeysAssumption == JobNames \cap (Streams \X Values) = {}

VARIABLES
  now,
  taken,     \* taken[s]: the time of stream s's last reading
  coming,    \* readings taken and not committed yet
  readings,  \* the sample tables
  jobs,      \* the ends of jobs in job_event
  tail,      \* where the loop is: at, started, since and the earliest next poll
  answer,    \* the answer being printed
  seen,      \* the cursors: lines printed, inside the horizon
  out,       \* what the last poll printed
  faults,
  shown,     \* history: the lines of the polls before
  gaps,      \* history: gap lines
  known      \* history: [readings, jobs] as of the last answer

store == <<taken, coming, readings, jobs>>
history == <<shown, gaps, known>>
vars == <<now, store, tail, answer, seen, out, faults, history>>

Lookback == Max({LookbackTicks * LocalSecs, LookbackFloor})

Times == 0..MaxTime

\* `stored`, the time of the commit, is a history field.
Readings == [stream : Streams, ts : Times, value : Values, stored : Times \cup {-1}]
Jobs == [name : JobNames, ts : Times, stored : Times]

\* What is printed of a row, and remembered: (ts, identity).
Lines == [ts : Times, key : (Streams \X Values) \cup JobNames]

TransitionLine(x) == [ts |-> x.ts, key |-> <<x.stream, x.value>>]

JobLine(x) == [ts |-> x.ts, key |-> x.name]

NoAnswer == [transitions |-> {}, jobs |-> {}, limited |-> {}, since |-> 0, until |-> 0]

-----------------------------------------------------------------------------
\* The first window's start is the lookback's, or the backfill's when that is
\* longer; here without a backfill.
Init == /\ now = 0
        /\ taken = [s \in Streams |-> 0]
        /\ coming = {} /\ readings = {} /\ jobs = {}
        /\ tail = [at |-> "starting", started |-> 0, since |-> now - Lookback, wake |-> 0]
        /\ answer = NoAnswer
        /\ seen = {} /\ out = {}
        /\ faults = 0
        /\ shown = {} /\ gaps = {}
        /\ known = [readings |-> {}, jobs |-> {}]

\* Time passes, but nothing is later than Slack allows.
Clock ==
  /\ now < MaxTime
  /\ \A s \in Streams : now < taken[s] + ReadSecs + Slack
  /\ \A x \in coming : now < x.ts + Slack
  /\ tail.at \in {"starting", "sleeping"} => now < tail.wake + Slack
  /\ tail.at = "printing" => now < answer.until + PollTime
  /\ now' = now + 1
  /\ UNCHANGED <<store, tail, answer, seen, out, faults, history>>

\* A producer's tick: the time is taken before the reading.
Read(s, v) ==
  /\ now >= taken[s] + ReadSecs
  /\ \A x \in coming : x.stream # s
  /\ taken' = [taken EXCEPT ![s] = now]
  /\ coming' = coming \cup {[stream |-> s, ts |-> now, value |-> v, stored |-> -1]}
  /\ UNCHANGED <<now, readings, jobs, tail, answer, seen, out, faults, history>>

Commit(x) ==
  /\ coming' = coming \ {x}
  /\ readings' = readings \cup {[x EXCEPT !.stored = now]}
  /\ UNCHANGED <<now, taken, jobs, tail, answer, seen, out, faults, history>>

\* A hook's event is ingested; its time is the hook's, and may be long past.
JobArrives(name, ts) ==
  /\ ts <= now /\ \A x \in jobs : x.name # name
  /\ jobs' = jobs \cup {[name |-> name, ts |-> ts, stored |-> now]}
  /\ UNCHANGED <<now, taken, coming, readings, tail, answer, seen, out, faults, history>>

-----------------------------------------------------------------------------
\* A poll is answered.
Fetch ==
  /\ tail.at \in {"starting", "sleeping"} /\ now >= tail.wake
  /\ \E edges \in Transitions(readings, tail.since), ends \in JobEdges(jobs, tail.since) :
     \E t \in Bounded(edges), j \in Bounded(ends) :
       answer' = [transitions |-> {TransitionLine(x) : x \in t.items},
                  jobs |-> {JobLine(x) : x \in j.items},
                  limited |-> {s \in {"transitions", "jobs"} :
                                 (IF s = "jobs" THEN j ELSE t).limited},
                  since |-> tail.since, until |-> now]
  /\ tail' = [tail EXCEPT !.at = "printing", !.started = now]
  /\ known' = [readings |-> readings, jobs |-> jobs]
  /\ UNCHANGED <<now, store, seen, out, faults, shown, gaps>>

\* No collector: the first time tail gives up, later it keeps the window.
FetchFails ==
  /\ tail.at \in {"starting", "sleeping"} /\ now >= tail.wake
  /\ faults < MaxFaults /\ faults' = faults + 1
  /\ tail' = IF tail.at = "starting" THEN [tail EXCEPT !.at = "stopped"]
             ELSE [tail EXCEPT !.wake = now + LocalSecs]
  /\ UNCHANGED <<now, store, answer, seen, out, history>>

\* The part of an answer that both emits share: the gap lines, and the rows the
\* cursors accept.
Emit ==
  /\ tail.at = "printing"
  /\ out' = (answer.transitions \cup answer.jobs) \ seen
  /\ gaps' = gaps \cup {[section |-> s, since |-> answer.since, until |-> answer.until] :
                          s \in answer.limited}
  /\ shown' = shown \cup out
  /\ answer' = NoAnswer
  /\ tail' = [tail EXCEPT !.at = "sleeping", !.since = now - Lookback,
                          !.wake = Max({now, tail.started + LocalSecs})]
  /\ UNCHANGED <<now, store, faults, known>>

\* Mutant of Show: the cursors are pruned past the next window's start.
Show_PrunesAhead ==
  /\ Emit
  /\ seen' = {l \in seen \cup out' : l.ts > tail'.since}

\* An answer is printed; the next window starts Lookback ago, and the cursors
\* forget what lies before it.
Show ==
  /\ Emit
  /\ seen' = {l \in seen \cup out' : l.ts >= tail'.since}

\* The reader closes the pipe.
PipeCloses ==
  /\ tail.at = "printing"
  /\ tail' = [tail EXCEPT !.at = "stopped"]
  /\ UNCHANGED <<now, store, answer, seen, out, faults, history>>

Next == \/ Clock \/ Fetch \/ FetchFails \/ Show \/ PipeCloses
        \/ \E s \in Streams, v \in Values : Read(s, v)
        \/ \E x \in coming : Commit(x)
        \/ \E name \in JobNames, ts \in Times : JobArrives(name, ts)

Spec == Init /\ [][Next]_vars

-----------------------------------------------------------------------------
TypeOK ==
  /\ now \in Times /\ taken \in [Streams -> Times]
  /\ coming \subseteq Readings /\ readings \subseteq Readings /\ jobs \subseteq Jobs
  /\ tail \in [at : {"starting", "sleeping", "printing", "stopped"}, started : Times,
               since : -Lookback..MaxTime, wake : 0..(MaxTime + LocalSecs)]
  /\ answer.transitions \cup answer.jobs \subseteq Lines
  /\ seen \cup out \cup shown \subseteq Lines
  /\ faults \in 0..MaxFaults

\* A cursor forgets what it printed at the next window's start and not later:
\* no line is printed twice.
NothingTwice == out \cap shown = {}

\* The reading before c in the whole record, and those that differ from it.
Before(c) == {p \in Of(c.stream, readings) : Precedes(p, c, Of(c.stream, readings))}
Changes == {c \in readings : \E p \in Before(c) : p.value # c.value}

\* No line is an artefact of a window: every transition printed is a change
\* between two readings next to each other in the record.
OnlyChangesShown ==
  \A l \in out \cup shown : l.key \in Streams \X Values =>
    \E c \in Changes : TransitionLine(c) = l

Shown(l, section) ==
  \/ l \in out \cup shown
  \/ \E g \in gaps : g.section = section /\ g.since <= l.ts /\ l.ts <= g.until

Between == tail.at = "sleeping"

\* What the lookback promises: a change whose earlier reading was taken no
\* more than a lookback before the change was stored and the running poll
\* done, and a job's end ingested as soon, is printed, or a gap line covers
\* it, by the poll that could first see it.
InReachShown ==
  Between =>
    /\ \A c \in Changes \cap known.readings : \A p \in Before(c) :
         c.stored + PollTime <= p.ts + Lookback => Shown(TransitionLine(c), "transitions")
    /\ \A j \in known.jobs :
         j.stored + PollTime <= j.ts + Lookback => Shown(JobLine(j), "jobs")

\* ops/tail.rs:1: tail "polls the collector's timeline and prints each new
\* transition": whatever an answer's record holds has been printed.
EachTransitionShown ==
  Between => \A c \in Changes \cap known.readings : Shown(TransitionLine(c), "transitions")
=============================================================================
