------------------------------- MODULE Probe --------------------------------
(***************************************************************************)
(* A local probe (shared/collectors/): discovery reads each install dir's  *)
(* .runner, then /proc is walked pid by pid while processes come and go,   *)
(* and a runner's liveness is what the walk happened to see of it.         *)
(***************************************************************************)
EXTENDS Naturals, FiniteSets

CONSTANTS Runners,   \* install dirs
          Pids,      \* pids; none is used twice within a walk
          MaxBefore  \* bound: processes that are there when the walk starts

None  == "none"
Comms == {"Runner.Listener", "Runner.Worker", "bash"}
Procs == [pid : Pids, dir : Runners, comm : Comms]

VARIABLES
  dot,     \* each install dir's .runner: "good", or "refused" as unreadable or odd
  procs,   \* the live processes
  walk,    \* the walk: how far it is, the comm read last, what it has seen
  before,  \* history: the processes there when it began
  lived,   \* history: the processes that lived at some time of it
  report   \* what it says of the runners it found

vars == <<dot, procs, walk, before, lived, report>>

Of(ps, r, comm) == {x \in ps : x.dir = r /\ x.comm = comm}

\* Mutant of LivenessOf: the listener decides first.
LivenessOf_ListenerFirst(ps, r) ==
  IF Of(ps, r, "Runner.Listener") # {} THEN "idle"
  ELSE IF Of(ps, r, "Runner.Worker") # {} THEN "busy" ELSE "offline"

\* A worker is a job; a listener alone is idle; neither is offline.
LivenessOf(ps, r) ==
  IF Of(ps, r, "Runner.Worker") # {} THEN "busy"
  ELSE IF Of(ps, r, "Runner.Listener") # {} THEN "idle" ELSE "offline"

Init ==
  /\ dot \in [Runners -> {"good", "refused"}]
  /\ procs \in {ps \in SUBSET Procs :
       /\ Cardinality(ps) <= MaxBefore
       /\ \A x, y \in ps : x.pid = y.pid => x = y}
  /\ walk = [at |-> "start", cursor |-> 0, comm |-> None, seen |-> {}]
  /\ before = {} /\ lived = {} /\ report = [r \in {} |-> None]

-----------------------------------------------------------------------------
(* The runners' processes, while the walk goes on. *)

Spawn(x) ==
  /\ walk.at = "walking" /\ \A y \in lived : y.pid # x.pid
  /\ procs' = procs \cup {x} /\ lived' = lived \cup {x}
  /\ UNCHANGED <<dot, walk, before, report>>

Exit(x) ==
  /\ walk.at = "walking" /\ procs' = procs \ {x}
  /\ UNCHANGED <<dot, walk, before, lived, report>>

-----------------------------------------------------------------------------
(* collect_local. *)

\* discover: the dirs whose .runner can be read and parsed; then scan starts.
Discover ==
  /\ walk.at = "start" /\ walk' = [walk EXCEPT !.at = "walking"]
  /\ report' = [r \in {d \in Runners : dot[d] = "good"} |-> "unknown"]
  /\ before' = procs /\ lived' = procs
  /\ UNCHANGED <<dot, procs>>

\* read_proc, first half: the comm of the next pid there is.
ReadComm(x) ==
  /\ walk.at = "walking" /\ walk.comm = None
  /\ x.pid > walk.cursor /\ \A y \in procs : y.pid > walk.cursor => x.pid <= y.pid
  /\ walk' = [walk EXCEPT !.cursor = x.pid, !.comm = x.comm]
  /\ UNCHANGED <<dot, procs, before, lived, report>>

\* Second half: argv[0] of a Runner.* process says whose it is, if it is still
\* there.
ReadArgv ==
  /\ walk.at = "walking" /\ walk.comm # None
  /\ walk' = [walk EXCEPT !.comm = None,
       !.seen = @ \cup {x \in procs : x.pid = walk.cursor /\ x.comm # "bash"}]
  /\ UNCHANGED <<dot, procs, before, lived, report>>

\* probe_all, once no pid is left.
Report ==
  /\ walk.at = "walking" /\ walk.comm = None /\ \A x \in procs : x.pid <= walk.cursor
  /\ report' = [r \in DOMAIN report |-> LivenessOf(walk.seen, r)]
  /\ walk' = [walk EXCEPT !.at = "done"]
  /\ UNCHANGED <<dot, procs, before, lived>>

Next ==
  \/ \E x \in Procs : Spawn(x)
  \/ \E x \in procs : Exit(x) \/ ReadComm(x)
  \/ Discover \/ ReadArgv \/ Report

Spec == Init /\ [][Next]_vars

-----------------------------------------------------------------------------
\* A runner is reported busy only if one of its workers lived during the walk,
\* idle only if a listener of its own did and no worker lived through all of
\* it, and offline only if nothing of it lived through all of it
\* (runners.rs:352); another runner's processes, and a job's own, never count.
ProbeSound ==
  walk.at = "done" =>
    \A r \in DOMAIN report :
      LET through == before \cap procs
      IN  /\ report[r] = "busy" => Of(lived, r, "Runner.Worker") # {}
          /\ report[r] = "idle" => /\ Of(lived, r, "Runner.Listener") # {}
                                 /\ Of(through, r, "Runner.Worker") = {}
          /\ report[r] = "offline" =>
               Of(through, r, "Runner.Worker") \cup Of(through, r, "Runner.Listener") = {}

\* Violated: a runner that always has a listener can be reported offline, when
\* the listener is replaced by one whose pid the walk has already passed.
NeverFalselyOffline ==
  walk.at = "done" =>
    \A r \in DOMAIN report :
      (Of(before, r, "Runner.Listener") # {} /\ Of(procs, r, "Runner.Listener") # {})
        => report[r] # "offline"
=============================================================================
