--------------------------- MODULE ServeLifecycle ---------------------------
(***************************************************************************)
(* The life of `serve` processes of one scope (service/serve/mod.rs): the  *)
(* lock of the database, the socket of the scope (ipc_server::bind), the   *)
(* threads, and the drain and joins after a termination signal.  Several   *)
(* processes may be started at any time, for any database, and killed.     *)
(***************************************************************************)
EXTENDS Naturals

CONSTANTS Procs,
          Databases,
          Producers,     \* the threads local-sampler, api-reconcile, hooks-tail
          ChannelBound,  \* CHANNEL_BOUND
          MaxLogs,       \* the runners whose logs one tick of the tailer sends
          None           \* nobody, no file

ASSUME ServeAssumption ==
  /\ ChannelBound \in Nat \ {0} /\ MaxLogs \in Nat
  /\ Producers \subseteq {"local", "api", "hooks"}
  /\ None \notin Procs \cup Databases

VARIABLES
  main,      \* main[p]: where the main thread of process p is
  db,        \* db[p]: the database of p's config; None when p is down
  holder,    \* holder[d]: the process that holds the lock of database d, or None
  path,      \* the process that bound the socket at the scope's path, or None
  listener,  \* listener[p]: p's listening socket is open
  term,      \* term[p]: the termination flag
  alive,     \* alive[p]: p's producers and metrics threads that still run
  burst,     \* burst[p][t]: the messages producer t has in hand
  channel,   \* channel[p]: the messages in the channel
  ipc,       \* ipc[p]: where the thread ipc-server is
  rivals     \* history: the databases of the processes on their way to the
             \* socket, or listening, when p bound it

start == <<main, db, holder>>
socket == <<path, listener>>
threads == <<term, alive, burst, channel>>
vars == <<start, socket, threads, ipc, rivals>>

Starting == {"locked", "probed", "stale", "clear", "bound"}

Stopped == [t \in Producers |-> 0]

-----------------------------------------------------------------------------
Init == /\ main = [p \in Procs |-> "down"]
        /\ db = [p \in Procs |-> None]
        /\ holder = [d \in Databases |-> None]
        /\ path = None
        /\ listener = [p \in Procs |-> FALSE]
        /\ term = [p \in Procs |-> FALSE]
        /\ alive = [p \in Procs |-> {}]
        /\ burst = [p \in Procs |-> Stopped]
        /\ channel = [p \in Procs |-> 0]
        /\ ipc = [p \in Procs |-> "off"]
        /\ rivals = [p \in Procs |-> {}]

Goes(p, to) == main' = [main EXCEPT ![p] = to]

\* The process ends: its lock, its threads and its channel go with it.
Ends(p) == /\ Goes(p, "down")
           /\ holder' = [d \in Databases |-> IF holder[d] = p THEN None ELSE holder[d]]
           /\ term' = [term EXCEPT ![p] = FALSE]
           /\ alive' = [alive EXCEPT ![p] = {}]
           /\ burst' = [burst EXCEPT ![p] = Stopped]
           /\ channel' = [channel EXCEPT ![p] = 0]
           /\ ipc' = [ipc EXCEPT ![p] = "off"]
           /\ db' = [db EXCEPT ![p] = None]
           /\ rivals' = [rivals EXCEPT ![p] = {}]

\* Mutant of Lock: `let _ =`, which drops the lock at once.
Lock_Dropped(p, d) ==
  /\ main[p] = "down" /\ ~listener[p]
  /\ holder[d] = None
  /\ db' = [db EXCEPT ![p] = d]
  /\ Goes(p, "locked")
  /\ UNCHANGED <<holder, socket, threads, ipc, rivals>>

\* acquire_lock; while another process holds it the start fails.
Lock(p, d) ==
  /\ main[p] = "down" /\ ~listener[p]
  /\ holder[d] = None
  /\ holder' = [holder EXCEPT ![d] = p]
  /\ db' = [db EXCEPT ![p] = d]
  /\ Goes(p, "locked")
  /\ UNCHANGED <<socket, threads, ipc, rivals>>

\* Somebody answers at the path.
Answers == path # None /\ listener[path]

\* bind connects, and gives up when somebody answers.
Probe(p) ==
  /\ main[p] = "locked"
  /\ IF Answers THEN Ends(p) ELSE Goes(p, "probed") /\ UNCHANGED <<db, holder, threads, ipc, rivals>>
  /\ UNCHANGED socket

\* Then it looks for a file at the path,
Look(p) ==
  /\ main[p] = "probed"
  /\ Goes(p, IF path = None THEN "clear" ELSE "stale")
  /\ UNCHANGED <<db, holder, socket, threads, ipc, rivals>>

\* removes it, an error when it has gone meanwhile,
Remove(p) ==
  /\ main[p] = "stale"
  /\ IF path = None THEN Ends(p) ELSE Goes(p, "clear") /\ UNCHANGED <<db, holder, threads, ipc, rivals>>
  /\ path' = None
  /\ UNCHANGED listener

\* On its way to the socket, or at it.
Listens(p) == main[p] = "bound" \/ ipc[p] = "listening"
Past(p) == main[p] \in {"probed", "stale", "clear"} \/ Listens(p)

\* binds, an error when there is a file again,
Bind(p) ==
  /\ main[p] = "clear"
  /\ IF path # None THEN Ends(p) /\ UNCHANGED socket
     ELSE /\ Goes(p, "bound")
          /\ path' = p
          /\ listener' = [listener EXCEPT ![p] = TRUE]
          /\ rivals' = [rivals EXCEPT ![p] = {db[q] : q \in {x \in Procs \ {p} : Past(x)}}]
          /\ UNCHANGED <<db, holder, threads, ipc>>

\* and opens it to everybody.  The signal handler is installed and the threads
\* are spawned; a tailer without a reader of the database ends at once.
Spawn(p) ==
  /\ main[p] = "bound"
  /\ IF path = None THEN /\ Ends(p)
                         /\ listener' = [listener EXCEPT ![p] = FALSE]
     ELSE /\ Goes(p, "writing")
          /\ \E idle \in {{}, {"hooks"}} :
               alive' = [alive EXCEPT ![p] = (Producers \ idle) \cup {"metrics"}]
          /\ ipc' = [ipc EXCEPT ![p] = "listening"]
          /\ UNCHANGED <<db, holder, listener, term, burst, channel, rivals>>
  /\ UNCHANGED path

\* SIGTERM after the handler is installed; before that it is a Die.
Signal(p) == /\ main[p] = "writing"
             /\ term' = [term EXCEPT ![p] = TRUE]
             /\ UNCHANGED <<start, socket, alive, burst, channel, ipc, rivals>>

-----------------------------------------------------------------------------
\* What one tick of a producer sends: a local sample; the orgs' outcomes and
\* then the job conclusions, each unless it is empty; a batch per log.
Bursts(t) == CASE t = "local" -> {1} [] t = "api" -> 0..2 [] t = "hooks" -> 0..MaxLogs

Tick(p, t) ==
  /\ t \in alive[p] /\ burst[p][t] = 0 /\ ~term[p]
  /\ \E n \in Bursts(t) : burst' = [burst EXCEPT ![p][t] = n]
  /\ UNCHANGED <<start, socket, term, alive, channel, ipc, rivals>>

\* A send blocks while the channel is full; the flag is not looked at before
\* the tick's last message is sent.
Send(p, t) ==
  /\ burst[p][t] > 0
  /\ channel[p] < ChannelBound
  /\ burst' = [burst EXCEPT ![p][t] = @ - 1]
  /\ channel' = [channel EXCEPT ![p] = @ + 1]
  /\ UNCHANGED <<start, socket, term, alive, ipc, rivals>>

\* A producer or a metrics thread sees the flag and returns.
Returns(p, t) ==
  /\ t \in alive[p] /\ term[p]
  /\ t \in Producers => burst[p][t] = 0
  /\ alive' = [alive EXCEPT ![p] = @ \ {t}]
  /\ UNCHANGED <<start, socket, term, burst, channel, ipc, rivals>>

\* Mutant of Persist: the writer stops at the flag.
Persist_UntilTerm(p) ==
  /\ main[p] = "writing" /\ channel[p] > 0 /\ ~term[p]
  /\ channel' = [channel EXCEPT ![p] = @ - 1]
  /\ UNCHANGED <<start, socket, term, alive, burst, ipc, rivals>>

\* The writer takes a message, whether its transaction commits or fails.
Persist(p) ==
  /\ main[p] = "writing" /\ channel[p] > 0
  /\ channel' = [channel EXCEPT ![p] = @ - 1]
  /\ UNCHANGED <<start, socket, term, alive, burst, ipc, rivals>>

\* Mutant of Drained: the writer leaves an empty channel at the flag, without
\* waiting for its senders.
Drained_AtTerm(p) ==
  /\ main[p] = "writing" /\ channel[p] = 0 /\ term[p]
  /\ Goes(p, "joining")
  /\ UNCHANGED <<db, holder, socket, threads, ipc, rivals>>

\* rx.iter() ends: the channel is empty and every sender has returned.
Drained(p) ==
  /\ main[p] = "writing" /\ channel[p] = 0
  /\ alive[p] \cap Producers = {}
  /\ Goes(p, "joining")
  /\ UNCHANGED <<db, holder, socket, threads, ipc, rivals>>

\* ipc-server has joined its connections (IpcServer) and removes the path,
Unlink(p) ==
  /\ ipc[p] = "listening" /\ term[p]
  /\ path' = None
  /\ ipc' = [ipc EXCEPT ![p] = "unlinked"]
  /\ UNCHANGED <<start, listener, rivals, threads>>

\* and returns, which drops the listener.
Close(p) ==
  /\ ipc[p] = "unlinked"
  /\ ipc' = [ipc EXCEPT ![p] = "off"]
  /\ listener' = [listener EXCEPT ![p] = FALSE]
  /\ UNCHANGED <<start, path, rivals, threads>>

\* Everything is joined, and serve returns.
Exit(p) ==
  /\ main[p] = "joining" /\ alive[p] = {} /\ ipc[p] = "off"
  /\ Ends(p)
  /\ UNCHANGED socket

\* The process is killed or fails to start.  Its files are closed one after
\* the other: the listener may outlive the lock.
Die(p) == main[p] # "down" /\ Ends(p) /\ UNCHANGED socket

Reaped(p) ==
  /\ main[p] = "down" /\ listener[p]
  /\ listener' = [listener EXCEPT ![p] = FALSE]
  /\ UNCHANGED <<start, path, threads, ipc, rivals>>

-----------------------------------------------------------------------------
Bound(p) == Probe(p) \/ Look(p) \/ Remove(p) \/ Bind(p) \/ Spawn(p)
Write(p) == Persist(p) \/ Drained(p) \/ Exit(p)
Listen(p) == Unlink(p) \/ Close(p)

Next ==
  \E p \in Procs :
    \/ \E d \in Databases : Lock(p, d)
    \/ Bound(p) \/ Write(p) \/ Listen(p) \/ Signal(p) \/ Die(p) \/ Reaped(p)
    \/ \E t \in Producers : Tick(p, t) \/ Send(p, t)
    \/ \E t \in Producers \cup {"metrics"} : Returns(p, t)

Spec == Init /\ [][Next]_vars

\* The threads of a process run.  Nothing is assumed of what starts, signals or
\* kills one, nor of the producers' ticks.
Fairness ==
  \A p \in Procs :
    /\ WF_vars(Write(p)) /\ WF_vars(Listen(p))
    /\ \A t \in Producers : WF_vars(Send(p, t))
    /\ \A t \in Producers \cup {"metrics"} : WF_vars(Returns(p, t))

FairSpec == Spec /\ Fairness

-----------------------------------------------------------------------------
TypeOK ==
  /\ main \in [Procs -> {"down", "writing", "joining"} \cup Starting]
  /\ db \in [Procs -> Databases \cup {None}]
  /\ rivals \in [Procs -> SUBSET Databases]
  /\ holder \in [Databases -> Procs \cup {None}]
  /\ path \in Procs \cup {None} /\ listener \in [Procs -> BOOLEAN]
  /\ term \in [Procs -> BOOLEAN]
  /\ alive \in [Procs -> SUBSET (Producers \cup {"metrics"})]
  /\ burst \in [Procs -> [Producers -> Nat]]
  /\ channel \in [Procs -> 0..ChannelBound]
  /\ ipc \in [Procs -> {"off", "listening", "unlinked"}]

\* A collector that listens is reachable until it removes its path itself,
\* whatever is started, killed or ends beside it: its socket is replaced or
\* removed by another only when the two starts overlapped, and then the other
\* was started for another database (the lock is per database, the socket per
\* scope).
ReachableUnlessRaced ==
  \A p \in Procs : ipc[p] = "listening" /\ path # p => rivals[p] \ {db[p]} # {}

\* serve returns with nothing left behind: no message unsent or unwritten, and
\* its socket removed and closed.
ReturnsClean ==
  [][\A p \in Procs : Exit(p) =>
       /\ channel[p] = 0 /\ burst[p] = Stopped
       /\ path # p /\ ~listener[p]]_vars

\* After a termination signal the process ends, although producers may be
\* blocked in a send and do not look at the flag before they are through.
SignalEnds == \A p \in Procs : term[p] ~> main[p] = "down"
=============================================================================
