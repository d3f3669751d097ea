---------------------------- MODULE ConfigReload ----------------------------
(***************************************************************************)
(* The config file, its editors and the running collector.  Connection     *)
(* threads of the IPC server, the wizard and the TUI edit the file in      *)
(* place under a lock (shared/config/persist.rs); a connection then        *)
(* reloads the file and makes it the running config                        *)
(* (service/ipc_server/mod.rs); the metrics-pull thread opens and closes   *)
(* its listener to follow the running config (service/metrics/pull.rs).    *)
(***************************************************************************)
EXTENDS Naturals, Sequences

CONSTANTS Conns,      \* connection threads of the collector with an admin peer
          Tools,      \* other processes: the wizard, a TUI with no collector
          Denied,     \* the tools that may not write in the config's directory
          None,
          MaxEdits,   \* bound: edits begun
          MaxFaults   \* bound: I/O errors, failed binds and crashes

ASSUME EditorAssumption ==
         Conns \cap Tools = {} /\ Denied \subseteq Tools /\ None \notin Conns \cup Tools
ASSUME BoundAssumption == MaxEdits \in Nat /\ MaxFaults \in Nat

Editors == Conns \cup Tools

\* `[metrics.pull] enabled`, and whether an org has a token.
Settings == {"pull", "token"}

\* n names the edit a value comes from; the program has no such number.
Values == [n : 0..MaxEdits, on : BOOLEAN]
Configs == [Settings -> Values]

ASSUME NoneAssumption == None \notin Configs

VARIABLES
  file,    \* the config file
  lock,    \* who holds the sidecar's flock, or None
  editor,  \* editor[e]: its edit, how far it is, and the document it loaded
  live,    \* SharedConfig, the running config
  pull,    \* the metrics-pull thread: settings applied, listener open, last bind failed
  edits, faults,
  last,    \* history: last[s], the value of the last successful edit of s
  past,    \* history: the documents the file has been
  wrote    \* history: wrote[c], the place in past of c's last edit

vars == <<file, lock, editor, live, pull, edits, faults, last, past, wrote>>
history == <<last, past, wrote>>

Idle == [at |-> "idle", setting |-> None, value |-> None, doc |-> None]

Closed == [applied |-> None, listening |-> FALSE, failed |-> FALSE]

-----------------------------------------------------------------------------
Init == /\ file = [s \in Settings |-> [n |-> 0, on |-> FALSE]]
        /\ lock = None
        /\ editor = [e \in Editors |-> Idle]
        /\ live = file
        /\ pull = Closed
        /\ edits = 0 /\ faults = 0
        /\ last = file /\ past = <<file>> /\ wrote = [c \in Conns |-> 0]

Fault == faults < MaxFaults /\ faults' = faults + 1

Goes(e, from, to) == /\ editor[e].at = from
                     /\ editor' = [editor EXCEPT ![e].at = to]

\* The edit is over, whether or not it wrote: the lock is let go.
Ends(e, from) == /\ editor[e].at = from
                 /\ editor' = [editor EXCEPT ![e] = Idle]
                 /\ lock' = IF lock = e THEN None ELSE lock

Begin(e, s, on) ==
  /\ editor[e].at = "idle"
  /\ edits < MaxEdits /\ edits' = edits + 1
  /\ editor' = [editor EXCEPT ![e] = [at |-> "locking", setting |-> s, doc |-> None,
                                      value |-> [n |-> edits + 1, on |-> on]]]
  /\ UNCHANGED <<file, lock, live, pull, faults, history>>

\* Mutant of Acquire: a shared lock.
Acquire_Shared(e) ==
  /\ Goes(e, "locking", "loading")
  /\ lock' = IF e \in Denied THEN lock ELSE e
  /\ UNCHANGED <<file, live, pull, edits, faults, history>>

\* acquire_lock: whoever cannot open the sidecar goes on without.
Acquire(e) ==
  /\ Goes(e, "locking", "loading")
  /\ IF e \in Denied THEN UNCHANGED lock ELSE lock = None /\ lock' = e
  /\ UNCHANGED <<file, live, pull, edits, faults, history>>

\* load_table.
Load(e) ==
  /\ editor[e].at = "loading"
  /\ editor' = [editor EXCEPT ![e].at = "writing", ![e].doc = file]
  /\ UNCHANGED <<file, lock, live, pull, edits, faults, history>>

LoadFails(e) == /\ Fault /\ Ends(e, "loading")
                /\ UNCHANGED <<file, live, pull, edits, history>>

\* remove_org_token of a token that is not there.
Absent(e) == LET x == editor[e] IN
             x.setting = "token" /\ ~x.value.on /\ ~x.doc["token"].on

\* write_table: the whole document replaces the file by a rename.
Write(e) ==
  /\ editor[e].at = "writing" /\ e \notin Denied /\ ~Absent(e)
  /\ file' = [editor[e].doc EXCEPT ![editor[e].setting] = editor[e].value]
  /\ last' = [last EXCEPT ![editor[e].setting] = editor[e].value]
  /\ past' = Append(past, file')
  /\ wrote' = IF e \in Conns THEN [wrote EXCEPT ![e] = Len(past')] ELSE wrote
  /\ lock' = None
  /\ editor' = [editor EXCEPT ![e] = IF e \in Conns THEN [@ EXCEPT !.at = "reloading"] ELSE Idle]
  /\ UNCHANGED <<live, pull, edits, faults>>

\* Nothing to remove, no permission, or the staged file cannot be written.
Rejected(e) ==
  /\ Ends(e, "writing")
  /\ IF Absent(e) \/ e \in Denied THEN UNCHANGED faults ELSE Fault
  /\ UNCHANGED <<file, live, pull, edits, history>>

\* Mutant of Reload: the document as it was loaded for the edit.
Reload_Loaded(c) ==
  /\ Goes(c, "reloading", "storing")
  /\ UNCHANGED <<file, lock, live, pull, edits, faults, history>>

\* reload_config, outside the lock.
Reload(c) ==
  /\ editor[c].at = "reloading"
  /\ editor' = [editor EXCEPT ![c].at = "storing", ![c].doc = file]
  /\ UNCHANGED <<file, lock, live, pull, edits, faults, history>>

\* The file does not load: the running config stays.
ReloadFails(c) == /\ Fault /\ Ends(c, "reloading")
                  /\ UNCHANGED <<file, live, pull, edits, history>>

\* SharedConfig::store, and the answer.
Store(c) == /\ Ends(c, "storing")
            /\ live' = editor[c].doc
            /\ UNCHANGED <<file, pull, edits, faults, history>>

\* Mutant of PullTick: an open listener is left open.
PullTick_OnlyOpens ==
  /\ pull.applied # live["pull"].on
  /\ pull' = [applied |-> live["pull"].on, failed |-> FALSE,
              listening |-> pull.listening \/ live["pull"].on]
  /\ UNCHANGED <<file, lock, editor, live, edits, faults, history>>

\* The pull thread's cycle when the settings are not those it applied last:
\* a bind that fails is logged, and applied like one that does not.
PullTick ==
  LET on == live["pull"].on IN
  /\ pull.applied # on
  /\ \/ /\ pull' = [applied |-> on, listening |-> on, failed |-> FALSE]
        /\ UNCHANGED faults
     \/ /\ on /\ Fault
        /\ pull' = [applied |-> on, listening |-> FALSE, failed |-> TRUE]
  /\ UNCHANGED <<file, lock, editor, live, edits, history>>

\* The collector dies, its connections with it, and starts again on the file.
CollectorRestarts ==
  /\ Fault
  /\ editor' = [e \in Editors |-> IF e \in Conns THEN Idle ELSE editor[e]]
  /\ lock' = IF lock \in Conns THEN None ELSE lock
  /\ live' = file
  /\ pull' = Closed
  /\ UNCHANGED <<file, edits, history>>

ToolDies(t) == /\ Fault /\ editor[t].at # "idle" /\ Ends(t, editor[t].at)
               /\ UNCHANGED <<file, live, pull, edits, history>>

Edit(e) == Acquire(e) \/ Load(e) \/ Write(e) \/ Rejected(e) \/ LoadFails(e)

Apply(c) == Reload(c) \/ ReloadFails(c) \/ Store(c)

Next == \/ PullTick \/ CollectorRestarts
        \/ \E e \in Editors, s \in Settings, on \in BOOLEAN : Begin(e, s, on)
        \/ \E e \in Editors : Edit(e)
        \/ \E c \in Conns : Apply(c)
        \/ \E t \in Tools : ToolDies(t)

Spec == Init /\ [][Next]_vars

\* Threads and processes run.
FairSpec == /\ Spec /\ WF_vars(PullTick)
            /\ \A e \in Editors : WF_vars(Edit(e))
            /\ \A c \in Conns : WF_vars(Apply(c))

-----------------------------------------------------------------------------
Edits == [at : {"locking", "loading", "writing", "reloading", "storing"},
          setting : Settings, value : Values, doc : Configs \cup {None}]

Pulls == [applied : BOOLEAN \cup {None}, listening : BOOLEAN, failed : BOOLEAN]

TypeOK ==
  /\ file \in Configs /\ live \in Configs /\ last \in Configs
  /\ lock \in (Editors \ Denied) \cup {None}
  /\ editor \in [Editors -> Edits \cup {Idle}]
  /\ pull \in Pulls
  /\ edits \in 0..MaxEdits /\ faults \in 0..MaxFaults
  /\ \A e \in Editors : editor[e].at \in {"writing", "storing"} => editor[e].doc # None

\* Concurrent load-modify-writes, crashes and errors lose no edit: each setting
\* is what the last successful edit of it made it.
EditsSurvive == file = last

\* The edits whose operator waits for them to become the running config.
Waits(c) == editor[c].at \in {"reloading", "storing"}
Due == {wrote[c] : c \in {d \in Conns : Waits(d)}}

Abstract == INSTANCE ConfigFile WITH due <- Due
\* The locked load-modify-writes are edits of one setting each, done at once; a
\* running config is a document the file was, and when an operator is answered it
\* is as new as his edit (persist.rs:19; ipc_server/mod.rs:193, a reload comes
\* before the answer).
ImplementsFile == Abstract!FileSpec

\* Once the edits are over, the metrics endpoint is open if the running config
\* says so and binding it worked, and closed otherwise.
EndpointFollows ==
  <>[](pull.listening = (live["pull"].on /\ ~pull.failed))

\* metrics/mod.rs:16: the thread will "reconcile to the live config each cycle,
\* so a `[metrics]` toggle needs no restart".  So none is needed for toggles over
\* the IPC: when no edit is going on, the running setting is the file's.
ToggleNeedsNoRestart ==
  (\A e \in Editors : editor[e] = Idle) => live["pull"].on = file["pull"].on
=============================================================================
