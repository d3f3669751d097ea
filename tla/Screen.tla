------------------------------- MODULE Screen -------------------------------
(***************************************************************************)
(* The dashboard's event loop: what keys and clicks do to tab, selection   *)
(* and drill-down, the popups, the token wizard, and the actions that      *)
(* leave the alternate screen to run on the real terminal (tui/mod.rs,     *)
(* app/{nav,sample,mutate}.rs, input/*, overlay/wizard).                   *)
(***************************************************************************)
EXTENDS Naturals, FiniteSets, FiniteSetsExt

CONSTANTS Count,    \* the install dirs 1 .. Count, in the order they are listed
          Keys,     \* the token keys an operator may type
          Owner,    \* dir -> the key its runner is registered under
          Tokens,   \* [fine: BOOLEAN, grants: the dirs whose scope it can list]
          None,
          MaxMoves  \* bound: how often the fleet changes

Dirs == 1 .. Count

VARIABLES fleet,   \* dir -> what its runner is doing now
          shown,   \* dir -> what it did at the last refresh
          tab, sel, drill,
          popup,   \* the modal overlay
          armed,   \* the action of the confirm popup, or of the suspension
          place,   \* browsing, confirming, or where a suspension stands
          tty,     \* the modes that are on at the terminal
          tokens,  \* key -> the token in the config
          needed,  \* history: key -> the dirs shown when its token was validated
          cancelled, \* history: runners a recycle stopped in a job of before its y
          jobs,    \* history: runners that were busy when the operator said y
          moves

view == <<tab, sel, drill>>
world == <<fleet, moves>>
config == <<tokens, needed>>
action == <<armed, place, tty, cancelled, jobs>>
vars == <<world, shown, view, popup, action, config>>

Present(f) == {d \in Dirs : f[d] # "absent"}
\* The dir in a row of the table.
Row(i) == CHOOSE d \in Present(shown) : Cardinality({e \in Present(shown) : e <= d}) = i
Rows == 1 .. Cardinality(Present(shown))

Popups == [kind : {"none", "help", "info", "pick", "org", "remove", "saved", "failed"}]
            \cup [kind : {"pat", "sure"}, key : Keys]
            \cup [kind : {"confirmed"}, key : Keys, token : Tokens, mine : SUBSET Dirs]
Closed == [kind |-> "none"]
Actions == [do : {"restart", "recycle"}, dir : Dirs] \cup [do : {"hooks", "editor"}]
NoAction == [do |-> "none"]
Tui == {"raw", "alternate", "mouse"}

TypeOK ==
  /\ fleet \in [Dirs -> {"absent", "idle", "busy", "stopped"}]
  /\ shown \in [Dirs -> {"absent", "idle", "busy", "stopped"}]
  /\ tab \in {"summary", "jobs", "trends", "config"}
  /\ sel \in Rows \cup {0} /\ (sel = 0 <=> Rows = {})
  /\ drill \in Dirs \cup {None}
  /\ popup \in Popups /\ armed \in Actions \cup {NoAction}
  /\ place \in {"browsing", "confirm", "torn", "stop", "purge", "start", "ran", "gone"}
  /\ tty \in SUBSET Tui
  /\ tokens \in [Keys -> Tokens \cup {None}] /\ needed \in [Keys -> SUBSET Dirs]
  /\ cancelled \in SUBSET Dirs /\ jobs \in SUBSET Dirs
  /\ moves \in 0 .. MaxMoves

Init ==
  /\ fleet \in [Dirs -> {"absent", "idle"}] /\ shown = fleet
  /\ tab = "summary" /\ drill = None
  /\ sel = IF Present(fleet) = {} THEN 0 ELSE 1
  /\ popup = Closed /\ armed = NoAction /\ place = "browsing" /\ tty = Tui
  /\ tokens = [k \in Keys |-> None] /\ needed = [k \in Keys |-> {}]
  /\ cancelled = {} /\ jobs = {} /\ moves = 0

-----------------------------------------------------------------------------
\* Mutant of Clamped: the selection is left where it was.
Clamped_Not(i, n) == IF i = 0 /\ n > 0 THEN 1 ELSE i

\* clamp_selection: nothing is selected in an empty table.
Clamped(i, n) == IF n = 0 THEN 0 ELSE IF i = 0 THEN 1 ELSE IF i > n THEN n ELSE i

\* refresh: the list is rebuilt; the drill-down is kept by dir.
Refreshed ==
  /\ shown' = fleet
  /\ sel' = Clamped(sel, Cardinality(Present(fleet)))
  /\ UNCHANGED <<tab, drill>>

\* Every two seconds, whatever is open, or by [r].
Refresh ==
  /\ place \in {"browsing", "confirm"}
  /\ Refreshed
  /\ UNCHANGED <<world, popup, action, config>>

Free == place = "browsing" /\ popup = Closed

\* set_tab, by key or click: leaves the drill-down.
SetTab(t) ==
  /\ Free /\ (tab # t \/ drill # None)
  /\ tab' = t /\ drill' = None
  /\ UNCHANGED <<world, shown, sel, popup, action, config>>

\* move_selection wraps around; a click selects a row.
Move(i) ==
  /\ Free /\ tab = "summary" /\ drill = None /\ Rows # {}
  /\ sel' = i
  /\ UNCHANGED <<world, shown, tab, drill, popup, action, config>>

\* enter_detail, by key or double click.
Enter ==
  /\ Free /\ tab = "summary" /\ drill = None /\ sel \in Rows
  /\ drill' = Row(sel)
  /\ UNCHANGED <<world, shown, tab, sel, popup, action, config>>

Back ==
  /\ Free /\ drill # None
  /\ drill' = None
  /\ UNCHANGED <<world, shown, tab, sel, popup, action, config>>

\* [?] anywhere; [a], and [h] without root, on the Config tab.
Open(kind) ==
  /\ Free /\ (kind = "help" \/ (tab = "config" /\ drill = None))
  /\ popup' = [kind |-> kind]
  /\ UNCHANGED <<world, shown, view, action, config>>

Arm(a) ==
  /\ Free
  /\ armed' = a /\ place' = "confirm"
  /\ UNCHANGED <<world, shown, view, popup, tty, cancelled, jobs, config>>

\* [o], and [h] as root.
ArmHooks == tab = "config" /\ drill = None /\ \E a \in {"hooks", "editor"} : Arm([do |-> a])

\* [R] and [C] on a runner that the last refresh still found; a recycle only of
\* one it found idle.
ArmRunner ==
  /\ drill # None /\ shown[drill] # "absent"
  /\ \E a \in {"restart", "recycle"} :
       (a = "recycle" => shown[drill] = "idle") /\ Arm([do |-> a, dir |-> drill])

Cancel ==
  /\ place = "confirm"
  /\ armed' = NoAction /\ place' = "browsing"
  /\ UNCHANGED <<world, shown, view, popup, tty, cancelled, jobs, config>>

-----------------------------------------------------------------------------
\* ratatui::restore and MouseCapture::drop, on the way out.
Leave == place' = "gone" /\ armed' = NoAction /\ tty' = {}

Quit ==
  /\ Free /\ Leave
  /\ UNCHANGED <<world, shown, view, popup, cancelled, jobs, config>>

\* [y]: Suspension::enter leaves raw mode, then the alternate screen; a failure
\* ends the program.
Suspend ==
  /\ place = "confirm"
  /\ \/ place' = "torn" /\ tty' = {} /\ armed' = armed
     \/ Leave
  /\ jobs' = {d \in Dirs : fleet[d] = "busy"}
  /\ UNCHANGED <<world, shown, view, popup, cancelled, config>>

\* Mutant of Execute: the runner's state is the one it was armed with.
Execute_Trusting ==
  /\ place = "torn"
  /\ place' = IF armed.do = "recycle" THEN "stop" ELSE "ran"
  /\ UNCHANGED <<world, shown, view, popup, armed, tty, cancelled, jobs, config>>

\* The action runs on the terminal, with its child's outcome. A recycle looks
\* first whether its runner is idle now.
Execute ==
  /\ place = "torn"
  /\ place' = IF armed.do = "recycle" /\ fleet[armed.dir] = "idle" THEN "stop" ELSE "ran"
  /\ fleet' = IF armed.do = "restart" /\ fleet[armed.dir] # "absent"
              THEN [fleet EXCEPT ![armed.dir] = "idle"] ELSE fleet
  /\ UNCHANGED <<moves, shown, view, popup, armed, tty, cancelled, jobs, config>>

\* The steps of a recycle; the first that fails is the last one run.
StopUnit ==
  /\ place = "stop"
  /\ \/ /\ place' = "purge"
        /\ fleet' = [fleet EXCEPT ![armed.dir] = IF @ = "absent" THEN @ ELSE "stopped"]
        /\ cancelled' = IF fleet[armed.dir] = "busy" /\ armed.dir \in jobs
                        THEN cancelled \cup {armed.dir} ELSE cancelled
     \/ place' = "ran" /\ UNCHANGED <<fleet, cancelled>>
  /\ UNCHANGED <<moves, shown, view, popup, armed, tty, jobs, config>>

Purge ==
  /\ place = "purge" /\ place' \in {"start", "ran"}
  /\ UNCHANGED <<world, shown, view, popup, armed, tty, cancelled, jobs, config>>

StartUnit ==
  /\ place = "start" /\ place' = "ran"
  /\ fleet' \in {[fleet EXCEPT ![armed.dir] = IF @ = "stopped" THEN "idle" ELSE @], fleet}
  /\ UNCHANGED <<moves, shown, view, popup, armed, tty, cancelled, jobs, config>>

\* Suspension::resume: back to the alternate screen. When that fails, drop tries
\* once more, and the program ends.
Resume ==
  /\ place = "ran"
  /\ \/ place' = "browsing" /\ armed' = NoAction /\ tty' = Tui
     \/ Leave
  /\ UNCHANGED <<world, shown, view, popup, cancelled, jobs, config>>

\* A panic anywhere: the hook leaves raw mode and the alternate screen, dropping
\* MouseCapture turns the mouse off, and a suspension is not resumed.
Panic ==
  /\ place # "gone" /\ Leave
  /\ UNCHANGED <<world, shown, view, popup, cancelled, jobs, config>>

-----------------------------------------------------------------------------
\* The wizard. Esc closes it anywhere, and so does [n] where it asks.
In(kind) == place = "browsing" /\ popup.kind = kind
To(p) == popup' = p /\ UNCHANGED <<world, shown, view, action, config>>

Close == popup.kind \notin {"none", "saved", "failed"} /\ place = "browsing" /\ To(Closed)

PickAdd == In("pick") /\ To([kind |-> "org"])
PickRemove == In("pick") /\ To([kind |-> "remove"])
TypeKey(k) == In("org") /\ To([kind |-> "pat", key |-> k])
TypeRemoved(k) == In("remove") /\ To([kind |-> "sure", key |-> k])

\* validate: a fine-grained token that lists the runners of every scope under
\* the key, or of the org itself when no runner here is of that key. Otherwise,
\* or when GitHub fails, the operator stays at the input.
Accepts(t, dirs) == t.fine /\ dirs \subseteq t.grants

Validate(t) ==
  /\ In("pat")
  /\ LET mine == {d \in Present(shown) : Owner[d] = popup.key} IN
     /\ Accepts(t, mine)
     /\ To([kind |-> "confirmed", key |-> popup.key, token |-> t, mine |-> mine])

\* write, through the collector or directly; a failure may come after the fact.
Save ==
  /\ In("confirmed")
  /\ \/ /\ tokens' = [tokens EXCEPT ![popup.key] = popup.token]
        /\ needed' = [needed EXCEPT ![popup.key] = popup.mine]
        /\ popup' \in {[kind |-> "saved"], [kind |-> "failed"]}
     \/ /\ UNCHANGED config
        /\ popup' = [kind |-> "failed"]
  /\ UNCHANGED <<world, shown, view, action>>

Remove ==
  /\ In("sure")
  /\ \/ /\ tokens' = [tokens EXCEPT ![popup.key] = None]
        /\ popup' \in {[kind |-> "saved"], [kind |-> "failed"]}
     \/ /\ tokens' = tokens
        /\ popup' = [kind |-> "failed"]
  /\ UNCHANGED <<world, shown, view, action, needed>>

\* Any key: after a change the config is read again and the view refreshed.
DoneSaved ==
  /\ In("saved") /\ popup' = Closed /\ Refreshed
  /\ UNCHANGED <<world, action, config>>

DoneFailed == In("failed") /\ To(Closed)

-----------------------------------------------------------------------------
\* A runner takes a job, ends it, is installed, removed, stopped or started.
FleetMoves(d) ==
  /\ moves < MaxMoves /\ moves' = moves + 1
  /\ \E s \in {"absent", "idle", "busy", "stopped"} \ {fleet[d]} : fleet' = [fleet EXCEPT ![d] = s]
  /\ jobs' = IF fleet[d] = "busy" THEN jobs \ {d} ELSE jobs
  /\ UNCHANGED <<shown, view, popup, armed, place, tty, cancelled, config>>

Browse ==
  \/ Refresh \/ Enter \/ Back
  \/ \E t \in {"summary", "jobs", "trends", "config"} : SetTab(t)
  \/ \E i \in Rows : Move(i)
  \/ \E kind \in {"help", "info", "pick"} : Open(kind)
Act == ArmHooks \/ ArmRunner \/ Cancel \/ Suspend \/ Execute \/ StopUnit \/ Purge \/ StartUnit \/ Resume
Wizard ==
  \/ Close \/ PickAdd \/ PickRemove \/ Save \/ Remove \/ DoneSaved \/ DoneFailed
  \/ \E k \in Keys : TypeKey(k) \/ TypeRemoved(k)
  \/ \E t \in Tokens : Validate(t)

Next == Browse \/ Act \/ Wizard \/ Quit \/ Panic \/ \E d \in Dirs : FleetMoves(d)

Spec == Init /\ [][Next]_vars

-----------------------------------------------------------------------------
\* "An open overlay captures every key" (tui/mod.rs:78) and a confirm popup is
\* answered before anything else: the two are never open at once, and neither is
\* left open by what happens behind it.
OneModal == popup # Closed => place \in {"browsing", "gone"}

\* The terminal is the dashboard's while it draws, the shell's while an action
\* runs, and the shell's again however the program ends.
TerminalFits ==
  /\ place \in {"browsing", "confirm"} => tty = Tui
  /\ place \notin {"browsing", "confirm"} => tty = {}

\* "Idle only" (input/action.rs:48): no job that was running when the operator
\* said yes is cancelled by a recycle, although the runner was idle when the
\* action was armed.
RecycleSparesJobs == cancelled = {}

\* "An unvalidated PAT cannot be persisted" (overlay/wizard/mod.rs:2): a token in
\* the config is fine-grained and could list every scope its key had here.
PersistedWereValidated ==
  \A k \in Keys : tokens[k] # None => tokens[k].fine /\ needed[k] \subseteq tokens[k].grants
=============================================================================
