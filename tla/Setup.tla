------------------------------- MODULE Setup --------------------------------
(***************************************************************************)
(* `ghr-stats systemd install` (ops/systemd.rs) and `ghr-stats uninstall`  *)
(* (ops/uninstall/) on a host where either scope may be installed and its  *)
(* collector running: the artifacts on disk, the unit's state in systemd   *)
(* and one command at a time, which may fail or be killed at every step.   *)
(* The hooks domain is in HookInstall.                                     *)
(***************************************************************************)
EXTENDS Naturals, FiniteSets

CONSTANTS Scopes, Versions, MaxCommands

Domains == {"service", "binary", "config", "data"}
Item    == [service |-> "unit", binary |-> "bin", config |-> "config", data |-> "db"]
Steps   == {"copy", "rename", "unit", "enable", "restart"}

VARIABLES
  bin,      \* the installed binary: a version, "torn" (half written) or "none"
  has,      \* other artifacts of a scope: unit, staged, config, db, socket
  enabled,  \* scopes whose unit starts at boot
  running,  \* the version the collector of a scope runs, or "none"
  cmd,      \* the command in progress
  cut,      \* scopes whose binary was removed from under its unit
  spent     \* commands started, a bound

vars == <<bin, has, enabled, running, cmd, cut, spent>>

NoCmd == [kind |-> "none", scope |-> "user", ver |-> "none", root |-> FALSE,
          at |-> "idle", plan |-> {}, result |-> "none"]

Item_(d, s) == Item[d] \in has[s] \cup (IF bin[s] = "none" THEN {} ELSE {"bin"})

Goto(at)     == cmd' = [cmd EXCEPT !.at = at]
Finish(r)    == cmd' = [NoCmd EXCEPT !.result = r, !.scope = cmd.scope, !.ver = cmd.ver]
Idle         == cmd.kind = "none"
At(kind, at) == cmd.kind = kind /\ cmd.at = at

-----------------------------------------------------------------------------
(* systemd install. *)

\* From the installed path there is nothing to copy.
Install(s, v, root) ==
  /\ Idle /\ spent < MaxCommands /\ spent' = spent + 1
  /\ s = "system" => root
  /\ cmd' = [NoCmd EXCEPT !.kind = "install", !.scope = s, !.ver = v, !.root = root,
                          !.at = IF bin[s] = v THEN "unit" ELSE "copy"]
  /\ UNCHANGED <<bin, has, enabled, running, cut>>

\* Mutant: the installed file itself is overwritten.
Copy_InPlace(s) ==
  /\ At("install", "copy") /\ bin' = [bin EXCEPT ![s] = "torn"] /\ Goto("rename")
  /\ UNCHANGED <<has, enabled, running, cut, spent>>

\* The copy is staged beside its target, which a running collector still uses.
Copy(s) ==
  /\ At("install", "copy") /\ has' = [has EXCEPT ![s] = @ \cup {"staged"}] /\ Goto("rename")
  /\ UNCHANGED <<bin, enabled, running, cut, spent>>

Rename(s) ==
  /\ At("install", "rename")
  /\ bin' = [bin EXCEPT ![s] = cmd.ver] /\ has' = [has EXCEPT ![s] = @ \ {"staged"}]
  /\ cut' = cut \ {s}
  /\ Goto("unit")
  /\ UNCHANGED <<enabled, running, spent>>

\* The unit is written and, once reloaded, can be enabled.
WriteUnit(s) ==
  /\ At("install", "unit") /\ has' = [has EXCEPT ![s] = @ \cup {"unit"}] /\ Goto("enable")
  /\ UNCHANGED <<bin, enabled, running, cut, spent>>

Enable(s) ==
  /\ At("install", "enable") /\ enabled' = enabled \cup {s} /\ Goto("restart")
  /\ UNCHANGED <<bin, has, running, cut, spent>>

\* Mutant: `start` leaves a running collector alone.
Restart_StartOnly(s) ==
  /\ At("install", "restart")
  /\ running' = [running EXCEPT ![s] = IF @ = "none" THEN bin[s] ELSE @]
  /\ has' = [has EXCEPT ![s] = @ \cup {"db", "socket"}]
  /\ Finish("installed")
  /\ UNCHANGED <<bin, enabled, cut, spent>>

\* The collector is replaced, and creates its database and socket.
Restart(s) ==
  /\ At("install", "restart")
  /\ running' = [running EXCEPT ![s] = bin[s]]
  /\ has' = [has EXCEPT ![s] = @ \cup {"db", "socket"}]
  /\ Finish("installed")
  /\ UNCHANGED <<bin, enabled, cut, spent>>

\* A step fails: a failed rename takes its staged file away.
Fail ==
  /\ cmd.kind = "install" /\ Finish("failed")
  /\ has' = [has EXCEPT ![cmd.scope] = IF cmd.at = "rename" THEN @ \ {"staged"} ELSE @]
  /\ UNCHANGED <<bin, enabled, running, cut, spent>>

\* The command is killed between two steps.
Killed ==
  /\ cmd.kind # "none" /\ Finish("killed")
  /\ UNCHANGED <<bin, has, enabled, running, cut, spent>>

-----------------------------------------------------------------------------
(* uninstall. *)

\* Without a domain it is a dry run of all of them; --yes then is refused, as is
\* the system scope without root, before anything is looked at.
Uninstall(s, ds, yes, root) ==
  /\ Idle /\ spent < MaxCommands /\ spent' = spent + 1
  /\ LET shown   == {d \in IF ds = {} THEN Domains ELSE ds : Item_(d, s)}
         refused == (ds = {} /\ yes) \/ (ds # {} /\ s = "system" /\ ~ root)
     IN  cmd' = IF refused \/ ds = {} \/ shown = {}
                THEN [NoCmd EXCEPT !.result = IF refused THEN "refused" ELSE "shown"]
                ELSE [NoCmd EXCEPT !.kind = "uninstall", !.scope = s, !.root = root,
                                   !.plan = shown, !.at = IF yes THEN "service" ELSE "confirm"]
  /\ UNCHANGED <<bin, has, enabled, running, cut>>

Answer(yes) ==
  /\ At("uninstall", "confirm") /\ IF yes THEN Goto("service") ELSE Finish("aborted")
  /\ UNCHANGED <<bin, has, enabled, running, cut, spent>>

\* Stopping is best effort; the unit file's removal may fail and is reported.
RemoveService(s) ==
  /\ At("uninstall", "service")
  /\ IF "service" \notin cmd.plan THEN UNCHANGED <<has, enabled, running>>
     ELSE \E stopped, removed \in BOOLEAN :
            /\ running' = IF stopped THEN [running EXCEPT ![s] = "none"] ELSE running
            /\ enabled' = IF stopped THEN enabled \ {s} ELSE enabled
            /\ has' = [has EXCEPT ![s] = IF removed THEN @ \ {"unit", "socket"} ELSE @]
  /\ Goto("binary")
  /\ UNCHANGED <<bin, cut, spent>>

\* The rest goes on whatever became of the service.
RemoveBinary(s) ==
  /\ At("uninstall", "binary")
  /\ \E ok \in BOOLEAN :
       IF ok /\ "binary" \in cmd.plan
       THEN bin' = [bin EXCEPT ![s] = "none"]
            /\ cut' = IF "unit" \in has[s] \/ s \in enabled THEN cut \cup {s} ELSE cut
       ELSE UNCHANGED <<bin, cut>>
  /\ Goto("files")
  /\ UNCHANGED <<has, enabled, running, spent>>

\* Config and data, each file on its own.
RemoveFiles(s) ==
  /\ At("uninstall", "files")
  /\ \E gone \in SUBSET (cmd.plan \cap {"config", "data"}) :
       has' = [has EXCEPT ![s] = @ \ {Item[d] : d \in gone}]
  /\ Finish("removed")
  /\ UNCHANGED <<bin, enabled, running, cut, spent>>

-----------------------------------------------------------------------------
(* systemd on its own: at boot, and when the collector dies. *)

\* A unit that is enabled starts what its ExecStart points at.
Boot(s) ==
  /\ running[s] = "none" /\ s \in enabled /\ "unit" \in has[s] /\ bin[s] \in Versions
  /\ running' = [running EXCEPT ![s] = bin[s]]
  /\ has' = [has EXCEPT ![s] = @ \cup {"db", "socket"}]
  /\ UNCHANGED <<bin, enabled, cmd, cut, spent>>

Dies(s) ==
  /\ running[s] # "none" /\ running' = [running EXCEPT ![s] = "none"]
  /\ UNCHANGED <<bin, has, enabled, cmd, cut, spent>>

Init ==
  /\ bin = [s \in Scopes |-> "none"] /\ has \in [Scopes -> {{}, {"config"}}]
  /\ enabled = {} /\ running = [s \in Scopes |-> "none"]
  /\ cmd = NoCmd /\ cut = {} /\ spent = 0

Next ==
  \/ \E s \in Scopes, v \in Versions, root \in BOOLEAN : Install(s, v, root)
  \/ \E s \in Scopes : /\ s = cmd.scope
                       /\ \/ Copy(s) \/ Rename(s) \/ WriteUnit(s) \/ Enable(s) \/ Restart(s)
                          \/ RemoveService(s) \/ RemoveBinary(s) \/ RemoveFiles(s)
  \/ Fail \/ Killed
  \/ \E s \in Scopes, ds \in SUBSET Domains, yes, root \in BOOLEAN :
       Uninstall(s, ds, yes, root)
  \/ \E yes \in BOOLEAN : Answer(yes)
  \/ \E s \in Scopes : Boot(s) \/ Dies(s)

Spec == Init /\ [][Next]_vars

-----------------------------------------------------------------------------
(* Properties. *)

TypeOK ==
  /\ bin \in [Scopes -> Versions \cup {"none", "torn"}]
  /\ has \in [Scopes -> SUBSET {"unit", "staged", "config", "db", "socket"}]
  /\ enabled \subseteq Scopes /\ running \in [Scopes -> Versions \cup {"none"}]
  /\ cut \subseteq Scopes /\ spent \in 0 .. MaxCommands

\* An install killed at any step leaves a whole binary, and a unit systemd will
\* start has one, unless an uninstall took the binary and left the unit.
UnitRunnable ==
  \A s \in Scopes :
    /\ bin[s] # "torn"
    /\ s \in enabled \/ "unit" \in has[s] => bin[s] \in Versions \/ s \in cut

\* An install that reports success has replaced the collector: it runs the
\* version installed, under a unit that starts it again.
InstallTook ==
  cmd'.result = "installed" /\ cmd.result # "installed" =>
       LET s == cmd.scope IN
         /\ running'[s] = cmd.ver /\ bin'[s] = cmd.ver
         /\ s \in enabled' /\ "unit" \in has'[s]

\* What an uninstall removes is what it showed, after consent, in its own scope
\* and, in the system scope, as root; a dry run removes nothing.
RemovedShown ==
  \A s \in Scopes, d \in Domains :
       Item_(d, s) /\ ~ Item_(d, s)' =>
         /\ cmd.kind = "uninstall" /\ cmd.scope = s /\ d \in cmd.plan /\ cmd.at # "confirm"
         /\ s = "system" => cmd.root
=============================================================================
