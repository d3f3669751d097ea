----------------------------- MODULE HookInstall ----------------------------
(***************************************************************************)
(* Installing, chaining, repairing and undoing the job hooks of runners    *)
(* (ops/configure/hooks.rs, ops/uninstall/{hooks,apply}.rs), while their   *)
(* owner edits the same .env files and the runners start and run jobs.     *)
(* A runner reads its .env when it starts.                                 *)
(***************************************************************************)
EXTENDS HookEnv

CONSTANTS Runners, Tools,
          MaxRuns,  \* bound: how often a tool is started
          MaxEdits  \* bound: how often an owner edits a runner's hooks

VARIABLES env,      \* runner -> its .env
          wraps,    \* runner -> slot -> what its wrapper wraps; None: no wrapper
          scripts,  \* the slots whose shared script exists
          runner,   \* runner -> its state and the hooks it was started with
          tool,     \* tool -> what it is doing
          runs,
          own,      \* history: runner -> slot -> the hook its owner last chose
          raced,    \* history: runners edited while a tool was about to replace
          rechained,\* history: runners chained in a slot that held ours already
          overlap   \* history: two tools have been at work at once

files == <<env, wraps, scripts>>
history == <<own, raced, rechained, overlap>>
vars == <<files, runner, tool, runs, history>>

Places == {"idle", "detect", "read", "wrap", "check", "replace", "unwrap",
           "restart", "restarting", "plan", "confirm", "apply", "look", "sweep"}
Blank == [started |-> None, completed |-> None, log |-> FALSE, rest |-> 0]
NoPlan == [kind |-> "leave", seen |-> Blank, new |-> Blank]
Plans == [kind : {"leave", "manual", "strip", "restore"}, seen : Env, new : Env]
Idle == [at |-> "idle", op |-> "config", todo |-> {}, r |-> None, job |-> "repair",
         seen |-> Blank, new |-> Blank, left |-> {},
         plans |-> [r \in Runners |-> NoPlan]]

TypeOK ==
  /\ env \in [Runners -> Env]
  /\ wraps \in [Runners -> [Slots -> Paths \cup {None, "blank"}]]
  /\ scripts \in SUBSET Slots
  /\ runner \in [Runners -> [busy : BOOLEAN, started : Paths \cup {None},
                             completed : Paths \cup {None}]]
  /\ tool \in [Tools -> [at : Places, op : {"config", "uninstall"}, todo : SUBSET Runners,
                         r : Runners \cup {None}, seen : Env, new : Env,
                         job : {"repair", "install", "chain", "revert"},
                         left : SUBSET Slots, plans : [Runners -> Plans]]]
  /\ runs \in 0 .. MaxRuns
  /\ own \in [Runners -> [Slots -> Hooks \cup {None}]]
  /\ raced \in SUBSET Runners /\ rechained \in SUBSET Runners /\ overlap \in BOOLEAN

\* The owners' hooks are in place; a runner is untouched, or an earlier run of
\* config has installed or chained ours.
Init ==
  /\ own \in [Runners -> [Slots -> Hooks \cup {None}]]
  /\ \E installed \in SUBSET Runners :
       LET e(r) == [Blank EXCEPT !.started = own[r]["started"], !.completed = own[r]["completed"]] IN
       /\ env = [r \in Runners |-> IF r \in installed THEN Chained(e(r)) ELSE e(r)]
       /\ wraps = [r \in Runners |-> [s \in Slots |-> IF r \in installed THEN own[r][s] ELSE None]]
       /\ scripts = IF installed = {} THEN {} ELSE Slots
  /\ runner = [r \in Runners |-> [busy |-> FALSE, started |-> env[r].started,
                                  completed |-> env[r].completed]]
  /\ tool = [t \in Tools |-> Idle]
  /\ runs = 0 /\ raced = {} /\ rechained = {} /\ overlap = FALSE

-----------------------------------------------------------------------------
\* A tool's next place. What it keeps in hand is dropped when it is done with a
\* runner (NextRunner) or with everything (Done).
Goto(t, place) == tool' = [tool EXCEPT ![t].at = place]
Done(t) == tool' = [tool EXCEPT ![t] = Idle]
NextRunner(t) ==
  tool' = [tool EXCEPT ![t] = [@ EXCEPT !.at = IF tool[t].op = "config" THEN "detect" ELSE "apply",
                                        !.r = None, !.seen = Blank, !.new = Blank, !.left = {}]]

Begin(t, op, place) ==
  /\ tool[t].at = "idle" /\ runs < MaxRuns
  /\ runs' = runs + 1
  /\ overlap' = (overlap \/ \E u \in Tools \ {t} : tool[u].at # "idle")
  /\ tool' = [tool EXCEPT ![t] = [Idle EXCEPT !.at = place, !.op = op, !.todo = Runners]]

\* install_scripts: one script, then the other; a write that fails ends the run.
StartConfig(t) ==
  /\ \/ Begin(t, "config", "detect") /\ scripts' = Slots
     \/ /\ Begin(t, "config", "idle")
        /\ scripts' \in {scripts, scripts \cup {"started"}}
  /\ UNCHANGED <<env, wraps, runner, own, raced, rechained>>

\* apply_hooks on one runner: what detect says decides what is offered, and the
\* operator may refuse. An unreadable .env is passed over.
Detect(t, r) ==
  /\ tool[t].at = "detect" /\ r \in tool[t].todo
  /\ LET job == CASE Classify(env[r]) = "ours"    -> "repair"
                  [] Classify(env[r]) = "unset"   -> "install"
                  [] Classify(env[r]) = "foreign" -> "chain" IN
     \/ tool' = [tool EXCEPT ![t].at = "read", ![t].r = r, ![t].job = job, ![t].todo = @ \ {r}]
     \/ tool' = [tool EXCEPT ![t].todo = @ \ {r}]
  /\ UNCHANGED <<files, runner, runs, history>>

ConfigDone(t) ==
  /\ tool[t].at = "detect" /\ tool[t].todo = {}
  /\ Done(t)
  /\ UNCHANGED <<files, runner, runs, history>>

\* repair_event_log, install_for, chain_for: .env is read again, after the
\* prompt, and the new content is made from that read.
ReadEnv(t) ==
  LET r == tool[t].r
      e == env[r]
      plan(place, new, left) ==
        tool' = [tool EXCEPT ![t].at = place, ![t].seen = e, ![t].new = new, ![t].left = left]
  IN
  /\ tool[t].at = "read"
  /\ \/ tool[t].job = "repair"  /\ ~e.log /\ plan("check", WithLog(e), {})
     \/ tool[t].job = "repair"  /\ e.log /\ NextRunner(t)
     \/ /\ tool[t].job = "install" /\ \A s \in Slots : e[s] = None
        /\ plan("check", Rewritten(e, "script", "script", TRUE), {})
     \/ tool[t].job = "install" /\ (\E s \in Slots : e[s] # None) /\ NextRunner(t)
     \/ LET left == {s \in Slots : e[s] # None} IN
        tool[t].job = "chain" /\ plan(IF left = {} THEN "check" ELSE "wrap", Chained(e), left)
     \/ NextRunner(t)  \* unreadable now
  /\ UNCHANGED <<files, runner, runs, history>>

\* The wrapper of one slot, the started one first, is written around the hook
\* that was read; one that cannot be written leaves .env alone, and may be left
\* truncated.
WriteWrapper(t) ==
  LET r == tool[t].r
      s == IF "started" \in tool[t].left THEN "started" ELSE "completed" IN
  /\ tool[t].at = "wrap"
  /\ \/ /\ wraps' = [wraps EXCEPT ![r][s] = tool[t].seen[s]]
        /\ tool' = [tool EXCEPT ![t].left = @ \ {s},
                                ![t].at = IF tool[t].left = {s} THEN "check" ELSE @]
     \/ wraps' = [wraps EXCEPT ![r][s] = "blank"] /\ NextRunner(t)
     \/ wraps' = wraps /\ NextRunner(t)
  /\ rechained' = IF Inside(tool[t].seen[s]) THEN rechained \cup {r} ELSE rechained
  /\ UNCHANGED <<env, scripts, runner, runs, own, raced, overlap>>

\* Mutant of Check: the file is replaced without looking at it again.
Check_Skipped(t) ==
  /\ tool[t].at = "check"
  /\ Goto(t, "replace")
  /\ UNCHANGED <<files, runner, runs, history>>

\* write_env_as_root, first half: the file must still be what was read.
Check(t) ==
  /\ tool[t].at = "check"
  /\ IF env[tool[t].r] = tool[t].seen THEN Goto(t, "replace") \/ NextRunner(t)
     ELSE NextRunner(t)
  /\ UNCHANGED <<files, runner, runs, history>>

\* Second half: `install` replaces it, or fails. A restored runner's wrappers
\* are then removed.
Replace(t) ==
  LET r == tool[t].r
      restored == tool[t].op = "uninstall" /\ tool[t].plans[r].kind = "restore" IN
  /\ tool[t].at = "replace"
  /\ \/ /\ env' = [env EXCEPT ![r] = tool[t].new]
        /\ tool' = [tool EXCEPT ![t].at = IF restored THEN "unwrap" ELSE "restart",
                                ![t].left = IF restored THEN Slots ELSE {}]
     \/ env' = env /\ NextRunner(t)
  /\ UNCHANGED <<wraps, scripts, runner, runs, history>>

RemoveWrapper(t, s) ==
  /\ tool[t].at = "unwrap" /\ s \in tool[t].left
  /\ wraps' \in {[wraps EXCEPT ![tool[t].r][s] = None], wraps}
  /\ tool' = [tool EXCEPT ![t].left = @ \ {s},
                          ![t].at = IF tool[t].left = {s} THEN "restart" ELSE @]
  /\ UNCHANGED <<env, scripts, runner, runs, history>>

\* restart_if_idle: only a runner that waits for jobs is restarted (it may have
\* taken one by the time systemctl runs), and only if its unit is known.
LookIdle(t) ==
  /\ tool[t].at = "restart"
  /\ \/ ~runner[tool[t].r].busy /\ Goto(t, "restarting")
     \/ NextRunner(t)
  /\ UNCHANGED <<files, runner, runs, history>>

Started(r) == [busy |-> FALSE, started |-> env[r].started, completed |-> env[r].completed]

Restart(t) ==
  /\ tool[t].at = "restarting"
  /\ \/ runner' = [runner EXCEPT ![tool[t].r] = Started(tool[t].r)]
     \/ runner' = runner
  /\ NextRunner(t)
  /\ UNCHANGED <<files, runs, history>>

-----------------------------------------------------------------------------
StartUninstall(t) ==
  /\ Begin(t, "uninstall", "plan")
  /\ UNCHANGED <<files, runner, own, raced, rechained>>

\* Mutant of PlanOf: a chained runner is stripped like a fresh one.
PlanOf_StripsAll(r) ==
  LET e == env[r] IN
  CASE RevertKind(e) \in {"strip", "restore"} -> [kind |-> "strip", seen |-> e, new |-> Removed(e)]
    [] OTHER -> [kind |-> RevertKind(e), seen |-> e, new |-> e]

\* plan_action: a chained runner gets back what its wrappers say they wrap; a
\* wrapper that does not say is left to a human.
PlanOf(r) ==
  LET e == env[r]
      kind == RevertKind(e)
      known == \A s \in Slots : wraps[r][s] \notin {None, "blank"} IN
  CASE kind = "strip" -> [kind |-> kind, seen |-> e, new |-> Removed(e)]
    [] kind = "restore" /\ known ->
         [kind |-> kind, seen |-> e,
          new |-> Rewritten(e, wraps[r]["started"], wraps[r]["completed"], FALSE)]
    [] OTHER -> [kind |-> IF kind = "leave" THEN "leave" ELSE "manual", seen |-> e, new |-> e]

\* Plan::detect, one runner: nothing is written. An unreadable .env is left.
PlanRunner(t, r) ==
  /\ tool[t].at = "plan" /\ r \in tool[t].todo
  /\ \E plan \in {PlanOf(r), NoPlan} :
       tool' = [tool EXCEPT ![t].plans[r] = plan, ![t].todo = @ \ {r},
                            ![t].at = IF tool[t].todo = {r} THEN "confirm" ELSE @]
  /\ UNCHANGED <<files, runner, runs, history>>

\* The plan is shown; with nothing to do, or without a yes, nothing is applied.
Confirm(t) ==
  /\ tool[t].at = "confirm"
  /\ \/ /\ \E r \in Runners : tool[t].plans[r].kind \in {"strip", "restore"}
        /\ tool' = [tool EXCEPT ![t].at = "apply", ![t].todo = Runners]
     \/ Done(t)
  /\ UNCHANGED <<files, runner, runs, history>>

\* apply_runner: the planned content, against the file the plan was made from.
Apply(t, r) ==
  LET plan == tool[t].plans[r] IN
  /\ tool[t].at = "apply" /\ r \in tool[t].todo
  /\ IF plan.kind \in {"strip", "restore"}
     THEN tool' = [tool EXCEPT ![t].at = "check", ![t].r = r, ![t].todo = @ \ {r}, ![t].job = "revert",
                               ![t].seen = plan.seen, ![t].new = plan.new]
     ELSE tool' = [tool EXCEPT ![t].todo = @ \ {r}]
  /\ UNCHANGED <<files, runner, runs, history>>

Applied(t) ==
  /\ tool[t].at = "apply" /\ tool[t].todo = {}
  /\ tool' = [tool EXCEPT ![t].at = "look", ![t].todo = Runners]
  /\ UNCHANGED <<files, runner, runs, history>>

\* env_may_point_into.
MayUse(r) == \E s \in Slots : Inside(env[r][s])

\* gc_shared_scripts: each runner's .env is read once more; one that points into
\* our directory, or cannot be read, keeps the scripts.
Look(t, r) ==
  /\ tool[t].at = "look" /\ r \in tool[t].todo
  /\ \/ /\ ~MayUse(r)
        /\ tool' = [tool EXCEPT ![t].todo = @ \ {r}, ![t].left = Slots,
                                ![t].at = IF tool[t].todo = {r} THEN "sweep" ELSE @]
     \/ Done(t)
  /\ UNCHANGED <<files, runner, runs, history>>

Sweep(t, s) ==
  /\ tool[t].at = "sweep" /\ s \in tool[t].left
  /\ scripts' \in {scripts \ {s}, scripts}
  /\ IF tool[t].left = {s} THEN Done(t) ELSE tool' = [tool EXCEPT ![t].left = @ \ {s}]
  /\ UNCHANGED <<env, wraps, runner, runs, history>>

\* A tool is interrupted.
Killed(t) ==
  /\ tool[t].at # "idle"
  /\ Done(t)
  /\ UNCHANGED <<files, runner, runs, history>>

-----------------------------------------------------------------------------
\* The owner puts a hook of their own into a variable, or removes the line (bound:
\* not once two tools have been at work at once).
OwnerEdits(r, s) ==
  /\ env[r].rest < MaxEdits /\ ~overlap
  /\ \E h \in Hooks \cup {None} :
       /\ env' = [env EXCEPT ![r][s] = h, ![r].rest = @ + 1]
       /\ own' = [own EXCEPT ![r][s] = h]
  /\ raced' = IF \E t \in Tools : tool[t].at = "replace" /\ tool[t].r = r
              THEN raced \cup {r} ELSE raced
  /\ UNCHANGED <<wraps, scripts, runner, tool, runs, rechained, overlap>>

\* The runner takes a job, ends it, or is restarted by the host.
RunnerMoves(r) ==
  /\ runner' \in {[runner EXCEPT ![r].busy = ~@], [runner EXCEPT ![r] = Started(r)]}
  /\ UNCHANGED <<files, tool, runs, history>>

ToolStep(t) ==
  \/ StartConfig(t) \/ ConfigDone(t) \/ ReadEnv(t) \/ WriteWrapper(t)
  \/ Check(t) \/ Replace(t) \/ LookIdle(t) \/ Restart(t)
  \/ StartUninstall(t) \/ Confirm(t) \/ Applied(t) \/ Killed(t)
  \/ \E r \in Runners : Detect(t, r) \/ PlanRunner(t, r) \/ Apply(t, r) \/ Look(t, r)
  \/ \E s \in Slots : RemoveWrapper(t, s) \/ Sweep(t, s)

Next ==
  \/ \E t \in Tools : ToolStep(t)
  \/ \E r \in Runners : RunnerMoves(r) \/ \E s \in Slots : OwnerEdits(r, s)

Spec == Init /\ [][Next]_vars

-----------------------------------------------------------------------------
\* The owner's hook behind a path of a slot, through the wrapper if there is one.
OwnBehind(r, s, p) ==
  CASE p \in Hooks -> p
    [] p = "wrapper" /\ wraps[r][s] \in Hooks -> wraps[r][s]
    [] p = "wrapper" /\ wraps[r][s] \notin Hooks \cup {"script"} -> "lost"
    [] OTHER -> None

Quiet(r) == r \notin raced /\ ~overlap

\* "Never clobber a foreign hook" (install/mod.rs:1): whatever is installed,
\* chained, repaired, undone, fails or is interrupted, the hook its owner last
\* chose for a slot is the one that runs there, directly or through a wrapper.
\* Not where a tool took a slot that held ours already for the owner's.
OwnHookKept ==
  \A r \in Runners : Quiet(r) /\ r \notin rechained =>
    \A s \in Slots : OwnBehind(r, s, env[r][s]) = own[r][s]

\* "A runner never points at a missing script" (configure/hooks.rs:151,
\* uninstall/apply.rs:1): what .env points at in our directory is there, as long
\* as tools are used one at a time.
EnvScriptsExist ==
  \A r \in Runners : Quiet(r) /\ r \notin rechained =>
    \A s \in Slots : /\ env[r][s] = "script" => s \in scripts
                     /\ env[r][s] = "wrapper" => wraps[r][s] # None

\* write_env_as_root refuses a file that changed since it was read: an owner's
\* edit is lost only when it lands between that look and the replacement. rest
\* counts the owner's edits, and a rewrite carries the count it read.
EditKept == \A r \in Runners : env'[r].rest < env[r].rest => r \in raced

\* "Never strand a runner" (uninstall/apply.rs:1), and a hook that cannot be run
\* fails the job (install/mod.rs:2): the hook that a running job's runner was
\* started with is there when the job completes.
NeverStranded ==
  \A r \in Runners : Quiet(r) /\ r \notin rechained /\ runner[r].busy =>
    /\ runner[r].completed = "script" => "completed" \in scripts
    /\ runner[r].completed = "wrapper" => wraps[r]["completed"] # None
=============================================================================
