------------------------------- MODULE HookEnv ------------------------------
(***************************************************************************)
(* What a runner's .env says about its two job hooks, and the pure rules   *)
(* by which ghr-stats reads and rewrites it (shared/hooks/install,         *)
(* uninstall/hooks.rs).                                                    *)
(*                                                                         *)
(* A hook path is one of the owner's scripts, the shared script of its     *)
(* slot ("script"), or the runner's chain wrapper of its slot ("wrapper"). *)
(* rest counts the owner's edits that the other lines of the file hold.    *)
(***************************************************************************)
EXTENDS Naturals

CONSTANTS Hooks,  \* the owner's own hook scripts
          None    \* no assignment, no file

Slots == {"started", "completed"}
Ours  == {"script", "wrapper"}
Paths == Hooks \cup Ours

\* What one assignment of the variables holds, and a whole file.
Env == [started : Paths \cup {None}, completed : Paths \cup {None},
        log : BOOLEAN, rest : Nat]

\* is_directly_in: a path under our hooks dir.
Inside(p) == p \in Ours

\* classify: both variables must be ours for the runner to be ours.
Classify(e) ==
  IF \A s \in Slots : e[s] = None THEN "unset"
  ELSE IF \A s \in Slots : Inside(e[s]) THEN "ours" ELSE "foreign"

\* rewrite_env: the three variables are dropped and written again; the log's
\* only when one is given. Every other line survives.
Rewritten(e, started, completed, log) ==
  [e EXCEPT !.started = started, !.completed = completed, !.log = log]

\* remove_hook_vars.
Removed(e) == Rewritten(e, None, None, FALSE)

\* ensure_event_log.
WithLog(e) == [e EXCEPT !.log = TRUE]

\* plan_chain_slot: a slot with a hook gets a wrapper around it, one without
\* gets our script.
ChainTarget(original) == IF original = None THEN "script" ELSE "wrapper"

Chained(e) == Rewritten(e, ChainTarget(e.started), ChainTarget(e.completed), TRUE)

\* classify_revert: only a file that points at us in both variables is touched.
RevertKind(e) ==
  CASE \A s \in Slots : e[s] = None -> "leave"
    [] \A s \in Slots : e[s] = "wrapper" -> "restore"
    [] \A s \in Slots : e[s] = "script" -> "strip"
    [] OTHER -> IF \/ \A s \in Slots : Inside(e[s])
                   \/ \E s, o \in Slots : Inside(e[s]) /\ e[o] = None
                THEN "manual" ELSE "leave"
=============================================================================
