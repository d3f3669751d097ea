------------------------------- MODULE Doctor -------------------------------
(***************************************************************************)
(* `ghr-stats doctor` (ops/doctor/): what its host checks conclude from    *)
(* what this user can see, and an operator who does what they advise and   *)
(* runs it again. The collector's checks are in Answers.                   *)
(***************************************************************************)
EXTENDS FiniteSets, Naturals

CONSTANT Most  \* bound: runners, and orgs, that differ in kind

VARIABLES host,   \* the facts
          root,   \* doctor is run as root
          online, \* without --offline
          report  \* check -> its outcome, once it has run

vars == <<host, root, online, report>>

Checks == {"config", "runner-roots", "database", "hooks", "tokens"}
None == "none"
UpTo(kinds) == {s \in SUBSET kinds : Cardinality(s) <= Most}

\* "private" is what only root can read; a "linked" .env is refused to anyone.
Hosts == {h \in [config : {"missing", "invalid", "private", "fine"},
                 roots  : {"none", "empty", "found"},
                 db     : {"absent", "private", "there"},
                 envs   : UpTo({"ours", "foreign", "unset", "private", "linked"}),
                 orgs   : UpTo({"valid", "rejected", "none", "unsupported"})] :
            (h.envs # {}) = (h.roots = "found")}

Pass       == [status |-> "pass", advice |-> None]
Fail(fix)  == [status |-> "fail", advice |-> fix]
Skip(why)  == [status |-> "skipped", advice |-> why]

\* load_config, config_check.
Config ==
  CASE host.config = "missing" -> Fail("config")
    [] host.config = "invalid" -> Fail("config")
    [] host.config = "private" /\ ~root -> Skip("root")
    [] OTHER -> Pass

Roots ==
  CASE host.roots = "none" -> Fail("config roots")
    [] host.roots = "empty" -> Fail("config roots")
    [] OTHER -> Pass

\* database_check: existence only.
Database ==
  CASE host.db = "absent" -> Fail("start")
    [] host.db = "private" /\ ~root -> Skip("root")
    [] OTHER -> Pass

\* What install::detect makes of a runner's .env.
Seen(env) == IF env = "linked" \/ (env = "private" /\ ~root) THEN "unreadable"
             ELSE IF env = "private" THEN "ours" ELSE env

\* Mutant of Hooks: what could not be read is taken for hooked.
Hooks_Unread ==
  LET seen == {Seen(e) : e \in host.envs} IN
  CASE seen = {} -> Skip("runner-roots")
    [] {"unset", "foreign"} \cap seen # {} -> Fail("config hooks")
    [] OTHER -> Pass

\* hooks_check.
Hooks ==
  LET seen == {Seen(e) : e \in host.envs} IN
  CASE seen = {} -> Skip("runner-roots")
    [] {"unset", "foreign"} \cap seen # {} -> Fail("config hooks")
    [] {"unset", "foreign"} \cap seen = {} /\ "unreadable" \in seen -> Skip("root")
    [] OTHER -> Pass

\* tokens_check.
Tokens ==
  CASE host.orgs = {} -> Fail("config token")
    [] host.orgs # {} /\ ~online -> Skip("online")
    [] online /\ "rejected" \in host.orgs -> Fail("config token")
    [] online /\ "rejected" \notin host.orgs /\ "none" \in host.orgs /\ "valid" \notin host.orgs ->
         Fail("config token")
    [] OTHER -> Pass

\* diagnose: without a config the checks that need one are skipped for its reason.
Diagnosis ==
  [id \in Checks |->
     IF id # "config" /\ Config # Pass THEN Skip(Config.advice)
     ELSE CASE id = "config" -> Config [] id = "runner-roots" -> Roots
            [] id = "database" -> Database [] id = "hooks" -> Hooks [] OTHER -> Tokens]

Statuses == {report[id].status : id \in Checks}
Verdict == IF "fail" \in Statuses THEN "degraded"
           ELSE IF "skipped" \in Statuses THEN "unknown" ELSE "ok"

Blank == [id \in Checks |-> Skip(None)]

Init == host \in Hosts /\ root \in BOOLEAN /\ online \in BOOLEAN /\ report = Blank

Run == report = Blank /\ report' = Diagnosis /\ UNCHANGED <<host, root, online>>

\* What the operator does on an advice.
Advised(advice) ==
  CASE advice = "config" -> [host EXCEPT !.config = "fine"]
    [] advice = "config roots" -> [host EXCEPT !.roots = "found", !.envs = {"unset"}]
    [] advice = "start" -> [host EXCEPT !.db = "private"]
    [] advice = "config hooks" ->
         [host EXCEPT !.envs = {IF e \in {"unset", "foreign"} THEN "ours" ELSE e : e \in @}]
    [] advice = "config token" ->
         [host EXCEPT !.orgs = (@ \ {"rejected", "none"}) \cup {"valid"}]
    [] OTHER -> host

Follow(id) ==
  /\ report[id].status # "pass" /\ report[id].advice # None
  /\ host' = Advised(report[id].advice)
  /\ root' = (root \/ report[id].advice = "root")
  /\ online' = (online \/ report[id].advice = "online")
  /\ report' = Blank

Next == Run \/ \E id \in Checks : Follow(id)

Spec == Init /\ [][Next]_vars

-----------------------------------------------------------------------------
\* What has to be there for per-job data reconciled with GitHub.
Whole == /\ host.config \in {"private", "fine"} /\ host.roots = "found"
         /\ host.db # "absent"
         /\ {"unset", "foreign"} \cap host.envs = {}
         /\ host.orgs # {} /\ "rejected" \notin host.orgs

\* Doctor never passes what it did not see ("never a restatement", mod.rs:31,
\* and "doctor would then report on a config it never read", mod.rs:3): "ok"
\* only on a whole host with nothing hidden from it, "degraded" only when
\* something is missing; and unless a .env is linked, some advice it gives
\* changes something, so that who follows it is never stuck.
DoctorHonest ==
  report # Blank =>
    /\ Verdict = "ok" => Whole /\ "linked" \notin host.envs /\ online
    /\ Verdict = "degraded" => ~Whole \/ host.orgs \cap {"valid"} = {}
    /\ Verdict # "ok" /\ "linked" \notin host.envs =>
         \E id \in Checks :
            \/ report[id].status # "pass" /\ report[id].advice \in {"root", "online"}
            \/ report[id].status = "fail" /\ Advised(report[id].advice) # host
=============================================================================
