-------------------------------- MODULE Parts --------------------------------
(***************************************************************************)
(* The parts of ghr-stats that share nothing while they run, one per       *)
(* behaviour. What a verb of the command line does (entrypoint.rs):        *)
(* HookInstall is the hooks step of `config` and `uninstall --hooks`,      *)
(* Setup `systemd install` and the rest of `uninstall`, Configure the      *)
(* other steps of `config`, Screen `tui` and CollectorLink its connection, *)
(* Doctor `doctor`, Answers `status`, `wait` and the exposition, Schema    *)
(* whatever opens the database. What a thread of the collector does        *)
(* (service/serve/mod.rs): Probe is a discovery of runners, Listing a      *)
(* listing of GitHub's, MetricsPush the push thread.                       *)
(***************************************************************************)
EXTENDS Naturals, FiniteSets

CONSTANTS
  Nil,
  OwnHooks, Runners, Tools, MaxRuns, MaxEdits, \* HookInstall; MaxEdits Configure too
  Units, Versions, MaxCommands,              \* Setup
  Owners, Discovered,                        \* Configure
  Count, Keys, Owner, TokenKinds, MaxMoves,  \* Screen; MaxMoves Listing too
  MaxInbox, MaxChanges,                      \* CollectorLink
  Most,                                      \* Doctor
  Watched, Org, MaxAge, Faults, Deadline,    \* Answers
  Openers, Latest, Repeatable,               \* Schema
  Probed, Pids, MaxBefore,                   \* Probe
  AgentIds, NextId, PerPage, MaxPages,       \* Listing
  Intervals, MaxTime                         \* MetricsPush

ASSUME PartsAssumption ==
  /\ OwnHooks \cap {Nil, "script", "wrapper", "blank", "lost"} = {}
  /\ Nil \notin {"script", "wrapper", "blank", "lost"}
  /\ Units \subseteq {"system", "user"} /\ Versions \cap {"none", "torn"} = {}
  /\ Discovered \subseteq Owners
  /\ IsFiniteSet(Watched) /\ DOMAIN Org = Watched /\ MaxAge \in Nat /\ Deadline \in Nat
  /\ Latest \in Nat \ {0} /\ Repeatable \subseteq {Latest}
  /\ Pids \subseteq Nat \ {0} /\ Intervals \subseteq Nat
  /\ AgentIds \subseteq Nat /\ IsFiniteSet(AgentIds) /\ NextId \in Nat \ {0, 1}
  /\ PerPage \in Nat \ {0} /\ MaxPages \in Nat \ {0}

\* What bounds a behaviour of a part is a number, as is that of a table's rows.
ASSUME BoundsAssumption ==
  {Count, MaxRuns, MaxEdits, MaxCommands, MaxMoves, MaxChanges} \subseteq Nat

VARIABLES
  part,
  env, wraps, scripts, runner, tool, runs, own, raced, rechained, overlap,
  bin, has, enabled, running, cmd, cut, spent,
  file, wizard, edits,
  fleet, shown, tab, sel, drill, popup, armed, place, tty, tokens, needed,
  cancelled, jobs, moves,
  server, link, reason, doing, request, inbox, replies, pull, mirror, may,
  answered, disturbed, changes,
  host, root, online, report,
  present, live, gh, age, reach, wait,
  version, applied, build, at, current, known,
  dot, procs, walk, before, lived, found,
  settings, here, registered, poll, outcome, during, fresh, shifts,
  config, db, clock, seen, active, next, pusher, ended, turned

H == INSTANCE HookInstall WITH Hooks <- OwnHooks, None <- Nil
S == INSTANCE Setup WITH Scopes <- Units
C == INSTANCE Configure
T == INSTANCE Screen WITH Tokens <- TokenKinds, None <- Nil
L == INSTANCE CollectorLink WITH None <- Nil, file <- pull, place <- doing
D == INSTANCE Doctor
A == INSTANCE Answers WITH Runners <- Watched
O == INSTANCE Schema
P == INSTANCE Probe WITH Runners <- Probed, report <- found
G == INSTANCE Listing WITH Ids <- AgentIds, moves <- shifts
M == INSTANCE MetricsPush

hookVars   == <<env, wraps, scripts, runner, tool, runs, own, raced, rechained, overlap>>
setupVars  == <<bin, has, enabled, running, cmd, cut, spent>>
wizardVars == <<file, wizard, edits>>
screenVars == <<fleet, shown, tab, sel, drill, popup, armed, place, tty, tokens, needed,
                cancelled, jobs, moves>>
linkVars   == <<server, link, reason, doing, request, inbox, replies, pull, mirror, may,
                answered, disturbed, changes>>
doctorVars == <<host, root, online, report>>
answerVars == <<present, live, gh, age, reach, wait>>
schemaVars == <<version, applied, build, at, current, known>>
probeVars  == <<dot, procs, walk, before, lived, found>>
listVars   == <<settings, here, registered, poll, outcome, during, fresh, shifts>>
pushVars   == <<config, db, clock, seen, active, next, pusher, ended, turned>>
vars == <<part, hookVars, setupVars, wizardVars, screenVars, linkVars, doctorVars,
          answerVars, schemaVars, probeVars, listVars, pushVars>>

-----------------------------------------------------------------------------
\* A part that does not run has no state, and keeps none.
Unused == "unused"

Others(p) ==
  /\ p # "hooks" => env = Unused /\ wraps = Unused /\ scripts = Unused
                    /\ runner = Unused /\ tool = Unused /\ runs = Unused
                    /\ own = Unused /\ raced = Unused /\ rechained = Unused
                    /\ overlap = Unused
  /\ p # "setup" => bin = Unused /\ has = Unused /\ enabled = Unused
                    /\ running = Unused /\ cmd = Unused /\ cut = Unused
                    /\ spent = Unused
  /\ p # "config" => file = Unused /\ wizard = Unused /\ edits = Unused
  /\ p # "tui" => fleet = Unused /\ shown = Unused /\ tab = Unused /\ sel = Unused
                  /\ drill = Unused /\ popup = Unused /\ armed = Unused
                  /\ place = Unused /\ tty = Unused /\ tokens = Unused
                  /\ needed = Unused /\ cancelled = Unused /\ jobs = Unused
                  /\ moves = Unused
  /\ p # "link" => server = Unused /\ link = Unused /\ reason = Unused
                   /\ doing = Unused /\ request = Unused /\ inbox = Unused
                   /\ replies = Unused /\ pull = Unused /\ mirror = Unused
                   /\ may = Unused /\ answered = Unused /\ disturbed = Unused
                   /\ changes = Unused
  /\ p # "doctor" => host = Unused /\ root = Unused /\ online = Unused
                     /\ report = Unused
  /\ p # "status" => present = Unused /\ live = Unused /\ gh = Unused
                     /\ age = Unused /\ reach = Unused /\ wait = Unused
  /\ p # "open" => version = Unused /\ applied = Unused /\ build = Unused
                   /\ at = Unused /\ current = Unused /\ known = Unused
  /\ p # "probe" => dot = Unused /\ procs = Unused /\ walk = Unused
                    /\ before = Unused /\ lived = Unused /\ found = Unused
  /\ p # "list" => settings = Unused /\ here = Unused /\ registered = Unused
                   /\ poll = Unused /\ outcome = Unused /\ during = Unused
                   /\ fresh = Unused /\ shifts = Unused
  /\ p # "push" => config = Unused /\ db = Unused /\ clock = Unused /\ seen = Unused
                   /\ active = Unused /\ next = Unused /\ pusher = Unused
                   /\ ended = Unused /\ turned = Unused

Init ==
  \/ part = "hooks"    /\ H!Init /\ Others(part)
  \/ part = "setup"    /\ S!Init /\ Others(part)
  \/ part = "config"   /\ C!Init /\ Others(part)
  \/ part = "tui"      /\ T!Init /\ Others(part)
  \/ part = "link"     /\ L!Init /\ Others(part)
  \/ part = "doctor"   /\ D!Init /\ Others(part)
  \/ part = "status"   /\ A!Init /\ Others(part)
  \/ part = "open"     /\ O!Init /\ Others(part)
  \/ part = "probe"    /\ P!Init /\ Others(part)
  \/ part = "list"     /\ G!Init /\ Others(part)
  \/ part = "push"     /\ M!Init /\ Others(part)

Only(p) ==
  /\ part = p /\ part' = p
  /\ p # "hooks" => UNCHANGED hookVars
  /\ p # "setup" => UNCHANGED setupVars
  /\ p # "config" => UNCHANGED wizardVars
  /\ p # "tui" => UNCHANGED screenVars
  /\ p # "link" => UNCHANGED linkVars
  /\ p # "doctor" => UNCHANGED doctorVars
  /\ p # "status" => UNCHANGED answerVars
  /\ p # "open" => UNCHANGED schemaVars
  /\ p # "probe" => UNCHANGED probeVars
  /\ p # "list" => UNCHANGED listVars
  /\ p # "push" => UNCHANGED pushVars

Next ==
  \/ Only("hooks")  /\ H!Next
  \/ Only("setup")  /\ S!Next
  \/ Only("config") /\ C!Next
  \/ Only("tui")    /\ T!Next
  \/ Only("link")   /\ L!Next
  \/ Only("doctor") /\ D!Next
  \/ Only("status") /\ A!Next
  \/ Only("open")   /\ O!Next
  \/ Only("probe")  /\ P!Next
  \/ Only("list")   /\ G!Next
  \/ Only("push")   /\ M!Next

Spec == Init /\ [][Next]_vars

-----------------------------------------------------------------------------
(* Properties: those of the parts, each stated in its module. *)

\* Every variable of a part that keeps state over several commands has its type.
TypeOK ==
  /\ part = "hooks"  => H!TypeOK
  /\ part = "setup"  => S!TypeOK
  /\ part = "config" => C!TypeOK
  /\ part = "tui"    => T!TypeOK
  /\ part = "link"   => L!TypeOK
  /\ part = "status" => A!TypeOK

\* "Never clobber a foreign hook" (install/mod.rs:1), and "a runner never points
\* at a missing script" (ops/configure/hooks.rs:151).
HooksIntact == part = "hooks" => H!OwnHookKept /\ H!EnvScriptsExist

\* An owner's edit of .env is lost only when it lands between a tool's last look
\* and its replacement (shared/hooks/env.rs:54).
EditsKept == [][part = "hooks" => H!EditKept]_vars

\* A unit systemd will start has a whole binary (ops/systemd.rs copy_bin).
UnitRunnable == part = "setup" => S!UnitRunnable

\* An install that reports success has replaced the collector (systemd.rs enable).
InstallTakes == [][part = "setup" => S!InstallTook]_vars

\* Consent: `uninstall` removes only what it showed (ops/uninstall/mod.rs), and
\* `config` writes only what it announced (ops/configure/mod.rs).
OnlyAnnounced == [][/\ part = "setup"  => S!RemovedShown
                    /\ part = "config" => C!WrotePlanned]_vars

\* A PAT that is stored was accepted by GitHub, whoever stored it
\* (shared/github/validate.rs).
OnlyValidatedTokens ==
  /\ part = "config" => C!StoredWereValidated
  /\ part = "tui"    => T!PersistedWereValidated

\* The dashboard has one modal at a time, leaves the terminal as it found it, and
\* recycles no runner with a job (tui/mod.rs, tui/input/screen.rs, action.rs).
ScreenSound == part = "tui" => T!OneModal /\ T!TerminalFits /\ T!RecycleSparesJobs

\* A late reply is no other request's answer, and the endpoint's state shown is
\* the file's (ipc/client.rs:98, tui/mutate.rs:115).
LinkHonest == part = "link" => L!AnswersMatch /\ L!MirrorTrue

\* doctor passes only what it saw, and gives advice that helps (ops/doctor/).
DoctorHonest == part = "doctor" => D!DoctorHonest

\* Silence is an all-clear, and `status`, `explain`, `wait` and the exposition say
\* the same of the same state (models/verdict.rs, ops/wait.rs, metrics/encode).
AnswersHonest ==
  part = "status" => /\ A!SilenceIsAllClear /\ A!AnswersAgree
                     /\ A!WaitHonest /\ A!ExpositionAgrees

\* Whoever opens the database finds or makes it its own build's
\* (store/schema.rs:5).
SchemaWhole == part = "open" => O!SchemaWhole

\* A runner is what its own processes made it during the walk
\* (collectors/runners.rs:352).
ProbeSound == part = "probe" => P!ProbeSound

\* A listing is of what was registered meanwhile, and a host sees only a PAT meant
\* for it (shared/github/mod.rs:76, config/mod.rs:249).
ListingHonest == part = "list" => G!ListingHonest

\* A post is paced by the config it saw (metrics/push.rs:58).
PushPaced == [][part = "push" => M!PostPaced]_vars
=============================================================================
