---------------------------- MODULE PartsProofs -----------------------------
(***************************************************************************)
(* Proofs about the parts of Parts, one section each, for any number of    *)
(* runners, tools, versions, requests, processes and intervals. The last   *)
(* section puts the parts together and states the theorems.                *)
(***************************************************************************)
EXTENDS Parts, Integers, Sequences, FiniteSetTheorems, TLAPS

-----------------------------------------------------------------------------
(* Schema and the push thread. *)

\* The version an opener read is no newer than the file's: versions only grow,
\* although a build may apply its migrations after a newer one has.
SchemaInv ==
  /\ version \in Int /\ version <= Latest /\ applied = 1 .. version
  /\ build \in [Openers -> 1 .. Latest]
  /\ at \in [Openers -> O!Places]
  /\ current \in [Openers -> Int] /\ known \in [Openers -> Int]
  /\ \A p \in Openers : at[p] = "begin" =>
       0 <= current[p] /\ current[p] <= version /\ current[p] < build[p]
  /\ \A p \in Openers : at[p] = "open" => known[p] = build[p]

LEMMA SchemaInit == O!Init => SchemaInv
  BY PartsAssumption DEF O!Init, O!Builds, O!Places, SchemaInv

LEMMA SchemaNext == SchemaInv /\ O!Next => SchemaInv'
  <1> SUFFICES ASSUME SchemaInv, NEW p \in Openers,
                      O!Look(p) \/ O!Migrate(p) \/ O!Fails(p) \/ O!Again(p)
               PROVE  SchemaInv'
    BY DEF O!Next
  <1> USE PartsAssumption DEF SchemaInv, O!Places
  <1>1. CASE O!Look(p)
    BY <1>1 DEF O!Look, O!Goes, O!db
  <1>2. CASE O!Migrate(p)
    <2>1. /\ at[p] = "begin" /\ (current[p] + 1 .. build[p]) \cap applied \subseteq Repeatable
          /\ applied' = applied \cup (current[p] + 1 .. build[p]) /\ version' = build[p]
          /\ known' = [known EXCEPT ![p] = version'] /\ at' = [at EXCEPT ![p] = "open"]
          /\ build' = build /\ current' = current
      BY <1>2 DEF O!Migrate, O!Goes, O!Todo
    <2>2. version <= build[p]
      <3>1. SUFFICES ASSUME version > build[p] PROVE FALSE
        OBVIOUS
      <3>2. build[p] \in (current[p] + 1 .. build[p]) \cap applied
        BY <2>1, <3>1
      <3>3. build[p] = Latest
        BY <2>1, <3>2
      <3> QED BY <3>1, <3>3
    <2>3. applied' = 1 .. version'
      BY <2>1, <2>2
    <2> QED BY <2>1, <2>2, <2>3
  <1>3. CASE O!Fails(p)
    BY <1>3 DEF O!Fails, O!Goes, O!db
  <1>4. CASE O!Again(p)
    BY <1>4 DEF O!Again, O!Goes, O!db, O!Builds
  <1> QED BY <1>1, <1>2, <1>3, <1>4

\* The deadline lies an interval after the last post, unless the push was turned
\* on since, or a post is under way.
PushInv ==
  /\ clock \in Nat /\ next \in Nat
  /\ config \in M!Configs /\ seen \in M!Configs
  /\ ended.at \in Nat /\ ended.least \in Nat
  /\ pusher # "post" => turned \/ next >= ended.at + ended.least

LEMMA LeastType == ASSUME NEW c \in M!Configs PROVE M!Least(c) \in Nat
  BY PartsAssumption DEF M!Configs, M!Least

LEMMA PushInit == M!Init => PushInv
  BY DEF M!Init, PushInv

LEMMA PushNext == PushInv /\ M!Next => PushInv' /\ M!PostPaced
  <1> SUFFICES ASSUME PushInv, M!Next PROVE PushInv' /\ M!PostPaced
    OBVIOUS
  <1> USE DEF PushInv, M!PostPaced
  <1>1. CASE M!Edit
    BY <1>1 DEF M!Edit
  <1>2. CASE M!Time
    BY <1>2 DEF M!Time
  <1>3. CASE M!Look
    BY <1>3 DEF M!Look
  <1>4. CASE M!NotDue
    BY <1>4 DEF M!NotDue
  <1>5. CASE M!Post
    BY <1>5 DEF M!Post, M!Due
  <1>6. CASE M!Posted
    <2>1. M!Least(seen) \in Nat
      BY LeastType
    <2>2. /\ pusher' = "sleep" /\ next' = clock + M!Least(seen)
          /\ UNCHANGED <<config, clock, seen, active, turned>>
      BY <1>6 DEF M!Posted
    <2>3. CASE pusher = "post"
      <3>1. ended' = [at |-> clock, least |-> M!Least(seen)]
        BY <1>6, <2>3 DEF M!Posted
      <3> QED BY <2>1, <2>2, <3>1
    <2>4. CASE pusher # "post"
      <3>1. ended' = ended /\ clock >= next
        BY <1>6, <2>4 DEF M!Posted, M!Due
      <3> QED BY <2>1, <2>2, <2>4, <3>1
    <2> QED BY <2>3, <2>4
  <1> QED BY <1>1, <1>2, <1>3, <1>4, <1>5, <1>6 DEF M!Next

-----------------------------------------------------------------------------
(* Setup. *)

Commands == [kind : {"none", "install", "uninstall"}, scope : {"system", "user"},
             ver : Versions \cup {"none"}, root : BOOLEAN, plan : SUBSET S!Domains,
             at : {"idle", "confirm", "service", "binary", "files"} \cup S!Steps,
             result : {"none", "installed", "failed", "killed", "refused", "shown",
                       "aborted", "removed"}]

\* How far an install has come is what it has done so far.
SetupInv ==
  /\ bin \in [Units -> Versions \cup {"none"}]
  /\ has \in [Units -> SUBSET {"unit", "staged", "config", "db", "socket"}]
  /\ enabled \subseteq Units /\ cut \subseteq Units /\ running \in [Units -> Versions \cup {"none"}]
  /\ cmd \in Commands /\ (cmd.kind # "none" => cmd.result = "none")
  /\ cmd.kind = "install" =>
       /\ cmd.scope \in Units /\ cmd.ver \in Versions /\ cmd.at \in S!Steps
       /\ cmd.at \in {"unit", "enable", "restart"} => bin[cmd.scope] = cmd.ver
       /\ cmd.at \in {"enable", "restart"} => "unit" \in has[cmd.scope]
       /\ cmd.at = "restart" => cmd.scope \in enabled
  /\ cmd.kind = "uninstall" => (cmd.scope = "system" => cmd.root)
  /\ \A s \in Units : s \in enabled \/ "unit" \in has[s] => bin[s] \in Versions \/ s \in cut

LEMMA SetupInit == S!Init => SetupInv
  BY PartsAssumption DEF S!Init, SetupInv, S!NoCmd, Commands

\* A step that takes away no binary and no file but a staged one removes nothing
\* that a plan could list.
LEMMA NothingRemoved ==
  ASSUME SetupInv,
         \A s \in Units : /\ bin[s] # "none" => bin'[s] # "none"
                          /\ has[s] \cap {"unit", "config", "db"} \subseteq has'[s]
  PROVE  S!RemovedShown
  <1> SUFFICES ASSUME NEW u \in Units, NEW d \in S!Domains, S!Item_(d, u)
               PROVE  S!Item_(d, u)'
    BY DEF S!RemovedShown
  <1> USE DEF S!Item_, S!Item, S!Domains
  <1>1. CASE d = "binary"
    BY <1>1 DEF SetupInv
  <1>2. CASE d # "binary"
    <2>1. S!Item[d] \in {"unit", "config", "db"}
      BY <1>2
    <2> QED BY <1>2, <2>1
  <1> QED BY <1>1, <1>2

LEMMA UnitNames == Units \subseteq {"system", "user"} /\ Versions \cap {"none", "torn"} = {}
  BY PartsAssumption

LEMMA InstallSteps ==
  ASSUME SetupInv, NEW s \in Units, s = cmd.scope,
         S!Copy(s) \/ S!Rename(s) \/ S!WriteUnit(s) \/ S!Enable(s) \/ S!Restart(s)
  PROVE  SetupInv' /\ S!InstallTook /\ S!RemovedShown
  <1> USE UnitNames DEF S!At, S!Goto, S!Finish, S!NoCmd, S!InstallTook, S!Steps,
          Commands, SetupInv
  <1>1. SetupInv' /\ S!InstallTook
    <2>1. CASE S!Copy(s)
      BY <2>1 DEF S!Copy
    <2>2. CASE S!Rename(s)
      BY <2>2 DEF S!Rename
    <2>3. CASE S!WriteUnit(s)
      BY <2>3 DEF S!WriteUnit
    <2>4. CASE S!Enable(s)
      BY <2>4 DEF S!Enable
    <2>5. CASE S!Restart(s)
      <3>1. /\ cmd.kind = "install" /\ cmd.at = "restart" /\ UNCHANGED <<bin, enabled, cut>>
            /\ running' = [running EXCEPT ![s] = bin[s]]
            /\ has' = [has EXCEPT ![s] = @ \cup {"db", "socket"}]
            /\ cmd' = [S!NoCmd EXCEPT !.result = "installed", !.scope = s, !.ver = cmd.ver]
        BY <2>5 DEF S!Restart
      <3>2. running' \in [Units -> Versions \cup {"none"}] /\ running'[s] = bin[s]
        BY <3>1
      <3>3. \A u \in Units : "unit" \in has'[u] <=> "unit" \in has[u]
        BY <3>1
      <3>4. has' \in [Units -> SUBSET {"unit", "staged", "config", "db", "socket"}]
        BY <3>1
      <3>5. cmd' \in Commands /\ cmd'.kind = "none" /\ cmd'.result = "installed"
        BY <3>1
      <3>6. bin[s] = cmd.ver
        BY <3>1
      <3> QED BY <3>1, <3>2, <3>3, <3>4, <3>5, <3>6
    <2> QED BY <2>1, <2>2, <2>3, <2>4, <2>5
  <1>2. S!RemovedShown
    <2>1. \A u \in Units : /\ bin[u] # "none" => bin'[u] # "none"
                           /\ has[u] \cap {"unit", "config", "db"} \subseteq has'[u]
      BY DEF S!Copy, S!Rename, S!WriteUnit, S!Enable, S!Restart
    <2> QED BY <2>1, NothingRemoved
  <1> QED BY <1>1, <1>2

LEMMA RemovalSteps ==
  ASSUME SetupInv, NEW s \in Units, s = cmd.scope,
         S!RemoveService(s) \/ S!RemoveBinary(s) \/ S!RemoveFiles(s)
  PROVE  SetupInv' /\ S!InstallTook /\ S!RemovedShown
  <1> USE DEF S!At, S!Goto, S!Finish, S!NoCmd, S!InstallTook, S!Domains, Commands, SetupInv
  <1>1. cmd.kind = "uninstall" /\ cmd.at # "confirm" /\ cmd.plan \subseteq S!Domains
    BY DEF S!RemoveService, S!RemoveBinary, S!RemoveFiles
  <1>2. SetupInv' /\ S!InstallTook
    <2>1. CASE S!RemoveService(s)
      <3>1. /\ has' \in [Units -> SUBSET {"unit", "staged", "config", "db", "socket"}]
            /\ running' \in [Units -> Versions \cup {"none"}]
            /\ enabled' \subseteq enabled /\ bin' = bin /\ cut' = cut
            /\ \A u \in Units : has'[u] \subseteq has[u]
            /\ cmd' = [cmd EXCEPT !.at = "binary"]
        BY <2>1 DEF S!RemoveService
      <3> QED BY <1>1, <3>1
    <2>2. CASE S!RemoveBinary(s)
      <3>1. /\ has' = has /\ running' = running /\ enabled' = enabled
            /\ cmd' = [cmd EXCEPT !.at = "files"]
        BY <2>2 DEF S!RemoveBinary
      <3>2. \/ bin' = bin /\ cut' = cut
            \/ /\ bin' = [bin EXCEPT ![s] = "none"]
               /\ cut' = IF "unit" \in has[s] \/ s \in enabled THEN cut \cup {s} ELSE cut
        BY <2>2 DEF S!RemoveBinary
      <3> QED BY <1>1, <3>1, <3>2
    <2>3. CASE S!RemoveFiles(s)
      <3>1. /\ has' \in [Units -> SUBSET {"unit", "staged", "config", "db", "socket"}]
            /\ running' = running /\ enabled' = enabled /\ bin' = bin /\ cut' = cut
            /\ \A u \in Units : has'[u] \subseteq has[u]
        BY <2>3 DEF S!RemoveFiles
      <3>2. cmd' \in Commands /\ cmd'.kind = "none" /\ cmd'.result = "removed"
        BY <2>3 DEF S!RemoveFiles, S!Steps
      <3> QED BY <3>1, <3>2
    <2> QED BY <2>1, <2>2, <2>3
  <1>3. S!RemovedShown
    <2> SUFFICES ASSUME NEW u \in Units, NEW d \in S!Domains, S!Item_(d, u), ~S!Item_(d, u)'
                 PROVE  cmd.scope = u /\ d \in cmd.plan /\ (u = "system" => cmd.root)
      BY <1>1 DEF S!RemovedShown
    <2> USE DEF S!Item_, S!Item
    <2>1. CASE S!RemoveService(s)
      BY <2>1 DEF S!RemoveService
    <2>2. CASE S!RemoveBinary(s)
      BY <2>2 DEF S!RemoveBinary
    <2>3. CASE S!RemoveFiles(s)
      BY <2>3 DEF S!RemoveFiles
    <2> QED BY <2>1, <2>2, <2>3
  <1> QED BY <1>2, <1>3

LEMMA StartsOfCommands ==
  ASSUME SetupInv, UNCHANGED <<bin, has, enabled, running, cut>>, cmd' \in Commands,
         cmd'.result # "installed", cmd'.kind # "none" => cmd'.result = "none",
         cmd'.kind = "install" =>
           /\ cmd'.scope \in Units /\ cmd'.ver \in Versions
           /\ cmd'.at \in {"copy", "unit"}
           /\ cmd'.at = "unit" => bin[cmd'.scope] = cmd'.ver,
         cmd'.kind = "uninstall" => (cmd'.scope = "system" => cmd'.root)
  PROVE  SetupInv' /\ S!InstallTook /\ S!RemovedShown
  <1>1. S!RemovedShown
    BY NothingRemoved
  <1> QED BY <1>1 DEF S!InstallTook, S!Steps, SetupInv

LEMMA SetupNext == SetupInv /\ S!Next => SetupInv' /\ S!InstallTook /\ S!RemovedShown
  <1> SUFFICES ASSUME SetupInv, S!Next
               PROVE  SetupInv' /\ S!InstallTook /\ S!RemovedShown
    OBVIOUS
  <1> USE PartsAssumption DEF S!Goto, S!Finish, S!NoCmd, S!Domains, S!Steps, Commands
  <1>1. ASSUME NEW s \in Units, NEW v \in Versions, NEW asRoot \in BOOLEAN,
               S!Install(s, v, asRoot)
        PROVE  SetupInv' /\ S!InstallTook /\ S!RemovedShown
    <2>1. cmd' = [kind |-> "install", scope |-> s, ver |-> v, root |-> asRoot,
                  at |-> IF bin[s] = v THEN "unit" ELSE "copy", plan |-> {}, result |-> "none"]
          /\ UNCHANGED <<bin, has, enabled, running, cut>>
      BY <1>1 DEF S!Install
    <2>2. cmd' \in Commands
      BY <2>1
    <2>3. /\ cmd'.kind = "install" /\ cmd'.scope \in Units /\ cmd'.ver \in Versions
          /\ cmd'.at \in {"copy", "unit"} /\ (cmd'.at = "unit" => bin[cmd'.scope] = cmd'.ver)
          /\ cmd'.result = "none"
      BY <2>1
    <2> HIDE DEF Commands
    <2> QED BY <2>1, <2>2, <2>3, StartsOfCommands
  <1>2. ASSUME NEW s \in Units, s = cmd.scope,
               \/ S!Copy(s) \/ S!Rename(s) \/ S!WriteUnit(s) \/ S!Enable(s) \/ S!Restart(s)
               \/ S!RemoveService(s) \/ S!RemoveBinary(s) \/ S!RemoveFiles(s)
        PROVE  SetupInv' /\ S!InstallTook /\ S!RemovedShown
    BY <1>2, InstallSteps, RemovalSteps
  <1>3. CASE S!Fail
    <2>1. cmd' \in Commands /\ cmd'.kind = "none" /\ cmd'.result = "failed"
      BY <1>3 DEF S!Fail, SetupInv
    <2>2. /\ has' \in [Units -> SUBSET {"unit", "staged", "config", "db", "socket"}]
          /\ \A u \in Units : has'[u] \subseteq has[u]
          /\ UNCHANGED <<bin, enabled, running, cut>>
      BY <1>3 DEF S!Fail, SetupInv
    <2>3. SetupInv' /\ S!InstallTook
      BY <2>1, <2>2 DEF S!InstallTook, SetupInv
    <2>4. \A u \in Units : /\ bin[u] # "none" => bin'[u] # "none"
                           /\ has[u] \cap {"unit", "config", "db"} \subseteq has'[u]
      BY <1>3 DEF S!Fail, SetupInv
    <2> QED BY <2>3, <2>4, NothingRemoved
  <1>4. CASE S!Killed
    BY <1>4, StartsOfCommands DEF S!Killed, SetupInv
  <1>5. ASSUME NEW s \in Units, NEW ds \in SUBSET S!Domains, NEW yes \in BOOLEAN,
               NEW asRoot \in BOOLEAN, S!Uninstall(s, ds, yes, asRoot)
        PROVE  SetupInv' /\ S!InstallTook /\ S!RemovedShown
    <2>1. UNCHANGED <<bin, has, enabled, running, cut>>
      BY <1>5 DEF S!Uninstall
    <2>2. PICK shown0 \in SUBSET S!Domains :
            \/ cmd' = [S!NoCmd EXCEPT !.result = "refused"]
            \/ cmd' = [S!NoCmd EXCEPT !.result = "shown"]
            \/ /\ s = "system" => asRoot
               /\ cmd' = [S!NoCmd EXCEPT !.kind = "uninstall", !.scope = s, !.root = asRoot,
                            !.plan = shown0, !.at = IF yes THEN "service" ELSE "confirm"]
      <3> DEFINE listed == {d \in IF ds = {} THEN S!Domains ELSE ds : S!Item_(d, s)}
      <3>1. listed \in SUBSET S!Domains
        OBVIOUS
      <3> QED BY <1>5, <3>1 DEF S!Uninstall
    <2>3. cmd' \in Commands /\ cmd'.kind # "install" /\ cmd'.result # "installed"
          /\ (cmd'.kind # "none" => cmd'.result = "none")
          /\ (cmd'.kind = "uninstall" => (cmd'.scope = "system" => cmd'.root))
      BY <2>2
    <2> QED BY <2>1, <2>3, StartsOfCommands
  <1>6. ASSUME NEW yes \in BOOLEAN, S!Answer(yes)
        PROVE  SetupInv' /\ S!InstallTook /\ S!RemovedShown
    <2>1. UNCHANGED <<bin, has, enabled, running, cut>> /\ cmd.kind = "uninstall"
      BY <1>6 DEF S!Answer, S!At
    <2>2. cmd' \in Commands /\ cmd'.kind # "install" /\ cmd'.result # "installed"
          /\ (cmd'.kind # "none" => cmd'.result = "none")
          /\ (cmd'.kind = "uninstall" => (cmd'.scope = "system" => cmd'.root))
      <3>1. cmd \in Commands /\ cmd.result = "none" /\ (cmd.scope = "system" => cmd.root)
        BY <2>1 DEF SetupInv
      <3>2. \/ cmd' = [cmd EXCEPT !.at = "service"]
            \/ cmd' = [S!NoCmd EXCEPT !.result = "aborted", !.scope = cmd.scope, !.ver = cmd.ver]
        BY <1>6 DEF S!Answer
      <3>3. CASE cmd' = [cmd EXCEPT !.at = "service"]
        BY <2>1, <3>1, <3>3
      <3>4. CASE cmd' = [S!NoCmd EXCEPT !.result = "aborted", !.scope = cmd.scope, !.ver = cmd.ver]
        BY <3>1, <3>4
      <3> QED BY <3>2, <3>3, <3>4
    <2> QED BY <2>1, <2>2, StartsOfCommands
  <1>7. ASSUME NEW s \in Units, S!Boot(s) \/ S!Dies(s)
        PROVE  SetupInv' /\ S!InstallTook /\ S!RemovedShown
    <2>1. /\ cmd' = cmd /\ bin' = bin /\ enabled' = enabled /\ cut' = cut
          /\ running' \in [Units -> Versions \cup {"none"}]
          /\ has' \in [Units -> SUBSET {"unit", "staged", "config", "db", "socket"}]
          /\ \A u \in Units : has[u] \subseteq has'[u] /\ has'[u] \subseteq has[u] \cup {"db", "socket"}
      BY <1>7 DEF S!Boot, S!Dies, SetupInv
    <2>2. S!RemovedShown
      BY <2>1, NothingRemoved
    <2> QED BY <2>1, <2>2 DEF S!InstallTook, SetupInv
  <1> QED BY <1>1, <1>2, <1>3, <1>4, <1>5, <1>6, <1>7 DEF S!Next

-----------------------------------------------------------------------------
(* Configure. *)

Wizards == [at : {"start", "roots", "tokens", "write", "set", "hooks", "failed", "end"},
            readable : BOOLEAN, existing : SUBSET Owners, left : SUBSET Owners,
            set : SUBSET Owners, remove : SUBSET Owners, pull : BOOLEAN, asked : SUBSET Owners]

\* What is planned was validated, and so was what is stored of it.
ConfigInv ==
  /\ file \in [tokens : [Owners -> C!Pats \cup {C!None}], roots : C!Roots, pull : BOOLEAN]
  /\ wizard \in Wizards /\ edits \in Nat
  /\ wizard.set \subseteq wizard.asked
  /\ \A o \in Owners : file.tokens[o] = "new" => o \in wizard.asked

LEMMA ConfigInit == C!Init => ConfigInv
  BY DEF C!Init, C!Idle, C!None, C!Pats, C!Roots, Wizards, ConfigInv

\* A prompt leaves the file alone.
LEMMA Prompts ==
  ASSUME ConfigInv, wizard' \in Wizards, wizard'.set \subseteq wizard'.asked,
         wizard.asked \subseteq wizard'.asked, file' = file, edits' = edits
  PROVE  ConfigInv' /\ C!WrotePlanned
  BY DEF ConfigInv, C!WrotePlanned

LEMMA Writes ==
  ASSUME ConfigInv,
         C!SetRoots \/ C!SetPull \/ \E o \in Owners : C!SetToken(o) \/ C!RemoveToken(o)
  PROVE  ConfigInv' /\ C!WrotePlanned
  <1> USE DEF ConfigInv, C!WrotePlanned, C!Goto, C!None, C!Pats, C!Roots, Wizards
  <1>1. CASE C!SetRoots
    BY <1>1 DEF C!SetRoots
  <1>2. CASE C!SetPull
    <2>1. /\ wizard' = [wizard EXCEPT !.at = "hooks"] /\ edits' = edits
          /\ file' = [file EXCEPT !.pull = file.pull \/ wizard.pull] /\ wizard.at = "set"
      BY <1>2 DEF C!SetPull
    <2>2. /\ file'.tokens = file.tokens /\ file'.roots = file.roots
          /\ file'.pull = (file.pull \/ wizard.pull)
          /\ file' \in [tokens : [Owners -> C!Pats \cup {C!None}], roots : C!Roots, pull : BOOLEAN]
      BY <2>1
    <2> QED BY <2>1, <2>2
  <1>3. ASSUME NEW o \in Owners, C!SetToken(o)
        PROVE  ConfigInv' /\ C!WrotePlanned
    BY <1>3 DEF C!SetToken
  <1>4. ASSUME NEW o \in Owners, C!RemoveToken(o)
        PROVE  ConfigInv' /\ C!WrotePlanned
    BY <1>4 DEF C!RemoveToken
  <1> QED BY <1>1, <1>2, <1>3, <1>4

LEMMA ConfigNext == ConfigInv /\ C!Next => ConfigInv' /\ C!WrotePlanned
  <1> SUFFICES ASSUME ConfigInv, C!Next PROVE ConfigInv' /\ C!WrotePlanned
    OBVIOUS
  <1>1. ASSUME NEW ok \in BOOLEAN, C!Proceed(ok)
        PROVE  ConfigInv' /\ C!WrotePlanned
    BY <1>1, Prompts DEF C!Proceed, C!Goto, ConfigInv, Wizards
  <1>2. ASSUME NEW ok \in BOOLEAN, C!ReadExisting(ok)
        PROVE  ConfigInv' /\ C!WrotePlanned
    <2>1. PICK existing \in SUBSET Owners :
            wizard' = [wizard EXCEPT !.at = "tokens", !.readable = ok, !.existing = existing,
                                     !.left = Discovered \cup existing]
      BY <1>2 DEF C!ReadExisting
    <2>2. wizard' \in Wizards /\ wizard'.set = wizard.set /\ wizard'.asked = wizard.asked
      BY <2>1, PartsAssumption DEF ConfigInv, Wizards
    <2> QED BY <1>2, <2>2, Prompts DEF C!ReadExisting, ConfigInv
  <1>3. ASSUME NEW o \in Owners, C!AskToken(o)
        PROVE  ConfigInv' /\ C!WrotePlanned
    <2>1. PICK choice \in {"keep", "set", "remove"}, valid \in BOOLEAN :
            wizard' = [wizard EXCEPT
              !.left = @ \ {o},
              !.set = IF choice = "set" /\ valid THEN @ \cup {o} ELSE @,
              !.asked = IF choice = "set" /\ valid THEN @ \cup {o} ELSE @,
              !.remove = IF choice = "remove" THEN @ \cup {o} ELSE @]
      BY <1>3 DEF C!AskToken
    <2>2. /\ wizard' \in Wizards /\ wizard'.set \subseteq wizard'.asked
          /\ wizard.asked \subseteq wizard'.asked
      BY <2>1 DEF ConfigInv, Wizards
    <2> QED BY <1>3, <2>2, Prompts DEF C!AskToken
  <1>4. ASSUME NEW manage \in BOOLEAN, NEW on \in BOOLEAN, NEW apply \in BOOLEAN,
               C!Confirm(manage, on, apply)
        PROVE  ConfigInv' /\ C!WrotePlanned
    BY <1>4, Prompts DEF C!Confirm, ConfigInv, Wizards
  <1>5. CASE C!Fails
    BY <1>5, Prompts DEF C!Fails, C!Goto, ConfigInv, Wizards
  <1>6. CASE C!Other
    <2>1. edits' = edits + 1 /\ wizard' = wizard /\ edits \in Nat
      BY <1>6 DEF C!Other, ConfigInv
    <2>2. /\ file' \in [tokens : [Owners -> C!Pats \cup {C!None}], roots : C!Roots, pull : BOOLEAN]
          /\ \A o \in Owners : file'.tokens[o] = "new" => file.tokens[o] = "new"
      <3>1. ASSUME NEW o \in Owners, NEW p \in {C!None, "other"},
                   file' = [file EXCEPT !.tokens[o] = p]
            PROVE  /\ file' \in [tokens : [Owners -> C!Pats \cup {C!None}],
                                 roots : C!Roots, pull : BOOLEAN]
                   /\ \A u \in Owners : file'.tokens[u] = "new" => file.tokens[u] = "new"
        BY <3>1 DEF ConfigInv, C!None, C!Pats
      <3>2. CASE file' = [file EXCEPT !.pull = ~file.pull]
        BY <3>2 DEF ConfigInv
      <3> QED BY <1>6, <3>1, <3>2 DEF C!Other
    <2> QED BY <2>1, <2>2 DEF ConfigInv, C!WrotePlanned
  <1> QED BY <1>1, <1>2, <1>3, <1>4, <1>5, <1>6, Writes DEF C!Next

-----------------------------------------------------------------------------
(* Screen. *)

\* A recycle past its second look spares the jobs that ran when it was said yes
\* to: who still runs one of those is busy.
ScreenInv ==
  /\ fleet \in [T!Dirs -> {"absent", "idle", "busy", "stopped"}]
  /\ place \in {"browsing", "confirm", "torn", "stop", "purge", "start", "ran", "gone"}
  /\ tokens \in [Keys -> TokenKinds \cup {Nil}] /\ needed \in [Keys -> SUBSET T!Dirs]
  /\ T!OneModal /\ T!TerminalFits /\ T!RecycleSparesJobs /\ T!PersistedWereValidated
  /\ place = "torn" => \A d \in jobs : d \in T!Dirs /\ fleet[d] = "busy"
  /\ place = "stop" => armed.dir \notin jobs
  /\ popup.kind = "confirmed" =>
       /\ popup.token \in TokenKinds /\ popup.mine \in SUBSET T!Dirs
       /\ popup.token.fine /\ popup.mine \subseteq popup.token.grants

LEMMA ScreenInit == T!Init => ScreenInv
  BY DEF T!Init, T!Closed, T!OneModal, T!TerminalFits, T!RecycleSparesJobs,
         T!PersistedWereValidated, ScreenInv

\* The parts of the state that nothing but an action on the terminal changes.
Steady == /\ UNCHANGED <<fleet, armed, place, tty, cancelled, jobs>>

LEMMA Looking ==
  ASSUME ScreenInv, Steady, UNCHANGED <<popup, tokens, needed>>
  PROVE  ScreenInv'
  BY DEF ScreenInv, Steady, T!OneModal, T!TerminalFits, T!RecycleSparesJobs,
         T!PersistedWereValidated

LEMMA Popping ==
  ASSUME ScreenInv, Steady, UNCHANGED <<tokens, needed>>,
         place = "browsing" \/ popup' = T!Closed,
         popup'.kind = "confirmed" =>
           /\ popup'.token \in TokenKinds /\ popup'.mine \in SUBSET T!Dirs
           /\ popup'.token.fine /\ popup'.mine \subseteq popup'.token.grants
  PROVE  ScreenInv'
  BY DEF ScreenInv, Steady, T!OneModal, T!TerminalFits, T!RecycleSparesJobs,
         T!PersistedWereValidated

LEMMA Acting ==
  ASSUME ScreenInv, T!Act \/ T!Quit \/ T!Panic \/ \E d \in T!Dirs : T!FleetMoves(d)
  PROVE  ScreenInv'
  <1> USE DEF ScreenInv, T!OneModal, T!TerminalFits, T!RecycleSparesJobs,
          T!PersistedWereValidated, T!Closed, T!Free, T!Arm, T!Leave, T!config, T!world, T!view
  <1>1. CASE T!ArmHooks \/ T!ArmRunner
    <2>1. T!Free /\ place' = "confirm"
          /\ UNCHANGED <<fleet, popup, tty, cancelled, jobs, tokens, needed>>
      BY <1>1 DEF T!ArmHooks, T!ArmRunner
    <2> QED BY <2>1
  <1>2. CASE T!Cancel
    BY <1>2 DEF T!Cancel
  <1>3. CASE T!Suspend
    BY <1>3 DEF T!Suspend
  <1>4. CASE T!Execute
    BY <1>4 DEF T!Execute
  <1>5. CASE T!StopUnit
    BY <1>5 DEF T!StopUnit
  <1>6. CASE T!Purge
    BY <1>6 DEF T!Purge
  <1>7. CASE T!StartUnit
    BY <1>7 DEF T!StartUnit
  <1>8. CASE T!Resume
    BY <1>8 DEF T!Resume
  <1>9. CASE T!Quit \/ T!Panic
    BY <1>9 DEF T!Quit, T!Panic
  <1>10. ASSUME NEW d \in T!Dirs, T!FleetMoves(d)
         PROVE  ScreenInv'
    BY <1>10 DEF T!FleetMoves
  <1> QED BY <1>1, <1>2, <1>3, <1>4, <1>5, <1>6, <1>7, <1>8, <1>9, <1>10 DEF T!Act

LEMMA Browsing == ASSUME ScreenInv, T!Browse PROVE ScreenInv'
  <1> USE DEF Steady, T!action, T!config, T!world, T!Free, T!Closed
  <1>1. CASE T!Refresh
    BY <1>1, Looking DEF T!Refresh
  <1>2. CASE T!Enter \/ T!Back \/ \E t \in {"summary", "jobs", "trends", "config"} : T!SetTab(t)
    BY <1>2, Looking DEF T!Enter, T!Back, T!SetTab
  <1>3. ASSUME NEW i \in T!Rows, T!Move(i)
        PROVE  ScreenInv'
    BY <1>3, Looking DEF T!Move
  <1>4. ASSUME NEW kind \in {"help", "info", "pick"}, T!Open(kind)
        PROVE  ScreenInv'
    BY <1>4, Popping DEF T!Open
  <1> QED BY <1>1, <1>2, <1>3, <1>4 DEF T!Browse

LEMMA TokenWizard == ASSUME ScreenInv, T!Wizard PROVE ScreenInv'
  <1> USE DEF Steady, T!action, T!config, T!world, T!Closed, T!In, T!To
  <1>1. CASE T!Close
    BY <1>1, Popping DEF T!Close
  <1>2. CASE T!PickAdd \/ T!PickRemove \/ T!DoneSaved \/ T!DoneFailed
    BY <1>2, Popping DEF T!PickAdd, T!PickRemove, T!DoneSaved, T!DoneFailed
  <1>3. ASSUME NEW k \in Keys, T!TypeKey(k) \/ T!TypeRemoved(k)
        PROVE  ScreenInv'
    BY <1>3, Popping DEF T!TypeKey, T!TypeRemoved
  <1>4. ASSUME NEW t \in TokenKinds, T!Validate(t)
        PROVE  ScreenInv'
    <2>1. PICK mine \in SUBSET T!Dirs :
            /\ t.fine /\ mine \subseteq t.grants
            /\ popup' = [kind |-> "confirmed", key |-> popup.key, token |-> t, mine |-> mine]
      BY <1>4 DEF T!Validate, T!Accepts, T!Present
    <2> QED BY <1>4, <2>1, Popping DEF T!Validate
  <1>5. CASE T!Save \/ T!Remove
    BY <1>5 DEF T!Save, T!Remove, ScreenInv, T!OneModal, T!TerminalFits, T!RecycleSparesJobs,
                T!PersistedWereValidated
  <1> QED BY <1>1, <1>2, <1>3, <1>4, <1>5 DEF T!Wizard

LEMMA ScreenNext == ScreenInv /\ T!Next => ScreenInv'
  BY Acting, Browsing, TokenWizard DEF T!Next

-----------------------------------------------------------------------------
(* Probe. *)

\* What has lived through the walk so far, and whose pid the walk has passed, was
\* seen, or is the process whose argv comes next.
ProbeInv ==
  /\ walk \in [at : {"start", "walking", "done"}, cursor : Nat, comm : P!Comms \cup {P!None},
               seen : SUBSET P!Procs]
  /\ procs \subseteq P!Procs /\ before \subseteq P!Procs
  /\ \A x, y \in procs : x.pid = y.pid => x = y
  /\ walk.at = "start" => /\ walk.cursor = 0 /\ walk.comm = P!None /\ walk.seen = {}
  /\ walk.at # "start" => /\ procs \cup before \cup walk.seen \subseteq lived
                          /\ lived \subseteq P!Procs
  /\ walk.at = "walking" =>
       \A x \in before \cap procs : x.pid <= walk.cursor /\ x.comm # "bash" =>
         x \in walk.seen \/ (walk.comm # P!None /\ x.pid = walk.cursor)
  /\ walk.at = "done" =>
       /\ \A x \in before \cap procs : x.comm # "bash" => x \in walk.seen
       /\ \A r \in DOMAIN found : found[r] = P!LivenessOf(walk.seen, r)

LEMMA ProbeInit == P!Init => ProbeInv
  BY DEF P!Init, ProbeInv

LEMMA ProbeNext == ProbeInv /\ P!Next => ProbeInv'
  <1> SUFFICES ASSUME ProbeInv, P!Next PROVE ProbeInv'
    OBVIOUS
  <1>0. \A x \in P!Procs : x.pid \in Nat \ {0}
    BY PartsAssumption DEF P!Procs
  <1> USE <1>0 DEF ProbeInv
  <1>1. ASSUME NEW x \in P!Procs, P!Spawn(x)
        PROVE  ProbeInv'
    BY <1>1 DEF P!Spawn
  <1>2. ASSUME NEW x \in procs, P!Exit(x)
        PROVE  ProbeInv'
    BY <1>2 DEF P!Exit
  <1>3. ASSUME NEW x \in procs, P!ReadComm(x)
        PROVE  ProbeInv'
    <2>1. x.comm \in P!Comms /\ P!None \notin P!Comms
      BY DEF P!Procs, P!Comms, P!None
    <2>2. walk' = [walk EXCEPT !.cursor = x.pid, !.comm = x.comm]
          /\ walk.at = "walking" /\ walk.comm = P!None
          /\ UNCHANGED <<procs, before, lived, found>>
      BY <1>3 DEF P!ReadComm
    <2>3. \A y \in before \cap procs : y.pid <= x.pid => y.pid <= walk.cursor \/ y = x
      BY <1>3 DEF P!ReadComm
    <2> QED BY <2>1, <2>2, <2>3
  <1>4. CASE P!Discover
    BY <1>4 DEF P!Discover
  <1>5. CASE P!ReadArgv
    <2>1. PICK now \in SUBSET procs :
            /\ now = {x \in procs : x.pid = walk.cursor /\ x.comm # "bash"}
            /\ walk' = [walk EXCEPT !.comm = P!None, !.seen = @ \cup now]
      BY <1>5 DEF P!ReadArgv
    <2>2. walk.at = "walking" /\ UNCHANGED <<procs, before, lived, found>>
      BY <1>5 DEF P!ReadArgv
    <2> QED BY <2>1, <2>2
  <1>6. CASE P!Report
    BY <1>6 DEF P!Report
  <1> QED BY <1>1, <1>2, <1>3, <1>4, <1>5, <1>6 DEF P!Next

LEMMA WalkIsSound == ProbeInv => P!ProbeSound
  <1> SUFFICES ASSUME ProbeInv, walk.at = "done", NEW r \in DOMAIN found
               PROVE  LET through == before \cap procs
                      IN  /\ found[r] = "busy" => P!Of(lived, r, "Runner.Worker") # {}
                          /\ found[r] = "idle" => /\ P!Of(lived, r, "Runner.Listener") # {}
                                                  /\ P!Of(through, r, "Runner.Worker") = {}
                          /\ found[r] = "offline" =>
                               P!Of(through, r, "Runner.Worker")
                                 \cup P!Of(through, r, "Runner.Listener") = {}
    BY DEF P!ProbeSound
  <1>1. found[r] = P!LivenessOf(walk.seen, r) /\ walk.seen \subseteq lived
    BY DEF ProbeInv
  <1>2. \A x \in before \cap procs : x.comm # "bash" => x \in walk.seen
    BY DEF ProbeInv
  <1> QED BY <1>1, <1>2 DEF P!LivenessOf, P!Of

-----------------------------------------------------------------------------
(* CollectorLink. *)

Replies == [id : L!Ids, word : {"rows", "mutated", "denied", "error"}]

\* While the client waits there is at most one thing open, its request or the
\* reply to it; otherwise nothing is.
OneOpen ==
  /\ inbox \subseteq L!Requests /\ replies \in Seq(Replies)
  /\ doing # "wait" => replies = <<>> /\ \A q \in inbox : ~q.open
  /\ \A q \in inbox : q.open => /\ q.id = request.id /\ q.kind = request.kind
                                /\ q.value = request.value /\ replies = <<>>
  /\ \A p, q \in inbox : p.open /\ q.open => p = q
  /\ Len(replies) <= 1 /\ (replies # <<>> => replies[1].id = request.id)

\* What the dashboard believes is what the file says, until it waits for a change
\* that was made, or for one nobody can tell it about.
Believed ==
  ~disturbed =>
    /\ doing # "wait" \/ request.kind = "query" => mirror = pull
    /\ (\E q \in inbox : q.open) => mirror = pull
    /\ replies # <<>> => IF request.kind = "set" /\ replies[1].word = "mutated"
                         THEN pull = request.value ELSE mirror = pull

LinkInv ==
  /\ doing \in {"idle", "system", "user", "wait", "direct"}
  /\ request \in [id : L!Ids, kind : {"query", "set"}, value : BOOLEAN]
  /\ link \in {"system", "user", Nil} /\ answered = TRUE
  /\ OneOpen /\ Believed

LEMMA LinkInit == L!Init => LinkInv
  BY DEF L!Init, L!Scopes, L!Ids, LinkInv, OneOpen, Believed

LEMMA IdsFlip == ASSUME NEW i \in L!Ids PROVE 1 - i \in L!Ids
  BY DEF L!Ids

\* A connection that is dropped leaves nothing open.
LEMMA GivingUp == ASSUME LinkInv, L!GiveUp PROVE LinkInv'
  <1>1. /\ link' = Nil /\ replies' = <<>> /\ inbox' = {[q EXCEPT !.open = FALSE] : q \in inbox}
        /\ disturbed' = (disturbed \/ request.kind = "set") /\ doing = "wait"
        /\ doing' \in {"direct", "idle"} /\ UNCHANGED <<request, pull, mirror, answered>>
    BY DEF L!GiveUp, L!Dropped
  <1>2. inbox' \subseteq L!Requests /\ \A q \in inbox' : ~q.open
    <2>1. ASSUME NEW q \in L!Requests
          PROVE  [q EXCEPT !.open = FALSE] \in L!Requests /\ ~[q EXCEPT !.open = FALSE].open
      BY DEF L!Requests
    <2>2. inbox \subseteq L!Requests
      BY DEF LinkInv, OneOpen
    <2> QED BY <1>1, <2>1, <2>2
  <1>3. replies' \in Seq(Replies) /\ Len(replies') = 0
    BY <1>1
  <1>4. OneOpen'
    BY <1>1, <1>2, <1>3 DEF OneOpen
  <1>5. ~disturbed' => ~disturbed /\ request.kind = "query"
    BY <1>1 DEF LinkInv
  <1>6. Believed'
    BY <1>1, <1>2, <1>5 DEF LinkInv, Believed
  <1> QED BY <1>1, <1>4, <1>6 DEF LinkInv

\* The collector answers what is open, or drops what nobody waits for.
LEMMA Handling == ASSUME LinkInv, NEW q \in inbox, L!Handle(q) PROVE LinkInv'
  <1> DEFINE Reply(word) == [id |-> q.id, word |-> word]
  <1>1. PICK word \in {"rows", "mutated", "denied", "error"} :
          /\ replies' = IF q.open THEN Append(replies, Reply(word)) ELSE replies
          /\ \/ /\ word = "mutated" /\ q.kind = "set" /\ pull' = q.value
                /\ disturbed' = (disturbed \/ (~q.open /\ q.value # pull))
             \/ word # "mutated" /\ pull' = pull /\ disturbed' = disturbed
    BY DEF L!Handle
  <1>2. inbox' = inbox \ {q} /\ UNCHANGED <<link, doing, request, mirror, answered>>
    BY DEF L!Handle, L!world
  <1>3. q.id \in L!Ids /\ Reply(word) \in Replies
    BY DEF LinkInv, OneOpen, L!Requests, Replies
  <1>4. CASE q.open
    <2>1. /\ replies = <<>> /\ q.id = request.id /\ q.kind = request.kind
          /\ q.value = request.value /\ doing = "wait" /\ \A p \in inbox' : ~p.open
      BY <1>2, <1>4 DEF LinkInv, OneOpen
    <2>2. replies' = <<Reply(word)>> /\ replies' \in Seq(Replies) /\ Len(replies') = 1
      BY <1>1, <1>3, <1>4, <2>1
    <2>3. OneOpen'
      BY <1>2, <2>1, <2>2 DEF LinkInv, OneOpen
    <2>4. replies'[1].word = word
      BY <2>2
    <2>5. Believed'
      BY <1>1, <1>2, <1>4, <2>1, <2>2, <2>4 DEF LinkInv, Believed
    <2> QED BY <1>2, <2>3, <2>5 DEF LinkInv
  <1>5. CASE ~q.open
    <2>1. replies' = replies
      BY <1>1, <1>5
    <2>2. OneOpen'
      BY <1>2, <2>1 DEF LinkInv, OneOpen
    <2>3. ~disturbed' => ~disturbed /\ pull' = pull
      BY <1>1, <1>5
    <2>4. Believed'
      BY <1>2, <2>1, <2>3 DEF LinkInv, Believed
    <2> QED BY <1>2, <2>2, <2>4 DEF LinkInv
  <1> QED BY <1>4, <1>5

LEMMA Asking == ASSUME LinkInv, L!AskQuery \/ L!Toggle PROVE LinkInv'
  <1>1. PICK kind \in {"query", "set"}, value \in BOOLEAN : L!Ask(kind, value)
    BY DEF L!AskQuery, L!Toggle
  <1>2. /\ doing = "idle" /\ request' = [id |-> 1 - request.id, kind |-> kind, value |-> value]
        /\ UNCHANGED <<link, replies, pull, mirror, answered, disturbed>>
    BY <1>1 DEF L!Ask, L!world
  <1>3. request' \in [id : L!Ids, kind : {"query", "set"}, value : BOOLEAN]
    BY <1>2, IdsFlip DEF LinkInv
  <1>4. replies = <<>> /\ \A q \in inbox : ~q.open
    BY <1>2 DEF LinkInv, OneOpen
  <1>5. CASE link = Nil
    <2>1. doing' = "direct" /\ inbox' = inbox
      BY <1>1, <1>5 DEF L!Ask
    <2> QED BY <1>2, <1>3, <1>4, <2>1 DEF LinkInv, OneOpen, Believed
  <1>6. CASE link # Nil
    <2> DEFINE mine == [id |-> request'.id, kind |-> kind, value |-> value, open |-> TRUE, at |-> link]
    <2>1. doing' = "wait" /\ inbox' = inbox \cup {mine}
      BY <1>1, <1>6 DEF L!Ask
    <2>2. mine \in L!Requests
      BY <1>3, <1>6 DEF LinkInv, L!Requests, L!Scopes
    <2>3. /\ mine.id = request'.id /\ mine.kind = request'.kind /\ mine.value = request'.value
          /\ \A p \in inbox' : p.open => p = mine
      BY <1>2, <1>4, <2>1
    <2>4. inbox' \subseteq L!Requests /\ replies' = <<>> /\ replies' \in Seq(Replies)
      BY <1>2, <1>4, <2>1, <2>2 DEF LinkInv, OneOpen
    <2> HIDE DEF mine
    <2>5. OneOpen'
      BY <2>1, <2>3, <2>4 DEF OneOpen
    <2>6. Believed'
      BY <1>2, <1>4 DEF LinkInv, Believed
    <2> QED BY <1>2, <1>3, <2>1, <2>5, <2>6 DEF LinkInv
  <1> QED BY <1>5, <1>6

LEMMA Receiving == ASSUME LinkInv, L!Receive PROVE LinkInv'
  <1>1. /\ doing = "wait" /\ replies # <<>> /\ doing' = "idle" /\ replies' = Tail(replies)
        /\ answered' = (replies[1].id = request.id)
        /\ mirror' = IF request.kind = "set" /\ replies[1].word = "mutated"
                     THEN request.value ELSE mirror
        /\ UNCHANGED <<link, request, inbox, pull, disturbed>>
    BY DEF L!Receive, L!world
  <1>2. replies' = <<>> /\ replies[1].id = request.id
    BY <1>1 DEF LinkInv, OneOpen
  <1>3. \A q \in inbox : ~q.open
    BY <1>1 DEF LinkInv, OneOpen
  <1>4. OneOpen'
    BY <1>1, <1>2, <1>3 DEF LinkInv, OneOpen
  <1>5. Believed'
    BY <1>1, <1>2, <1>3 DEF LinkInv, Believed
  <1> QED BY <1>1, <1>2, <1>4, <1>5 DEF LinkInv

LEMMA Elsewhere ==
  ASSUME LinkInv,
         \/ L!Refresh \/ L!Direct \/ L!Reload \/ L!OthersEdit
         \/ \E s \in L!Scopes : L!Probe(s) \/ L!ServerChanges(s)
  PROVE  LinkInv'
  <1> USE DEF LinkInv, OneOpen, Believed, L!world
  <1>1. CASE L!Refresh
    BY <1>1 DEF L!Refresh
  <1>2. CASE L!Direct
    BY <1>2 DEF L!Direct
  <1>3. CASE L!Reload
    BY <1>3 DEF L!Reload
  <1>4. CASE L!OthersEdit
    BY <1>4 DEF L!OthersEdit
  <1>5. ASSUME NEW s \in L!Scopes, L!Probe(s)
        PROVE  LinkInv'
    BY <1>5 DEF L!Probe, L!Scopes
  <1>6. ASSUME NEW s \in L!Scopes, L!ServerChanges(s)
        PROVE  LinkInv'
    BY <1>6 DEF L!ServerChanges
  <1> QED BY <1>1, <1>2, <1>3, <1>4, <1>5, <1>6

LEMMA LinkNext == LinkInv /\ L!Next => LinkInv'
  BY Asking, Handling, Receiving, GivingUp, Elsewhere DEF L!Next

LEMMA LinkIsHonest == LinkInv => L!AnswersMatch /\ L!MirrorTrue
  BY DEF LinkInv, Believed, L!AnswersMatch, L!MirrorTrue

-----------------------------------------------------------------------------
(* HookInstall: types. *)

ToolStates == [at : H!Places, op : {"config", "uninstall"}, todo : SUBSET Runners,
               r : Runners \cup {Nil}, seen : H!Env, new : H!Env,
               job : {"repair", "install", "chain", "revert"},
               left : SUBSET H!Slots, plans : [Runners -> H!Plans]]

HookTypes ==
  /\ env \in [Runners -> H!Env]
  /\ wraps \in [Runners -> [H!Slots -> H!Paths \cup {Nil, "blank"}]]
  /\ scripts \in SUBSET H!Slots
  /\ tool \in [Tools -> ToolStates]
  /\ own \in [Runners -> [H!Slots -> OwnHooks \cup {Nil}]]
  /\ \A t \in Tools :
       tool[t].at \in {"read", "wrap", "check", "replace", "unwrap", "restart", "restarting"}
         => tool[t].r \in Runners

LEMMA IdleType == H!Idle \in ToolStates /\ H!Blank \in H!Env /\ H!NoPlan \in H!Plans
  <1>1. H!Blank \in H!Env
    BY DEF H!Blank, H!Env
  <1>2. H!NoPlan \in H!Plans
    BY <1>1 DEF H!NoPlan, H!Plans
  <1>3. H!Idle \in ToolStates
    BY <1>1, <1>2 DEF H!Idle, ToolStates, H!Places
  <1> QED BY <1>1, <1>2, <1>3

\* The files ghr-stats makes out of one it has read.
LEMMA WithLogRules ==
  ASSUME NEW e \in H!Env
  PROVE  /\ H!WithLog(e) \in H!Env /\ H!WithLog(e).rest = e.rest
         /\ \A s \in H!Slots : H!WithLog(e)[s] = e[s] /\ e[s] \in H!Paths \cup {Nil}
  BY DEF H!Env, H!WithLog, H!Slots

LEMMA ChainedRules ==
  ASSUME NEW e \in H!Env
  PROVE  /\ H!Chained(e) \in H!Env /\ H!Chained(e).rest = e.rest
         /\ \A s \in H!Slots : H!Chained(e)[s] = IF e[s] = Nil THEN "script" ELSE "wrapper"
  <1>1. \A p : H!ChainTarget(p) = IF p = Nil THEN "script" ELSE "wrapper"
    BY DEF H!ChainTarget
  <1>2. {"script", "wrapper"} \subseteq H!Paths
    BY DEF H!Paths, H!Ours
  <1>3. H!Chained(e) = H!Rewritten(e, H!ChainTarget(e["started"]), H!ChainTarget(e["completed"]), TRUE)
    BY DEF H!Chained
  <1>4. \A p : H!ChainTarget(p) \in H!Paths \cup {Nil}
    BY <1>1, <1>2
  <1> QED BY <1>1, <1>3, <1>4 DEF H!Slots, H!Rewritten, H!Env

\* What a plan makes of a runner.
LEMMA PlanRules ==
  ASSUME HookTypes, NEW r \in Runners
  PROVE  /\ H!PlanOf(r) \in H!Plans /\ H!PlanOf(r).seen = env[r]
         /\ H!PlanOf(r).new.rest = env[r].rest
         /\ H!PlanOf(r).kind = "strip" =>
              \A s \in H!Slots : env[r][s] = "script" /\ H!PlanOf(r).new[s] = Nil
         /\ H!PlanOf(r).kind = "restore" =>
              \A s \in H!Slots : env[r][s] = "wrapper" /\ H!PlanOf(r).new[s] = wraps[r][s]
  <1> DEFINE e == env[r]
             kind == H!RevertKind(e)
             kept == \A s \in H!Slots : wraps[r][s] \notin {Nil, "blank"}
  <1>1. e \in H!Env
    BY DEF HookTypes
  <1>2. /\ kind \in {"leave", "manual", "strip", "restore"}
        /\ kind = "strip" => \A s \in H!Slots : e[s] = "script"
        /\ kind = "restore" => \A s \in H!Slots : e[s] = "wrapper"
    BY DEF H!RevertKind, H!Slots
  <1>3. CASE kind = "strip"
    <2>1. H!PlanOf(r) = [kind |-> "strip", seen |-> e, new |-> H!Removed(e)]
      BY <1>3 DEF H!PlanOf
    <2>2. H!Removed(e) \in H!Env /\ H!Removed(e).rest = e.rest
          /\ \A s \in H!Slots : H!Removed(e)[s] = Nil
      BY <1>1 DEF H!Removed, H!Rewritten, H!Env, H!Slots
    <2> QED BY <1>1, <1>2, <1>3, <2>1, <2>2 DEF H!Plans
  <1>4. CASE kind = "restore" /\ kept
    <2> DEFINE back == H!Rewritten(e, wraps[r]["started"], wraps[r]["completed"], FALSE)
    <2>1. H!PlanOf(r) = [kind |-> "restore", seen |-> e, new |-> back]
      BY <1>4 DEF H!PlanOf
    <2>2. \A s \in H!Slots : wraps[r][s] \in H!Paths
      BY <1>4 DEF HookTypes
    <2>3. back \in H!Env /\ back.rest = e.rest /\ \A s \in H!Slots : back[s] = wraps[r][s]
      BY <1>1, <2>2 DEF H!Rewritten, H!Env, H!Slots
    <2> HIDE DEF back
    <2> QED BY <1>1, <1>2, <1>4, <2>1, <2>3 DEF H!Plans
  <1>5. CASE kind # "strip" /\ ~(kind = "restore" /\ kept)
    <2>1. H!PlanOf(r) = [kind |-> IF kind = "leave" THEN "leave" ELSE "manual",
                         seen |-> e, new |-> e]
      BY <1>5 DEF H!PlanOf
    <2> QED BY <1>1, <2>1 DEF H!Plans
  <1> QED BY <1>3, <1>4, <1>5

LEMMA HookTypesInit == H!Init => HookTypes
  <1> SUFFICES ASSUME H!Init PROVE HookTypes
    OBVIOUS
  <1>1. own \in [Runners -> [H!Slots -> OwnHooks \cup {Nil}]]
    BY DEF H!Init
  <1>2. tool \in [Tools -> ToolStates] /\ \A t \in Tools : tool[t].at = "idle"
    BY IdleType DEF H!Init, H!Idle
  <1> DEFINE e(r) == [H!Blank EXCEPT !.started = own[r]["started"], !.completed = own[r]["completed"]]
  <1>3. PICK installed \in SUBSET Runners :
          /\ env = [r \in Runners |-> IF r \in installed THEN H!Chained(e(r)) ELSE e(r)]
          /\ wraps = [r \in Runners |-> [s \in H!Slots |-> IF r \in installed THEN own[r][s] ELSE Nil]]
          /\ scripts = IF installed = {} THEN {} ELSE H!Slots
    BY DEF H!Init
  <1>4. \A r \in Runners : e(r) \in H!Env
    BY <1>1, IdleType DEF H!Blank, H!Env, H!Slots, H!Paths
  <1>5. env \in [Runners -> H!Env]
    BY <1>3, <1>4, ChainedRules
  <1>6. wraps \in [Runners -> [H!Slots -> H!Paths \cup {Nil, "blank"}]]
    BY <1>1, <1>3 DEF H!Paths
  <1> QED BY <1>1, <1>2, <1>3, <1>5, <1>6 DEF HookTypes

\* What a tool has in hand was made from what it read, and just before it replaces
\* a file that is the file, unless its owner has raced it.
StateOK(s) ==
  /\ s \in ToolStates
  /\ s.at \in {"read", "wrap", "check", "replace", "unwrap", "restart", "restarting"}
       => s.r \in Runners
  /\ s.at \in {"wrap", "check", "replace"} => s.new.rest = s.seen.rest
  /\ \A r \in Runners : s.plans[r].new.rest = s.plans[r].seen.rest
  /\ s.at = "replace" => s.r \in raced \/ env[s.r].rest = s.seen.rest

HookInv ==
  /\ HookTypes
  /\ \A t \in Tools : StateOK(tool[t])

LEMMA IdleOK == StateOK(H!Idle)
  BY IdleType DEF StateOK, H!Idle, H!NoPlan

LEMMA HookInit == H!Init => HookInv
  <1> SUFFICES ASSUME H!Init PROVE HookInv
    OBVIOUS
  <1>1. \A t \in Tools : tool[t] = H!Idle
    BY DEF H!Init
  <1> QED BY <1>1, HookTypesInit, IdleOK DEF HookInv

\* A step that changes what one tool has in hand, and perhaps a wrapper or a
\* script, but no .env.
LEMMA ToolMoves ==
  ASSUME HookInv, NEW t \in Tools, NEW s, StateOK(s),
         tool' = [tool EXCEPT ![t] = s], UNCHANGED <<env, raced, own>>,
         wraps' \in [Runners -> [H!Slots -> H!Paths \cup {Nil, "blank"}]],
         scripts' \in SUBSET H!Slots
  PROVE  HookInv' /\ H!EditKept
  <1>1. HookTypes'
    BY DEF HookInv, HookTypes, StateOK
  <1>2. ASSUME NEW u \in Tools PROVE StateOK(tool[u])'
    <2>1. tool'[u] = s \/ tool'[u] = tool[u]
      BY DEF HookInv, HookTypes
    <2> QED BY <2>1 DEF HookInv, StateOK
  <1>3. H!EditKept
    BY DEF H!EditKept, HookInv, HookTypes, H!Env
  <1> QED BY <1>1, <1>2, <1>3 DEF HookInv

LEMMA NextRunnerOK ==
  ASSUME HookInv, NEW t \in Tools, H!NextRunner(t)
  PROVE  tool' = [tool EXCEPT ![t] = tool'[t]] /\ StateOK(tool'[t])
  <1>1. tool'[t] = [tool[t] EXCEPT !.at = IF tool[t].op = "config" THEN "detect" ELSE "apply",
                                   !.r = Nil, !.seen = H!Blank, !.new = H!Blank, !.left = {}]
    BY DEF H!NextRunner, HookInv, HookTypes
  <1>2. tool' = [tool EXCEPT ![t] = tool'[t]]
    BY DEF H!NextRunner, HookInv, HookTypes
  <1>3. StateOK(tool[t])
    BY DEF HookInv
  <1>4. tool'[t] \in ToolStates
    BY <1>1, <1>3, IdleType DEF StateOK, ToolStates, H!Places
  <1> QED BY <1>1, <1>2, <1>3, <1>4 DEF StateOK, ToolStates

LEMMA GotoOK ==
  ASSUME HookInv, NEW t \in Tools, NEW p \in H!Places, H!Goto(t, p),
         p \in {"read", "wrap", "check", "replace", "unwrap", "restart", "restarting"}
           => tool[t].r \in Runners,
         p \in {"wrap", "check", "replace"} => tool[t].new.rest = tool[t].seen.rest,
         p = "replace" => tool[t].r \in raced \/ env[tool[t].r].rest = tool[t].seen.rest
  PROVE  tool' = [tool EXCEPT ![t] = tool'[t]] /\ StateOK(tool'[t])
  <1>1. tool'[t] = [tool[t] EXCEPT !.at = p] /\ tool' = [tool EXCEPT ![t] = tool'[t]]
    BY DEF H!Goto, HookInv, HookTypes
  <1>2. StateOK(tool[t])
    BY DEF HookInv
  <1> QED BY <1>1, <1>2 DEF StateOK, ToolStates

LEMMA DoneOK ==
  ASSUME HookInv, NEW t \in Tools, H!Done(t)
  PROVE  tool' = [tool EXCEPT ![t] = tool'[t]] /\ StateOK(tool'[t])
  BY IdleOK DEF H!Done, HookInv, HookTypes

LEMMA BeginOK ==
  ASSUME HookInv, NEW t \in Tools, NEW op \in {"config", "uninstall"},
         NEW p \in {"idle", "detect", "plan"}, H!Begin(t, op, p)
  PROVE  tool' = [tool EXCEPT ![t] = tool'[t]] /\ StateOK(tool'[t])
  <1>1. tool'[t] = [H!Idle EXCEPT !.at = p, !.op = op, !.todo = Runners]
        /\ tool' = [tool EXCEPT ![t] = tool'[t]]
    BY DEF H!Begin, HookInv, HookTypes
  <1>2. tool'[t] \in ToolStates
    BY <1>1, IdleType DEF ToolStates, H!Places
  <1>3. /\ tool'[t].at \in {"idle", "detect", "plan"}
        /\ \A r \in Runners : tool'[t].plans[r] = H!NoPlan
    BY <1>1 DEF H!Idle
  <1> QED BY <1>1, <1>2, <1>3 DEF StateOK, H!NoPlan

\* The plan a tool makes of a .env it has just read.
LEMMA ReadEnvOK ==
  ASSUME HookInv, NEW t \in Tools, H!ReadEnv(t)
  PROVE  tool' = [tool EXCEPT ![t] = tool'[t]] /\ StateOK(tool'[t])
  <1>1. CASE H!NextRunner(t)
    BY <1>1, NextRunnerOK
  <1>2. CASE ~H!NextRunner(t)
    <2> DEFINE e == env[tool[t].r]
    <2>1. StateOK(tool[t]) /\ tool[t].at = "read" /\ tool[t].r \in Runners /\ e \in H!Env
      BY DEF HookInv, HookTypes, StateOK, H!ReadEnv
    <2>2. PICK spot \in {"check", "wrap"}, new \in H!Env, left \in SUBSET H!Slots :
            /\ new.rest = e.rest
            /\ tool' = [tool EXCEPT ![t].at = spot, ![t].seen = e, ![t].new = new, ![t].left = left]
      <3>1. CASE tool[t].job = "repair"
        BY <1>2, <2>1, <3>1, WithLogRules DEF H!ReadEnv
      <3>2. CASE tool[t].job = "install"
        <4>1. H!Rewritten(e, "script", "script", TRUE) \in H!Env
              /\ H!Rewritten(e, "script", "script", TRUE).rest = e.rest
          BY <2>1 DEF H!Rewritten, H!Env, H!Paths, H!Ours
        <4> QED BY <1>2, <2>1, <3>2, <4>1 DEF H!ReadEnv
      <3>3. CASE tool[t].job = "chain"
        <4> DEFINE held == {s \in H!Slots : e[s] # Nil}
        <4>1. H!Chained(e) \in H!Env /\ H!Chained(e).rest = e.rest /\ held \in SUBSET H!Slots
          BY <2>1, ChainedRules
        <4>2. tool' = [tool EXCEPT ![t].at = IF held = {} THEN "check" ELSE "wrap", ![t].seen = e,
                                   ![t].new = H!Chained(e), ![t].left = held]
          BY <1>2, <3>3 DEF H!ReadEnv
        <4> QED BY <4>1, <4>2
      <3> QED BY <1>2, <3>1, <3>2, <3>3 DEF H!ReadEnv
    <2>3. /\ tool'[t] = [tool[t] EXCEPT !.at = spot, !.seen = e, !.new = new, !.left = left]
          /\ tool' = [tool EXCEPT ![t] = tool'[t]]
      BY <2>2 DEF HookInv, HookTypes
    <2> HIDE DEF e
    <2>4. /\ tool[t] \in ToolStates /\ spot \in H!Places
          /\ \A r \in Runners : tool[t].plans[r].new.rest = tool[t].plans[r].seen.rest
      BY <2>1 DEF StateOK, H!Places
    <2>5. tool'[t] \in ToolStates
      BY <2>1, <2>3, <2>4 DEF ToolStates
    <2>6. /\ tool'[t].at = spot /\ tool'[t].r \in Runners
          /\ tool'[t].new = new /\ tool'[t].seen = e /\ tool'[t].plans = tool[t].plans
      BY <2>1, <2>3, <2>4 DEF ToolStates
    <2> QED BY <2>2, <2>3, <2>4, <2>5, <2>6 DEF StateOK
  <1> QED BY <1>1, <1>2

\* Steps between two runners: only where the tool is, and its list, change.
LEMMA ListOK ==
  ASSUME HookInv, NEW t \in Tools, NEW p \in {"detect", "confirm", "plan", "apply", "look", "sweep"},
         NEW todo \in SUBSET Runners, NEW left \in SUBSET H!Slots
  PROVE  StateOK([tool[t] EXCEPT !.at = p, !.todo = todo, !.left = left])
  <1> DEFINE s == [tool[t] EXCEPT !.at = p, !.todo = todo, !.left = left]
  <1>1. StateOK(tool[t]) /\ tool[t] \in ToolStates /\ p \in H!Places
    BY DEF HookInv, StateOK, H!Places
  <1>2. s \in ToolStates
    BY <1>1 DEF ToolStates
  <1> QED BY <1>1, <1>2 DEF StateOK, ToolStates

LEMMA DetectOK ==
  ASSUME HookInv, NEW t \in Tools, NEW r \in Runners, H!Detect(t, r)
  PROVE  tool' = [tool EXCEPT ![t] = tool'[t]] /\ StateOK(tool'[t])
  <1>1. StateOK(tool[t]) /\ tool[t] \in ToolStates /\ tool[t].at = "detect"
    BY DEF HookInv, StateOK, H!Detect
  <1>2. CASE tool' = [tool EXCEPT ![t].todo = @ \ {r}]
    <2>1. tool'[t] = [tool[t] EXCEPT !.at = "detect", !.todo = tool[t].todo \ {r}, !.left = tool[t].left]
          /\ tool' = [tool EXCEPT ![t] = tool'[t]]
      BY <1>1, <1>2 DEF ToolStates, HookInv, HookTypes
    <2>2. tool[t].todo \ {r} \in SUBSET Runners /\ tool[t].left \in SUBSET H!Slots
      BY <1>1 DEF ToolStates
    <2>3. StateOK([tool[t] EXCEPT !.at = "detect", !.todo = tool[t].todo \ {r}, !.left = tool[t].left])
      BY <2>2, ListOK, Zenon
    <2> QED BY <2>1, <2>3
  <1>3. CASE ~(tool' = [tool EXCEPT ![t].todo = @ \ {r}])
    <2>1. PICK job \in {"repair", "install", "chain"} :
            tool' = [tool EXCEPT ![t].at = "read", ![t].r = r, ![t].job = job, ![t].todo = @ \ {r}]
      <3>1. H!Classify(env[r]) \in {"ours", "unset", "foreign"}
        BY DEF H!Classify
      <3> QED BY <1>3, <3>1 DEF H!Detect
    <2>2. tool'[t] = [tool[t] EXCEPT !.at = "read", !.r = r, !.job = job, !.todo = @ \ {r}]
          /\ tool' = [tool EXCEPT ![t] = tool'[t]]
      BY <2>1 DEF HookInv, HookTypes
    <2>3. tool'[t] \in ToolStates
      BY <1>1, <2>2 DEF ToolStates, H!Places
    <2> QED BY <1>1, <2>2, <2>3 DEF StateOK, ToolStates
  <1> QED BY <1>2, <1>3

LEMMA WriteWrapperOK ==
  ASSUME HookInv, NEW t \in Tools, H!WriteWrapper(t)
  PROVE  /\ tool' = [tool EXCEPT ![t] = tool'[t]] /\ StateOK(tool'[t])
         /\ wraps' \in [Runners -> [H!Slots -> H!Paths \cup {Nil, "blank"}]]
  <1> DEFINE r == tool[t].r
             s == IF "started" \in tool[t].left THEN "started" ELSE "completed"
  <1>1. /\ StateOK(tool[t]) /\ tool[t] \in ToolStates /\ tool[t].at = "wrap"
        /\ r \in Runners /\ s \in H!Slots
    BY DEF HookInv, StateOK, H!WriteWrapper, H!Slots
  <1>2. tool[t].seen[s] \in H!Paths \cup {Nil}
    <2>1. tool[t].seen \in H!Env
      BY <1>1 DEF ToolStates
    <2> QED BY <2>1, <1>1 DEF H!Env, H!Slots
  <1>3. /\ wraps' \in {[wraps EXCEPT ![r][s] = tool[t].seen[s]], [wraps EXCEPT ![r][s] = "blank"], wraps}
    BY DEF H!WriteWrapper
  <1>4. wraps' \in [Runners -> [H!Slots -> H!Paths \cup {Nil, "blank"}]]
    <2>1. PICK x \in H!Paths \cup {Nil, "blank"} : wraps' = [wraps EXCEPT ![r][s] = x] \/ wraps' = wraps
      BY <1>2, <1>3
    <2>2. wraps \in [Runners -> [H!Slots -> H!Paths \cup {Nil, "blank"}]]
      BY DEF HookInv, HookTypes
    <2> HIDE DEF r, s
    <2> QED BY <1>1, <2>1, <2>2
  <1>5. CASE H!NextRunner(t)
    BY <1>4, <1>5, NextRunnerOK
  <1>6. CASE ~H!NextRunner(t)
    <2>1. PICK p \in {"wrap", "check"} : tool' = [tool EXCEPT ![t].left = @ \ {s}, ![t].at = p]
      <3>1. tool' = [tool EXCEPT ![t].left = @ \ {s},
                                 ![t].at = IF tool[t].left = {s} THEN "check" ELSE @]
        BY <1>6 DEF H!WriteWrapper
      <3> HIDE DEF s
      <3>2. CASE tool[t].left = {s}
        BY <3>1, <3>2
      <3>3. CASE tool[t].left # {s}
        BY <3>1, <3>3, <1>1 DEF HookInv, HookTypes, ToolStates
      <3> QED BY <3>2, <3>3
    <2>2. tool'[t] = [tool[t] EXCEPT !.left = @ \ {s}, !.at = p] /\ tool' = [tool EXCEPT ![t] = tool'[t]]
      BY <2>1 DEF HookInv, HookTypes
    <2> HIDE DEF r, s
    <2>3. tool'[t] \in ToolStates
      BY <1>1, <2>2 DEF ToolStates, H!Places
    <2> QED BY <1>1, <1>4, <2>2, <2>3 DEF StateOK, ToolStates, r
  <1> QED BY <1>5, <1>6

LEMMA PlanRunnerOK ==
  ASSUME HookInv, NEW t \in Tools, NEW r \in Runners, H!PlanRunner(t, r)
  PROVE  tool' = [tool EXCEPT ![t] = tool'[t]] /\ StateOK(tool'[t])
  <1>1. StateOK(tool[t]) /\ tool[t] \in ToolStates /\ tool[t].at = "plan"
    BY DEF HookInv, StateOK, H!PlanRunner
  <1>2. PICK plan \in H!Plans, p \in {"confirm", "plan"} :
          /\ plan.new.rest = plan.seen.rest
          /\ tool' = [tool EXCEPT ![t].plans[r] = plan, ![t].todo = @ \ {r}, ![t].at = p]
    <2>1. H!PlanOf(r) \in H!Plans /\ H!PlanOf(r).new.rest = H!PlanOf(r).seen.rest
      BY PlanRules DEF HookInv
    <2>2. H!NoPlan \in H!Plans /\ H!NoPlan.new.rest = H!NoPlan.seen.rest
      BY IdleType DEF H!NoPlan
    <2>3. PICK plan \in {H!PlanOf(r), H!NoPlan} :
            tool' = [tool EXCEPT ![t].plans[r] = plan, ![t].todo = @ \ {r},
                                 ![t].at = IF tool[t].todo = {r} THEN "confirm" ELSE @]
      BY DEF H!PlanRunner
    <2>4. CASE tool[t].todo = {r}
      BY <2>1, <2>2, <2>3, <2>4
    <2>5. CASE tool[t].todo # {r}
      <3>1. tool' = [tool EXCEPT ![t].plans[r] = plan, ![t].todo = @ \ {r}, ![t].at = "plan"]
        BY <1>1, <2>3, <2>5 DEF HookInv, HookTypes, ToolStates
      <3> QED BY <2>1, <2>2, <2>3, <3>1
    <2> QED BY <2>4, <2>5
  <1>3. /\ tool' = [tool EXCEPT ![t] = tool'[t]]
        /\ tool'[t] = [tool[t] EXCEPT !.plans = [tool[t].plans EXCEPT ![r] = plan], !.todo = @ \ {r}, !.at = p]
    BY <1>1, <1>2 DEF HookInv, HookTypes, ToolStates
  <1>4. tool'[t] \in ToolStates
    <2>1. [tool[t].plans EXCEPT ![r] = plan] \in [Runners -> H!Plans] /\ p \in H!Places
      BY <1>1, <1>2 DEF ToolStates, H!Places
    <2> QED BY <1>1, <1>3, <2>1 DEF ToolStates
  <1>5. /\ tool'[t].at = p /\ tool'[t].plans = [tool[t].plans EXCEPT ![r] = plan]
        /\ tool[t].plans \in [Runners -> H!Plans]
    BY <1>1, <1>3 DEF ToolStates
  <1>6. \A q \in Runners : tool'[t].plans[q].new.rest = tool'[t].plans[q].seen.rest
    <2>1. \A q \in Runners : tool'[t].plans[q] = IF q = r THEN plan ELSE tool[t].plans[q]
      BY <1>5
    <2> QED BY <1>1, <1>2, <2>1 DEF StateOK
  <1> QED BY <1>3, <1>4, <1>5, <1>6 DEF StateOK

LEMMA ApplyOK ==
  ASSUME HookInv, NEW t \in Tools, NEW r \in Runners, H!Apply(t, r)
  PROVE  tool' = [tool EXCEPT ![t] = tool'[t]] /\ StateOK(tool'[t])
  <1> DEFINE plan == tool[t].plans[r]
  <1>1. StateOK(tool[t]) /\ tool[t] \in ToolStates /\ tool[t].at = "apply"
    BY DEF HookInv, StateOK, H!Apply
  <1>2. plan \in H!Plans /\ plan.new.rest = plan.seen.rest
    BY <1>1 DEF StateOK, ToolStates
  <1>3. CASE plan.kind \in {"strip", "restore"}
    <2>1. /\ tool' = [tool EXCEPT ![t] = tool'[t]]
          /\ tool'[t] = [tool[t] EXCEPT !.at = "check", !.r = r, !.todo = @ \ {r}, !.job = "revert",
                                        !.seen = plan.seen, !.new = plan.new]
      BY <1>3 DEF H!Apply, HookInv, HookTypes
    <2>2. plan.seen \in H!Env /\ plan.new \in H!Env
      BY <1>2 DEF H!Plans
    <2> HIDE DEF plan
    <2>3. tool'[t] \in ToolStates
      BY <1>1, <2>1, <2>2 DEF ToolStates, H!Places
    <2>4. /\ tool'[t].at = "check" /\ tool'[t].r = r /\ tool'[t].plans = tool[t].plans
          /\ tool'[t].seen = plan.seen /\ tool'[t].new = plan.new
      BY <1>1, <2>1 DEF ToolStates
    <2> QED BY <1>1, <1>2, <2>1, <2>3, <2>4 DEF StateOK
  <1>4. CASE plan.kind \notin {"strip", "restore"}
    <2>1. tool'[t] = [tool[t] EXCEPT !.at = "apply", !.todo = tool[t].todo \ {r}, !.left = tool[t].left]
          /\ tool' = [tool EXCEPT ![t] = tool'[t]]
      <3>1. tool' = [tool EXCEPT ![t].todo = @ \ {r}]
        BY <1>4 DEF H!Apply
      <3> QED BY <1>1, <3>1 DEF ToolStates, HookInv, HookTypes
    <2>2. tool[t].todo \ {r} \in SUBSET Runners /\ tool[t].left \in SUBSET H!Slots
      BY <1>1 DEF ToolStates
    <2>3. StateOK([tool[t] EXCEPT !.at = "apply", !.todo = tool[t].todo \ {r}, !.left = tool[t].left])
      BY <2>2, ListOK, Zenon
    <2> QED BY <2>1, <2>3
  <1> QED BY <1>3, <1>4

LEMMA LookOK ==
  ASSUME HookInv, NEW t \in Tools, NEW r \in Runners, H!Look(t, r)
  PROVE  tool' = [tool EXCEPT ![t] = tool'[t]] /\ StateOK(tool'[t])
  <1>1. StateOK(tool[t]) /\ tool[t] \in ToolStates /\ tool[t].at = "look"
    BY DEF HookInv, StateOK, H!Look
  <1>2. CASE H!Done(t)
    BY <1>2, DoneOK
  <1>3. CASE ~H!Done(t)
    <2>1. PICK p \in {"look", "sweep"} :
            /\ tool'[t] = [tool[t] EXCEPT !.at = p, !.todo = tool[t].todo \ {r}, !.left = H!Slots]
            /\ tool' = [tool EXCEPT ![t] = tool'[t]]
      <3> DEFINE p == IF tool[t].todo = {r} THEN "sweep" ELSE "look"
      <3>1. tool' = [tool EXCEPT ![t].todo = @ \ {r}, ![t].left = H!Slots,
                                 ![t].at = IF tool[t].todo = {r} THEN "sweep" ELSE @]
        BY <1>3 DEF H!Look
      <3>2. tool' = [tool EXCEPT ![t].todo = @ \ {r}, ![t].left = H!Slots, ![t].at = p]
        <4>1. CASE tool[t].todo = {r}
          BY <3>1, <4>1
        <4>2. CASE tool[t].todo # {r}
          BY <1>1, <3>1, <4>2 DEF ToolStates, HookInv, HookTypes
        <4> QED BY <4>1, <4>2
      <3>3. p \in {"look", "sweep"}
        OBVIOUS
      <3> HIDE DEF p
      <3>4. /\ tool'[t] = [tool[t] EXCEPT !.at = p, !.todo = tool[t].todo \ {r}, !.left = H!Slots]
            /\ tool' = [tool EXCEPT ![t] = tool'[t]]
        BY <1>1, <3>2 DEF HookInv, HookTypes
      <3> QED BY <3>3, <3>4
    <2>2. tool[t].todo \ {r} \in SUBSET Runners /\ H!Slots \in SUBSET H!Slots
      BY <1>1 DEF ToolStates
    <2>3. StateOK([tool[t] EXCEPT !.at = p, !.todo = tool[t].todo \ {r}, !.left = H!Slots])
      BY <2>2, ListOK, Zenon
    <2> QED BY <2>1, <2>3
  <1> QED BY <1>2, <1>3

\* Removing a wrapper of a restored runner, or a shared script.
LEMMA SweepOK ==
  ASSUME HookInv, NEW t \in Tools, NEW s \in H!Slots, H!RemoveWrapper(t, s) \/ H!Sweep(t, s)
  PROVE  /\ tool' = [tool EXCEPT ![t] = tool'[t]] /\ StateOK(tool'[t])
         /\ wraps' \in [Runners -> [H!Slots -> H!Paths \cup {Nil, "blank"}]]
         /\ scripts' \in SUBSET H!Slots
  <1>1. StateOK(tool[t]) /\ tool[t] \in ToolStates
        /\ (tool[t].at = "sweep" \/ (tool[t].at = "unwrap" /\ tool[t].r \in Runners))
    BY DEF HookInv, StateOK, H!RemoveWrapper, H!Sweep
  <1>2. /\ wraps' \in [Runners -> [H!Slots -> H!Paths \cup {Nil, "blank"}]]
        /\ scripts' \in SUBSET H!Slots
    <2>1. wraps \in [Runners -> [H!Slots -> H!Paths \cup {Nil, "blank"}]] /\ scripts \in SUBSET H!Slots
      BY DEF HookInv, HookTypes
    <2>2. CASE H!RemoveWrapper(t, s)
      BY <1>1, <2>1, <2>2 DEF H!RemoveWrapper
    <2>3. CASE H!Sweep(t, s)
      BY <2>1, <2>3 DEF H!Sweep
    <2> QED BY <2>2, <2>3
  <1>3. CASE H!Done(t)
    BY <1>2, <1>3, DoneOK
  <1>4. CASE ~H!Done(t)
    <2>1. PICK p \in {"sweep", "unwrap", "restart"} :
            /\ p = "sweep" \/ tool[t].r \in Runners
            /\ tool'[t] = [tool[t] EXCEPT !.at = p, !.left = tool[t].left \ {s}]
            /\ tool' = [tool EXCEPT ![t] = tool'[t]]
      <3> DEFINE q(p) == [tool EXCEPT ![t].left = @ \ {s}, ![t].at = p]
      <3>1. \E p \in {"sweep", "unwrap", "restart"} :
              (p = "sweep" \/ tool[t].r \in Runners) /\ tool' = q(p)
        <4>1. CASE H!RemoveWrapper(t, s) /\ tool[t].left = {s}
          <5>1. tool' = q("restart") /\ tool[t].r \in Runners
            BY <1>1, <4>1 DEF H!RemoveWrapper
          <5> QED BY <5>1
        <4>2. CASE H!RemoveWrapper(t, s) /\ tool[t].left # {s}
          <5>1. tool[t].at = "unwrap" /\ tool[t].r \in Runners
            BY <1>1, <4>2 DEF H!RemoveWrapper
          <5>2. tool' = q("unwrap")
            BY <1>1, <4>2, <5>1 DEF H!RemoveWrapper, ToolStates, HookInv, HookTypes
          <5> QED BY <5>1, <5>2
        <4>3. CASE H!Sweep(t, s)
          <5>1. tool[t].at = "sweep" /\ tool' = [tool EXCEPT ![t].left = @ \ {s}]
            BY <1>4, <4>3 DEF H!Sweep
          <5>2. tool' = q("sweep")
            BY <1>1, <5>1 DEF ToolStates, HookInv, HookTypes
          <5> QED BY <5>2
        <4> QED BY <4>1, <4>2, <4>3
      <3>2. PICK p \in {"sweep", "unwrap", "restart"} :
              (p = "sweep" \/ tool[t].r \in Runners) /\ tool' = q(p)
        BY <3>1
      <3>3. /\ tool'[t] = [tool[t] EXCEPT !.at = p, !.left = tool[t].left \ {s}]
            /\ tool' = [tool EXCEPT ![t] = tool'[t]]
        BY <1>1, <3>2 DEF HookInv, HookTypes
      <3> QED BY <3>2, <3>3
    <2>2. p \in H!Places /\ tool[t].left \ {s} \in SUBSET H!Slots
      BY <1>1 DEF ToolStates, H!Places
    <2>3. tool'[t] \in ToolStates
      BY <1>1, <2>1, <2>2 DEF ToolStates
    <2>4. tool'[t].at = p /\ tool'[t].r = tool[t].r /\ tool'[t].plans = tool[t].plans
      BY <1>1, <2>1 DEF ToolStates
    <2> QED BY <1>1, <1>2, <2>1, <2>3, <2>4 DEF StateOK
  <1> QED BY <1>3, <1>4

\* The replacement puts back the count of edits the file had, unless an owner
\* raced it.
LEMMA ReplaceOK ==
  ASSUME HookInv, NEW t \in Tools, H!Replace(t)
  PROVE  HookInv' /\ H!EditKept
  <1> DEFINE r == tool[t].r
  <1>1. /\ StateOK(tool[t]) /\ tool[t] \in ToolStates /\ tool[t].at = "replace" /\ r \in Runners
        /\ UNCHANGED <<wraps, scripts, own, raced>> /\ env \in [Runners -> H!Env]
    BY DEF HookInv, HookTypes, StateOK, H!Replace, H!history
  <1>2. CASE env' = env /\ H!NextRunner(t)
    BY <1>1, <1>2, NextRunnerOK, ToolMoves DEF HookInv, HookTypes
  <1>3. CASE ~(env' = env /\ H!NextRunner(t))
    <2>1. PICK p \in {"unwrap", "restart"}, left \in SUBSET H!Slots :
            /\ env' = [env EXCEPT ![r] = tool[t].new]
            /\ tool' = [tool EXCEPT ![t].at = p, ![t].left = left]
      <3>1. CASE tool[t].op = "uninstall" /\ tool[t].plans[r].kind = "restore"
        <4>1. env' = [env EXCEPT ![r] = tool[t].new]
              /\ tool' = [tool EXCEPT ![t].at = "unwrap", ![t].left = H!Slots]
          BY <1>3, <3>1 DEF H!Replace
        <4> QED BY <4>1
      <3>2. CASE ~(tool[t].op = "uninstall" /\ tool[t].plans[r].kind = "restore")
        <4>1. env' = [env EXCEPT ![r] = tool[t].new]
              /\ tool' = [tool EXCEPT ![t].at = "restart", ![t].left = {}]
          BY <1>3, <3>2 DEF H!Replace
        <4> QED BY <4>1
      <3> QED BY <3>1, <3>2
    <2>2. /\ tool'[t] = [tool[t] EXCEPT !.at = p, !.left = left]
          /\ tool' = [tool EXCEPT ![t] = tool'[t]]
      BY <2>1 DEF HookInv, HookTypes
    <2> HIDE DEF r
    <2>3. tool'[t] \in ToolStates /\ tool'[t].at = p /\ tool'[t].r = r /\ tool'[t].plans = tool[t].plans
      BY <1>1, <2>2 DEF ToolStates, H!Places, r
    <2>4. \A q \in Runners : /\ env'[q] \in H!Env
                             /\ q \in raced \/ env'[q].rest = env[q].rest
      <3>1. tool[t].new \in H!Env /\ (r \in raced \/ tool[t].new.rest = env[r].rest)
        BY <1>1 DEF ToolStates, StateOK, r
      <3> QED BY <1>1, <2>1, <3>1
    <2>5. HookTypes'
      <3>1. env' \in [Runners -> H!Env]
        BY <1>1, <2>1, <2>4
      <3> QED BY <1>1, <2>2, <2>3, <3>1 DEF HookInv, HookTypes
    <2>6. ASSUME NEW u \in Tools PROVE StateOK(tool[u])'
      <3>1. CASE u = t
        BY <1>1, <2>2, <2>3, <3>1 DEF StateOK
      <3>2. CASE u # t
        <4>1. tool'[u] = tool[u] /\ StateOK(tool[u])
          BY <2>2, <3>2 DEF HookInv, HookTypes
        <4> QED BY <1>1, <2>4, <4>1 DEF StateOK
      <3> QED BY <3>1, <3>2
    <2>7. H!EditKept
      BY <1>1, <2>4 DEF H!EditKept, H!Env
    <2> QED BY <2>5, <2>6, <2>7 DEF HookInv
  <1> QED BY <1>2, <1>3

\* What an owner's edit makes of a file.
EditOf(e, s, h) == [[e EXCEPT ![s] = h] EXCEPT !.rest = @ + 1]

LEMMA Edited ==
  ASSUME NEW e \in H!Env, NEW s \in H!Slots, NEW h \in OwnHooks \cup {Nil}
  PROVE  /\ EditOf(e, s, h) \in H!Env /\ EditOf(e, s, h).rest = e.rest + 1
         /\ EditOf(e, s, h)[s] = h
         /\ \A o \in H!Slots : o # s => EditOf(e, s, h)[o] = e[o]
  <1> DEFINE y == [e EXCEPT ![s] = h]
  <1>0. h \in H!Paths \cup {Nil}
    BY DEF H!Paths
  <1>1. y \in H!Env /\ y.rest = e.rest /\ y[s] = h /\ \A o \in H!Slots : o # s => y[o] = e[o]
    <2>1. CASE s = "started"
      <3>1. y = [e EXCEPT !.started = h]
        BY <2>1
      <3> QED BY <1>0, <2>1, <3>1 DEF H!Env, H!Slots
    <2>2. CASE s = "completed"
      <3>1. y = [e EXCEPT !.completed = h]
        BY <2>2
      <3> QED BY <1>0, <2>2, <3>1 DEF H!Env, H!Slots
    <2> QED BY <2>1, <2>2 DEF H!Slots
  <1> HIDE DEF y
  <1>2. /\ [y EXCEPT !.rest = @ + 1] \in H!Env /\ [y EXCEPT !.rest = @ + 1].rest = e.rest + 1
        /\ \A o \in H!Slots : [y EXCEPT !.rest = @ + 1][o] = y[o]
    BY <1>1 DEF H!Env, H!Slots
  <1> QED BY <1>1, <1>2 DEF y, EditOf

LEMMA OwnerEditsOK ==
  ASSUME HookInv, NEW r \in Runners, NEW s \in H!Slots, H!OwnerEdits(r, s)
  PROVE  HookInv' /\ H!EditKept
  <1>1. PICK h \in OwnHooks \cup {Nil} :
          /\ env' = [env EXCEPT ![r][s] = h, ![r].rest = @ + 1]
          /\ own' = [own EXCEPT ![r][s] = h]
    BY DEF H!OwnerEdits
  <1>2. /\ UNCHANGED <<wraps, scripts, tool>> /\ raced \subseteq raced'
        /\ \A t \in Tools : tool[t].at = "replace" /\ tool[t].r = r => r \in raced'
    BY DEF H!OwnerEdits
  <1>3. HookTypes
    BY DEF HookInv
  <1>4. /\ env[r] \in H!Env /\ EditOf(env[r], s, h) \in H!Env
        /\ EditOf(env[r], s, h).rest = env[r].rest + 1
    BY <1>3, Edited DEF HookTypes
  <1>5. env' = [env EXCEPT ![r] = EditOf(env[r], s, h)]
    BY <1>1, <1>3, <1>4 DEF HookTypes, EditOf
  <1>6. env' \in [Runners -> H!Env] /\ env'[r].rest = env[r].rest + 1
        /\ \A q \in Runners : q # r => env'[q] = env[q]
    BY <1>3, <1>4, <1>5 DEF HookTypes
  <1>7. own' \in [Runners -> [H!Slots -> OwnHooks \cup {Nil}]]
    BY <1>1, <1>3 DEF HookTypes
  <1>8. HookTypes'
    BY <1>2, <1>3, <1>6, <1>7 DEF HookTypes
  <1>9. ASSUME NEW t \in Tools PROVE StateOK(tool[t])'
    BY <1>2, <1>6 DEF HookInv, StateOK
  <1>10. H!EditKept
    <2>1. \A q \in Runners : env[q].rest \in Nat
      BY <1>3 DEF HookTypes, H!Env
    <2> QED BY <1>6, <2>1 DEF H!EditKept
  <1> QED BY <1>8, <1>9, <1>10 DEF HookInv

\* One step of a tool.
LEMMA ToolStepOK ==
  ASSUME HookInv, NEW t \in Tools, H!ToolStep(t)
  PROVE  HookInv' /\ H!EditKept
  <1>0. /\ wraps \in [Runners -> [H!Slots -> H!Paths \cup {Nil, "blank"}]]
        /\ scripts \in SUBSET H!Slots /\ StateOK(tool[t])
    BY DEF HookInv, HookTypes
  <1> DEFINE Moved == tool' = [tool EXCEPT ![t] = tool'[t]] /\ StateOK(tool'[t])
  <1>a. ASSUME Moved, UNCHANGED <<env, raced, own>>,
               wraps' \in [Runners -> [H!Slots -> H!Paths \cup {Nil, "blank"}]],
               scripts' \in SUBSET H!Slots
        PROVE  HookInv' /\ H!EditKept
    BY <1>a, ToolMoves
  <1> USE DEF H!history, H!files
  <1>1. CASE H!StartConfig(t)
    <2>1. UNCHANGED <<env, raced, own, wraps>> /\ scripts' \in SUBSET H!Slots
      BY <1>0, <1>1 DEF H!StartConfig, H!Slots
    <2>2. Moved
      BY <1>1, BeginOK DEF H!StartConfig
    <2> QED BY <1>0, <1>a, <2>1, <2>2
  <1>2. CASE H!ConfigDone(t)
    <2>1. Moved
      BY <1>2, DoneOK DEF H!ConfigDone
    <2> QED BY <1>0, <1>2, <1>a, <2>1 DEF H!ConfigDone
  <1>3. CASE H!ReadEnv(t)
    <2>1. Moved
      BY <1>3, ReadEnvOK
    <2> QED BY <1>0, <1>3, <1>a, <2>1 DEF H!ReadEnv
  <1>4. CASE H!WriteWrapper(t)
    <2>1. Moved /\ wraps' \in [Runners -> [H!Slots -> H!Paths \cup {Nil, "blank"}]]
      BY <1>4, WriteWrapperOK
    <2> QED BY <1>0, <1>4, <1>a, <2>1 DEF H!WriteWrapper
  <1>5. CASE H!Check(t)
    <2>1. CASE H!NextRunner(t)
      BY <1>0, <1>5, <1>a, <2>1, NextRunnerOK DEF H!Check
    <2>2. CASE env[tool[t].r] = tool[t].seen /\ H!Goto(t, "replace")
      <3>1. /\ tool[t].r \in Runners /\ tool[t].new.rest = tool[t].seen.rest
            /\ env[tool[t].r].rest = tool[t].seen.rest /\ "replace" \in H!Places
        BY <1>0, <1>5, <2>2 DEF H!Check, StateOK, H!Places
      <3>2. Moved
        BY <2>2, <3>1, GotoOK
      <3> QED BY <1>0, <1>5, <1>a, <3>2 DEF H!Check
    <2> QED BY <1>5, <2>1, <2>2 DEF H!Check
  <1>6. CASE H!Replace(t)
    BY <1>6, ReplaceOK
  <1>7. CASE H!LookIdle(t)
    <2>1. Moved
      <3>1. CASE H!NextRunner(t)
        BY <3>1, NextRunnerOK
      <3>2. CASE H!Goto(t, "restarting")
        <4>1. tool[t].r \in Runners /\ "restarting" \in H!Places
          BY <1>0, <1>7 DEF H!LookIdle, StateOK, H!Places
        <4> QED BY <3>2, <4>1, GotoOK
      <3> QED BY <1>7, <3>1, <3>2 DEF H!LookIdle
    <2> QED BY <1>0, <1>7, <1>a, <2>1 DEF H!LookIdle
  <1>8. CASE H!Restart(t)
    BY <1>0, <1>8, <1>a, NextRunnerOK DEF H!Restart
  <1>9. CASE H!StartUninstall(t)
    <2>1. Moved
      BY <1>9, BeginOK DEF H!StartUninstall
    <2> QED BY <1>0, <1>9, <1>a, <2>1 DEF H!StartUninstall
  <1>10. CASE H!Confirm(t)
    <2>1. Moved
      <3>1. CASE H!Done(t)
        BY <3>1, DoneOK
      <3>2. CASE tool' = [tool EXCEPT ![t].at = "apply", ![t].todo = Runners]
        <4>1. tool[t] \in ToolStates
          BY <1>0 DEF StateOK
        <4>2. /\ tool'[t] = [tool[t] EXCEPT !.at = "apply", !.todo = Runners, !.left = tool[t].left]
              /\ tool' = [tool EXCEPT ![t] = tool'[t]] /\ tool[t].left \in SUBSET H!Slots
          BY <3>2, <4>1 DEF ToolStates, HookInv, HookTypes
        <4>3. StateOK([tool[t] EXCEPT !.at = "apply", !.todo = Runners, !.left = tool[t].left])
          BY <4>2, ListOK, Zenon
        <4> QED BY <4>2, <4>3
      <3> QED BY <1>10, <3>1, <3>2 DEF H!Confirm
    <2> QED BY <1>0, <1>10, <1>a, <2>1 DEF H!Confirm
  <1>11. CASE H!Applied(t)
    <2>1. tool[t] \in ToolStates
      BY <1>0 DEF StateOK
    <2>2. /\ tool'[t] = [tool[t] EXCEPT !.at = "look", !.todo = Runners, !.left = tool[t].left]
          /\ tool' = [tool EXCEPT ![t] = tool'[t]] /\ tool[t].left \in SUBSET H!Slots
      BY <1>11, <2>1 DEF H!Applied, ToolStates, HookInv, HookTypes
    <2>3. StateOK([tool[t] EXCEPT !.at = "look", !.todo = Runners, !.left = tool[t].left])
      BY <2>2, ListOK, Zenon
    <2> QED BY <1>0, <1>11, <1>a, <2>2, <2>3 DEF H!Applied
  <1>12. CASE H!Killed(t)
    <2>1. Moved
      BY <1>12, DoneOK DEF H!Killed
    <2> QED BY <1>0, <1>12, <1>a, <2>1 DEF H!Killed
  <1>13. ASSUME NEW r \in Runners, H!Detect(t, r) PROVE HookInv' /\ H!EditKept
    <2>1. Moved
      BY <1>13, DetectOK
    <2> QED BY <1>0, <1>13, <1>a, <2>1 DEF H!Detect
  <1>14. ASSUME NEW r \in Runners, H!PlanRunner(t, r) PROVE HookInv' /\ H!EditKept
    <2>1. Moved
      BY <1>14, PlanRunnerOK
    <2> QED BY <1>0, <1>14, <1>a, <2>1 DEF H!PlanRunner
  <1>15. ASSUME NEW r \in Runners, H!Apply(t, r) PROVE HookInv' /\ H!EditKept
    <2>1. Moved
      BY <1>15, ApplyOK
    <2> QED BY <1>0, <1>15, <1>a, <2>1 DEF H!Apply
  <1>16. ASSUME NEW r \in Runners, H!Look(t, r) PROVE HookInv' /\ H!EditKept
    <2>1. Moved
      BY <1>16, LookOK
    <2> QED BY <1>0, <1>16, <1>a, <2>1 DEF H!Look
  <1>17. ASSUME NEW s \in H!Slots, H!RemoveWrapper(t, s) \/ H!Sweep(t, s) PROVE HookInv' /\ H!EditKept
    <2>1. /\ Moved /\ wraps' \in [Runners -> [H!Slots -> H!Paths \cup {Nil, "blank"}]]
          /\ scripts' \in SUBSET H!Slots
      BY <1>17, SweepOK
    <2> QED BY <1>17, <1>a, <2>1 DEF H!RemoveWrapper, H!Sweep
  <1> HIDE DEF Moved
  <1> QED BY <1>1, <1>2, <1>3, <1>4, <1>5, <1>6, <1>7, <1>8, <1>9, <1>10, <1>11, <1>12,
             <1>13, <1>14, <1>15, <1>16, <1>17 DEF H!ToolStep

LEMMA HookNext == HookInv /\ H!Next => HookInv' /\ H!EditKept
  <1> SUFFICES ASSUME HookInv, H!Next PROVE HookInv' /\ H!EditKept
    OBVIOUS
  <1>1. CASE \E t \in Tools : H!ToolStep(t)
    BY <1>1, ToolStepOK
  <1>2. ASSUME NEW r \in Runners, H!RunnerMoves(r) PROVE HookInv' /\ H!EditKept
    <2>1. UNCHANGED <<env, wraps, scripts, tool, own, raced>>
      BY <1>2 DEF H!RunnerMoves, H!files, H!history
    <2>2. HookInv'
      BY <2>1 DEF HookInv, HookTypes, StateOK
    <2> QED BY <2>1, <2>2 DEF H!EditKept, HookInv, HookTypes, H!Env
  <1>3. ASSUME NEW r \in Runners, NEW s \in H!Slots, H!OwnerEdits(r, s) PROVE HookInv' /\ H!EditKept
    BY <1>3, OwnerEditsOK
  <1> QED BY <1>1, <1>2, <1>3 DEF H!Next

-----------------------------------------------------------------------------
(* HookInstall: the owners' hooks. *)

Clean(q) == \A s \in H!Slots : env[q][s] \notin H!Ours

Good(r) == r \notin raced /\ r \notin rechained

\* What a slot says is the owner's hook, our script if there is none, or a wrapper
\* around it.
Kept(r) ==
  \A s \in H!Slots :
    /\ env[r][s] \notin H!Ours => own[r][s] = env[r][s]
    /\ env[r][s] = "script" => own[r][s] = Nil /\ s \in scripts
    /\ env[r][s] = "wrapper" => own[r][s] \in OwnHooks /\ wraps[r][s] = own[r][s]

PlanFits(q, plan) ==
  /\ plan.kind = "strip" => \A s \in H!Slots : plan.seen[s] = "script" /\ plan.new[s] = Nil
  /\ plan.kind = "restore" =>
       \A s \in H!Slots : plan.seen[s] = "wrapper" /\ plan.new[s] = wraps[q][s]

\* What config makes of a slot.
Turned(r, seen_, new, s) ==
  \/ new[s] = seen_[s]
  \/ seen_[s] = Nil /\ new[s] = "script"
  \/ seen_[s] \in OwnHooks /\ new[s] = "wrapper" /\ wraps[r][s] = seen_[s]

\* Wrapping: what of ours is in the file was there when it was read, and the slots
\* that are done have their wrappers.
Wrapping(x) ==
  \A s \in H!Slots :
    /\ env[x.r][s] \in H!Ours => x.seen[s] = env[x.r][s]
    /\ x.new[s] = IF x.seen[s] = Nil THEN "script" ELSE "wrapper"
    /\ s \notin x.left /\ x.seen[s] # Nil => x.seen[s] \in OwnHooks /\ wraps[x.r][s] = x.seen[s]

\* The runners whose plan is still to be carried out.
Pending(x) ==
  {q \in Runners : \/ x.at \in {"plan", "confirm"}
                   \/ x.at \in {"apply", "check", "replace", "unwrap", "restart", "restarting"}
                      /\ q \in x.todo
                   \/ x.at \in {"check", "replace"} /\ q = x.r}

\* What a tool that is alone at work has in hand.
ToolSound(x) ==
  /\ x.at \in {"detect", "read", "wrap"} => x.op = "config"
  /\ x.at \in {"plan", "confirm", "apply", "look", "sweep", "unwrap"} => x.op = "uninstall"
  /\ x.op = "config" /\ x.at # "idle" => scripts = H!Slots
  /\ x.at = "wrap" /\ Good(x.r) => Wrapping(x)
  /\ x.op = "config" /\ x.at \in {"check", "replace"} /\ Good(x.r) =>
       \A s \in H!Slots : Turned(x.r, x.seen, x.new, s)
  /\ x.op = "uninstall" /\ x.at \in {"check", "replace"} =>
       /\ x.plans[x.r].kind \in {"strip", "restore"}
       /\ x.seen = x.plans[x.r].seen /\ x.new = x.plans[x.r].new
  /\ x.op = "uninstall" => \A q \in Pending(x) : PlanFits(q, x.plans[q])
  /\ x.op = "uninstall" /\ x.at \in {"check", "replace", "unwrap", "restart", "restarting"} =>
       x.r \notin x.todo
  /\ x.at = "replace" /\ Good(x.r) => env[x.r] = x.seen
  /\ x.at = "unwrap" /\ Good(x.r) => Clean(x.r)
  /\ x.at = "look" => \A q \in Runners \ x.todo : Clean(q)
  /\ x.at = "sweep" => \A q \in Runners : Clean(q)

Alone == \A t, u \in Tools : t # u => tool[t].at = "idle" \/ tool[u].at = "idle"

HookSound ==
  ~overlap => /\ Alone
              /\ \A r \in Runners : Good(r) => Kept(r)
              /\ \A t \in Tools : ToolSound(tool[t])

LEMMA SoundIsIntact == HookInv /\ HookSound => H!OwnHookKept /\ H!EnvScriptsExist
  <1> SUFFICES ASSUME HookInv, HookSound, NEW r \in Runners, H!Quiet(r), r \notin rechained,
                      NEW s \in H!Slots
               PROVE  /\ H!OwnBehind(r, s, env[r][s]) = own[r][s]
                      /\ env[r][s] = "script" => s \in scripts
                      /\ env[r][s] = "wrapper" => wraps[r][s] # Nil
    BY DEF H!OwnHookKept, H!EnvScriptsExist
  <1>1. Kept(r)
    BY DEF HookSound, Good, H!Quiet
  <1>2. env[r][s] \in OwnHooks \cup {"script", "wrapper", Nil}
    BY DEF HookInv, HookTypes, H!Env, H!Slots, H!Paths, H!Ours
  <1>3. /\ Nil \notin OwnHooks /\ "script" \notin OwnHooks /\ "wrapper" \notin OwnHooks
        /\ Nil # "script" /\ Nil # "wrapper"
    BY PartsAssumption
  <1>4. CASE env[r][s] \in OwnHooks
    BY <1>1, <1>3, <1>4 DEF Kept, H!Ours, H!OwnBehind
  <1>5. CASE env[r][s] = Nil
    BY <1>1, <1>3, <1>5 DEF Kept, H!Ours, H!OwnBehind
  <1>6. CASE env[r][s] = "script"
    BY <1>1, <1>3, <1>6 DEF Kept, H!OwnBehind
  <1>7. CASE env[r][s] = "wrapper"
    <2>1. own[r][s] \in OwnHooks /\ wraps[r][s] = own[r][s]
      BY <1>1, <1>7 DEF Kept
    <2>2. wraps[r][s] \in OwnHooks /\ wraps[r][s] # "script" /\ wraps[r][s] # Nil
      BY <1>3, <2>1
    <2>3. H!OwnBehind(r, s, "wrapper") = wraps[r][s]
      BY <1>3, <2>2 DEF H!OwnBehind
    <2> QED BY <1>3, <1>7, <2>1, <2>2, <2>3
  <1> QED BY <1>2, <1>4, <1>5, <1>6, <1>7

LEMMA IdleSound == ASSUME NEW x, x.at = "idle" PROVE ToolSound(x)
  BY DEF ToolSound, Pending

LEMMA IdleSoundNext == ASSUME NEW x, x.at = "idle" PROVE ToolSound(x)'
  BY DEF ToolSound, Pending

LEMMA SoundInit == H!Init => HookSound
  <1> SUFFICES ASSUME H!Init PROVE HookSound
    OBVIOUS
  <1>1. /\ own \in [Runners -> [H!Slots -> OwnHooks \cup {Nil}]]
        /\ \A t \in Tools : tool[t].at = "idle"
    BY DEF H!Init, H!Idle
  <1> DEFINE e(r) == [H!Blank EXCEPT !.started = own[r]["started"], !.completed = own[r]["completed"]]
  <1>3. PICK installed \in SUBSET Runners :
          /\ env = [r \in Runners |-> IF r \in installed THEN H!Chained(e(r)) ELSE e(r)]
          /\ wraps = [r \in Runners |-> [s \in H!Slots |-> IF r \in installed THEN own[r][s] ELSE Nil]]
          /\ scripts = IF installed = {} THEN {} ELSE H!Slots
    BY DEF H!Init
  <1>4. /\ \A r \in Runners : e(r) \in H!Env
        /\ \A r \in Runners, s \in H!Slots : e(r)[s] = own[r][s] /\ own[r][s] \in OwnHooks \cup {Nil}
    <2>1. ASSUME NEW r \in Runners
          PROVE  /\ e(r) \in H!Env
                 /\ e(r)["started"] = own[r]["started"] /\ e(r)["completed"] = own[r]["completed"]
                 /\ \A s \in H!Slots : own[r][s] \in OwnHooks \cup {Nil}
      <3>1. own[r]["started"] \in OwnHooks \cup {Nil} /\ own[r]["completed"] \in OwnHooks \cup {Nil}
            /\ \A s \in H!Slots : own[r][s] \in OwnHooks \cup {Nil}
        BY <1>1 DEF H!Slots
      <3>2. e(r) \in H!Env
        BY <3>1, IdleType DEF H!Env, H!Paths
      <3>3. e(r)["started"] = own[r]["started"] /\ e(r)["completed"] = own[r]["completed"]
        BY DEF H!Blank
      <3> QED BY <3>1, <3>2, <3>3
    <2> HIDE DEF e
    <2> QED BY <2>1 DEF H!Slots
  <1> HIDE DEF e
  <1>5. ASSUME NEW r \in Runners PROVE Kept(r)
    <2>1. PartsAssumption
      BY PartsAssumption
    <2>2. CASE r \in installed
      <3>1. env[r] = H!Chained(e(r)) /\ scripts = H!Slots
            /\ \A s \in H!Slots : wraps[r][s] = own[r][s]
        BY <1>3, <2>2
      <3>2. \A s \in H!Slots : env[r][s] = IF own[r][s] = Nil THEN "script" ELSE "wrapper"
        <4>1. e(r) \in H!Env /\ \A s \in H!Slots : e(r)[s] = own[r][s]
          BY <1>4
        <4>2. \A s \in H!Slots : H!Chained(e(r))[s] = IF e(r)[s] = Nil THEN "script" ELSE "wrapper"
          BY <4>1, ChainedRules
        <4> QED BY <3>1, <4>1, <4>2
      <3> QED BY <1>4, <3>1, <3>2 DEF Kept, H!Ours
    <2>3. CASE r \notin installed
      <3>1. \A s \in H!Slots : env[r][s] = own[r][s] /\ own[r][s] \in OwnHooks \cup {Nil}
        BY <1>3, <1>4, <2>3
      <3> QED BY <2>1, <3>1 DEF Kept, PartsAssumption
    <2> QED BY <2>2, <2>3
  <1> QED BY <1>1, <1>5, IdleSound DEF HookSound, Alone

\* A tool that makes a step, and is not at work with another, is alone.
LEMMA OthersIdle ==
  ASSUME HookSound, NEW t \in Tools, H!ToolStep(t), ~overlap'
  PROVE  ~overlap /\ \A u \in Tools \ {t} : tool[u].at = "idle"
  <1>1. CASE \E op, p : H!Begin(t, op, p)
    BY <1>1 DEF H!Begin
  <1>2. CASE tool[t].at # "idle" /\ overlap' = overlap
    BY <1>2 DEF HookSound, Alone
  <1>3. (\E op, p : H!Begin(t, op, p)) \/ (tool[t].at # "idle" /\ overlap' = overlap)
    BY DEF H!ToolStep, H!StartConfig, H!ConfigDone, H!ReadEnv, H!WriteWrapper, H!Check, H!Replace,
           H!LookIdle, H!Restart, H!StartUninstall, H!Confirm, H!Applied, H!Killed, H!Detect,
           H!PlanRunner, H!Apply, H!Look, H!RemoveWrapper, H!Sweep, H!history
  <1> QED BY <1>1, <1>2, <1>3

\* What is left to show of a tool's step.
LEMMA SoundStep ==
  ASSUME HookInv, HookSound, NEW t \in Tools, H!ToolStep(t),
         tool' = [tool EXCEPT ![t] = tool'[t]],
         ~overlap' => /\ \A r \in Runners : Good(r)' => Kept(r)'
                      /\ ToolSound(tool[t])'
  PROVE  HookSound'
  <1> SUFFICES ASSUME ~overlap'
               PROVE  /\ Alone'
                      /\ \A u \in Tools : ToolSound(tool[u])'
    BY DEF HookSound
  <1>1. \A u \in Tools \ {t} : tool'[u] = tool[u] /\ tool[u].at = "idle"
    BY OthersIdle DEF HookInv, HookTypes
  <1>2. Alone'
    BY <1>1 DEF Alone
  <1>3. ASSUME NEW u \in Tools PROVE ToolSound(tool[u])'
    <2>1. CASE u = t
      BY <2>1
    <2>2. CASE u # t
      BY <1>1, <2>2, IdleSoundNext
    <2> QED BY <2>1, <2>2
  <1> QED BY <1>2, <1>3

\* A step that touches nothing outside the tool.
LEMMA SoundMove ==
  ASSUME HookInv, HookSound, NEW t \in Tools, H!ToolStep(t),
         tool' = [tool EXCEPT ![t] = tool'[t]],
         UNCHANGED <<env, wraps, scripts, own, raced, rechained>>,
         ~overlap => ToolSound(tool'[t])
  PROVE  HookSound'
  <1>1. ~overlap' => \A r \in Runners : Good(r)' => Kept(r)'
    BY OthersIdle DEF HookSound, Good, Kept
  <1>2. ~overlap' => ToolSound(tool'[t])
    BY OthersIdle
  <1>3. ToolSound(tool'[t]) => ToolSound(tool[t])'
    BY DEF ToolSound, Pending, Wrapping, Turned, PlanFits, Good, Clean
  <1> QED BY <1>1, <1>2, <1>3, SoundStep

\* What a tool has in hand after it is done with a runner.
LEMMA NextRunnerFields ==
  ASSUME HookInv, NEW t \in Tools, H!NextRunner(t)
  PROVE  /\ tool'[t].at = IF tool[t].op = "config" THEN "detect" ELSE "apply"
         /\ tool'[t].op = tool[t].op /\ tool'[t].todo = tool[t].todo
         /\ tool'[t].plans = tool[t].plans
         /\ tool[t].op \in {"config", "uninstall"}
         /\ tool' = [tool EXCEPT ![t] = tool'[t]]
  <1>1. tool[t] \in ToolStates
    BY DEF HookInv, HookTypes
  <1>2. /\ tool'[t] = [tool[t] EXCEPT !.at = IF tool[t].op = "config" THEN "detect" ELSE "apply",
                                      !.r = Nil, !.seen = H!Blank, !.new = H!Blank, !.left = {}]
        /\ tool' = [tool EXCEPT ![t] = tool'[t]]
    BY DEF H!NextRunner, HookInv, HookTypes
  <1> QED BY <1>1, <1>2 DEF ToolStates

LEMMA NextRunnerSound ==
  ASSUME HookInv, HookSound, ~overlap, NEW t \in Tools, H!NextRunner(t),
         tool[t].at \in {"read", "wrap", "check", "replace", "restart", "restarting"}
  PROVE  ToolSound(tool'[t])
  <1>1. ToolSound(tool[t])
    BY DEF HookSound
  <1>2. CASE tool[t].op = "config"
    BY <1>1, <1>2, NextRunnerFields DEF ToolSound
  <1>3. CASE tool[t].op = "uninstall"
    <2>1. /\ tool'[t].at = "apply" /\ tool'[t].op = "uninstall" /\ tool'[t].todo = tool[t].todo
          /\ tool'[t].plans = tool[t].plans
          /\ tool[t].at \in {"check", "replace", "restart", "restarting"}
      BY <1>1, <1>3, NextRunnerFields DEF ToolSound
    <2>2. \A q \in Pending(tool'[t]) : PlanFits(q, tool'[t].plans[q])
      <3>1. Pending(tool'[t]) \subseteq Pending(tool[t])
        BY <2>1 DEF Pending
      <3> QED BY <1>1, <1>3, <2>1, <3>1 DEF ToolSound
    <2> QED BY <2>1, <2>2 DEF ToolSound
  <1> QED BY <1>2, <1>3, NextRunnerFields

LEMMA DoneSound ==
  ASSUME HookInv, NEW t \in Tools, H!Done(t)
  PROVE  ToolSound(tool'[t]) /\ tool' = [tool EXCEPT ![t] = tool'[t]]
  <1>1. tool'[t] = H!Idle /\ tool' = [tool EXCEPT ![t] = tool'[t]]
    BY DEF H!Done, HookInv, HookTypes
  <1> QED BY <1>1, IdleSound DEF H!Idle

LEMMA BeginSound ==
  ASSUME HookInv, NEW t \in Tools, NEW op \in {"config", "uninstall"}, NEW p, H!Begin(t, op, p)
  PROVE  /\ tool' = [tool EXCEPT ![t] = tool'[t]]
         /\ tool'[t].at = p /\ tool'[t].op = op /\ tool'[t].plans = [r \in Runners |-> H!NoPlan]
  <1>1. tool'[t] = [H!Idle EXCEPT !.at = p, !.op = op, !.todo = Runners]
        /\ tool' = [tool EXCEPT ![t] = tool'[t]]
    BY DEF H!Begin, HookInv, HookTypes
  <1> QED BY <1>1 DEF H!Idle

LEMMA StartUninstallSound ==
  ASSUME HookInv, HookSound, NEW t \in Tools, H!StartUninstall(t)
  PROVE  HookSound'
  <1>1. /\ tool' = [tool EXCEPT ![t] = tool'[t]]
        /\ tool'[t].at = "plan" /\ tool'[t].op = "uninstall"
        /\ tool'[t].plans = [r \in Runners |-> H!NoPlan]
    BY BeginSound DEF H!StartUninstall
  <1>2. \A q \in Runners : PlanFits(q, tool'[t].plans[q])
    BY <1>1 DEF PlanFits, H!NoPlan
  <1>3. ToolSound(tool'[t])
    BY <1>1, <1>2 DEF ToolSound, Pending
  <1> QED BY <1>1, <1>3, SoundMove DEF H!StartUninstall, H!files, H!ToolStep, H!Begin

LEMMA DetectSound ==
  ASSUME HookInv, HookSound, NEW t \in Tools, NEW r \in Runners, H!Detect(t, r)
  PROVE  HookSound'
  <1>1. tool[t] \in ToolStates /\ tool[t].at = "detect"
        /\ UNCHANGED <<env, wraps, scripts, own, raced, rechained>>
    BY DEF HookInv, HookTypes, H!Detect, H!files, H!history
  <1>2. /\ tool'[t].at \in {"detect", "read"} /\ tool'[t].op = tool[t].op
        /\ tool' = [tool EXCEPT ![t] = tool'[t]]
    <2>1. CASE tool' = [tool EXCEPT ![t].todo = @ \ {r}]
      BY <1>1, <2>1 DEF HookInv, HookTypes, ToolStates
    <2>2. CASE ~(tool' = [tool EXCEPT ![t].todo = @ \ {r}])
      <3>1. PICK job : tool' = [tool EXCEPT ![t].at = "read", ![t].r = r, ![t].job = job, ![t].todo = @ \ {r}]
        BY <2>2 DEF H!Detect
      <3>2. tool'[t] = [tool[t] EXCEPT !.at = "read", !.r = r, !.job = job, !.todo = @ \ {r}]
            /\ tool' = [tool EXCEPT ![t] = tool'[t]]
        BY <3>1 DEF HookInv, HookTypes
      <3> QED BY <1>1, <3>2 DEF ToolStates
    <2> QED BY <2>1, <2>2
  <1>3. ~overlap => ToolSound(tool'[t])
    <2> SUFFICES ASSUME ~overlap PROVE ToolSound(tool'[t])
      OBVIOUS
    <2>1. ToolSound(tool[t])
      BY DEF HookSound
    <2> QED BY <1>1, <1>2, <2>1 DEF ToolSound
  <1> QED BY <1>1, <1>2, <1>3, SoundMove DEF H!ToolStep

LEMMA CheckSound ==
  ASSUME HookInv, HookSound, NEW t \in Tools, H!Check(t)
  PROVE  HookSound'
  <1>1. tool[t] \in ToolStates /\ tool[t].at = "check"
        /\ UNCHANGED <<env, wraps, scripts, own, raced, rechained>>
    BY DEF HookInv, HookTypes, H!Check, H!files, H!history
  <1>2. CASE H!NextRunner(t)
    BY <1>1, <1>2, NextRunnerSound, NextRunnerFields, SoundMove DEF H!ToolStep
  <1>3. CASE env[tool[t].r] = tool[t].seen /\ H!Goto(t, "replace")
    <2>1. tool'[t] = [tool[t] EXCEPT !.at = "replace"] /\ tool' = [tool EXCEPT ![t] = tool'[t]]
      BY <1>3 DEF H!Goto, HookInv, HookTypes
    <2>2. /\ tool'[t].at = "replace" /\ tool'[t].op = tool[t].op /\ tool'[t].r = tool[t].r
          /\ tool'[t].seen = tool[t].seen /\ tool'[t].new = tool[t].new
          /\ tool'[t].todo = tool[t].todo /\ tool'[t].plans = tool[t].plans
      BY <1>1, <2>1 DEF ToolStates
    <2>3. ~overlap => ToolSound(tool'[t])
      <3> SUFFICES ASSUME ~overlap PROVE ToolSound(tool'[t])
        OBVIOUS
      <3>1. ToolSound(tool[t])
        BY DEF HookSound
      <3>2. Pending(tool'[t]) = Pending(tool[t])
        BY <1>1, <2>2 DEF Pending
      <3> QED BY <1>1, <1>3, <2>2, <3>1, <3>2 DEF ToolSound
    <2> QED BY <1>1, <2>1, <2>3, SoundMove DEF H!ToolStep
  <1> QED BY <1>2, <1>3 DEF H!Check

LEMMA RestartSound ==
  ASSUME HookInv, HookSound, NEW t \in Tools, H!LookIdle(t) \/ H!Restart(t)
  PROVE  HookSound'
  <1>1. tool[t] \in ToolStates /\ tool[t].at \in {"restart", "restarting"} /\ H!ToolStep(t)
        /\ UNCHANGED <<env, wraps, scripts, own, raced, rechained>>
    BY DEF HookInv, HookTypes, H!LookIdle, H!Restart, H!files, H!history, H!ToolStep
  <1>2. CASE H!NextRunner(t)
    BY <1>1, <1>2, NextRunnerSound, NextRunnerFields, SoundMove
  <1>3. CASE H!Goto(t, "restarting")
    <2>1. tool'[t] = [tool[t] EXCEPT !.at = "restarting"] /\ tool' = [tool EXCEPT ![t] = tool'[t]]
      BY <1>3 DEF H!Goto, HookInv, HookTypes
    <2>2. /\ tool'[t].at = "restarting" /\ tool'[t].op = tool[t].op /\ tool'[t].r = tool[t].r
          /\ tool'[t].todo = tool[t].todo /\ tool'[t].plans = tool[t].plans
      BY <1>1, <2>1 DEF ToolStates
    <2>3. ~overlap => ToolSound(tool'[t])
      <3> SUFFICES ASSUME ~overlap PROVE ToolSound(tool'[t])
        OBVIOUS
      <3>1. ToolSound(tool[t])
        BY DEF HookSound
      <3>2. Pending(tool'[t]) = Pending(tool[t])
        BY <1>1, <2>2 DEF Pending
      <3> QED BY <1>1, <2>2, <3>1, <3>2 DEF ToolSound
    <2> QED BY <1>1, <2>1, <2>3, SoundMove
  <1> QED BY <1>2, <1>3 DEF H!LookIdle, H!Restart

LEMMA ReadEnvSound ==
  ASSUME HookInv, HookSound, NEW t \in Tools, H!ReadEnv(t)
  PROVE  HookSound'
  <1>1. /\ tool[t] \in ToolStates /\ tool[t].at = "read" /\ tool[t].r \in Runners /\ H!ToolStep(t)
        /\ UNCHANGED <<env, wraps, scripts, own, raced, rechained>>
    BY DEF HookInv, HookTypes, H!ReadEnv, H!files, H!history, H!ToolStep
  <1>2. CASE H!NextRunner(t)
    BY <1>1, <1>2, NextRunnerSound, NextRunnerFields, SoundMove
  <1>3. CASE ~H!NextRunner(t)
    <2> DEFINE e == env[tool[t].r]
    <2>1. e \in H!Env
      BY <1>1 DEF HookInv, HookTypes
    <2>2. PICK spot \in {"check", "wrap"}, new \in H!Env, left \in SUBSET H!Slots :
            /\ tool' = [tool EXCEPT ![t].at = spot, ![t].seen = e, ![t].new = new, ![t].left = left]
            /\ spot = "check" => \A s \in H!Slots : new[s] = e[s] \/ (e[s] = Nil /\ new[s] = "script")
            /\ spot = "wrap" => \A s \in H!Slots :
                 /\ new[s] = IF e[s] = Nil THEN "script" ELSE "wrapper"
                 /\ e[s] # Nil => s \in left
      <3>1. CASE tool[t].job = "repair"
        <4>1. H!WithLog(e) \in H!Env /\ \A s \in H!Slots : H!WithLog(e)[s] = e[s]
          BY <2>1, WithLogRules
        <4>2. tool' = [tool EXCEPT ![t].at = "check", ![t].seen = e, ![t].new = H!WithLog(e), ![t].left = {}]
          BY <1>3, <3>1 DEF H!ReadEnv
        <4> DEFINE new == H!WithLog(e)
        <4> HIDE DEF new, e
        <4>3. {} \in SUBSET H!Slots
          OBVIOUS
        <4> QED BY <4>1, <4>2, <4>3 DEF new
      <3>2. CASE tool[t].job = "install"
        <4> DEFINE new == H!Rewritten(e, "script", "script", TRUE)
        <4>1. new \in H!Env /\ \A s \in H!Slots : new[s] = "script"
          BY <2>1 DEF H!Rewritten, H!Env, H!Slots, H!Paths, H!Ours
        <4>2. /\ tool' = [tool EXCEPT ![t].at = "check", ![t].seen = e, ![t].new = new, ![t].left = {}]
              /\ \A s \in H!Slots : e[s] = Nil
          BY <1>3, <3>2 DEF H!ReadEnv
        <4> HIDE DEF new, e
        <4>3. {} \in SUBSET H!Slots
          OBVIOUS
        <4> QED BY <4>1, <4>2, <4>3
      <3>3. CASE tool[t].job = "chain"
        <4> DEFINE held == {s \in H!Slots : e[s] # Nil}
        <4>1. H!Chained(e) \in H!Env /\ held \in SUBSET H!Slots
              /\ \A s \in H!Slots : H!Chained(e)[s] = IF e[s] = Nil THEN "script" ELSE "wrapper"
          BY <2>1, ChainedRules
        <4>2. tool' = [tool EXCEPT ![t].at = IF held = {} THEN "check" ELSE "wrap", ![t].seen = e,
                                   ![t].new = H!Chained(e), ![t].left = held]
          BY <1>3, <3>3 DEF H!ReadEnv
        <4>3. CASE held = {}
          BY <4>1, <4>2, <4>3
        <4>4. CASE held # {}
          <5>1. tool' = [tool EXCEPT ![t].at = "wrap", ![t].seen = e, ![t].new = H!Chained(e),
                                     ![t].left = held]
            BY <4>2, <4>4
          <5>2. \A s \in H!Slots : e[s] # Nil => s \in held
            OBVIOUS
          <5> HIDE DEF held
          <5> QED BY <4>1, <5>1, <5>2
        <4> QED BY <4>3, <4>4
      <3> QED BY <1>3, <3>1, <3>2, <3>3 DEF H!ReadEnv
    <2>3. /\ tool'[t] = [tool[t] EXCEPT !.at = spot, !.seen = e, !.new = new, !.left = left]
          /\ tool' = [tool EXCEPT ![t] = tool'[t]]
      BY <2>2 DEF HookInv, HookTypes
    <2> HIDE DEF e
    <2>4. /\ tool'[t].at = spot /\ tool'[t].op = tool[t].op /\ tool'[t].r = tool[t].r
          /\ tool'[t].seen = e /\ tool'[t].new = new /\ tool'[t].left = left
      BY <1>1, <2>3 DEF ToolStates
    <2>5. ~overlap => ToolSound(tool'[t])
      <3> SUFFICES ASSUME ~overlap PROVE ToolSound(tool'[t])
        OBVIOUS
      <3>1. ToolSound(tool[t])
        BY DEF HookSound
      <3>2. tool'[t].op = "config" /\ scripts = H!Slots
        BY <1>1, <2>4, <3>1 DEF ToolSound
      <3>3. spot = "wrap" => Wrapping(tool'[t])
        BY <2>2, <2>4 DEF Wrapping, e
      <3>4. spot = "check" => \A s \in H!Slots : Turned(tool'[t].r, tool'[t].seen, tool'[t].new, s)
        BY <2>2, <2>4 DEF Turned
      <3> QED BY <2>4, <3>2, <3>3, <3>4 DEF ToolSound
    <2> QED BY <1>1, <2>3, <2>5, SoundMove
  <1> QED BY <1>2, <1>3

LEMMA EndSound ==
  ASSUME HookInv, HookSound, NEW t \in Tools, H!ConfigDone(t) \/ H!Killed(t)
  PROVE  HookSound'
  BY DoneSound, SoundMove DEF H!ConfigDone, H!Killed, H!files, H!history, H!ToolStep

LEMMA PlanRunnerSound ==
  ASSUME HookInv, HookSound, NEW t \in Tools, NEW r \in Runners, H!PlanRunner(t, r)
  PROVE  HookSound'
  <1>1. /\ tool[t] \in ToolStates /\ tool[t].at = "plan" /\ H!ToolStep(t)
        /\ UNCHANGED <<env, wraps, scripts, own, raced, rechained>>
    BY DEF HookInv, HookTypes, H!PlanRunner, H!files, H!history, H!ToolStep
  <1>2. PICK plan \in H!Plans, p \in {"confirm", "plan"} :
          /\ PlanFits(r, plan)
          /\ tool' = [tool EXCEPT ![t].plans[r] = plan, ![t].todo = @ \ {r}, ![t].at = p]
    <2>1. PlanFits(r, H!PlanOf(r)) /\ H!PlanOf(r) \in H!Plans
      BY PlanRules DEF HookInv, PlanFits
    <2>2. PlanFits(r, H!NoPlan) /\ H!NoPlan \in H!Plans
      BY IdleType DEF PlanFits, H!NoPlan
    <2>3. PICK plan \in {H!PlanOf(r), H!NoPlan} :
            tool' = [tool EXCEPT ![t].plans[r] = plan, ![t].todo = @ \ {r},
                                 ![t].at = IF tool[t].todo = {r} THEN "confirm" ELSE @]
      BY DEF H!PlanRunner
    <2>0. PlanFits(r, plan) /\ plan \in H!Plans
      BY <2>1, <2>2, <2>3
    <2>4. CASE tool[t].todo = {r}
      <3>1. tool' = [tool EXCEPT ![t].plans[r] = plan, ![t].todo = @ \ {r}, ![t].at = "confirm"]
        BY <2>3, <2>4
      <3> QED BY <2>0, <3>1
    <2>5. CASE tool[t].todo # {r}
      <3>1. tool' = [tool EXCEPT ![t].plans[r] = plan, ![t].todo = @ \ {r}, ![t].at = "plan"]
        BY <1>1, <2>3, <2>5 DEF HookInv, HookTypes, ToolStates
      <3> QED BY <2>0, <3>1
    <2> QED BY <2>4, <2>5
  <1>3. /\ tool' = [tool EXCEPT ![t] = tool'[t]]
        /\ tool'[t] = [tool[t] EXCEPT !.plans = [tool[t].plans EXCEPT ![r] = plan], !.todo = @ \ {r}, !.at = p]
    BY <1>1, <1>2 DEF HookInv, HookTypes, ToolStates
  <1>4. /\ tool'[t].at = p /\ tool'[t].op = tool[t].op
        /\ tool'[t].plans = [tool[t].plans EXCEPT ![r] = plan]
        /\ tool[t].plans \in [Runners -> H!Plans]
    BY <1>1, <1>3 DEF ToolStates
  <1>5. ~overlap => ToolSound(tool'[t])
    <2> SUFFICES ASSUME ~overlap PROVE ToolSound(tool'[t])
      OBVIOUS
    <2>1. ToolSound(tool[t])
      BY DEF HookSound
    <2>2. tool[t].op = "uninstall" /\ \A q \in Runners : PlanFits(q, tool[t].plans[q])
      BY <1>1, <2>1 DEF ToolSound, Pending
    <2>3. \A q \in Runners : tool'[t].plans[q] = IF q = r THEN plan ELSE tool[t].plans[q]
      BY <1>4
    <2>4. \A q \in Runners : PlanFits(q, tool'[t].plans[q])
      BY <1>2, <2>2, <2>3
    <2> QED BY <1>4, <2>2, <2>4 DEF ToolSound, Pending
  <1> QED BY <1>1, <1>3, <1>5, SoundMove

LEMMA ConfirmSound ==
  ASSUME HookInv, HookSound, NEW t \in Tools, H!Confirm(t)
  PROVE  HookSound'
  <1>1. /\ tool[t] \in ToolStates /\ tool[t].at = "confirm" /\ H!ToolStep(t)
        /\ UNCHANGED <<env, wraps, scripts, own, raced, rechained>>
    BY DEF HookInv, HookTypes, H!Confirm, H!files, H!history, H!ToolStep
  <1>2. CASE H!Done(t)
    BY <1>1, <1>2, DoneSound, SoundMove
  <1>3. CASE tool' = [tool EXCEPT ![t].at = "apply", ![t].todo = Runners]
    <2>1. /\ tool'[t].at = "apply" /\ tool'[t].op = tool[t].op /\ tool'[t].plans = tool[t].plans
          /\ tool' = [tool EXCEPT ![t] = tool'[t]]
      BY <1>1, <1>3 DEF HookInv, HookTypes, ToolStates
    <2>2. ~overlap => ToolSound(tool'[t])
      <3> SUFFICES ASSUME ~overlap PROVE ToolSound(tool'[t])
        OBVIOUS
      <3>1. ToolSound(tool[t])
        BY DEF HookSound
      <3>2. tool[t].op = "uninstall" /\ \A q \in Runners : PlanFits(q, tool[t].plans[q])
        BY <1>1, <3>1 DEF ToolSound, Pending
      <3> QED BY <2>1, <3>2 DEF ToolSound, Pending
    <2> QED BY <1>1, <2>1, <2>2, SoundMove
  <1> QED BY <1>2, <1>3 DEF H!Confirm

LEMMA ApplySound ==
  ASSUME HookInv, HookSound, NEW t \in Tools, NEW r \in Runners, H!Apply(t, r)
  PROVE  HookSound'
  <1> DEFINE plan == tool[t].plans[r]
  <1>1. /\ tool[t] \in ToolStates /\ tool[t].at = "apply" /\ r \in tool[t].todo /\ H!ToolStep(t)
        /\ UNCHANGED <<env, wraps, scripts, own, raced, rechained>>
    BY DEF HookInv, HookTypes, H!Apply, H!files, H!history, H!ToolStep
  <1>2. ~overlap => /\ tool[t].op = "uninstall"
                    /\ \A q \in tool[t].todo \cap Runners : PlanFits(q, tool[t].plans[q])
    BY <1>1 DEF HookSound, ToolSound, Pending
  <1>3. CASE plan.kind \in {"strip", "restore"}
    <2>1. /\ tool' = [tool EXCEPT ![t] = tool'[t]]
          /\ tool'[t] = [tool[t] EXCEPT !.at = "check", !.r = r, !.todo = @ \ {r}, !.job = "revert",
                                        !.seen = plan.seen, !.new = plan.new]
      BY <1>3 DEF H!Apply, HookInv, HookTypes
    <2>2. /\ tool'[t].at = "check" /\ tool'[t].r = r /\ tool'[t].plans = tool[t].plans
          /\ tool'[t].seen = plan.seen /\ tool'[t].new = plan.new
          /\ tool'[t].todo = tool[t].todo \ {r} /\ tool'[t].op = tool[t].op
      BY <1>1, <2>1 DEF ToolStates
    <2>3. Pending(tool'[t]) \subseteq tool[t].todo \cap Runners
      BY <1>1, <2>2 DEF Pending
    <2>4. ~overlap => ToolSound(tool'[t])
      BY <1>2, <1>3, <2>2, <2>3 DEF ToolSound
    <2> QED BY <1>1, <2>1, <2>4, SoundMove
  <1>4. CASE plan.kind \notin {"strip", "restore"}
    <2>1. tool' = [tool EXCEPT ![t].todo = @ \ {r}]
      BY <1>4 DEF H!Apply
    <2>2. /\ tool'[t].at = "apply" /\ tool'[t].op = tool[t].op /\ tool'[t].plans = tool[t].plans
          /\ tool'[t].todo = tool[t].todo \ {r} /\ tool' = [tool EXCEPT ![t] = tool'[t]]
      BY <1>1, <2>1 DEF HookInv, HookTypes, ToolStates
    <2>3. Pending(tool'[t]) \subseteq tool[t].todo \cap Runners
      BY <2>2 DEF Pending
    <2>4. ~overlap => ToolSound(tool'[t])
      BY <1>2, <2>2, <2>3 DEF ToolSound
    <2> QED BY <1>1, <2>2, <2>4, SoundMove
  <1> QED BY <1>3, <1>4

\* The look at every runner before the shared scripts are removed.
LEMMA LookSound ==
  ASSUME HookInv, HookSound, NEW t \in Tools,
         H!Applied(t) \/ \E r \in Runners : H!Look(t, r)
  PROVE  HookSound'
  <1>1. /\ tool[t] \in ToolStates /\ tool[t].at \in {"apply", "look"} /\ H!ToolStep(t)
        /\ UNCHANGED <<env, wraps, scripts, own, raced, rechained>>
    BY DEF HookInv, HookTypes, H!Applied, H!Look, H!files, H!history, H!ToolStep
  <1>2. CASE H!Applied(t)
    <2>1. /\ tool'[t].at = "look" /\ tool'[t].op = tool[t].op /\ tool'[t].todo = Runners
          /\ tool' = [tool EXCEPT ![t] = tool'[t]]
      BY <1>1, <1>2 DEF H!Applied, HookInv, HookTypes, ToolStates
    <2>2. ~overlap => ToolSound(tool'[t])
      BY <1>1, <2>1 DEF HookSound, ToolSound, Pending
    <2> QED BY <1>1, <2>1, <2>2, SoundMove
  <1>3. CASE H!Done(t)
    BY <1>1, <1>3, DoneSound, SoundMove
  <1>4. ASSUME NEW r \in Runners, H!Look(t, r), ~H!Done(t) PROVE HookSound'
    <2>1. /\ Clean(r) /\ tool[t].at = "look"
          /\ tool' = [tool EXCEPT ![t].todo = @ \ {r}, ![t].left = H!Slots,
                                  ![t].at = IF tool[t].todo = {r} THEN "sweep" ELSE @]
      BY <1>4 DEF H!Look, H!MayUse, H!Inside, Clean
    <2>2. /\ tool'[t].at = (IF tool[t].todo = {r} THEN "sweep" ELSE "look")
          /\ tool'[t].op = tool[t].op /\ tool'[t].todo = tool[t].todo \ {r}
          /\ tool' = [tool EXCEPT ![t] = tool'[t]]
      <3>1. CASE tool[t].todo = {r}
        BY <1>1, <2>1, <3>1 DEF HookInv, HookTypes, ToolStates
      <3>2. CASE tool[t].todo # {r}
        BY <1>1, <2>1, <3>2 DEF HookInv, HookTypes, ToolStates
      <3> QED BY <3>1, <3>2
    <2>3. ~overlap => ToolSound(tool'[t])
      <3> SUFFICES ASSUME ~overlap PROVE ToolSound(tool'[t])
        OBVIOUS
      <3>1. tool[t].op = "uninstall" /\ \A q \in Runners \ tool[t].todo : Clean(q)
        BY <2>1 DEF HookSound, ToolSound
      <3>2. \A q \in Runners \ tool'[t].todo : Clean(q)
        BY <2>1, <2>2, <3>1
      <3>3. tool[t].todo = {r} => \A q \in Runners : Clean(q)
        BY <2>1, <3>1
      <3> QED BY <2>2, <3>1, <3>2, <3>3 DEF ToolSound, Pending
    <2> QED BY <1>1, <2>2, <2>3, SoundMove
  <1> QED BY <1>2, <1>3, <1>4

LEMMA StartConfigSound ==
  ASSUME HookInv, HookSound, NEW t \in Tools, H!StartConfig(t)
  PROVE  HookSound'
  <1>1. /\ H!ToolStep(t) /\ UNCHANGED <<env, wraps, own, raced, rechained>>
        /\ scripts \subseteq scripts'
    BY DEF H!StartConfig, H!ToolStep, HookInv, HookTypes
  <1>2. /\ tool' = [tool EXCEPT ![t] = tool'[t]]
        /\ tool'[t].at = "idle" \/ (tool'[t].at = "detect" /\ tool'[t].op = "config" /\ scripts' = H!Slots)
    BY BeginSound DEF H!StartConfig
  <1>3. ~overlap' => \A r \in Runners : Good(r)' => Kept(r)'
    BY <1>1, OthersIdle DEF HookSound, Good, Kept
  <1>4. ToolSound(tool[t])'
    <2>1. CASE tool'[t].at = "idle"
      BY <2>1, IdleSoundNext
    <2>2. CASE tool'[t].at # "idle"
      BY <1>2, <2>2 DEF ToolSound
    <2> QED BY <2>1, <2>2
  <1> QED BY <1>1, <1>2, <1>3, <1>4, SoundStep

LEMMA WriteWrapperSound ==
  ASSUME HookInv, HookSound, NEW t \in Tools, H!WriteWrapper(t)
  PROVE  HookSound'
  <1>0. PICK r \in Runners, s \in H!Slots, seen_ \in H!Env :
          /\ r = tool[t].r /\ seen_ = tool[t].seen
          /\ s = IF "started" \in tool[t].left THEN "started" ELSE "completed"
    BY DEF HookInv, HookTypes, H!WriteWrapper, H!Slots, ToolStates
  <1>1. /\ tool[t] \in ToolStates /\ tool[t].at = "wrap" /\ H!ToolStep(t)
        /\ UNCHANGED <<env, scripts, own, raced>>
    BY DEF HookInv, HookTypes, H!WriteWrapper, H!ToolStep
  <1>2. /\ \A q \in Runners, o \in H!Slots : q # r \/ o # s => wraps'[q][o] = wraps[q][o]
        /\ rechained \subseteq rechained'
        /\ seen_[s] \in H!Ours => r \in rechained'
    <2>1. /\ wraps' \in {[wraps EXCEPT ![r][s] = seen_[s]], [wraps EXCEPT ![r][s] = "blank"], wraps}
          /\ rechained' = IF H!Inside(seen_[s]) THEN rechained \cup {r} ELSE rechained
      BY <1>0 DEF H!WriteWrapper
    <2>2. wraps \in [Runners -> [H!Slots -> H!Paths \cup {Nil, "blank"}]]
      BY DEF HookInv, HookTypes
    <2>3. PICK x : wraps' = [wraps EXCEPT ![r][s] = x] \/ wraps' = wraps
      BY <2>1
    <2>4. \A q \in Runners, o \in H!Slots : q # r \/ o # s => wraps'[q][o] = wraps[q][o]
      BY <1>1, <2>2, <2>3
    <2> QED BY <2>1, <2>4 DEF H!Inside
  <1>3. tool' = [tool EXCEPT ![t] = tool'[t]]
    BY WriteWrapperOK
  <1> SUFFICES ASSUME ~overlap'
               PROVE  /\ \A q \in Runners : Good(q)' => Kept(q)'
                      /\ ToolSound(tool[t])'
    BY <1>1, <1>3, SoundStep
  <1>4. ~overlap
    BY <1>1, OthersIdle
  <1>5. /\ tool[t].op = "config" /\ scripts = H!Slots /\ (Good(r) => Wrapping(tool[t]))
        /\ \A q \in Runners : Good(q) => Kept(q)
    BY <1>0, <1>1, <1>4 DEF HookSound, ToolSound
  <1>6. \A q \in Runners : Good(q)' => Good(q)
    BY <1>1, <1>2 DEF Good
  <1>7. Good(r)' => Good(r) /\ Wrapping(tool[t]) /\ seen_[s] \notin H!Ours
    BY <1>1, <1>2, <1>5, <1>6 DEF Good
  <1>8. ASSUME NEW q \in Runners, Good(q)' PROVE Kept(q)'
    <2>1. Kept(q)
      BY <1>5, <1>6, <1>8
    <2>2. CASE q # r
      BY <1>1, <1>2, <2>1, <2>2 DEF Kept
    <2>3. CASE q = r
      <3>1. env[q][s] # "wrapper"
        BY <1>0, <1>7, <1>8, <2>3 DEF Wrapping, H!Ours
      <3> QED BY <1>1, <1>2, <2>1, <2>3, <3>1 DEF Kept
    <2> QED BY <2>2, <2>3
  <1>9. ToolSound(tool[t])'
    <2>1. CASE H!NextRunner(t)
      BY <1>1, <1>5, <2>1, NextRunnerFields DEF ToolSound
    <2>2. CASE ~H!NextRunner(t)
      <3>1. /\ wraps' = [wraps EXCEPT ![r][s] = seen_[s]]
            /\ tool' = [tool EXCEPT ![t].left = @ \ {s},
                                    ![t].at = IF tool[t].left = {s} THEN "check" ELSE @]
        BY <1>0, <2>2 DEF H!WriteWrapper
      <3>2. /\ tool'[t].at = (IF tool[t].left = {s} THEN "check" ELSE "wrap")
            /\ tool'[t].left = tool[t].left \ {s}
            /\ tool'[t].op = tool[t].op /\ tool'[t].r = r
            /\ tool'[t].seen = seen_ /\ tool'[t].new = tool[t].new
        <4>1. CASE tool[t].left = {s}
          BY <1>0, <1>1, <3>1, <4>1 DEF HookInv, HookTypes, ToolStates
        <4>2. CASE tool[t].left # {s}
          BY <1>0, <1>1, <3>1, <4>2 DEF HookInv, HookTypes, ToolStates
        <4> QED BY <4>1, <4>2
      <3>3. wraps \in [Runners -> [H!Slots -> H!Paths \cup {Nil, "blank"}]]
        BY DEF HookInv, HookTypes
      <3>4. seen_[s] \in OwnHooks \cup H!Ours \cup {Nil}
        BY DEF H!Env, H!Paths, H!Slots
      <3>5. wraps'[r][s] = seen_[s]
        BY <1>1, <3>1, <3>3
      <3>6. Good(r)' => Wrapping(tool[t])'
        <4> SUFFICES ASSUME Good(r)', NEW o \in H!Slots
                     PROVE  /\ env[r][o] \in H!Ours => seen_[o] = env[r][o]
                            /\ tool[t].new[o] = IF seen_[o] = Nil THEN "script" ELSE "wrapper"
                            /\ o \notin tool'[t].left /\ seen_[o] # Nil
                                 => seen_[o] \in OwnHooks /\ wraps'[r][o] = seen_[o]
          BY <1>1, <3>2 DEF Wrapping
        <4>1. /\ env[r][o] \in H!Ours => seen_[o] = env[r][o]
              /\ tool[t].new[o] = IF seen_[o] = Nil THEN "script" ELSE "wrapper"
              /\ o \notin tool[t].left /\ seen_[o] # Nil => seen_[o] \in OwnHooks /\ wraps[r][o] = seen_[o]
          BY <1>0, <1>7 DEF Wrapping
        <4>2. CASE o = s
          BY <1>7, <3>4, <3>5, <4>1, <4>2
        <4>3. CASE o # s
          BY <1>1, <1>2, <3>2, <4>1, <4>3
        <4> QED BY <4>2, <4>3
      <3>7. CASE tool[t].left = {s}
        <4>1. Good(r)' => \A o \in H!Slots : Turned(r, seen_, tool[t].new, o)'
          BY <3>2, <3>6, <3>7 DEF Wrapping, Turned
        <4> QED BY <1>1, <1>5, <3>2, <3>7, <4>1 DEF ToolSound, Turned
      <3>8. CASE tool[t].left # {s}
        BY <1>1, <1>5, <3>2, <3>6, <3>8 DEF ToolSound
      <3> QED BY <3>7, <3>8
    <2> QED BY <2>1, <2>2
  <1> QED BY <1>8, <1>9

LEMMA ReplaceSound ==
  ASSUME HookInv, HookSound, NEW t \in Tools, H!Replace(t)
  PROVE  HookSound'
  <1>0. PICK r \in Runners, new \in H!Env : r = tool[t].r /\ new = tool[t].new
    BY DEF HookInv, StateOK, ToolStates, H!Replace
  <1>1. /\ tool[t] \in ToolStates /\ tool[t].at = "replace" /\ H!ToolStep(t)
        /\ UNCHANGED <<wraps, scripts, own, raced, rechained>> /\ env \in [Runners -> H!Env]
    BY DEF HookInv, HookTypes, H!Replace, H!ToolStep, H!history
  <1>2. CASE env' = env /\ H!NextRunner(t)
    BY <1>1, <1>2, NextRunnerSound, NextRunnerFields, SoundMove
  <1>3. CASE ~(env' = env /\ H!NextRunner(t))
    <2> DEFINE restored == tool[t].op = "uninstall" /\ tool[t].plans[r].kind = "restore"
    <2>1. /\ env' = [env EXCEPT ![r] = new]
          /\ tool' = [tool EXCEPT ![t].at = IF restored THEN "unwrap" ELSE "restart",
                                  ![t].left = IF restored THEN H!Slots ELSE {}]
      BY <1>0, <1>3 DEF H!Replace
    <2>2. /\ tool'[t].at = (IF restored THEN "unwrap" ELSE "restart")
          /\ tool'[t].op = tool[t].op /\ tool'[t].r = r
          /\ tool'[t].todo = tool[t].todo /\ tool'[t].plans = tool[t].plans
          /\ tool' = [tool EXCEPT ![t] = tool'[t]]
      <3>1. CASE restored
        BY <1>0, <1>1, <2>1, <3>1 DEF HookInv, HookTypes, ToolStates
      <3>2. CASE ~restored
        BY <1>0, <1>1, <2>1, <3>2 DEF HookInv, HookTypes, ToolStates
      <3> QED BY <3>1, <3>2
    <2>3. env'[r] = new /\ \A q \in Runners : q # r => env'[q] = env[q]
      BY <1>1, <2>1
    <2> SUFFICES ASSUME ~overlap'
                 PROVE  /\ \A q \in Runners : Good(q)' => Kept(q)'
                        /\ ToolSound(tool[t])'
      BY <1>1, <2>2, SoundStep
    <2>4. ToolSound(tool[t]) /\ \A q \in Runners : Good(q) => Kept(q)
      BY <1>1, OthersIdle DEF HookSound
    <2>5. \A q \in Runners : Good(q)' <=> Good(q)
      BY <1>1 DEF Good
    <2>6. Good(r) => /\ Kept(r)'
                     /\ restored => Clean(r)'
      <3> SUFFICES ASSUME Good(r)
                   PROVE  Kept(r)' /\ (restored => Clean(r)')
        OBVIOUS
      <3>1. env[r] = tool[t].seen /\ Kept(r)
        BY <1>0, <1>1, <2>4 DEF ToolSound
      <3>2. ASSUME NEW s \in H!Slots
            PROVE  /\ new[s] \notin H!Ours => own[r][s] = new[s]
                   /\ new[s] = "script" => own[r][s] = Nil /\ s \in scripts
                   /\ new[s] = "wrapper" => own[r][s] \in OwnHooks /\ wraps[r][s] = own[r][s]
                   /\ restored => new[s] \notin H!Ours
        <4>0. /\ env[r][s] \notin H!Ours => own[r][s] = env[r][s]
              /\ env[r][s] = "script" => own[r][s] = Nil /\ s \in scripts
              /\ env[r][s] = "wrapper" => own[r][s] \in OwnHooks /\ wraps[r][s] = own[r][s]
          BY <3>1 DEF Kept
        <4>1. CASE tool[t].op = "config"
          <5>1. /\ scripts = H!Slots
                /\ \/ new[s] = env[r][s]
                   \/ env[r][s] = Nil /\ new[s] = "script"
                   \/ env[r][s] \in OwnHooks /\ new[s] = "wrapper" /\ wraps[r][s] = env[r][s]
            BY <1>0, <1>1, <2>4, <3>1, <4>1 DEF ToolSound, Turned
          <5>2. ~restored
            BY <4>1
          <5> QED BY PartsAssumption, <4>0, <5>1, <5>2 DEF H!Ours
        <4>2. CASE tool[t].op = "uninstall"
          <5>1. /\ tool[t].plans[r].kind \in {"strip", "restore"}
                /\ env[r] = tool[t].plans[r].seen /\ new = tool[t].plans[r].new
            BY <1>0, <1>1, <2>4, <3>1, <4>2 DEF ToolSound
          <5>2. PlanFits(r, tool[t].plans[r])
            BY <1>0, <1>1, <2>4, <4>2 DEF ToolSound, Pending
          <5>3. CASE tool[t].plans[r].kind = "strip"
            BY PartsAssumption, <4>0, <5>1, <5>2, <5>3 DEF PlanFits, H!Ours
          <5>4. CASE tool[t].plans[r].kind = "restore"
            BY PartsAssumption, <4>0, <5>1, <5>2, <5>4 DEF PlanFits, H!Ours
          <5> QED BY <5>1, <5>3, <5>4
        <4> QED BY <1>1, <4>1, <4>2 DEF ToolStates
      <3> QED BY <1>1, <2>3, <3>2 DEF Kept, Clean
    <2>7. ASSUME NEW q \in Runners, Good(q)' PROVE Kept(q)'
      <3>1. CASE q = r
        BY <2>5, <2>6, <2>7, <3>1
      <3>2. CASE q # r
        BY <1>1, <2>3, <2>4, <2>5, <2>7, <3>2 DEF Kept
      <3> QED BY <3>1, <3>2
    <2>8. ToolSound(tool[t])'
      <3>1. CASE tool[t].op = "config"
        BY <1>1, <2>2, <2>4, <3>1 DEF ToolSound
      <3>2. CASE tool[t].op = "uninstall"
        <4>1. /\ r \notin tool[t].todo /\ \A q \in Pending(tool[t]) : PlanFits(q, tool[t].plans[q])
          BY <1>0, <1>1, <2>4, <3>2 DEF ToolSound
        <4>2. Pending(tool[t])' \subseteq Pending(tool[t])
          BY <1>1, <2>2 DEF Pending
        <4>3. \A q \in Pending(tool[t])' : PlanFits(q, tool[t].plans[q])'
          BY <1>1, <2>2, <4>1, <4>2 DEF PlanFits
        <4>4. restored /\ Good(r)' => Clean(r)'
          BY <2>5, <2>6
        <4> HIDE DEF restored
        <4> QED BY <2>2, <3>2, <4>1, <4>3, <4>4 DEF ToolSound
      <3> QED BY <1>1, <3>1, <3>2 DEF ToolStates
    <2> QED BY <2>7, <2>8
  <1> QED BY <1>2, <1>3

LEMMA RemoveWrapperSound ==
  ASSUME HookInv, HookSound, NEW t \in Tools, NEW s \in H!Slots, H!RemoveWrapper(t, s)
  PROVE  HookSound'
  <1>0. PICK r \in Runners : r = tool[t].r
    BY DEF HookInv, StateOK, H!RemoveWrapper
  <1>1. /\ tool[t] \in ToolStates /\ tool[t].at = "unwrap" /\ H!ToolStep(t)
        /\ UNCHANGED <<env, scripts, own, raced, rechained>>
        /\ wraps' = [wraps EXCEPT ![r][s] = Nil] \/ wraps' = wraps
        /\ wraps \in [Runners -> [H!Slots -> H!Paths \cup {Nil, "blank"}]]
    BY <1>0 DEF HookInv, HookTypes, H!RemoveWrapper, H!ToolStep, H!history
  <1>2. \A q \in Runners : q # r => wraps'[q] = wraps[q]
    BY <1>1
  <1>3. /\ tool'[t].at \in {"unwrap", "restart"} /\ tool'[t].op = tool[t].op /\ tool'[t].r = r
        /\ tool'[t].todo = tool[t].todo /\ tool'[t].plans = tool[t].plans
        /\ tool' = [tool EXCEPT ![t] = tool'[t]]
    <2>1. tool' = [tool EXCEPT ![t].left = @ \ {s},
                               ![t].at = IF tool[t].left = {s} THEN "restart" ELSE @]
      BY DEF H!RemoveWrapper
    <2>2. CASE tool[t].left = {s}
      BY <1>0, <1>1, <2>1, <2>2 DEF HookInv, HookTypes, ToolStates
    <2>3. CASE tool[t].left # {s}
      BY <1>0, <1>1, <2>1, <2>3 DEF HookInv, HookTypes, ToolStates
    <2> QED BY <2>2, <2>3
  <1> SUFFICES ASSUME ~overlap'
               PROVE  /\ \A q \in Runners : Good(q)' => Kept(q)'
                      /\ ToolSound(tool[t])'
    BY <1>1, <1>3, SoundStep
  <1>4. ToolSound(tool[t]) /\ \A q \in Runners : Good(q) => Kept(q)
    BY <1>1, OthersIdle DEF HookSound
  <1>5. /\ tool[t].op = "uninstall" /\ r \notin tool[t].todo /\ (Good(r) => Clean(r))
        /\ \A q \in Pending(tool[t]) : PlanFits(q, tool[t].plans[q])
    BY <1>0, <1>1, <1>4 DEF ToolSound
  <1>6. ASSUME NEW q \in Runners, Good(q)' PROVE Kept(q)'
    <2>1. Good(q) /\ Kept(q)
      BY <1>1, <1>4, <1>6 DEF Good
    <2>2. CASE q = r
      BY <1>1, <1>5, <2>1, <2>2 DEF Kept, Clean, H!Ours
    <2>3. CASE q # r
      BY <1>1, <1>2, <2>1, <2>3 DEF Kept
    <2> QED BY <2>2, <2>3
  <1>7. Pending(tool[t])' \subseteq Pending(tool[t]) /\ r \notin Pending(tool[t])'
    BY <1>1, <1>3, <1>5 DEF Pending
  <1>8. \A q \in Pending(tool[t])' : PlanFits(q, tool[t].plans[q])'
    <2>1. \A q \in Pending(tool[t])' : q \in Runners
      BY DEF Pending
    <2> QED BY <1>2, <1>3, <1>5, <1>7, <2>1 DEF PlanFits
  <1>9. Good(r)' => Clean(r)'
    BY <1>1, <1>5 DEF Good, Clean
  <1> QED BY <1>3, <1>5, <1>6, <1>8, <1>9 DEF ToolSound

LEMMA SweepSound ==
  ASSUME HookInv, HookSound, NEW t \in Tools, NEW s \in H!Slots, H!Sweep(t, s)
  PROVE  HookSound'
  <1>1. /\ tool[t] \in ToolStates /\ tool[t].at = "sweep" /\ H!ToolStep(t)
        /\ UNCHANGED <<env, wraps, own, raced, rechained>>
    BY DEF HookInv, HookTypes, H!Sweep, H!ToolStep, H!history
  <1>2. /\ tool' = [tool EXCEPT ![t] = tool'[t]]
        /\ tool'[t].at = "idle" \/ (tool'[t].at = "sweep" /\ tool'[t].op = tool[t].op)
    <2>1. CASE H!Done(t)
      <3>1. tool'[t] = H!Idle
        BY <2>1 DEF H!Done, HookInv, HookTypes
      <3> QED BY <2>1, <3>1, DoneSound DEF H!Idle
    <2>2. CASE ~H!Done(t)
      <3>1. tool' = [tool EXCEPT ![t].left = @ \ {s}]
        BY <2>2 DEF H!Sweep
      <3> QED BY <1>1, <3>1 DEF HookInv, HookTypes, ToolStates
    <2> QED BY <2>1, <2>2
  <1> SUFFICES ASSUME ~overlap'
               PROVE  /\ \A q \in Runners : Good(q)' => Kept(q)'
                      /\ ToolSound(tool[t])'
    BY <1>1, <1>2, SoundStep
  <1>3. /\ tool[t].op = "uninstall" /\ \A q \in Runners : Clean(q) /\ (Good(q) => Kept(q))
    BY <1>1, OthersIdle DEF HookSound, ToolSound
  <1>4. ASSUME NEW q \in Runners, Good(q)' PROVE Kept(q)'
    BY <1>1, <1>3, <1>4 DEF Kept, Clean, Good, H!Ours
  <1>5. \A q \in Runners : Clean(q)'
    BY <1>1, <1>3 DEF Clean
  <1>6. ToolSound(tool[t])'
    <2>1. CASE tool'[t].at = "idle"
      BY <2>1, IdleSoundNext
    <2>2. CASE tool'[t].at # "idle"
      BY <1>2, <1>3, <1>5, <2>2 DEF ToolSound, Pending
    <2> QED BY <2>1, <2>2
  <1> QED BY <1>4, <1>6

LEMMA OwnerEditsSound ==
  ASSUME HookInv, HookSound, NEW r \in Runners, NEW s \in H!Slots, H!OwnerEdits(r, s)
  PROVE  HookSound'
  <1>1. PICK h \in OwnHooks \cup {Nil} :
          /\ env' = [env EXCEPT ![r][s] = h, ![r].rest = @ + 1]
          /\ own' = [own EXCEPT ![r][s] = h]
    BY DEF H!OwnerEdits
  <1>2. /\ UNCHANGED <<wraps, scripts, tool, rechained, overlap>> /\ raced \subseteq raced'
        /\ \A t \in Tools : tool[t].at = "replace" /\ tool[t].r = r => r \in raced'
        /\ env \in [Runners -> H!Env] /\ own \in [Runners -> [H!Slots -> OwnHooks \cup {Nil}]]
    BY DEF H!OwnerEdits, HookInv, HookTypes
  <1>3. /\ env'[r][s] = h /\ \A o \in H!Slots : o # s => env'[r][o] = env[r][o]
        /\ \A q \in Runners : q # r => env'[q] = env[q]
    <2>1. /\ env[r] \in H!Env /\ EditOf(env[r], s, h) \in H!Env
          /\ EditOf(env[r], s, h)[s] = h
          /\ \A o \in H!Slots : o # s => EditOf(env[r], s, h)[o] = env[r][o]
      BY <1>2, Edited
    <2>2. env' = [env EXCEPT ![r] = EditOf(env[r], s, h)]
      <3>1. HookTypes
        BY DEF HookInv
      <3>2. env[r] \in H!Env /\ EditOf(env[r], s, h) \in H!Env
            /\ EditOf(env[r], s, h).rest = env[r].rest + 1
        BY <2>1, Edited
      <3> QED BY <1>1, <3>1, <3>2 DEF HookTypes, EditOf
    <2> QED BY <1>2, <2>1, <2>2
  <1>4. /\ own'[r][s] = h /\ \A o \in H!Slots : o # s => own'[r][o] = own[r][o]
        /\ \A q \in Runners : q # r => own'[q] = own[q]
    BY <1>1, <1>2
  <1>5. h \notin H!Ours /\ h # "script" /\ h # "wrapper"
    BY PartsAssumption DEF H!Ours
  <1>6. \A q \in Runners, o \in H!Slots : env'[q][o] \in H!Ours => env'[q][o] = env[q][o]
    BY <1>3, <1>5
  <1>7. ASSUME ~overlap, NEW q \in Runners, Good(q)' PROVE Kept(q)'
    <2>1. Kept(q)
      BY <1>2, <1>7 DEF HookSound, Good
    <2>2. CASE q # r
      BY <1>2, <1>3, <1>4, <2>1, <2>2 DEF Kept
    <2>3. CASE q = r
      BY <1>2, <1>3, <1>4, <1>5, <2>1, <2>3 DEF Kept
    <2> QED BY <2>2, <2>3
  <1>8. ASSUME ~overlap, NEW t \in Tools PROVE ToolSound(tool[t])'
    <2>1. ToolSound(tool[t]) /\ tool' = tool
      BY <1>2, <1>8 DEF HookSound
    <2>2. \A q \in Runners : Clean(q) => Clean(q)'
      BY <1>6 DEF Clean
    <2>3. \A q : Good(q)' => Good(q)
      BY <1>2 DEF Good
    <2>4. tool[t].at \in {"wrap", "replace", "unwrap"} => tool[t].r \in Runners
      BY DEF HookInv, StateOK
    <2>5. tool[t].at = "wrap" /\ Good(tool[t].r)' => Wrapping(tool[t])'
      <3>1. CASE tool[t].at = "wrap" /\ Good(tool[t].r)'
        <4>1. Wrapping(tool[t])
          BY <2>1, <2>3, <3>1 DEF ToolSound, Good
        <4> QED BY <1>2, <1>6, <2>1, <2>4, <3>1, <4>1 DEF Wrapping
      <3> QED BY <3>1
    <2>6. tool[t].at = "replace" /\ Good(tool[t].r)' => env'[tool[t].r] = tool[t].seen
      <3>1. CASE tool[t].at = "replace" /\ Good(tool[t].r)'
        <4>1. tool[t].r # r /\ env[tool[t].r] = tool[t].seen
          BY <1>2, <2>1, <2>3, <3>1 DEF ToolSound, Good
        <4> QED BY <1>3, <2>4, <3>1, <4>1
      <3> QED BY <3>1
    <2>7. /\ Pending(tool[t])' = Pending(tool[t]) /\ Pending(tool[t]) \subseteq Runners
          /\ \A q, p : PlanFits(q, p) => PlanFits(q, p)'
          /\ \A q, x, y, o : Turned(q, x, y, o) => Turned(q, x, y, o)'
      BY <1>2 DEF Pending, PlanFits, Turned
    <2>8. tool[t].at = "unwrap" /\ Good(tool[t].r)' => Clean(tool[t].r)'
      BY <1>2, <1>6, <2>1, <2>4 DEF ToolSound, Good, Clean
    <2> QED BY <1>2, <2>1, <2>2, <2>3, <2>5, <2>6, <2>7, <2>8 DEF ToolSound, Good, PlanFits, Turned
  <1>9. ~overlap => Alone'
    BY <1>2 DEF HookSound, Alone
  <1> QED BY <1>2, <1>7, <1>8, <1>9 DEF HookSound

LEMMA SoundNext == HookInv /\ HookSound /\ H!Next => HookSound'
  <1> SUFFICES ASSUME HookInv, HookSound, H!Next PROVE HookSound'
    OBVIOUS
  <1>1. ASSUME NEW t \in Tools, H!ToolStep(t) PROVE HookSound'
    BY <1>1, StartConfigSound, EndSound, ReadEnvSound, WriteWrapperSound, CheckSound, ReplaceSound,
       RestartSound, StartUninstallSound, ConfirmSound, LookSound, DetectSound, PlanRunnerSound,
       ApplySound, RemoveWrapperSound, SweepSound DEF H!ToolStep
  <1>2. ASSUME NEW r \in Runners, H!RunnerMoves(r) PROVE HookSound'
    BY <1>2 DEF H!RunnerMoves, H!files, H!history, HookSound, Alone, Good, Kept, ToolSound, Pending,
                Wrapping, Turned, PlanFits, Clean
  <1>3. ASSUME NEW r \in Runners, NEW s \in H!Slots, H!OwnerEdits(r, s) PROVE HookSound'
    BY <1>3, OwnerEditsSound
  <1> QED BY <1>1, <1>2, <1>3 DEF H!Next

-----------------------------------------------------------------------------
(* Doctor. *)

HostKinds == [config : {"missing", "invalid", "private", "fine"},
              roots  : {"none", "empty", "found"},
              db     : {"absent", "private", "there"},
              envs   : SUBSET {"ours", "foreign", "unset", "private", "linked"},
              orgs   : SUBSET {"valid", "rejected", "none", "unsupported"}]

\* A report is of the present host, until an advice is followed.
DoctorInv ==
  /\ host \in HostKinds /\ (host.envs # {}) = (host.roots = "found")
  /\ root \in BOOLEAN /\ online \in BOOLEAN
  /\ report \in {D!Blank, D!Diagnosis}

LEMMA DoctorInit == D!Init => DoctorInv
  BY DEF D!Init, D!Hosts, D!UpTo, DoctorInv, HostKinds

LEMMA AdvisedType ==
  ASSUME DoctorInv, NEW advice
  PROVE  /\ D!Advised(advice) \in HostKinds
         /\ (D!Advised(advice).envs # {}) = (D!Advised(advice).roots = "found")
  <1>1. {IF e \in {"unset", "foreign"} THEN "ours" ELSE e : e \in host.envs}
          \in SUBSET {"ours", "foreign", "unset", "private", "linked"}
    BY DEF DoctorInv, HostKinds
  <1>2. {IF e \in {"unset", "foreign"} THEN "ours" ELSE e : e \in host.envs} = {} <=> host.envs = {}
    OBVIOUS
  <1>3. (host.orgs \ {"rejected", "none"}) \cup {"valid"}
          \in SUBSET {"valid", "rejected", "none", "unsupported"}
    BY DEF DoctorInv, HostKinds
  <1>4. CASE advice = "config"
    BY <1>4 DEF D!Advised, DoctorInv, HostKinds
  <1>5. CASE advice = "config roots"
    BY <1>5 DEF D!Advised, DoctorInv, HostKinds
  <1>6. CASE advice = "start"
    BY <1>6 DEF D!Advised, DoctorInv, HostKinds
  <1>7. CASE advice = "config hooks"
    BY <1>1, <1>2, <1>7 DEF D!Advised, DoctorInv, HostKinds
  <1>8. CASE advice = "config token"
    BY <1>3, <1>8 DEF D!Advised, DoctorInv, HostKinds
  <1>9. CASE advice \notin {"config", "config roots", "start", "config hooks", "config token"}
    BY <1>9 DEF D!Advised, DoctorInv, HostKinds
  <1> QED BY <1>4, <1>5, <1>6, <1>7, <1>8, <1>9

\* The report depends on the host alone, and on what doctor may look at.
LEMMA DiagnosisKept ==
  ASSUME host' = host, root' = root, online' = online
  PROVE  D!Diagnosis' = D!Diagnosis
  <1>1. D!Config' = D!Config
    BY DEF D!Config, D!Pass, D!Fail, D!Skip
  <1>2. D!Roots' = D!Roots
    BY DEF D!Roots, D!Pass, D!Fail
  <1>3. D!Database' = D!Database
    BY DEF D!Database, D!Pass, D!Fail, D!Skip
  <1>4. D!Hooks' = D!Hooks
    BY DEF D!Hooks, D!Seen, D!Pass, D!Fail, D!Skip
  <1>5. D!Tokens' = D!Tokens
    BY DEF D!Tokens, D!Pass, D!Fail, D!Skip
  <1> QED BY <1>1, <1>2, <1>3, <1>4, <1>5 DEF D!Diagnosis, D!Checks, D!Pass, D!Skip

LEMMA DoctorRests == DoctorInv /\ UNCHANGED doctorVars => DoctorInv'
  <1>1. D!Blank' = D!Blank
    BY DEF D!Blank, D!Skip, D!Checks
  <1> QED BY <1>1, DiagnosisKept DEF doctorVars, DoctorInv

LEMMA DoctorNext == DoctorInv /\ D!Next => DoctorInv'
  <1>1. ASSUME DoctorInv, D!Run PROVE DoctorInv'
    <2>1. host' = host /\ root' = root /\ online' = online /\ report' = D!Diagnosis
      BY <1>1 DEF D!Run
    <2>2. D!Diagnosis' = D!Diagnosis
      BY <2>1, DiagnosisKept
    <2> QED BY <1>1, <2>1, <2>2 DEF DoctorInv
  <1>2. ASSUME DoctorInv, NEW id \in D!Checks, D!Follow(id) PROVE DoctorInv'
    <2>1. host' \in HostKinds /\ (host'.envs # {}) = (host'.roots = "found")
      BY <1>2, AdvisedType DEF D!Follow
    <2>2. report' = D!Blank
      BY <1>2 DEF D!Follow
    <2>3. D!Blank' = D!Blank
      BY DEF D!Blank, D!Skip, D!Checks
    <2> QED BY <1>2, <2>1, <2>2, <2>3 DEF D!Follow, DoctorInv
  <1> QED BY <1>1, <1>2 DEF D!Next

\* What each check says, and when.
LEMMA ConfigSays ==
  ASSUME DoctorInv
  PROVE  D!Config = IF host.config \in {"missing", "invalid"} THEN D!Fail("config")
                    ELSE IF host.config = "private" /\ ~root THEN D!Skip("root") ELSE D!Pass
  BY DEF D!Config

LEMMA RootsSay ==
  ASSUME DoctorInv
  PROVE  D!Roots = IF host.roots = "found" THEN D!Pass ELSE D!Fail("config roots")
  BY DEF D!Roots, DoctorInv, HostKinds

LEMMA DatabaseSays ==
  ASSUME DoctorInv
  PROVE  D!Database = IF host.db = "absent" THEN D!Fail("start")
                      ELSE IF host.db = "private" /\ ~root THEN D!Skip("root") ELSE D!Pass
  BY DEF D!Database

LEMMA HooksSay ==
  ASSUME DoctorInv
  PROVE  D!Hooks = IF host.envs = {} THEN D!Skip("runner-roots")
                   ELSE IF {"unset", "foreign"} \cap host.envs # {} THEN D!Fail("config hooks")
                   ELSE IF "linked" \in host.envs \/ ("private" \in host.envs /\ ~root)
                        THEN D!Skip("root") ELSE D!Pass
  <1> DEFINE shows == {D!Seen(e) : e \in host.envs}
  <1>1. shows = {} <=> host.envs = {}
    OBVIOUS
  <1>2. {"unset", "foreign"} \cap shows = {"unset", "foreign"} \cap host.envs
    BY DEF D!Seen
  <1>3. "unreadable" \in shows <=> "linked" \in host.envs \/ ("private" \in host.envs /\ ~root)
    BY DEF D!Seen, DoctorInv, HostKinds
  <1>4. D!Hooks = CASE shows = {} -> D!Skip("runner-roots")
                    [] {"unset", "foreign"} \cap shows # {} -> D!Fail("config hooks")
                    [] {"unset", "foreign"} \cap shows = {} /\ "unreadable" \in shows -> D!Skip("root")
                    [] OTHER -> D!Pass
    BY DEF D!Hooks
  <1> HIDE DEF shows
  <1>5. CASE host.envs = {}
    <2>1. shows = {} /\ ~({"unset", "foreign"} \cap shows # {}) /\ "unreadable" \notin shows
      BY <1>1, <1>5
    <2> QED BY <1>4, <1>5, <2>1
  <1>6. CASE host.envs # {} /\ {"unset", "foreign"} \cap host.envs # {}
    <2>1. shows # {} /\ {"unset", "foreign"} \cap shows # {}
      BY <1>1, <1>2, <1>6
    <2> QED BY <1>4, <1>6, <2>1
  <1>7. CASE host.envs # {} /\ {"unset", "foreign"} \cap host.envs = {}
    <2>1. shows # {} /\ {"unset", "foreign"} \cap shows = {}
      BY <1>1, <1>2, <1>7
    <2>2. CASE "unreadable" \in shows
      <3>1. D!Hooks = D!Skip("root")
        BY <1>4, <2>1, <2>2
      <3> QED BY <1>3, <1>7, <2>2, <3>1
    <2>3. CASE "unreadable" \notin shows
      <3>1. D!Hooks = D!Pass
        BY <1>4, <2>1, <2>3
      <3> QED BY <1>3, <1>7, <2>3, <3>1
    <2> QED BY <2>2, <2>3
  <1> QED BY <1>5, <1>6, <1>7

LEMMA TokensSay ==
  ASSUME DoctorInv
  PROVE  D!Tokens = IF host.orgs = {} THEN D!Fail("config token")
                    ELSE IF ~online THEN D!Skip("online")
                    ELSE IF "rejected" \in host.orgs
                            \/ ("none" \in host.orgs /\ "valid" \notin host.orgs)
                         THEN D!Fail("config token") ELSE D!Pass
  BY DEF D!Tokens, DoctorInv

LEMMA Diagnosed ==
  ASSUME DoctorInv
  PROVE  /\ D!Diagnosis["config"] = IF D!Config = D!Pass THEN D!Pass ELSE D!Config
         /\ D!Config = D!Pass => /\ D!Diagnosis["runner-roots"] = D!Roots
                                 /\ D!Diagnosis["database"] = D!Database
                                 /\ D!Diagnosis["hooks"] = D!Hooks
                                 /\ D!Diagnosis["tokens"] = D!Tokens
         /\ D!Config # D!Pass => \A id \in D!Checks \ {"config"} :
                                   D!Diagnosis[id] = D!Skip(D!Config.advice)
  BY DEF D!Diagnosis, D!Checks

\* What doctor says of the whole, in terms of its checks.
LEMMA VerdictSays ==
  /\ D!Verdict = "ok" <=> \A id \in D!Checks : report[id].status \notin {"fail", "skipped"}
  /\ D!Verdict = "degraded" <=> \E id \in D!Checks : report[id].status = "fail"
  BY DEF D!Verdict, D!Statuses

LEMMA DoctorIsHonest == DoctorInv => D!DoctorHonest
  <1> SUFFICES ASSUME DoctorInv, report # D!Blank PROVE D!DoctorHonest
    BY DEF D!DoctorHonest
  <1> DEFINE helps(id) ==
        \/ report[id].status # "pass" /\ report[id].advice \in {"root", "online"}
        \/ report[id].status = "fail" /\ D!Advised(report[id].advice) # host
  <1>1. /\ report = D!Diagnosis /\ host \in HostKinds
        /\ (host.envs # {}) = (host.roots = "found")
    BY DEF DoctorInv
  <1>2. \A why : /\ D!Pass.status = "pass" /\ D!Fail(why).status = "fail" /\ D!Fail(why) # D!Pass
                 /\ D!Skip(why).status = "skipped" /\ D!Skip(why) # D!Pass
                 /\ D!Fail(why).advice = why /\ D!Skip(why).advice = why
    BY DEF D!Pass, D!Fail, D!Skip
  <1>3. CASE D!Config # D!Pass
    <2>1. host.config \in {"missing", "invalid"} \/ (host.config = "private" /\ ~root)
      BY <1>3, ConfigSays
    <2>2. /\ report["config"] = D!Config
          /\ \A id \in D!Checks \ {"config"} : report[id].status = "skipped"
      BY <1>1, <1>2, <1>3, Diagnosed
    <2>3. CASE host.config \in {"missing", "invalid"}
      <3>1. report["config"] = D!Fail("config")
        BY <2>2, <2>3, ConfigSays
      <3>2. D!Advised("config") = [host EXCEPT !.config = "fine"]
        BY DEF D!Advised
      <3>3. D!Advised("config") # host
        BY <1>1, <2>3, <3>2 DEF HostKinds
      <3>4. report["config"].status = "fail" /\ helps("config")
        BY <1>2, <3>1, <3>3
      <3>5. ~D!Whole
        BY <2>3 DEF D!Whole
      <3>6. "config" \in D!Checks
        BY DEF D!Checks
      <3>7. D!Verdict # "ok"
        BY <3>4, <3>6, VerdictSays
      <3> QED BY <3>4, <3>5, <3>6, <3>7 DEF D!DoctorHonest
    <2>4. CASE host.config = "private" /\ ~root
      <3>1. report["config"] = D!Skip("root")
        BY <2>2, <2>4, ConfigSays
      <3>2. \A id \in D!Checks : report[id].status = "skipped"
        BY <1>2, <2>2, <3>1
      <3>3. D!Verdict # "ok" /\ D!Verdict # "degraded" /\ helps("config")
        BY <1>2, <3>1, <3>2, VerdictSays DEF D!Checks
      <3> QED BY <3>3 DEF D!DoctorHonest, D!Checks
    <2> QED BY <2>1, <2>3, <2>4
  <1>4. CASE D!Config = D!Pass
    <2>1. /\ report["config"] = D!Pass /\ report["runner-roots"] = D!Roots
          /\ report["database"] = D!Database /\ report["hooks"] = D!Hooks
          /\ report["tokens"] = D!Tokens
      BY <1>1, <1>4, Diagnosed
    <2>2. host.config \in {"private", "fine"}
      BY <1>1, <1>2, <1>4, ConfigSays DEF HostKinds
    <2>3. ASSUME \A id \in D!Checks : report[id].status \notin {"fail", "skipped"}
          PROVE  D!Whole /\ "linked" \notin host.envs /\ online
      <3>1. /\ D!Roots.status \notin {"fail", "skipped"} /\ D!Database.status \notin {"fail", "skipped"}
            /\ D!Hooks.status \notin {"fail", "skipped"} /\ D!Tokens.status \notin {"fail", "skipped"}
        BY <2>1, <2>3 DEF D!Checks
      <3>2. host.roots = "found"
        BY <1>2, <3>1, RootsSay
      <3>3. host.db # "absent"
        BY <1>2, <3>1, DatabaseSays
      <3>4. {"unset", "foreign"} \cap host.envs = {} /\ "linked" \notin host.envs
        BY <1>2, <3>1, HooksSay
      <3>5. host.orgs # {} /\ online /\ "rejected" \notin host.orgs
        BY <1>2, <3>1, TokensSay
      <3> QED BY <2>2, <3>2, <3>3, <3>4, <3>5 DEF D!Whole
    <2>4. ASSUME NEW id \in D!Checks, report[id].status = "fail"
          PROVE  ~D!Whole \/ host.orgs \cap {"valid"} = {}
      <3>1. CASE id = "config"
        BY <1>2, <2>1, <2>4, <3>1
      <3>2. CASE id = "runner-roots"
        BY <1>2, <2>1, <2>4, <3>2, RootsSay DEF D!Whole
      <3>3. CASE id = "database"
        BY <1>2, <2>1, <2>4, <3>3, DatabaseSays DEF D!Whole
      <3>4. CASE id = "hooks"
        BY <1>2, <2>1, <2>4, <3>4, HooksSay DEF D!Whole
      <3>5. CASE id = "tokens"
        BY <1>2, <2>1, <2>4, <3>5, TokensSay DEF D!Whole
      <3> QED BY <3>1, <3>2, <3>3, <3>4, <3>5 DEF D!Checks
    <2>5. ASSUME NEW id \in D!Checks, report[id].status \in {"fail", "skipped"},
                 "linked" \notin host.envs
          PROVE  \E other \in D!Checks : helps(other)
      <3>1. CASE id = "config"
        BY <1>2, <2>1, <2>5, <3>1
      <3>2. ASSUME D!Roots # D!Pass PROVE helps("runner-roots")
        <4>1. D!Roots = D!Fail("config roots") /\ host.roots # "found"
          BY <3>2, RootsSay
        <4>2. D!Advised("config roots") = [host EXCEPT !.roots = "found", !.envs = {"unset"}]
          BY DEF D!Advised
        <4>3. D!Advised("config roots") # host
          BY <1>1, <4>1, <4>2 DEF HostKinds
        <4>4. report["runner-roots"].status = "fail"
              /\ report["runner-roots"].advice = "config roots"
          BY <1>2, <2>1, <4>1
        <4> QED BY <4>3, <4>4
      <3>3. CASE id = "database"
        <4>1. CASE host.db = "absent"
          <5>1. D!Advised("start") = [host EXCEPT !.db = "private"]
            BY DEF D!Advised
          <5>2. D!Advised("start") # host
            BY <1>1, <4>1, <5>1 DEF HostKinds
          <5> QED BY <1>2, <2>1, <3>3, <4>1, <5>2, DatabaseSays
        <4>2. CASE host.db # "absent"
          BY <1>2, <2>1, <2>5, <3>3, <4>2, DatabaseSays
        <4> QED BY <4>1, <4>2
      <3>4. CASE id = "hooks"
        <4>1. CASE host.envs = {}
          <5>1. D!Roots # D!Pass
            BY <1>1, <1>2, <4>1, RootsSay
          <5> QED BY <3>2, <5>1 DEF D!Checks
        <4>2. CASE {"unset", "foreign"} \cap host.envs # {}
          <5> DEFINE new == {IF e \in {"unset", "foreign"} THEN "ours" ELSE e : e \in host.envs}
          <5>1. D!Advised("config hooks") = [host EXCEPT !.envs = new]
            BY DEF D!Advised
          <5>2. {"unset", "foreign"} \cap new = {}
            OBVIOUS
          <5> HIDE DEF new
          <5>3. D!Advised("config hooks").envs = new
            BY <1>1, <5>1 DEF HostKinds
          <5>4. D!Advised("config hooks") # host
            BY <4>2, <5>2, <5>3
          <5>5. D!Hooks = D!Fail("config hooks")
            BY <4>2, HooksSay
          <5>6. report["hooks"].status = "fail" /\ report["hooks"].advice = "config hooks"
            BY <1>2, <2>1, <5>5
          <5> QED BY <5>4, <5>6 DEF D!Checks
        <4>3. CASE host.envs # {} /\ {"unset", "foreign"} \cap host.envs = {}
          BY <1>2, <2>1, <2>5, <3>4, <4>3, HooksSay
        <4> QED BY <4>1, <4>2, <4>3
      <3>5. CASE id = "tokens"
        <4>1. CASE D!Tokens = D!Skip("online")
          BY <1>2, <2>1, <3>5, <4>1
        <4>2. CASE D!Tokens # D!Skip("online")
          <5>1. /\ D!Tokens = D!Fail("config token")
                /\ \/ host.orgs = {} \/ "rejected" \in host.orgs
                   \/ "none" \in host.orgs /\ "valid" \notin host.orgs
            BY <1>2, <2>1, <2>5, <3>5, <4>2, TokensSay
          <5> DEFINE new == (host.orgs \ {"rejected", "none"}) \cup {"valid"}
          <5>2. D!Advised("config token") = [host EXCEPT !.orgs = new]
            BY DEF D!Advised
          <5>3. new # host.orgs
            BY <5>1
          <5> HIDE DEF new
          <5>4. D!Advised("config token") # host
            BY <1>1, <5>2, <5>3 DEF HostKinds
          <5>5. report["tokens"].status = "fail" /\ report["tokens"].advice = "config token"
            BY <1>2, <2>1, <5>1
          <5> QED BY <5>4, <5>5 DEF D!Checks
        <4> QED BY <4>1, <4>2
      <3>6. CASE id = "runner-roots"
        <4>1. D!Roots # D!Pass
          BY <1>2, <2>1, <2>5, <3>6
        <4> QED BY <3>2, <3>6, <4>1
      <3> QED BY <3>1, <3>3, <3>4, <3>5, <3>6 DEF D!Checks
    <2> HIDE DEF helps
    <2>6. D!Verdict = "ok" => D!Whole /\ "linked" \notin host.envs /\ online
      BY <2>3, VerdictSays
    <2>7. D!Verdict = "degraded" => ~D!Whole \/ host.orgs \cap {"valid"} = {}
      BY <2>4, VerdictSays
    <2>8. D!Verdict # "ok" /\ "linked" \notin host.envs => \E id \in D!Checks : helps(id)
      BY <2>5, VerdictSays
    <2> QED BY <2>6, <2>7, <2>8 DEF D!DoctorHonest, helps
  <1> QED BY <1>3, <1>4

-----------------------------------------------------------------------------
(* Answers. *)

\* Some facts about sets that the rows of a snapshot need.
LEMMA NonEmptyCount ==
  ASSUME NEW set, IsFiniteSet(set)
  PROVE  Cardinality(set) \in Nat /\ (Cardinality(set) > 0 <=> set # {})
  <1>1. Cardinality(set) \in Nat
    BY FS_CardinalityType
  <1>2. Cardinality(set) = 0 <=> set = {}
    BY FS_EmptySet
  <1> QED BY <1>1, <1>2

\* An instance counts as this module does.
LEMMA SameCount == ASSUME NEW set PROVE A!Cardinality(set) = Cardinality(set)
  BY DEF A!Cardinality, Cardinality

\* A reading that is still shown is not older than its org's last reconcile
\* allows; `wait` polls until its deadline, and then it has given up.
AnswerInv ==
  /\ A!TypeOK
  /\ \A r \in Watched : gh[r] # "none" => age[Org[r]] <= MaxAge
  /\ wait.outcome = "none" => wait.polls <= Deadline
  /\ A!WaitHonest

LEMMA OrgType == ASSUME NEW r \in Watched PROVE Org[r] \in A!Orgs
  BY DEF A!Orgs

LEMMA AnswerInit == A!Init => AnswerInv
  <1> SUFFICES ASSUME A!Init PROVE AnswerInv
    OBVIOUS
  <1>1. A!TypeOK
    BY PartsAssumption DEF A!Init, A!TypeOK, A!Liveness, A!GhView, A!Ages, A!Never, A!Progress
  <1>2. A!WaitHonest
    BY DEF A!Init, A!WaitHonest
  <1> QED BY <1>1, <1>2, PartsAssumption DEF A!Init, AnswerInv

\* What a poll finds, and what it may conclude from it.
LEMMA PollFinds ==
  ASSUME AnswerInv, NEW o \in A!Orgs
  PROVE  LET scope == DOMAIN A!Scoped(A!Snapshot, o) IN
         /\ scope = {r \in present : Org[r] = o}
         /\ A!Evaluate(o) \in A!Progress
         /\ A!Evaluate(o) = "Held" <=> reach = "up" /\ scope # {} /\ \A r \in scope : gh[r] = "online"
         /\ A!Evaluate(o) = "NotYet" => reach = "up" /\ \E r \in scope : gh[r] = "offline"
         /\ A!Evaluate(o) \in {"Blind", "Unanswerable"} =>
              reach # "up" \/ \A r \in scope : gh[r] # "offline"
  <1> DEFINE scope == DOMAIN A!Scoped(A!Snapshot, o)
  <1>1. scope = {r \in present : Org[r] = o}
    BY DEF A!Scoped, A!Snapshot, A!Collected, A!LocalScan
  <1>2. A!Evaluate(o) = IF reach # "up" \/ scope = {} THEN "Unanswerable"
                        ELSE IF \A r \in scope : gh[r] = "online" THEN "Held"
                        ELSE IF \E r \in scope : gh[r] = "offline" THEN "NotYet" ELSE "Blind"
    BY DEF A!Evaluate
  <1> HIDE DEF scope
  <1>3. A!Evaluate(o) \in A!Progress
    BY <1>2 DEF A!Progress
  <1>4. A!Evaluate(o) = "Held" <=> reach = "up" /\ scope # {} /\ \A r \in scope : gh[r] = "online"
    BY <1>2
  <1>5. A!Evaluate(o) = "NotYet" => reach = "up" /\ \E r \in scope : gh[r] = "offline"
    BY <1>2
  <1>6. A!Evaluate(o) \in {"Blind", "Unanswerable"} =>
          reach # "up" \/ \A r \in scope : gh[r] # "offline"
    BY <1>2
  <1> QED BY <1>1, <1>3, <1>4, <1>5, <1>6 DEF scope

\* An org all of whose runners GitHub sees online is healthy by its own verdict.
LEMMA OnlineIsOk ==
  ASSUME NEW rows, NEW o, \E r \in DOMAIN rows : Org[r] = o,
         \A r \in DOMAIN rows : Org[r] = o => rows[r].gh = "online"
  PROVE  A!OrgVerdict(rows, o) = "ok"
  <1> DEFINE recent == {r \in DOMAIN rows : Org[r] = o /\ rows[r].gh # "none"}
  <1>1. recent # {} /\ \A r \in recent : rows[r].gh # "offline"
    OBVIOUS
  <1> QED BY <1>1 DEF A!OrgVerdict

LEMMA HeldIsOk ==
  ASSUME reach = "up", NEW o, {r \in present : Org[r] = o} # {},
         \A r \in present : Org[r] = o => gh[r] = "online"
  PROVE  A!OrgVerdict(A!Snapshot, o) = "ok"
  <1>1. DOMAIN A!Snapshot = present /\ \A r \in present : A!Snapshot[r].gh = gh[r]
    BY DEF A!Snapshot, A!Collected
  <1> QED BY <1>1, OnlineIsOk

LEMMA PollNext == ASSUME AnswerInv, A!Poll PROVE AnswerInv'
  <1> DEFINE o == wait.org
             p == A!Evaluate(o)
             out == A!Outcome(p, wait.polls)
             scope == DOMAIN A!Scoped(A!Snapshot, o)
  <1>1. /\ wait.outcome = "none" /\ UNCHANGED <<present, live, gh, age, reach>>
        /\ wait' = [wait EXCEPT !.polls = wait.polls + 1, !.last = p, !.outcome = out]
    BY DEF A!Poll
  <1>2. /\ o \in A!Orgs /\ wait.polls \in 0 .. Deadline /\ Deadline \in Nat
        /\ wait \in [org : A!Orgs, polls : 0 .. Deadline + 1, last : A!Progress \cup {"none"},
                     outcome : {"none", "Held", "TimedOut", "Undetermined"}]
    BY <1>1, PartsAssumption DEF AnswerInv, A!TypeOK
  <1>3. p \in A!Progress
    BY <1>2, PollFinds
  <1>4. out = CASE p = "Held" -> "Held"
                [] p = "Unanswerable" /\ wait.polls = 0 -> "Undetermined"
                [] p # "Held" /\ wait.polls >= Deadline ->
                     IF p \in {"Blind", "Unanswerable"} THEN "Undetermined" ELSE "TimedOut"
                [] OTHER -> "none"
    BY DEF A!Outcome
  <1> HIDE DEF p, out
  <1>5. /\ out \in {"none", "Held", "TimedOut", "Undetermined"}
        /\ out = "Held" => p = "Held"
        /\ out = "TimedOut" => p = "NotYet"
        /\ out = "Undetermined" => /\ p \in {"Blind", "Unanswerable"}
                                   /\ wait.polls = Deadline \/ wait.polls = 0
        /\ out = "none" => wait.polls < Deadline
    BY <1>2, <1>3, <1>4 DEF A!Progress
  <1>6. p \in A!Progress \cup {"none"} /\ wait.polls + 1 \in 0 .. Deadline + 1
    BY <1>2, <1>3
  <1>7. /\ wait'.org = o /\ wait'.polls = wait.polls + 1 /\ wait'.outcome = out
        /\ wait' \in [org : A!Orgs, polls : 0 .. Deadline + 1, last : A!Progress \cup {"none"},
                      outcome : {"none", "Held", "TimedOut", "Undetermined"}]
    <2> HIDE DEF o
    <2> QED BY <1>1, <1>2, <1>5, <1>6 DEF o
  <1>8. A!TypeOK'
    BY <1>1, <1>7 DEF AnswerInv, A!TypeOK
  <1>9. /\ scope = {r \in present : Org[r] = o}
        /\ (DOMAIN A!Scoped(A!Snapshot, wait.org))' = {r \in present : Org[r] = o}
    BY <1>1, <1>7 DEF A!Scoped, A!Snapshot, A!Collected, A!LocalScan
  <1>10. A!OrgVerdict(A!Snapshot, wait.org)' = A!OrgVerdict(A!Snapshot, o)
    BY <1>1, <1>7 DEF A!OrgVerdict, A!Snapshot, A!Collected, A!LocalScan
  <1>11. ASSUME out = "Held"
         PROVE  /\ reach = "up" /\ scope # {} /\ \A r \in scope : gh[r] = "online"
                /\ A!OrgVerdict(A!Snapshot, o) = "ok"
    <2>1. reach = "up" /\ scope # {} /\ \A r \in scope : gh[r] = "online"
      BY <1>2, <1>5, <1>11, PollFinds DEF p
    <2>2. A!OrgVerdict(A!Snapshot, o) = "ok"
      <3> HIDE DEF o
      <3> QED BY <1>9, <2>1, HeldIsOk
    <2> QED BY <2>1, <2>2
  <1>12. out = "TimedOut" => reach = "up" /\ \E r \in scope : gh[r] = "offline"
    BY <1>2, <1>5, PollFinds DEF p
  <1>13. out = "Undetermined" => /\ reach # "up" \/ \A r \in scope : gh[r] # "offline"
                                 /\ wait'.polls = Deadline + 1 \/ wait'.polls = 1
    <2>1. ASSUME out = "Undetermined" PROVE reach # "up" \/ \A r \in scope : gh[r] # "offline"
      BY <1>2, <1>5, <2>1, PollFinds DEF p
    <2>2. ASSUME out = "Undetermined" PROVE wait'.polls = Deadline + 1 \/ wait'.polls = 1
      <3> HIDE DEF o, scope
      <3> QED BY <1>2, <1>5, <1>7, <2>2
    <2> QED BY <2>1, <2>2
  <1> HIDE DEF scope, o
  <1>14. A!WaitHonest'
    BY <1>1, <1>7, <1>9, <1>10, <1>11, <1>12, <1>13 DEF A!WaitHonest
  <1>15. /\ \A r \in Watched : gh'[r] # "none" => age'[Org[r]] <= MaxAge
         /\ wait'.outcome = "none" => wait'.polls <= Deadline
    BY <1>1, <1>2, <1>5, <1>7 DEF AnswerInv, o
  <1> QED BY <1>8, <1>14, <1>15 DEF AnswerInv

\* The world moves only while `wait` has no outcome yet.
LEMMA WorldNext ==
  ASSUME AnswerInv, wait.outcome = "none", wait' = wait, A!TypeOK',
         \A r \in Watched : gh'[r] # "none" => age'[Org[r]] <= MaxAge
  PROVE  AnswerInv'
  <1>1. A!WaitHonest'
    BY DEF A!WaitHonest
  <1> QED BY <1>1 DEF AnswerInv

LEMMA AnswerNext == AnswerInv /\ A!Next => AnswerInv'
  <1> SUFFICES ASSUME AnswerInv, A!Next PROVE AnswerInv'
    OBVIOUS
  <1> USE DEF AnswerInv
  <1>1. ASSUME NEW r \in Watched, A!LocalTick(r) PROVE AnswerInv'
    <2>1. /\ wait.outcome = "none" /\ gh' = gh /\ age' = age /\ reach' = reach /\ wait' = wait
      BY <1>1 DEF A!LocalTick
    <2>2. live' \in [Watched -> A!Liveness] /\ present' \subseteq Watched
      BY <1>1 DEF A!LocalTick, A!TypeOK
    <2>3. A!TypeOK'
      BY <2>1, <2>2 DEF A!TypeOK
    <2> QED BY <2>1, <2>3, WorldNext
  <1>2. ASSUME NEW o \in A!Orgs, A!Reconcile(o) PROVE AnswerInv'
    <2>1. /\ wait.outcome = "none" /\ UNCHANGED <<present, live, reach, wait>>
          /\ age' = [age EXCEPT ![o] = 0]
      BY <1>2 DEF A!Reconcile
    <2>2. PICK seen_ \in [{r \in Watched : Org[r] = o} -> A!GhView] :
            gh' = [r \in Watched |-> IF Org[r] = o THEN seen_[r] ELSE gh[r]]
      BY <1>2 DEF A!Reconcile
    <2>3. gh' \in [Watched -> A!GhView]
      BY <2>2 DEF A!TypeOK
    <2>4. age' \in [A!Orgs -> A!Ages]
      BY <2>1, PartsAssumption DEF A!TypeOK, A!Ages
    <2>5. \A r \in Watched : gh'[r] # "none" => age'[Org[r]] <= MaxAge
      BY <2>1, <2>2, PartsAssumption, OrgType DEF A!TypeOK
    <2>6. A!TypeOK'
      BY <2>1, <2>3, <2>4 DEF A!TypeOK
    <2> QED BY <2>1, <2>5, <2>6, WorldNext
  <1>3. ASSUME NEW o \in A!Orgs, A!Aged(o) PROVE AnswerInv'
    <2>1. /\ wait.outcome = "none" /\ UNCHANGED <<present, live, reach, wait>>
          /\ age' = [age EXCEPT ![o] = age[o] + 1] /\ age[o] \in 0 .. MaxAge
          /\ gh' = [r \in Watched |-> IF Org[r] = o /\ age[o] = MaxAge THEN "none" ELSE gh[r]]
      BY <1>3, PartsAssumption DEF A!Aged, A!TypeOK, A!Ages, A!Never
    <2>2. gh' \in [Watched -> A!GhView]
      BY <2>1 DEF A!TypeOK, A!GhView
    <2>3. age' \in [A!Orgs -> A!Ages]
      BY <2>1, PartsAssumption DEF A!TypeOK, A!Ages
    <2>4. \A r \in Watched : gh'[r] # "none" => age'[Org[r]] <= MaxAge
      BY <2>1, PartsAssumption, OrgType DEF A!TypeOK
    <2>5. A!TypeOK'
      BY <2>1, <2>2, <2>3 DEF A!TypeOK
    <2> QED BY <2>1, <2>4, <2>5, WorldNext
  <1>4. ASSUME A!Relink PROVE AnswerInv'
    <2>1. A!TypeOK' /\ wait.outcome = "none" /\ UNCHANGED <<gh, age, wait>>
      BY <1>4 DEF A!Relink, A!TypeOK
    <2> QED BY <2>1, WorldNext
  <1>5. ASSUME A!Poll PROVE AnswerInv'
    BY <1>5, PollNext
  <1> QED BY <1>1, <1>2, <1>3, <1>4, <1>5 DEF A!Next

\* The rows of a snapshot, and of an org's share of it.
LEMMA SnapshotRows ==
  ASSUME NEW o
  PROVE  /\ DOMAIN A!Snapshot = present
         /\ \A r \in present : /\ A!Snapshot[r].live = live[r]
                               /\ A!Snapshot[r].gh = IF reach = "up" THEN gh[r] ELSE "none"
         /\ DOMAIN A!Scoped(A!Snapshot, o) = {r \in present : Org[r] = o}
         /\ \A r \in {x \in present : Org[x] = o} :
              A!Scoped(A!Snapshot, o)[r] = A!Snapshot[r]
  BY DEF A!Snapshot, A!Collected, A!LocalScan, A!Scoped

\* Rows are degraded when one is down here, or up here and offline to GitHub.
LEMMA VerdictOfRows ==
  ASSUME NEW rows, \A r \in DOMAIN rows : rows[r].live \in A!Liveness /\ rows[r].gh \in A!GhView
  PROVE  /\ A!OfflineOf(rows) = {r \in DOMAIN rows : rows[r].live = "offline"}
         /\ A!DivergentOf(rows) = {r \in DOMAIN rows : rows[r].live = "up" /\ rows[r].gh = "offline"}
         /\ A!Verdict(rows) = "degraded" <=> A!DivergentOf(rows) \cup A!OfflineOf(rows) # {}
         /\ A!ExitCode(A!Verdict(rows)) = 1 <=> A!Verdict(rows) = "degraded"
         /\ A!ExitCode(A!Verdict(rows)) = 2 <=> DOMAIN rows = {}
  <1>1. A!OfflineOf(rows) = {r \in DOMAIN rows : rows[r].live = "offline"}
    BY DEF A!OfflineOf
  <1>2. ASSUME NEW r \in DOMAIN rows
        PROVE  A!Divergent(rows[r]) = "yes" <=> rows[r].live = "up" /\ rows[r].gh = "offline"
    BY DEF A!Divergent, A!Liveness, A!GhView
  <1>3. A!DivergentOf(rows) = {r \in DOMAIN rows : rows[r].live = "up" /\ rows[r].gh = "offline"}
    BY <1>2 DEF A!DivergentOf
  <1>4. A!Verdict(rows) = IF DOMAIN rows = {} THEN "unknown"
                          ELSE IF A!DivergentOf(rows) \cup A!OfflineOf(rows) # {} THEN "degraded"
                          ELSE "ok"
    BY DEF A!Verdict
  <1>5. A!Verdict(rows) = "degraded" <=> A!DivergentOf(rows) \cup A!OfflineOf(rows) # {}
    BY <1>1, <1>3, <1>4
  <1>6. /\ A!ExitCode(A!Verdict(rows)) = 1 <=> A!Verdict(rows) = "degraded"
        /\ A!ExitCode(A!Verdict(rows)) = 2 <=> DOMAIN rows = {}
    BY <1>4 DEF A!ExitCode
  <1> QED BY <1>1, <1>3, <1>5, <1>6

\* explain's findings, one by one.
LEMMA FindingsSay ==
  ASSUME NEW rows
  PROVE  /\ (\E b : <<"github-divergence", b>> \in A!Findings(rows)) <=> A!DivergentOf(rows) # {}
         /\ (\E b : <<"runners-offline-locally", b>> \in A!Findings(rows)) <=> A!OfflineOf(rows) # {}
         /\ <<"github-view-stale", "github">> \in A!Findings(rows) <=> A!Stale(rows) # {}
         /\ (\E b : <<"github-view-unavailable", b>> \in A!Findings(rows)) <=> reach # "up"
         /\ (\E b : <<"org-never-reconciled", b>> \in A!Findings(rows)) <=> A!NeverAsked # {}
  <1>1. ASSUME NEW cond \in BOOLEAN, NEW id, NEW boundary
        PROVE  A!If(cond, id, boundary) = {f \in {<<id, boundary>>} : cond}
    BY DEF A!If
  <1> DEFINE all == {f \in {<<"github-divergence", A!Boundary(rows)>>} : A!DivergentOf(rows) # {}}
                      \cup {f \in {<<"runners-offline-locally", "local">>} : A!OfflineOf(rows) # {}}
                      \cup {f \in {<<"github-view-stale", "github">>} : A!Stale(rows) # {}}
                      \cup {f \in {<<"github-view-unavailable", A!UnavailableBoundary(reach)>>} : reach # "up"}
                      \cup {f \in {<<"org-never-reconciled", "config">>} : A!NeverAsked # {}}
  <1>2. A!Findings(rows) = all
    BY DEF A!Findings, A!If
  <1> QED BY <1>2

\* Where no finding is made there is nothing to say.
LEMMA SilentAnswers == AnswerInv => A!SilenceIsAllClear
  <1> SUFFICES ASSUME AnswerInv, A!Findings(A!Snapshot) = {},
                      NEW r \in present
               PROVE  reach = "up" /\ live[r] = "up" /\ gh[r] = "online"
    <2>1. CASE present = {}
      <3>1. A!Findings(A!Snapshot) = {} => reach = "up"
        BY FindingsSay
      <3> QED BY <2>1, <3>1 DEF A!SilenceIsAllClear
    <2>2. CASE present # {}
      BY <2>2 DEF A!SilenceIsAllClear
    <2> QED BY <2>1, <2>2
  <1> DEFINE rows == A!Snapshot
  <1>1. /\ r \in Watched /\ live[r] \in {"up", "offline"} /\ gh[r] \in {"online", "offline", "none"}
    BY DEF AnswerInv, A!TypeOK, A!Liveness, A!GhView
  <1>2. DOMAIN rows = present /\ rows[r].live = live[r] /\ rows[r].gh = IF reach = "up" THEN gh[r] ELSE "none"
    BY SnapshotRows
  <1> HIDE DEF rows
  <1>3. /\ reach = "up" /\ A!DivergentOf(rows) = {} /\ A!OfflineOf(rows) = {}
        /\ A!Stale(rows) = {} /\ A!NeverAsked = {}
    <2>1. A!Findings(rows) = {}
      BY DEF rows
    <2> QED BY <2>1, FindingsSay
  <1>4. live[r] = "up"
    BY <1>1, <1>2, <1>3 DEF A!OfflineOf
  <1>5. gh[r] # "offline"
    BY <1>2, <1>3, <1>4 DEF A!DivergentOf, A!Divergent
  <1>6. Org[r] \in A!Reconciled
    BY <1>3 DEF A!NeverAsked, A!ListedOrgs, A!OrgsOf
  <1>7. gh[r] # "none"
    BY <1>2, <1>3, <1>6 DEF A!Stale
  <1> QED BY <1>1, <1>3, <1>4, <1>5, <1>7

\* An org the collector reads, and holds nothing fresh of, has a stale view.
LEMMA StaleOrg ==
  ASSUME NEW r \in present, reach = "up", gh[r] = "none", Org[r] \in A!Reconciled
  PROVE  <<"github-view-stale", "github">> \in A!Findings(A!Snapshot)
  <1>1. r \in A!Stale(A!Snapshot)
    BY SnapshotRows DEF A!Stale
  <1> QED BY <1>1, FindingsSay

LEMMA AgreeingAnswers == AnswerInv => A!AnswersAgree
  <1> SUFFICES ASSUME AnswerInv PROVE A!AnswersAgree
    OBVIOUS
  <1> DEFINE rows == A!Snapshot
             faults == {f \in A!Findings(rows) :
                          f[1] \in {"github-divergence", "runners-offline-locally"}}
  <1>1. /\ present \subseteq Watched
        /\ \A r \in present : live[r] \in A!Liveness /\ gh[r] \in A!GhView
    BY DEF AnswerInv, A!TypeOK
  <1>2. /\ DOMAIN rows = present
        /\ \A r \in present : /\ rows[r].live = live[r]
                              /\ rows[r].gh = IF reach = "up" THEN gh[r] ELSE "none"
        /\ \A o : /\ DOMAIN A!Scoped(rows, o) = {r \in present : Org[r] = o}
                  /\ \A r \in {x \in present : Org[x] = o} : A!Scoped(rows, o)[r] = rows[r]
    BY SnapshotRows
  <1>3. \A r \in present : rows[r].live \in A!Liveness /\ rows[r].gh \in A!GhView
    BY <1>1, <1>2 DEF A!GhView
  <1>4. /\ A!Verdict(rows) = "degraded" <=> A!DivergentOf(rows) \cup A!OfflineOf(rows) # {}
        /\ A!ExitCode(A!Verdict(rows)) = 1 <=> A!Verdict(rows) = "degraded"
        /\ A!ExitCode(A!Verdict(rows)) = 2 <=> present = {}
    <2> HIDE DEF rows
    <2> QED BY <1>2, <1>3, VerdictOfRows
  <1>5. A!ExitCode(A!Verdict(rows)) = 1 <=> faults # {}
    <2>1. faults # {} <=> \/ \E b : <<"github-divergence", b>> \in A!Findings(rows)
                          \/ \E b : <<"runners-offline-locally", b>> \in A!Findings(rows)
      <3>1. ASSUME NEW f \in A!Findings(rows) PROVE \E id, b : f = <<id, b>>
        <4>1. ASSUME NEW cond, NEW id, NEW b, f \in A!If(cond, id, b) PROVE f = <<id, b>>
          BY <4>1 DEF A!If
        <4> HIDE DEF rows
        <4>2. \/ f \in A!If(A!DivergentOf(rows) # {}, "github-divergence", A!Boundary(rows))
              \/ f \in A!If(A!OfflineOf(rows) # {}, "runners-offline-locally", "local")
              \/ f \in A!If(A!Stale(rows) # {}, "github-view-stale", "github")
              \/ f \in A!If(reach # "up", "github-view-unavailable", A!UnavailableBoundary(reach))
              \/ f \in A!If(A!NeverAsked # {}, "org-never-reconciled", "config")
          BY <3>1 DEF A!Findings
        <4> QED BY <4>1, <4>2
      <3> HIDE DEF rows
      <3>2. ASSUME NEW f \in faults
            PROVE  \/ \E b : <<"github-divergence", b>> \in A!Findings(rows)
                   \/ \E b : <<"runners-offline-locally", b>> \in A!Findings(rows)
        <4>1. PICK id, b : f = <<id, b>>
          BY <3>1
        <4>2. id \in {"github-divergence", "runners-offline-locally"} /\ <<id, b>> \in A!Findings(rows)
          BY <4>1
        <4> QED BY <4>2
      <3>3. ASSUME NEW b, NEW id \in {"github-divergence", "runners-offline-locally"},
                   <<id, b>> \in A!Findings(rows)
            PROVE  <<id, b>> \in faults
        BY <3>3
      <3> HIDE DEF faults
      <3> QED BY <3>2, <3>3
    <2> HIDE DEF rows, faults
    <2> QED BY <1>4, <2>1, FindingsSay
  <1>6. A!ExitCode(A!Verdict(rows)) = 1 <=> \E o \in A!Orgs : A!Verdict(A!Scoped(rows, o)) = "degraded"
    <2> HIDE DEF rows
    <2>1. ASSUME NEW o \in A!Orgs
          PROVE  A!Verdict(A!Scoped(rows, o)) = "degraded" <=>
                   \E r \in present : /\ Org[r] = o
                                      /\ \/ rows[r].live = "offline"
                                         \/ rows[r].live = "up" /\ rows[r].gh = "offline"
      <3> DEFINE part_ == A!Scoped(rows, o)
      <3>1. /\ DOMAIN part_ = {r \in present : Org[r] = o}
            /\ \A r \in DOMAIN part_ : part_[r] = rows[r]
        BY <1>2 DEF A!Scoped
      <3> HIDE DEF part_
      <3>2. \A r \in DOMAIN part_ : part_[r].live \in A!Liveness /\ part_[r].gh \in A!GhView
        BY <1>3, <3>1
      <3>3. /\ A!OfflineOf(part_) = {r \in DOMAIN part_ : part_[r].live = "offline"}
            /\ A!DivergentOf(part_) =
                 {r \in DOMAIN part_ : part_[r].live = "up" /\ part_[r].gh = "offline"}
            /\ A!Verdict(part_) = "degraded" <=> A!DivergentOf(part_) \cup A!OfflineOf(part_) # {}
        BY <3>2, VerdictOfRows
      <3>4. A!Verdict(part_) = "degraded" <=>
              \E r \in DOMAIN part_ : \/ part_[r].live = "offline"
                                      \/ part_[r].live = "up" /\ part_[r].gh = "offline"
        BY <3>3
      <3>5. A!Verdict(part_) = "degraded" <=>
              \E r \in present : /\ Org[r] = o
                                 /\ \/ rows[r].live = "offline"
                                    \/ rows[r].live = "up" /\ rows[r].gh = "offline"
        BY <3>1, <3>4
      <3> QED BY <3>5 DEF part_
    <2>2. A!Verdict(rows) = "degraded" <=>
            \E r \in present : \/ rows[r].live = "offline"
                               \/ rows[r].live = "up" /\ rows[r].gh = "offline"
      <3>1. /\ A!OfflineOf(rows) = {r \in DOMAIN rows : rows[r].live = "offline"}
            /\ A!DivergentOf(rows) =
                 {r \in DOMAIN rows : rows[r].live = "up" /\ rows[r].gh = "offline"}
        BY <1>2, <1>3, VerdictOfRows
      <3> QED BY <1>2, <1>4, <3>1
    <2>3. \A r \in present : Org[r] \in A!Orgs
      BY <1>1, OrgType
    <2> QED BY <1>4, <2>1, <2>2, <2>3
  <1>7. ASSUME NEW o \in A!StaleReconcile
        PROVE  <<"github-view-stale", "github">> \in A!Findings(rows)
    <2>1. o \in A!Reconciled /\ age[o] > MaxAge
      BY <1>7 DEF A!StaleReconcile
    <2>2. PICK r \in present : reach = "up" /\ Org[r] = o
      BY <2>1 DEF A!Reconciled, A!ListedOrgs, A!OrgsOf
    <2>3. gh[r] = "none"
      <3>1. age[o] \in Nat /\ MaxAge \in Nat
        BY <1>1, <2>2, OrgType, PartsAssumption DEF AnswerInv, A!TypeOK, A!Ages, A!Never
      <3>2. gh[r] # "none" => age[o] <= MaxAge
        BY <1>1, <2>2 DEF AnswerInv
      <3> QED BY <2>1, <3>1, <3>2
    <2> QED BY <2>1, <2>2, <2>3, StaleOrg
  <1>8. ASSUME A!DoctorVerdict({"pass"}) = "ok", NEW o \in A!ListedOrgs,
               A!OrgVerdict(rows, o) = "unknown", o \notin A!NeverAsked
        PROVE  <<"github-view-stale", "github">> \in A!Findings(rows)
    <2>1. PICK r \in present : reach = "up" /\ Org[r] = o
      BY <1>8 DEF A!ListedOrgs, A!OrgsOf
    <2>2. Org[r] \in A!Reconciled
      BY <1>8, <2>1 DEF A!NeverAsked
    <2>3. rows[r].gh = "none"
      <3> HIDE DEF rows
      <3> QED BY <1>2, <1>8, <2>1 DEF A!OrgVerdict
    <2>4. gh[r] = "none"
      <3> HIDE DEF rows
      <3> QED BY <1>2, <2>1, <2>3
    <2> QED BY <2>1, <2>2, <2>4, StaleOrg
  <1> QED BY <1>4, <1>5, <1>6, <1>7, <1>8 DEF A!AnswersAgree

\* The series of a row that an alert or a dashboard reads.
LEMMA SeriesSay ==
  ASSUME NEW row
  PROVE  /\ \A l : <<"up", l>> \in A!Series(row) <=> l = row.live
         /\ \A d : <<"divergent", d>> \in A!Series(row) <=> d # "none" /\ A!Divergent(row) = d
         /\ \A g : <<"github_online", g>> \in A!Series(row) <=> g # "none" /\ row.gh = g
  <1>1. A!Series(row) = {<<"up", row.live>>}
                          \cup {<<"github_online", g>> : g \in {row.gh} \ {"none"}}
                          \cup {<<"divergent", d>> : d \in {A!Divergent(row)} \ {"none"}}
    BY DEF A!Series, A!Known
  <1> QED BY <1>1

\* An alert on one runner's series fires for the rows the verdict counts.
LEMMA AlertFires ==
  ASSUME NEW row, row.live \in A!Liveness
  PROVE  /\ A!Series(row) \cap {<<"up", "offline">>, <<"divergent", "yes">>} # {}
              <=> row.live = "offline" \/ A!Divergent(row) = "yes"
  <1>1. <<"up", "offline">> \in A!Series(row) <=> row.live = "offline"
    BY SeriesSay
  <1>2. <<"divergent", "yes">> \in A!Series(row) <=> A!Divergent(row) = "yes"
    BY SeriesSay
  <1> QED BY <1>1, <1>2

LEMMA AgreeingExposition == AnswerInv => A!ExpositionAgrees
  <1> SUFFICES ASSUME AnswerInv PROVE A!ExpositionAgrees
    OBVIOUS
  <1> DEFINE rows == A!Collected
             down == A!OfflineOf(rows)
             split == A!DivergentOf(rows)
  <1>1. /\ present \subseteq Watched /\ IsFiniteSet(present)
        /\ \A r \in present : live[r] \in A!Liveness /\ gh[r] \in A!GhView
    BY PartsAssumption, FS_Subset DEF AnswerInv, A!TypeOK
  <1>2. /\ DOMAIN rows = present
        /\ \A r \in present : rows[r].live = live[r] /\ rows[r].gh = gh[r]
        /\ \A o : DOMAIN A!Scoped(rows, o) = {r \in present : Org[r] = o}
        /\ A!OrgsOf(present) = {Org[r] : r \in present}
    BY DEF A!Collected, A!Scoped, A!OrgsOf
  <1> HIDE DEF rows
  <1>3. /\ down = {r \in present : rows[r].live = "offline"}
        /\ split = {r \in present : A!Divergent(rows[r]) = "yes"}
        /\ A!Verdict(rows) = "degraded" <=> split \cup down # {}
    BY <1>1, <1>2, VerdictOfRows DEF A!OfflineOf, A!DivergentOf
  <1>4. A!Verdict(rows) = "degraded" <=>
          \E r \in DOMAIN rows :
            A!Series(rows[r]) \cap {<<"up", "offline">>, <<"divergent", "yes">>} # {}
    BY <1>1, <1>2, <1>3, AlertFires
  <1>5. A!Verdict(rows) = "degraded" <=> \E n \in {"offline", "divergent"} : A!Counts(rows)[n] > 0
    <2>1. IsFiniteSet(down) /\ IsFiniteSet(split)
      BY <1>1, <1>3, FS_Subset
    <2>2. (Cardinality(down) > 0 <=> down # {}) /\ (Cardinality(split) > 0 <=> split # {})
      BY <2>1, NonEmptyCount
    <2>3. /\ A!Counts(rows)["offline"] = Cardinality(down)
          /\ A!Counts(rows)["divergent"] = Cardinality(split)
      <3>1. A!Counts(rows) = [offline |-> Cardinality(down), divergent |-> Cardinality(split)]
        BY SameCount DEF A!Counts
      <3> HIDE DEF down, split
      <3> QED BY <3>1
    <2> HIDE DEF down, split
    <2> QED BY <1>3, <2>2, <2>3
  <1>6. /\ A!Pushed(rows).verdict = A!Verdict(rows)
        /\ \A r \in present : /\ A!Pushed(rows).runners[r].up = rows[r].live
                              /\ A!Pushed(rows).runners[r].divergent = A!Divergent(rows[r])
                              /\ A!Pushed(rows).runners[r].github_online = rows[r].gh
    BY <1>2 DEF A!Pushed, A!Record
  <1>7. A!Pushed(rows).verdict = "degraded" <=>
          \E r \in DOMAIN rows : \/ A!Pushed(rows).runners[r].up = "offline"
                                 \/ A!Pushed(rows).runners[r].divergent = "yes"
    <2> HIDE DEF down, split
    <2>1. split \cup down # {} <=> \E r \in present : rows[r].live = "offline" \/ A!Divergent(rows[r]) = "yes"
      BY <1>3
    <2> QED BY <1>2, <1>3, <1>6, <2>1
  <1>8. ASSUME NEW r \in DOMAIN rows, <<"github_online", "offline">> \in A!Series(rows[r])
        PROVE  gh[r] = "offline"
    BY <1>2, <1>8, SeriesSay
  <1>9. ASSUME NEW o \in A!OrgsOf(DOMAIN rows),
               A!OrgCounts(rows, o).online = A!OrgCounts(rows, o).total
        PROVE  A!OrgVerdict(rows, o) = "ok"
    <2> DEFINE all == DOMAIN A!Scoped(rows, o)
               up == {r \in DOMAIN A!Scoped(rows, o) : rows[r].gh = "online"}
    <2>1. IsFiniteSet(all) /\ up \subseteq all
      BY <1>1, <1>2, FS_Subset
    <2>2. Cardinality(up) = Cardinality(all)
      <3>1. A!OrgCounts(rows, o) = [total |-> Cardinality(all), online |-> Cardinality(up)]
        BY SameCount DEF A!OrgCounts
      <3> HIDE DEF all, up
      <3> QED BY <1>9, <3>1
    <2>3. up = all
      <3> HIDE DEF all, up
      <3> QED BY <2>1, <2>2, FS_Subset
    <2>4. \A r \in DOMAIN rows : Org[r] = o => rows[r].gh = "online"
      BY <1>2, <2>3
    <2>5. \E r \in DOMAIN rows : Org[r] = o
      BY <1>9 DEF A!OrgsOf
    <2> QED BY <2>4, <2>5, OnlineIsOk
  <1>10. ASSUME NEW o, (\E a \in A!ReconcileAge(o) : a > MaxAge) \/ A!ReconcileAge(o) = {},
                NEW r \in DOMAIN A!Scoped(rows, o)
         PROVE  A!Pushed(rows).runners[r].github_online = "none"
    <2>1. r \in present /\ Org[r] = o
      BY <1>2
    <2>2. MaxAge \in Nat /\ age[o] > MaxAge
      <3>1. MaxAge \in Nat /\ A!Never > MaxAge
        BY PartsAssumption DEF A!Never
      <3> QED BY <1>10, <3>1 DEF A!ReconcileAge
    <2>3. age[o] \in Nat
      BY <1>1, <2>1, OrgType, PartsAssumption DEF AnswerInv, A!TypeOK, A!Ages, A!Never
    <2>4. gh[r] # "none" => age[o] <= MaxAge
      BY <1>1, <2>1 DEF AnswerInv
    <2> QED BY <1>2, <1>6, <2>1, <2>2, <2>3, <2>4
  <1> HIDE DEF down, split
  <1>11. \A o \in A!OrgsOf(DOMAIN rows) :
           /\ A!OrgCounts(rows, o).online = A!OrgCounts(rows, o).total
                => A!OrgVerdict(rows, o) = "ok"
           /\ (\E a \in A!ReconcileAge(o) : a > MaxAge) \/ A!ReconcileAge(o) = {}
                => \A r \in DOMAIN A!Scoped(rows, o) : A!Pushed(rows).runners[r].github_online = "none"
    BY <1>9, <1>10
  <1> QED BY <1>4, <1>5, <1>7, <1>8, <1>11 DEF A!ExpositionAgrees, rows

\* What the verbs answer is honest, whatever the fleet and its collector do.
LEMMA AnswersAreHonest ==
  AnswerInv => A!SilenceIsAllClear /\ A!AnswersAgree /\ A!WaitHonest /\ A!ExpositionAgrees
  BY SilentAnswers, AgreeingAnswers, AgreeingExposition DEF AnswerInv

LEMMA AnswersRest == AnswerInv /\ UNCHANGED answerVars => AnswerInv'
  <1> SUFFICES ASSUME AnswerInv, UNCHANGED answerVars PROVE AnswerInv'
    OBVIOUS
  <1> USE DEF answerVars
  <1>1. A!Snapshot' = A!Snapshot
    BY DEF A!Snapshot, A!Collected, A!LocalScan
  <1>2. A!WaitHonest'
    BY <1>1 DEF AnswerInv, A!WaitHonest, A!OrgVerdict, A!Scoped, A!Verdict, A!OfflineOf,
                A!DivergentOf, A!Divergent
  <1> QED BY <1>2 DEF AnswerInv, A!TypeOK

-----------------------------------------------------------------------------
(* Listing: ranks and pages. *)

LEMMA SameListCount == \A set : G!Cardinality(set) = Cardinality(set)
  BY DEF G!Cardinality, Cardinality

\* What is listed up to an id, and its count.
UpTo(i, ids) == {j \in ids : j <= i}

LEMMA RankOf ==
  ASSUME NEW ids \in SUBSET Nat, IsFiniteSet(ids), NEW i
  PROVE  /\ IsFiniteSet(UpTo(i, ids)) /\ G!Rank(i, ids) = Cardinality(UpTo(i, ids))
         /\ G!Rank(i, ids) \in 0 .. Cardinality(ids) /\ Cardinality(ids) \in Nat
  <1>1. UpTo(i, ids) \in SUBSET ids
    BY DEF UpTo
  <1>2. /\ IsFiniteSet(UpTo(i, ids)) /\ Cardinality(UpTo(i, ids)) <= Cardinality(ids)
        /\ Cardinality(ids) \in Nat /\ Cardinality(UpTo(i, ids)) \in Nat
    BY <1>1, FS_Subset, FS_CardinalityType
  <1>3. G!Rank(i, ids) = Cardinality(UpTo(i, ids))
    BY SameListCount DEF G!Rank, UpTo
  <1> QED BY <1>2, <1>3

\* An id that is there has a rank, and a later one a higher rank.
LEMMA RankRises ==
  ASSUME NEW ids \in SUBSET Nat, IsFiniteSet(ids), NEW k \in ids
  PROVE  /\ G!Rank(k, ids) \in 1 .. Cardinality(ids)
         /\ \A i \in Nat : i < k => G!Rank(i, ids) < G!Rank(k, ids)
  <1>1. /\ IsFiniteSet(UpTo(k, ids)) /\ G!Rank(k, ids) = Cardinality(UpTo(k, ids))
        /\ G!Rank(k, ids) \in 0 .. Cardinality(ids) /\ Cardinality(ids) \in Nat
    BY RankOf
  <1>2. G!Rank(k, ids) # 0
    <2>1. k \in UpTo(k, ids)
      BY DEF UpTo
    <2> QED BY <1>1, <2>1, FS_EmptySet
  <1>3. ASSUME NEW i \in Nat, i < k PROVE G!Rank(i, ids) < G!Rank(k, ids)
    <2>1. /\ UpTo(i, ids) \in SUBSET UpTo(k, ids)
          /\ k \in UpTo(k, ids) /\ k \notin UpTo(i, ids)
      <3>1. k \in Nat /\ \A j \in ids : j \in Nat /\ (j <= i => j <= k)
        BY <1>3
      <3>2. \A j \in UpTo(i, ids) : j \in UpTo(k, ids)
        BY <3>1 DEF UpTo
      <3>3. k \in UpTo(k, ids) /\ k \notin UpTo(i, ids)
        BY <1>3, <3>1 DEF UpTo
      <3> HIDE DEF UpTo
      <3> QED BY <3>2, <3>3
    <2>2. /\ Cardinality(UpTo(i, ids)) <= Cardinality(UpTo(k, ids))
          /\ Cardinality(UpTo(i, ids)) # Cardinality(UpTo(k, ids))
      BY <1>1, <2>1, FS_Subset
    <2>3. G!Rank(i, ids) = Cardinality(UpTo(i, ids)) /\ G!Rank(i, ids) \in Nat
      BY RankOf
    <2> QED BY <1>1, <2>2, <2>3
  <1> QED BY <1>1, <1>2, <1>3

\* A registration leaves the ranks of the ids before it, a removal lowers none
\* but those behind it.
LEMMA RankKept ==
  ASSUME NEW ids \in SUBSET Nat, IsFiniteSet(ids), NEW n \in Nat, NEW i \in Nat
  PROVE  /\ i < n => G!Rank(i, ids \cup {n}) = G!Rank(i, ids) /\ G!Rank(i, ids \ {n}) = G!Rank(i, ids)
         /\ G!Rank(i, ids \ {n}) <= G!Rank(i, ids)
         /\ IsFiniteSet(ids \cup {n}) /\ IsFiniteSet(ids \ {n})
  <1>1. /\ IsFiniteSet(ids \cup {n}) /\ ids \cup {n} \in SUBSET Nat
        /\ IsFiniteSet(ids \ {n}) /\ ids \ {n} \in SUBSET Nat
    BY FS_AddElement, FS_RemoveElement
  <1>2. /\ G!Rank(i, ids) = Cardinality(UpTo(i, ids)) /\ IsFiniteSet(UpTo(i, ids))
        /\ G!Rank(i, ids \cup {n}) = Cardinality(UpTo(i, ids \cup {n}))
        /\ G!Rank(i, ids \ {n}) = Cardinality(UpTo(i, ids \ {n}))
    BY <1>1, RankOf
  <1>3. i < n => UpTo(i, ids \cup {n}) = UpTo(i, ids) /\ UpTo(i, ids \ {n}) = UpTo(i, ids)
    BY DEF UpTo
  <1>4. UpTo(i, ids \ {n}) \in SUBSET UpTo(i, ids)
    BY DEF UpTo
  <1>5. Cardinality(UpTo(i, ids \ {n})) <= Cardinality(UpTo(i, ids))
    BY <1>2, <1>4, FS_Subset
  <1> QED BY <1>1, <1>2, <1>3, <1>5

LEMMA PagesFollow ==
  ASSUME NEW p \in Nat \ {0}
  PROVE  /\ PerPage \in Nat \ {0} /\ (p - 1) * PerPage \in Nat /\ p * PerPage \in Nat
         /\ p * PerPage = (p - 1) * PerPage + PerPage
  BY PartsAssumption

\* A page holds PerPage ids at most, and exactly as many when some id is behind it.
LEMMA PageHolds ==
  ASSUME NEW ids \in SUBSET Nat, IsFiniteSet(ids), NEW p \in Nat \ {0}
  PROVE  /\ G!Page(ids, p) \subseteq ids /\ IsFiniteSet(G!Page(ids, p))
         /\ Cardinality(G!Page(ids, p)) \in 0 .. PerPage
         /\ \A k \in ids : G!Rank(k, ids) > p * PerPage => Cardinality(G!Page(ids, p)) = PerPage
  <1> DEFINE low == (p - 1) * PerPage
             high == p * PerPage
             page == G!Page(ids, p)
             count == Cardinality(ids)
             rank == [i \in page |-> G!Rank(i, ids)]
             all == [i \in ids |-> G!Rank(i, ids)]
  <1>1. PerPage \in Nat \ {0} /\ low \in Nat /\ high \in Nat /\ high = low + PerPage
    BY PagesFollow
  <1>2. page = {i \in ids : G!Rank(i, ids) \in low + 1 .. high}
    BY DEF G!Page
  <1> HIDE DEF low, high, page
  <1>3. page \in SUBSET ids /\ IsFiniteSet(page) /\ Cardinality(page) \in Nat
    BY <1>2, FS_Subset, FS_CardinalityType
  <1>4. /\ count \in Nat /\ \A i \in ids : G!Rank(i, ids) \in 1 .. count
        /\ \A i, j \in ids : G!Rank(i, ids) = G!Rank(j, ids) => i = j
    <2>1. \A i, j \in ids : i < j => G!Rank(i, ids) < G!Rank(j, ids)
      BY RankRises
    <2>2. count \in Nat /\ \A i \in ids : G!Rank(i, ids) \in 1 .. count
      BY RankRises, FS_CardinalityType
    <2> QED BY <2>1, <2>2
  <1> HIDE DEF count
  <1>5. IsFiniteSet(low + 1 .. high) /\ Cardinality(low + 1 .. high) = PerPage
    BY <1>1, FS_Interval
  <1>6. rank \in Injection(page, low + 1 .. high)
    BY <1>2, <1>3, <1>4 DEF Injection, IsInjective
  <1>7. Cardinality(page) <= PerPage
    <2> HIDE DEF rank
    <2> QED BY <1>5, <1>6, FS_Injection
  <1>8. ASSUME NEW k \in ids, G!Rank(k, ids) > high PROVE Cardinality(page) = PerPage
    <2>1. all \in Injection(ids, 1 .. count)
      BY <1>4 DEF Injection, IsInjective
    <2>2. IsFiniteSet(1 .. count) /\ Cardinality(1 .. count) = Cardinality(ids)
      BY <1>4, FS_Interval DEF count
    <2>3. all \in Surjection(ids, 1 .. count)
      <3> HIDE DEF all
      <3> QED BY <2>1, <2>2, FS_Injection
    <2>4. \A n \in 1 .. count : \E i \in ids : G!Rank(i, ids) = n
      BY <2>3 DEF Surjection
    <2>5. \A n \in low + 1 .. high : \E i \in page : G!Rank(i, ids) = n
      BY <1>1, <1>2, <1>4, <1>8, <2>4
    <2>6. rank \in Surjection(page, low + 1 .. high)
      BY <1>2, <2>5 DEF Surjection
    <2>7. PerPage <= Cardinality(page)
      <3> HIDE DEF rank
      <3> QED BY <1>3, <1>5, <2>6, FS_Surjection
    <2> QED BY <1>1, <1>3, <1>7, <2>7
  <1>9. /\ page \subseteq ids /\ IsFiniteSet(page) /\ Cardinality(page) \in 0 .. PerPage
        /\ \A k \in ids : G!Rank(k, ids) > high => Cardinality(page) = PerPage
    BY <1>1, <1>3, <1>7, <1>8
  <1> QED BY <1>9 DEF page, high

\* The rows of one page of a scope are as many as the page's ids.
LEMMA RowsOfPage ==
  ASSUME NEW ids, IsFiniteSet(ids), NEW s
  PROVE  /\ IsFiniteSet({<<s, i>> : i \in ids})
         /\ Cardinality({<<s, i>> : i \in ids}) = Cardinality(ids)
  <1> DEFINE named == {<<s, i>> : i \in ids}
             name == [i \in ids |-> <<s, i>>]
  <1>1. name \in Bijection(ids, named)
    BY DEF Bijection, Injection, Surjection, IsInjective
  <1>2. ExistsBijection(ids, named)
    <2> HIDE DEF name, named
    <2> QED BY <1>1 DEF ExistsBijection
  <1> HIDE DEF named
  <1>3. IsFiniteSet(named) /\ Cardinality(named) = Cardinality(ids)
    BY <1>2, FS_Bijection
  <1> QED BY <1>3 DEF named

\* A listing between two steps. A runner that has been registered since its scope
\* was begun is listed, or on a page to come; or one before it has gone, or the
\* pages are used up. What is listed of a scope fills the pages read of it, and
\* lies on them still, since GitHub gives no id twice.
AgentRows == G!Scopes \X AgentIds
Pats == G!Targets \cup {[host |-> "dotcom", login |-> "none"], G!NoToken}

ListTypes ==
  /\ settings \in [orgs : {{}, {"acme"}}, keyed : SUBSET G!Targets, fallback : BOOLEAN]
  /\ here = G!Scopes
  /\ registered \in [G!Scopes -> SUBSET AgentIds] /\ fresh \in Nat
  /\ poll \in [at : {"target", "scope", "page"}, left : SUBSET G!Targets,
               scopes : SUBSET G!Scopes, target : G!Targets \cup {G!NoToken},
               scope : G!Scopes \cup {G!NoScope}, page : 1 .. MaxPages,
               rows : SUBSET AgentRows]
  /\ during \in [through : SUBSET AgentRows, ever : SUBSET AgentRows,
                 gone : SUBSET AgentRows, sent : SUBSET Pats]

RowsOf(rows, s) == {y \in rows : y[1] = s}
ListedOf(s) == RowsOf(poll.rows, s)
GoneBefore(x) == \E g \in during.gone : g[1] = x[1] /\ g[2] < x[2]
PagesUsed(x) == Cardinality(ListedOf(x[1])) = MaxPages * PerPage
Behind(x) == /\ poll.at = "page" /\ x[1] = poll.scope
             /\ G!Rank(x[2], registered[poll.scope]) > (poll.page - 1) * PerPage

ScopesRead ==
  poll.at \in {"scope", "page"} =>
    /\ G!HasToken(poll.target) /\ poll.target \in G!Targets
    /\ IsFiniteSet(poll.rows) /\ poll.rows \subseteq during.ever
    /\ \A x \in poll.rows : x[1] \notin poll.scopes /\ x[2] < fresh
    /\ \A x \in during.through : x[1] \notin poll.scopes
    /\ \A x \in during.through \ poll.rows : GoneBefore(x) \/ PagesUsed(x) \/ Behind(x)

PagesRead ==
  poll.at = "page" =>
    /\ poll.scope \in G!Scopes \ poll.scopes
    /\ \A i \in registered[poll.scope] : <<poll.scope, i>> \in during.ever
    /\ \A x \in ListedOf(poll.scope) :
         G!Rank(x[2], registered[poll.scope]) <= (poll.page - 1) * PerPage
    /\ Cardinality(ListedOf(poll.scope)) = (poll.page - 1) * PerPage

ListInv ==
  /\ ListTypes
  /\ \A s \in G!Scopes : \A i \in registered[s] : i < fresh
  /\ \A x \in during.through : x[2] \in registered[x[1]]
  /\ ScopesRead /\ PagesRead
  /\ outcome.is = "Ok" => poll.at = "target"
  /\ G!ListingHonest

\* The pages of a scope: the p-th is full before another is asked for.
LEMMA PagesCount ==
  ASSUME NEW p \in 1 .. MaxPages
  PROVE  /\ p \in Nat \ {0} /\ PerPage \in Nat \ {0} /\ MaxPages \in Nat \ {0}
         /\ (p - 1) * PerPage \in Nat /\ p * PerPage = (p - 1) * PerPage + PerPage
         /\ p * PerPage <= MaxPages * PerPage
         /\ (p - 1) * PerPage < MaxPages * PerPage
  <1>1. p \in Nat \ {0} /\ PerPage \in Nat \ {0} /\ MaxPages \in Nat \ {0} /\ p <= MaxPages
    BY PartsAssumption
  <1>2. PICK more \in Nat : MaxPages = p + more
    <2>1. MaxPages - p \in Nat /\ MaxPages = p + (MaxPages - p)
      BY <1>1
    <2> QED BY <2>1
  <1>3. MaxPages * PerPage = p * PerPage + more * PerPage
    BY <1>1, <1>2
  <1>4. more * PerPage \in Nat /\ p * PerPage \in Nat /\ (p - 1) * PerPage \in Nat
        /\ p * PerPage = (p - 1) * PerPage + PerPage
    BY <1>1
  <1> QED BY <1>1, <1>3, <1>4

LEMMA ScopeIds ==
  ASSUME ListTypes, NEW s \in G!Scopes
  PROVE  registered[s] \in SUBSET Nat /\ IsFiniteSet(registered[s])
  <1>1. registered[s] \in SUBSET AgentIds
    BY DEF ListTypes
  <1> QED BY <1>1, PartsAssumption, FS_Subset

\* A PAT goes to the host it is for.
LEMMA TokenStays ==
  ASSUME NEW t \in G!Targets
  PROVE  G!TokenFor(t) \in Pats /\ (G!HasToken(t) => G!TokenFor(t).host = t.host)
  <1>1. t = [host |-> t.host, login |-> t.login]
    BY DEF G!Targets
  <1>2. G!TokenFor(t) = IF t \in settings.keyed THEN t
                        ELSE IF t.host = "dotcom" /\ settings.fallback
                             THEN [host |-> "dotcom", login |-> "none"] ELSE G!NoToken
    BY <1>1 DEF G!TokenFor, G!None
  <1> QED BY <1>2 DEF G!HasToken, Pats

LEMMA ListInit == G!Init => ListInv
  <1> SUFFICES ASSUME G!Init PROVE ListInv
    OBVIOUS
  <1>1. /\ settings \in [orgs : {{}, {"acme"}}, keyed : SUBSET G!Targets, fallback : BOOLEAN]
        /\ here = G!Scopes /\ fresh \in Nat
        /\ poll = G!Start /\ during = G!Nothing /\ outcome.is = "none"
    BY PartsAssumption DEF G!Init, G!None
  <1>2. G!Wanted \subseteq G!Scopes
    BY <1>1 DEF G!Wanted, G!Scopes
  <1>3. {G!TargetOf(s) : s \in G!Wanted} \subseteq G!Targets
    BY <1>2 DEF G!TargetOf, G!Targets
  <1>4. poll \in [at : {"target", "scope", "page"}, left : SUBSET G!Targets,
                  scopes : SUBSET G!Scopes, target : G!Targets \cup {G!NoToken},
                  scope : G!Scopes \cup {G!NoScope}, page : 1 .. MaxPages,
                  rows : SUBSET AgentRows]
    BY <1>1, <1>3, PartsAssumption DEF G!Start
  <1>5. during \in [through : SUBSET AgentRows, ever : SUBSET AgentRows,
                    gone : SUBSET AgentRows, sent : SUBSET Pats]
    BY <1>1 DEF G!Nothing
  <1>6. registered \in [G!Scopes -> SUBSET AgentIds]
    BY DEF G!Init
  <1>7. ASSUME NEW s \in G!Scopes, NEW i \in registered[s] PROVE i < fresh
    <2>1. \/ i \in {j \in AgentIds : j < NextId}
          \/ i \in {j \in AgentIds : j = 1}
      BY <1>7 DEF G!Init
    <2> QED BY <2>1, PartsAssumption DEF G!Init
  <1>8. poll.at = "target" /\ during.through = {} /\ during.sent = {}
    BY <1>1 DEF G!Start, G!Nothing
  <1>9. G!ListingHonest
    BY <1>1, <1>8 DEF G!ListingHonest
  <1> QED BY <1>1, <1>4, <1>5, <1>6, <1>7, <1>8, <1>9 DEF ListInv, ListTypes, ScopesRead, PagesRead

LEMMA TargetStep == ASSUME ListInv, NEW t \in G!Targets, G!NextTarget(t) PROVE ListInv'
  <1> DEFINE mine == {s \in G!Wanted : G!TargetOf(s) = t /\ G!Listable(s)}
             asked == G!HasToken(t) /\ mine # {}
  <1>1. /\ poll' = [poll EXCEPT !.left = poll.left \ {t}, !.target = t, !.scopes = mine,
                                !.rows = {}, !.at = IF asked THEN "scope" ELSE "target"]
        /\ outcome' = [is |-> IF asked THEN "none" ELSE "Unconfigured", rows |-> {}]
        /\ during' = G!Nothing
        /\ UNCHANGED <<settings, here, registered, fresh>>
    BY DEF G!NextTarget, G!None
  <1>2. mine \in SUBSET G!Scopes
    BY DEF ListInv, ListTypes, G!Wanted, G!Scopes
  <1>3. asked \in BOOLEAN /\ (asked => G!HasToken(t))
    BY DEF G!HasToken
  <1> HIDE DEF mine, asked
  <1>4. ListTypes'
    BY <1>1, <1>2 DEF ListInv, ListTypes, G!Nothing
  <1>5. /\ poll'.target = t /\ poll'.rows = {} /\ poll'.scopes = mine
        /\ poll'.at = IF asked THEN "scope" ELSE "target"
    BY <1>1 DEF ListInv, ListTypes
  <1>6. during'.through = {} /\ during'.sent = {} /\ outcome'.is # "Ok"
    BY <1>1 DEF G!Nothing
  <1>7. ScopesRead'
    <2>1. IsFiniteSet({})
      BY FS_EmptySet
    <2>2. asked => G!HasToken(poll.target)'
      BY <1>1, <1>5, <1>3 DEF G!HasToken, G!TokenFor
    <2> QED BY <1>5, <1>6, <2>1, <2>2 DEF ScopesRead
  <1>8. PagesRead' /\ G!ListingHonest'
    BY <1>5, <1>6 DEF PagesRead, G!ListingHonest
  <1>9. \A s \in G!Scopes : \A i \in registered'[s] : i < fresh'
    BY <1>1 DEF ListInv
  <1> QED BY <1>4, <1>6, <1>7, <1>8, <1>9 DEF ListInv

LEMMA ScopeStep == ASSUME ListInv, NEW s \in G!Scopes, G!NextScope(s) PROVE ListInv'
  <1> DEFINE now_ == {<<s, i>> : i \in registered[s]}
  <1>1. /\ poll.at = "scope" /\ s \in poll.scopes
        /\ poll' = [poll EXCEPT !.at = "page", !.scopes = poll.scopes \ {s}, !.scope = s, !.page = 1]
        /\ during' = [during EXCEPT !.through = during.through \cup now_,
                                    !.ever = during.ever \cup now_]
        /\ UNCHANGED <<settings, here, registered, outcome, fresh>>
    BY DEF G!NextScope
  <1>2. registered[s] \in SUBSET AgentIds /\ registered[s] \in SUBSET Nat /\ IsFiniteSet(registered[s])
    BY ScopeIds DEF ListInv, ListTypes
  <1>3. now_ \in SUBSET AgentRows /\ \A x \in now_ : x[1] = s /\ x[2] \in registered[s]
    BY <1>2 DEF AgentRows
  <1>4. \A i \in registered[s] : <<s, i>> \in now_
    OBVIOUS
  <1> HIDE DEF now_
  <1>5. ListTypes'
    <2>1. /\ poll' \in [at : {"target", "scope", "page"}, left : SUBSET G!Targets,
                        scopes : SUBSET G!Scopes, target : G!Targets \cup {G!NoToken},
                        scope : G!Scopes \cup {G!NoScope}, page : 1 .. MaxPages,
                        rows : SUBSET AgentRows]
      <3>1. 1 \in 1 .. MaxPages
        BY PartsAssumption
      <3> QED BY <1>1, <3>1 DEF ListInv, ListTypes
    <2>2. during' \in [through : SUBSET AgentRows, ever : SUBSET AgentRows,
                       gone : SUBSET AgentRows, sent : SUBSET Pats]
      BY <1>1, <1>3 DEF ListInv, ListTypes
    <2> QED BY <1>1, <2>1, <2>2 DEF ListInv, ListTypes
  <1>6. /\ poll'.at = "page" /\ poll'.scopes = poll.scopes \ {s} /\ poll'.scope = s /\ poll'.page = 1
        /\ poll'.rows = poll.rows /\ poll'.target = poll.target
        /\ during'.through = during.through \cup now_ /\ during'.ever = during.ever \cup now_
        /\ during'.gone = during.gone /\ during'.sent = during.sent
    BY <1>1 DEF ListInv, ListTypes
  <1>7. ListedOf(s)' = {} /\ \A z : ListedOf(z)' = ListedOf(z)
    BY <1>1, <1>6 DEF ListedOf, RowsOf, ListInv, ScopesRead
  <1>8. (poll'.page - 1) * PerPage = 0
    BY <1>6, PartsAssumption
  <1>9. ASSUME NEW x \in during'.through \ poll'.rows
        PROVE  GoneBefore(x)' \/ PagesUsed(x)' \/ Behind(x)'
    <2>1. CASE x \in now_
      <3>1. x[1] = s /\ x[2] \in registered[s]
        BY <1>3, <2>1
      <3>2. G!Rank(x[2], registered[s]) > 0
        BY <1>2, <3>1, RankRises, FS_CardinalityType
      <3>3. G!Rank(x[2], registered[poll.scope])' = G!Rank(x[2], registered[s])
        BY <1>1, <1>6 DEF G!Rank
      <3> QED BY <1>6, <1>8, <3>1, <3>2, <3>3 DEF Behind
    <2>2. CASE x \notin now_
      <3>1. x \in during.through \ poll.rows
        BY <1>6, <1>9, <2>2
      <3>2. GoneBefore(x) \/ PagesUsed(x)
        BY <1>1, <3>1 DEF ListInv, ScopesRead, Behind
      <3>3. GoneBefore(x)' = GoneBefore(x) /\ PagesUsed(x)' = PagesUsed(x)
        BY <1>6, <1>7 DEF GoneBefore, PagesUsed
      <3> QED BY <3>2, <3>3
    <2> QED BY <2>1, <2>2
  <1>10. ScopesRead'
    <2>1. G!HasToken(poll.target)' = G!HasToken(poll.target)
      BY <1>1, <1>6 DEF G!HasToken, G!TokenFor
    <2>2. /\ \A x \in poll'.rows : x[1] \notin poll'.scopes /\ x[2] < fresh'
          /\ \A x \in during'.through : x[1] \notin poll'.scopes
      BY <1>1, <1>3, <1>6 DEF ListInv, ScopesRead
    <2>3. /\ G!HasToken(poll.target) /\ poll.target \in G!Targets
          /\ IsFiniteSet(poll.rows) /\ poll.rows \subseteq during.ever
      BY <1>1 DEF ListInv, ScopesRead
    <2> QED BY <1>6, <1>9, <2>1, <2>2, <2>3 DEF ScopesRead
  <1>11. PagesRead'
    <2>1. Cardinality(ListedOf(s)') = 0
      BY <1>7, FS_EmptySet
    <2>2. ListedOf(poll.scope)' = ListedOf(s)'
      BY <1>6 DEF ListedOf, RowsOf
    <2> QED BY <1>1, <1>4, <1>6, <1>7, <1>8, <2>1, <2>2 DEF PagesRead
  <1>12. /\ \A z \in G!Scopes : \A i \in registered'[z] : i < fresh'
         /\ \A x \in during'.through : x[2] \in registered'[x[1]]
         /\ outcome'.is # "Ok"
    BY <1>1, <1>3, <1>6 DEF ListInv
  <1>13. G!ListingHonest'
    BY <1>1, <1>6, <1>12 DEF ListInv, G!ListingHonest
  <1> QED BY <1>5, <1>10, <1>11, <1>12, <1>13 DEF ListInv

\* A reconcile of a target that comes to an end.
LEMMA FinishStep ==
  ASSUME ListInv, NEW result, G!Finish(result), UNCHANGED <<settings, here, registered, fresh>>,
         result.is = "Ok" => poll.at = "scope" /\ result.rows = poll.rows
  PROVE  ListInv'
  <1>1. /\ outcome' = result /\ poll' = [poll EXCEPT !.at = "target"] /\ during' = during
        /\ UNCHANGED <<settings, here, registered, fresh>>
    BY DEF G!Finish
  <1>2. ListTypes'
    BY <1>1 DEF ListInv, ListTypes
  <1>3. poll'.at = "target" /\ poll'.target = poll.target
    BY <1>1 DEF ListInv, ListTypes
  <1>4. ASSUME result.is = "Ok"
        PROVE  /\ result.rows \subseteq during.ever
               /\ \A x \in during.through \ result.rows :
                    \/ \E g \in during.gone : g[1] = x[1] /\ g[2] < x[2]
                    \/ G!Cardinality({y \in result.rows : y[1] = x[1]}) = MaxPages * PerPage
    <2>1. poll.at = "scope" /\ result.rows = poll.rows
      BY <1>4
    <2>2. /\ poll.rows \subseteq during.ever
          /\ \A x \in during.through \ poll.rows : GoneBefore(x) \/ PagesUsed(x)
      BY <2>1 DEF ListInv, ScopesRead, Behind
    <2>3. ASSUME NEW x, PagesUsed(x)
          PROVE  G!Cardinality({y \in poll.rows : y[1] = x[1]}) = MaxPages * PerPage
      BY <2>3, SameListCount DEF PagesUsed, ListedOf, RowsOf
    <2> QED BY <2>1, <2>2, <2>3 DEF GoneBefore
  <1>5. G!ListingHonest'
    <2>1. \A token \in during'.sent : token.host = poll'.target.host
      BY <1>1, <1>3 DEF ListInv, G!ListingHonest
    <2> QED BY <1>1, <1>4, <2>1 DEF G!ListingHonest
  <1> QED BY <1>1, <1>2, <1>3, <1>5 DEF ListInv, ScopesRead, PagesRead

LEMMA StopStep == ASSUME ListInv, G!Stop PROVE ListInv'
  <1>1. /\ poll.at = "target" /\ poll' = [poll EXCEPT !.left = {}]
        /\ UNCHANGED <<settings, here, registered, outcome, during, fresh>>
    BY DEF G!Stop
  <1>2. ListTypes' /\ poll'.at = "target" /\ poll'.target = poll.target
    BY <1>1 DEF ListInv, ListTypes
  <1>3. G!ListingHonest'
    BY <1>1, <1>2 DEF ListInv, G!ListingHonest
  <1> QED BY <1>1, <1>2, <1>3 DEF ListInv, ScopesRead, PagesRead

LEMMA PageStep == ASSUME ListInv, G!GetPage PROVE ListInv'
  <1> DEFINE s == poll.scope
             ids == registered[s]
             p == poll.page
             batch == G!Page(ids, p)
             new == {<<s, i>> : i \in batch}
             last == Cardinality(batch) < PerPage \/ p = MaxPages
             low == (p - 1) * PerPage
             most == MaxPages * PerPage
  <1>1. /\ poll.at = "page"
        /\ poll' = [poll EXCEPT !.rows = poll.rows \cup new, !.page = IF last THEN p ELSE p + 1,
                                !.at = IF last THEN "scope" ELSE "page"]
        /\ during' = [during EXCEPT !.sent = during.sent \cup {G!TokenFor(poll.target)}]
        /\ UNCHANGED <<settings, here, registered, outcome, fresh>>
    <2>1. last <=> G!Cardinality(batch) < PerPage \/ p = MaxPages
      BY SameListCount
    <2> HIDE DEF last
    <2> QED BY <2>1 DEF G!GetPage
  <1>2. /\ s \in G!Scopes \ poll.scopes /\ ids \in SUBSET AgentIds
        /\ ids \in SUBSET Nat /\ IsFiniteSet(ids) /\ p \in 1 .. MaxPages
    BY <1>1, ScopeIds DEF ListInv, ListTypes, PagesRead
  <1> HIDE DEF s, ids, p
  <1>3. /\ p \in Nat \ {0} /\ PerPage \in Nat \ {0} /\ MaxPages \in Nat \ {0} /\ p <= MaxPages
        /\ low \in Nat /\ p * PerPage = low + PerPage
        /\ p * PerPage <= most /\ low < most /\ most \in Nat
    <2>1. most \in Nat
      BY PartsAssumption
    <2> QED BY <1>2, <2>1, PagesCount
  <1>4. /\ batch \subseteq ids /\ IsFiniteSet(batch) /\ Cardinality(batch) \in 0 .. PerPage
        /\ \A k \in ids : G!Rank(k, ids) > low + PerPage => Cardinality(batch) = PerPage
    <2>1. p \in Nat \ {0}
      BY <1>3
    <2> QED BY <1>2, <1>3, <2>1, PageHolds
  <1>5. \A i \in ids : i \in batch <=> G!Rank(i, ids) > low /\ G!Rank(i, ids) <= low + PerPage
    <2>1. batch = {i \in ids : G!Rank(i, ids) \in low + 1 .. p * PerPage}
      BY DEF G!Page
    <2>2. \A i \in ids : G!Rank(i, ids) \in Nat
      BY <1>2, RankOf
    <2> HIDE DEF batch, low
    <2> QED BY <1>3, <2>1, <2>2
  <1>6. /\ \A x \in new : x[1] = s /\ x[2] \in batch
        /\ \A i \in batch : <<s, i>> \in new
        /\ new \in SUBSET AgentRows
    BY <1>2, <1>4 DEF AgentRows
  <1>7. IsFiniteSet(new) /\ Cardinality(new) = Cardinality(batch)
    <2> HIDE DEF batch
    <2> QED BY <1>4, RowsOfPage
  <1> HIDE DEF batch, new, low, most
  <1>8. /\ poll'.rows = poll.rows \cup new /\ poll'.scopes = poll.scopes /\ poll'.scope = s
        /\ poll'.page = (IF last THEN p ELSE p + 1) /\ poll'.at = (IF last THEN "scope" ELSE "page")
        /\ poll'.target = poll.target
        /\ during'.through = during.through /\ during'.ever = during.ever
        /\ during'.gone = during.gone
        /\ during'.sent = during.sent \cup {G!TokenFor(poll.target)}
    BY <1>1 DEF ListInv, ListTypes, s
  <1>9. /\ G!HasToken(poll.target) /\ poll.target \in G!Targets
        /\ IsFiniteSet(poll.rows) /\ poll.rows \subseteq during.ever
        /\ \A x \in poll.rows : x[1] \notin poll.scopes /\ x[2] < fresh
        /\ \A x \in during.through : x[1] \notin poll.scopes
        /\ \A x \in during.through \ poll.rows : GoneBefore(x) \/ PagesUsed(x) \/ Behind(x)
    BY <1>1 DEF ListInv, ScopesRead
  <1>10. /\ \A i \in ids : <<s, i>> \in during.ever
         /\ \A x \in ListedOf(s) : G!Rank(x[2], ids) <= low
         /\ Cardinality(ListedOf(s)) = low /\ IsFiniteSet(ListedOf(s))
    <2>1. IsFiniteSet(ListedOf(s))
      BY <1>9, FS_Subset DEF ListedOf, RowsOf
    <2> QED BY <1>1, <2>1 DEF ListInv, PagesRead, s, ids, p, low
  <1>11. /\ RowsOf(poll'.rows, s) = ListedOf(s) \cup new
         /\ \A z : z # s => RowsOf(poll'.rows, z) = ListedOf(z)
    BY <1>6, <1>8 DEF ListedOf, RowsOf
  <1>12. Cardinality(ListedOf(s) \cup new) = low + Cardinality(batch)
    <2>1. ListedOf(s) \cap new = {}
      <3>1. ASSUME NEW x \in ListedOf(s), x \in new PROVE FALSE
        <4>1. x[2] \in ids /\ G!Rank(x[2], ids) > low
          BY <1>4, <1>5, <1>6, <3>1
        <4>2. G!Rank(x[2], ids) <= low
          BY <1>10
        <4>3. G!Rank(x[2], ids) \in Nat
          BY <1>2, RankOf
        <4> QED BY <1>3, <4>1, <4>2, <4>3
      <3> QED BY <3>1
    <2>2. Cardinality({}) = 0
      BY FS_EmptySet
    <2>3. Cardinality(ListedOf(s) \cup new) =
            Cardinality(ListedOf(s)) + Cardinality(new) - Cardinality(ListedOf(s) \cap new)
      BY <1>7, <1>10, FS_Union
    <2>4. Cardinality(ListedOf(s) \cap new) = 0
      BY <2>1, <2>2
    <2>5. low \in Nat /\ Cardinality(batch) \in Nat
      BY <1>3, <1>4
    <2> HIDE DEF batch, new, low
    <2> QED BY <1>7, <1>10, <2>3, <2>4, <2>5
  <1>13. ListTypes'
    <2>1. (IF last THEN p ELSE p + 1) \in 1 .. MaxPages
      BY <1>2, <1>3 DEF last
    <2>2. G!TokenFor(poll.target) \in Pats
      BY <1>9, TokenStays
    <2>3. poll' \in [at : {"target", "scope", "page"}, left : SUBSET G!Targets,
                     scopes : SUBSET G!Scopes, target : G!Targets \cup {G!NoToken},
                     scope : G!Scopes \cup {G!NoScope}, page : 1 .. MaxPages,
                     rows : SUBSET AgentRows]
      <3> HIDE DEF last
      <3> QED BY <1>1, <1>6, <2>1 DEF ListInv, ListTypes
    <2>4. during' \in [through : SUBSET AgentRows, ever : SUBSET AgentRows,
                       gone : SUBSET AgentRows, sent : SUBSET Pats]
      BY <1>1, <2>2 DEF ListInv, ListTypes
    <2> QED BY <1>1, <2>3, <2>4 DEF ListInv, ListTypes
  <1>14. ASSUME NEW x \in during.through, x \notin poll'.rows
         PROVE  GoneBefore(x)' \/ PagesUsed(x)' \/ Behind(x)'
    <2>1. x \notin poll.rows /\ x \notin new
      BY <1>8, <1>14
    <2>2. GoneBefore(x)' = GoneBefore(x)
      BY <1>8 DEF GoneBefore
    <2>3. CASE PagesUsed(x)
      <3>1. x[1] # s
        BY <1>3, <1>10, <2>3 DEF PagesUsed, most
      <3>2. RowsOf(poll'.rows, x[1]) = ListedOf(x[1])
        BY <1>11, <3>1
      <3> QED BY <2>3, <3>2 DEF PagesUsed, ListedOf
    <2>4. CASE Behind(x)
      <3>1. x[1] = s /\ G!Rank(x[2], ids) > low /\ x[2] \in ids
        BY <2>4 DEF Behind, ListInv, s, ids, p, low
      <3>2. x \in AgentRows /\ x = <<x[1], x[2]>>
        BY DEF ListInv, ListTypes, AgentRows
      <3>3. x[2] \notin batch
        BY <1>6, <2>1, <3>1, <3>2
      <3>4. G!Rank(x[2], ids) > low + PerPage
        <4>1. G!Rank(x[2], ids) \in Nat
          BY <1>2, RankOf
        <4>2. ~(G!Rank(x[2], ids) <= low + PerPage)
          BY <1>5, <3>1, <3>3
        <4> HIDE DEF low
        <4> QED BY <1>3, <4>1, <4>2
      <3>5. Cardinality(batch) = PerPage
        BY <1>4, <3>1, <3>4
      <3>6. CASE last
        <4>1. p = MaxPages
          BY <1>3, <3>5, <3>6 DEF last
        <4>2. most = low + PerPage
          BY <1>3, <4>1 DEF most
        <4>3. Cardinality(RowsOf(poll'.rows, x[1])) = most
          BY <1>11, <1>12, <3>1, <3>5, <4>2
        <4> QED BY <4>3 DEF PagesUsed, ListedOf, most
      <3>7. CASE ~last
        <4>1. poll'.at = "page" /\ poll'.page = p + 1 /\ x[1] = poll'.scope
          BY <1>8, <3>1, <3>7
        <4>2. (poll'.page - 1) * PerPage = low + PerPage
          BY <1>3, <4>1
        <4>3. registered'[poll'.scope] = ids
          BY <1>1, <1>8 DEF ids
        <4>4. Behind(x)' <=> /\ poll'.at = "page" /\ x[1] = poll'.scope
                             /\ G!Rank(x[2], registered'[poll'.scope]) > (poll'.page - 1) * PerPage
          BY DEF Behind, G!Rank
        <4> QED BY <3>4, <4>1, <4>2, <4>3, <4>4
      <3> QED BY <3>6, <3>7
    <2> QED BY <1>9, <2>1, <2>2, <2>3, <2>4
  <1>15. ScopesRead'
    <2>1. G!HasToken(poll.target)' = G!HasToken(poll.target)
      BY <1>1, <1>8 DEF G!HasToken, G!TokenFor
    <2>2. IsFiniteSet(poll.rows \cup new)
      BY <1>7, <1>9, FS_Union
    <2>3. \A x \in new : x \in during.ever /\ x[1] \notin poll.scopes /\ x[2] < fresh
      <3>1. \A i \in ids : i < fresh
        BY <1>2 DEF ListInv, ids
      <3>2. \A x \in new : x = <<s, x[2]>>
        BY DEF new
      <3> QED BY <1>2, <1>4, <1>6, <1>10, <3>1, <3>2
    <2> QED BY <1>1, <1>8, <1>9, <1>14, <2>1, <2>2, <2>3 DEF ScopesRead
  <1>16. PagesRead'
    <2> SUFFICES ASSUME ~last PROVE PagesRead'
      BY <1>8 DEF PagesRead
    <2>1. Cardinality(batch) = PerPage
      BY <1>3, <1>4 DEF last
    <2>2. poll'.scope = s /\ registered'[poll'.scope] = ids /\ (poll'.page - 1) * PerPage = low + PerPage
      BY <1>1, <1>3, <1>8 DEF ids
    <2>3. \A x \in ListedOf(s) \cup new : G!Rank(x[2], ids) <= low + PerPage
      <3>1. ASSUME NEW x \in ListedOf(s) PROVE G!Rank(x[2], ids) <= low + PerPage
        <4>1. G!Rank(x[2], ids) \in Nat
          BY <1>2, RankOf
        <4> QED BY <1>3, <1>10, <4>1
      <3> QED BY <1>4, <1>5, <1>6, <3>1
    <2>4. PagesRead' <=>
            \/ poll'.at # "page"
            \/ /\ poll'.scope \in G!Scopes \ poll'.scopes
               /\ \A i \in registered'[poll'.scope] : <<poll'.scope, i>> \in during'.ever
               /\ \A x \in RowsOf(poll'.rows, poll'.scope) :
                    G!Rank(x[2], registered'[poll'.scope]) <= (poll'.page - 1) * PerPage
               /\ Cardinality(RowsOf(poll'.rows, poll'.scope)) = (poll'.page - 1) * PerPage
      BY DEF PagesRead, ListedOf, G!Rank
    <2> QED BY <1>2, <1>8, <1>10, <1>11, <1>12, <2>1, <2>2, <2>3, <2>4
  <1>17. /\ \A z \in G!Scopes : \A i \in registered'[z] : i < fresh'
         /\ \A x \in during'.through : x[2] \in registered'[x[1]]
         /\ outcome'.is # "Ok"
    BY <1>1, <1>8 DEF ListInv
  <1>18. G!ListingHonest'
    <2>1. G!TokenFor(poll.target).host = poll.target.host
      BY <1>9, TokenStays
    <2> QED BY <1>8, <1>17, <2>1 DEF ListInv, G!ListingHonest
  <1> QED BY <1>13, <1>15, <1>16, <1>17, <1>18 DEF ListInv

LEMMA RegisterStep == ASSUME ListInv, NEW s \in G!Scopes, G!Register(s) PROVE ListInv'
  <1>1. PICK i \in AgentIds :
          /\ i >= fresh /\ fresh' = i + 1
          /\ registered' = [registered EXCEPT ![s] = registered[s] \cup {i}]
          /\ during' = [during EXCEPT !.ever = IF poll.scope = s THEN during.ever \cup {<<s, i>>}
                                                ELSE during.ever]
    BY DEF G!Register
  <1>2. UNCHANGED <<settings, here, poll, outcome>>
    BY DEF G!Register
  <1>3. i \in Nat /\ fresh \in Nat /\ fresh <= i /\ <<s, i>> \in AgentRows
    BY <1>1, PartsAssumption DEF ListInv, ListTypes, AgentRows
  <1>4. /\ during'.through = during.through /\ during'.gone = during.gone /\ during'.sent = during.sent
        /\ during'.ever = IF poll.scope = s THEN during.ever \cup {<<s, i>>} ELSE during.ever
        /\ during.ever \subseteq during'.ever
    BY <1>1 DEF ListInv, ListTypes
  <1>5. ListTypes'
    <2>1. during' \in [through : SUBSET AgentRows, ever : SUBSET AgentRows,
                       gone : SUBSET AgentRows, sent : SUBSET Pats]
      BY <1>1, <1>3 DEF ListInv, ListTypes
    <2>2. registered' \in [G!Scopes -> SUBSET AgentIds] /\ fresh' \in Nat
      BY <1>1, <1>3 DEF ListInv, ListTypes
    <2> QED BY <1>2, <2>1, <2>2 DEF ListInv, ListTypes
  <1>6. \A z \in G!Scopes : registered'[z] = IF z = s THEN registered[s] \cup {i} ELSE registered[z]
    BY <1>1 DEF ListInv, ListTypes
  <1>7. \A z \in G!Scopes : \A k \in registered'[z] : k < fresh'
    <2>1. \A z \in G!Scopes : \A k \in registered[z] : k < fresh /\ k \in Nat
      BY ScopeIds DEF ListInv
    <2> QED BY <1>1, <1>3, <1>6, <2>1
  <1>8. \A x \in during'.through : x[2] \in registered'[x[1]] /\ x[2] < fresh /\ x[2] \in Nat
    <2>1. ASSUME NEW x \in during.through
          PROVE  x[1] \in G!Scopes /\ x[2] \in registered[x[1]] /\ x[2] < fresh /\ x[2] \in Nat
      <3>1. x \in AgentRows
        BY DEF ListInv, ListTypes
      <3>2. x[1] \in G!Scopes /\ x[2] \in Nat
        BY <3>1, PartsAssumption DEF AgentRows
      <3> QED BY <3>2 DEF ListInv
    <2> QED BY <1>4, <1>6, <2>1
  <1>9. ASSUME NEW z \in G!Scopes, NEW k \in Nat, k < fresh
        PROVE  G!Rank(k, registered'[z]) = G!Rank(k, registered[z])
    <2>1. registered[z] \in SUBSET Nat /\ IsFiniteSet(registered[z])
      BY ScopeIds DEF ListInv
    <2>2. k < i
      BY <1>3, <1>9
    <2>3. G!Rank(k, registered[z] \cup {i}) = G!Rank(k, registered[z])
      BY <1>3, <2>1, <2>2, RankKept
    <2> QED BY <1>6, <2>3
  <1>10. \A x \in poll.rows : x[2] \in Nat
    BY PartsAssumption DEF ListInv, ListTypes, AgentRows
  <1>11. ScopesRead'
    <2> SUFFICES ASSUME poll.at \in {"scope", "page"} PROVE ScopesRead'
      BY <1>2 DEF ScopesRead
    <2>1. /\ G!HasToken(poll.target) /\ poll.target \in G!Targets
          /\ IsFiniteSet(poll.rows) /\ poll.rows \subseteq during'.ever
          /\ \A x \in during'.through : x[1] \notin poll.scopes
      BY <1>4 DEF ListInv, ScopesRead
    <2>2. \A x \in poll.rows : x[1] \notin poll.scopes /\ x[2] < fresh'
      BY <1>1, <1>3, <1>10 DEF ListInv, ScopesRead
    <2>3. G!HasToken(poll.target)' = G!HasToken(poll.target)
      BY <1>2 DEF G!HasToken, G!TokenFor
    <2>4. ASSUME NEW x \in during'.through \ poll.rows
          PROVE  GoneBefore(x)' \/ PagesUsed(x)' \/ Behind(x)'
      <3>1. GoneBefore(x) \/ PagesUsed(x) \/ Behind(x)
        BY <1>4, <2>4 DEF ListInv, ScopesRead
      <3>2. (GoneBefore(x)' <=> GoneBefore(x)) /\ (PagesUsed(x)' <=> PagesUsed(x))
        BY <1>2, <1>4 DEF GoneBefore, PagesUsed, ListedOf
      <3>3. ASSUME Behind(x) PROVE Behind(x)'
        <4>1. poll.at = "page" /\ x[1] = poll.scope /\ poll.scope \in G!Scopes
          BY <3>3 DEF Behind, ListInv, PagesRead
        <4>2. G!Rank(x[2], registered'[poll.scope]) = G!Rank(x[2], registered[poll.scope])
          BY <1>8, <1>9, <4>1
        <4>3. Behind(x)' <=> /\ poll'.at = "page" /\ x[1] = poll'.scope
                             /\ G!Rank(x[2], registered'[poll'.scope]) > (poll'.page - 1) * PerPage
          BY DEF Behind, G!Rank
        <4> QED BY <1>2, <3>3, <4>2, <4>3 DEF Behind
      <3> QED BY <3>1, <3>2, <3>3
    <2> QED BY <1>2, <2>1, <2>2, <2>3, <2>4 DEF ScopesRead
  <1>12. PagesRead'
    <2> SUFFICES ASSUME poll.at = "page" PROVE PagesRead'
      BY <1>2 DEF PagesRead
    <2>1. /\ poll.scope \in G!Scopes \ poll.scopes
          /\ \A k \in registered[poll.scope] : <<poll.scope, k>> \in during.ever
          /\ \A x \in ListedOf(poll.scope) :
               G!Rank(x[2], registered[poll.scope]) <= (poll.page - 1) * PerPage
          /\ Cardinality(ListedOf(poll.scope)) = (poll.page - 1) * PerPage
      BY DEF ListInv, PagesRead
    <2>2. \A x \in ListedOf(poll.scope) :
            G!Rank(x[2], registered'[poll.scope]) = G!Rank(x[2], registered[poll.scope])
      <3>1. \A x \in ListedOf(poll.scope) : x[2] \in Nat /\ x[2] < fresh
        BY <1>10 DEF ListInv, ScopesRead, ListedOf, RowsOf
      <3> QED BY <1>9, <2>1, <3>1
    <2>3. \A k \in registered'[poll.scope] : <<poll.scope, k>> \in during'.ever
      BY <1>4, <1>6, <2>1
    <2>4. PagesRead' <=>
            \/ poll'.at # "page"
            \/ /\ poll'.scope \in G!Scopes \ poll'.scopes
               /\ \A k \in registered'[poll'.scope] : <<poll'.scope, k>> \in during'.ever
               /\ \A x \in RowsOf(poll'.rows, poll'.scope) :
                    G!Rank(x[2], registered'[poll'.scope]) <= (poll'.page - 1) * PerPage
               /\ Cardinality(RowsOf(poll'.rows, poll'.scope)) = (poll'.page - 1) * PerPage
      BY DEF PagesRead, ListedOf, G!Rank
    <2> QED BY <1>2, <2>1, <2>2, <2>3, <2>4 DEF ListedOf
  <1>13. G!ListingHonest'
    BY <1>2, <1>4 DEF ListInv, G!ListingHonest
  <1> QED BY <1>2, <1>5, <1>7, <1>8, <1>11, <1>12, <1>13 DEF ListInv

LEMMA UnregisterStep ==
  ASSUME ListInv, NEW s \in G!Scopes, NEW i \in AgentIds, G!Unregister(s, i) PROVE ListInv'
  <1>1. /\ i \in registered[s] /\ registered' = [registered EXCEPT ![s] = registered[s] \ {i}]
        /\ during' = [during EXCEPT !.through = during.through \ {<<s, i>>},
                                    !.gone = IF poll.scope = s THEN during.gone \cup {<<s, i>>}
                                             ELSE during.gone]
        /\ UNCHANGED <<settings, here, poll, outcome, fresh>>
    BY DEF G!Unregister
  <1>2. i \in Nat /\ <<s, i>> \in AgentRows
    BY PartsAssumption DEF AgentRows
  <1>3. /\ during'.through = during.through \ {<<s, i>>} /\ during'.ever = during.ever
        /\ during'.gone = IF poll.scope = s THEN during.gone \cup {<<s, i>>} ELSE during.gone
        /\ during.gone \subseteq during'.gone /\ during'.sent = during.sent
    BY <1>1 DEF ListInv, ListTypes
  <1>4. ListTypes'
    <2>1. during' \in [through : SUBSET AgentRows, ever : SUBSET AgentRows,
                       gone : SUBSET AgentRows, sent : SUBSET Pats]
      BY <1>1, <1>2 DEF ListInv, ListTypes
    <2>2. registered' \in [G!Scopes -> SUBSET AgentIds]
      BY <1>1 DEF ListInv, ListTypes
    <2> QED BY <1>1, <2>1, <2>2 DEF ListInv, ListTypes
  <1>5. \A z \in G!Scopes : registered'[z] = IF z = s THEN registered[s] \ {i} ELSE registered[z]
    BY <1>1 DEF ListInv, ListTypes
  <1>6. \A z \in G!Scopes : \A k \in registered'[z] : k \in registered[z] /\ k < fresh'
    BY <1>1, <1>5 DEF ListInv
  <1>7. ASSUME NEW x \in during'.through
        PROVE  /\ x \in during.through /\ x # <<s, i>> /\ x = <<x[1], x[2]>> /\ x[1] \in G!Scopes
               /\ x[2] \in Nat /\ x[2] \in registered'[x[1]]
    <2>1. x \in during.through /\ x # <<s, i>> /\ x \in AgentRows
      BY <1>3, <1>7 DEF ListInv, ListTypes
    <2>2. x = <<x[1], x[2]>> /\ x[1] \in G!Scopes /\ x[2] \in Nat
      <3>1. x = <<x[1], x[2]>> /\ x[1] \in G!Scopes /\ x[2] \in AgentIds
        BY <2>1 DEF AgentRows
      <3> QED BY <3>1, PartsAssumption
    <2>3. x[2] \in registered[x[1]]
      BY <2>1 DEF ListInv
    <2> QED BY <1>5, <2>1, <2>2, <2>3
  <1>8. ASSUME NEW z \in G!Scopes, NEW k \in Nat
        PROVE  /\ G!Rank(k, registered'[z]) <= G!Rank(k, registered[z])
               /\ G!Rank(k, registered'[z]) # G!Rank(k, registered[z]) => z = s /\ i <= k
               /\ G!Rank(k, registered'[z]) \in Nat /\ G!Rank(k, registered[z]) \in Nat
    <2>1. /\ registered[z] \in SUBSET Nat /\ IsFiniteSet(registered[z])
          /\ registered'[z] \in SUBSET Nat /\ IsFiniteSet(registered'[z])
      <3>1. registered[z] \in SUBSET Nat /\ IsFiniteSet(registered[z])
        BY ScopeIds DEF ListInv
      <3>2. registered'[z] \in SUBSET registered[z]
        BY <1>6
      <3> QED BY <3>1, <3>2, FS_Subset
    <2>2. /\ k < i => G!Rank(k, registered[z] \ {i}) = G!Rank(k, registered[z])
          /\ G!Rank(k, registered[z] \ {i}) <= G!Rank(k, registered[z])
      BY <1>2, <2>1, RankKept
    <2>3. G!Rank(k, registered'[z]) \in Nat /\ G!Rank(k, registered[z]) \in Nat
      BY <2>1, RankOf
    <2>4. ~ (k < i) => i <= k
      BY <1>2
    <2> QED BY <1>5, <2>2, <2>3, <2>4
  <1>9. \A x \in poll.rows : x[2] \in Nat
    BY PartsAssumption DEF ListInv, ListTypes, AgentRows
  <1>10. ScopesRead'
    <2> SUFFICES ASSUME poll.at \in {"scope", "page"} PROVE ScopesRead'
      BY <1>1 DEF ScopesRead
    <2>1. /\ G!HasToken(poll.target) /\ poll.target \in G!Targets
          /\ IsFiniteSet(poll.rows) /\ poll.rows \subseteq during'.ever
          /\ \A x \in during'.through : x[1] \notin poll.scopes
          /\ \A x \in poll.rows : x[1] \notin poll.scopes /\ x[2] < fresh'
      BY <1>1, <1>3 DEF ListInv, ScopesRead
    <2>2. G!HasToken(poll.target)' = G!HasToken(poll.target)
      BY <1>1 DEF G!HasToken, G!TokenFor
    <2>3. ASSUME NEW x \in during'.through \ poll.rows
          PROVE  GoneBefore(x)' \/ PagesUsed(x)' \/ Behind(x)'
      <3>1. GoneBefore(x) \/ PagesUsed(x) \/ Behind(x)
        BY <1>7, <2>3 DEF ListInv, ScopesRead
      <3>2. (GoneBefore(x) => GoneBefore(x)') /\ (PagesUsed(x)' <=> PagesUsed(x))
        BY <1>1, <1>3 DEF GoneBefore, PagesUsed, ListedOf
      <3>3. ASSUME Behind(x) PROVE GoneBefore(x)' \/ Behind(x)'
        <4>1. poll.at = "page" /\ x[1] = poll.scope /\ poll.scope \in G!Scopes
          BY <3>3 DEF Behind, ListInv, PagesRead
        <4>2. CASE G!Rank(x[2], registered'[poll.scope]) = G!Rank(x[2], registered[poll.scope])
          <5>1. Behind(x)' <=> /\ poll'.at = "page" /\ x[1] = poll'.scope
                               /\ G!Rank(x[2], registered'[poll'.scope]) > (poll'.page - 1) * PerPage
            BY DEF Behind, G!Rank
          <5> QED BY <1>1, <3>3, <4>2, <5>1 DEF Behind
        <4>3. CASE G!Rank(x[2], registered'[poll.scope]) # G!Rank(x[2], registered[poll.scope])
          <5>1. poll.scope = s /\ i <= x[2]
            BY <1>7, <1>8, <4>1, <4>3
          <5>2. i # x[2]
            BY <1>7, <4>1, <5>1
          <5>3. <<s, i>> \in during'.gone /\ i < x[2]
            BY <1>2, <1>3, <1>7, <5>1, <5>2
          <5> QED BY <4>1, <5>1, <5>3 DEF GoneBefore
        <4> QED BY <4>2, <4>3
      <3> QED BY <3>1, <3>2, <3>3
    <2> QED BY <1>1, <2>1, <2>2, <2>3 DEF ScopesRead
  <1>11. PagesRead'
    <2> SUFFICES ASSUME poll.at = "page" PROVE PagesRead'
      BY <1>1 DEF PagesRead
    <2> DEFINE low == (poll.page - 1) * PerPage
    <2>1. /\ poll.scope \in G!Scopes \ poll.scopes
          /\ \A k \in registered[poll.scope] : <<poll.scope, k>> \in during.ever
          /\ \A x \in ListedOf(poll.scope) : G!Rank(x[2], registered[poll.scope]) <= low
          /\ Cardinality(ListedOf(poll.scope)) = low
      BY DEF ListInv, PagesRead
    <2>2. low \in Nat
      BY PagesCount DEF ListInv, ListTypes
    <2> HIDE DEF low
    <2>3. \A x \in ListedOf(poll.scope) : G!Rank(x[2], registered'[poll.scope]) <= low
      <3>1. ASSUME NEW x \in ListedOf(poll.scope) PROVE G!Rank(x[2], registered'[poll.scope]) <= low
        <4>1. x[2] \in Nat
          BY <1>9 DEF ListedOf, RowsOf
        <4> QED BY <1>8, <2>1, <2>2, <4>1
      <3> QED BY <3>1
    <2>4. \A k \in registered'[poll.scope] : <<poll.scope, k>> \in during'.ever
      BY <1>3, <1>6, <2>1
    <2>5. PagesRead' <=>
            \/ poll'.at # "page"
            \/ /\ poll'.scope \in G!Scopes \ poll'.scopes
               /\ \A k \in registered'[poll'.scope] : <<poll'.scope, k>> \in during'.ever
               /\ \A x \in RowsOf(poll'.rows, poll'.scope) :
                    G!Rank(x[2], registered'[poll'.scope]) <= (poll'.page - 1) * PerPage
               /\ Cardinality(RowsOf(poll'.rows, poll'.scope)) = (poll'.page - 1) * PerPage
      BY DEF PagesRead, ListedOf, G!Rank
    <2> QED BY <1>1, <2>1, <2>3, <2>4, <2>5 DEF ListedOf, low
  <1>12. G!ListingHonest'
    BY <1>1, <1>3 DEF ListInv, G!ListingHonest
  <1> QED BY <1>1, <1>4, <1>6, <1>7, <1>10, <1>11, <1>12 DEF ListInv

LEMMA ListNext == ListInv /\ G!Next => ListInv'
  <1> SUFFICES ASSUME ListInv, G!Next PROVE ListInv'
    OBVIOUS
  <1>1. ASSUME NEW t \in G!Targets, G!NextTarget(t) PROVE ListInv'
    BY <1>1, TargetStep
  <1>2. ASSUME NEW s \in G!Scopes, G!NextScope(s) \/ G!Register(s) PROVE ListInv'
    BY <1>2, ScopeStep, RegisterStep
  <1>3. ASSUME G!GetPage \/ G!Stop PROVE ListInv'
    BY <1>3, PageStep, StopStep
  <1>4. ASSUME G!Listed PROVE ListInv'
    BY <1>4, FinishStep DEF G!Listed
  <1>5. ASSUME NEW kind \in G!Failures, G!PageFails(kind) PROVE ListInv'
    <2>1. kind # "Ok"
      BY DEF G!Failures, G!KindOf
    <2>2. G!Finish([is |-> kind, rows |-> {}]) /\ UNCHANGED <<settings, here, registered, fresh>>
      BY <1>5 DEF G!PageFails
    <2> QED BY <2>1, <2>2, FinishStep
  <1>6. ASSUME NEW s \in G!Scopes, NEW i \in AgentIds, G!Unregister(s, i) PROVE ListInv'
    BY <1>6, UnregisterStep
  <1> QED BY <1>1, <1>2, <1>3, <1>4, <1>5, <1>6 DEF G!Next

LEMMA ListRests == ListInv /\ UNCHANGED listVars => ListInv'
  <1> SUFFICES ASSUME ListInv, UNCHANGED listVars PROVE ListInv'
    OBVIOUS
  <1> USE DEF listVars
  <1>1. ListTypes'
    BY DEF ListInv, ListTypes
  <1>2. \A x : (GoneBefore(x)' <=> GoneBefore(x)) /\ (PagesUsed(x)' <=> PagesUsed(x))
    BY DEF GoneBefore, PagesUsed, ListedOf, RowsOf
  <1>3. \A x : Behind(x)' <=> Behind(x)
    BY DEF Behind, G!Rank
  <1>4. ScopesRead'
    BY <1>2, <1>3 DEF ListInv, ScopesRead, G!HasToken, G!TokenFor
  <1>5. PagesRead'
    BY DEF ListInv, PagesRead, ListedOf, RowsOf, G!Rank
  <1>6. G!ListingHonest'
    BY DEF ListInv, G!ListingHonest
  <1> QED BY <1>1, <1>4, <1>5, <1>6 DEF ListInv

-----------------------------------------------------------------------------
(* Types. *)

\* No command is started once the bound is reached.
SetupTypes == spent \in 0 .. MaxCommands

LEMMA SetupTypesNext == SetupTypes /\ S!Next => SetupTypes'
  <1> SUFFICES ASSUME SetupTypes, S!Next PROVE SetupTypes'
    OBVIOUS
  <1>1. spent' = spent \/ (spent < MaxCommands /\ spent' = spent + 1)
    <2>1. ASSUME NEW s \in Units, s = cmd.scope,
                 \/ S!Copy(s) \/ S!Rename(s) \/ S!WriteUnit(s) \/ S!Enable(s) \/ S!Restart(s)
                 \/ S!RemoveService(s) \/ S!RemoveBinary(s) \/ S!RemoveFiles(s)
          PROVE  spent' = spent
      BY <2>1 DEF S!Copy, S!Rename, S!WriteUnit, S!Enable, S!Restart, S!RemoveService,
                  S!RemoveBinary, S!RemoveFiles
    <2>2. CASE \E s \in Units, v \in Versions, top \in BOOLEAN : S!Install(s, v, top)
      BY <2>2 DEF S!Install
    <2>3. CASE \E s \in Units, ds \in SUBSET S!Domains, yes, top \in BOOLEAN :
                 S!Uninstall(s, ds, yes, top)
      BY <2>3 DEF S!Uninstall
    <2>4. CASE S!Fail \/ S!Killed \/ \E yes \in BOOLEAN : S!Answer(yes)
      BY <2>4 DEF S!Fail, S!Killed, S!Answer
    <2>5. CASE \E s \in Units : S!Boot(s) \/ S!Dies(s)
      BY <2>5 DEF S!Boot, S!Dies
    <2> QED BY <2>1, <2>2, <2>3, <2>4, <2>5 DEF S!Next
  <1> QED BY <1>1, BoundsAssumption DEF SetupTypes

\* A PAT is planned for once: what is left to ask is neither set nor removed.
ConfigTypes ==
  /\ edits \in 0 .. MaxEdits
  /\ wizard.set \cap wizard.remove = {}
  /\ (wizard.set \cup wizard.remove) \cap wizard.left = {}
  /\ wizard.at \in {"start", "roots"} => wizard.set = {} /\ wizard.remove = {}

LEMMA ConfigTypesNext == ConfigInv /\ ConfigTypes /\ C!Next => ConfigTypes'
  <1> SUFFICES ASSUME ConfigInv, ConfigTypes, C!Next PROVE ConfigTypes'
    OBVIOUS
  <1>1. ASSUME NEW ok \in BOOLEAN, C!Proceed(ok) PROVE ConfigTypes'
    BY <1>1 DEF C!Proceed, C!Goto, ConfigTypes, ConfigInv, Wizards
  <1>2. ASSUME NEW ok \in BOOLEAN, C!ReadExisting(ok) PROVE ConfigTypes'
    BY <1>2 DEF C!ReadExisting, ConfigTypes, ConfigInv, Wizards
  <1>3. ASSUME NEW o \in Owners, C!AskToken(o) PROVE ConfigTypes'
    <2>1. PICK choice \in {"keep", "set", "remove"}, valid \in BOOLEAN :
            wizard' = [wizard EXCEPT
              !.left = @ \ {o},
              !.set = IF choice = "set" /\ valid THEN @ \cup {o} ELSE @,
              !.asked = IF choice = "set" /\ valid THEN @ \cup {o} ELSE @,
              !.remove = IF choice = "remove" THEN @ \cup {o} ELSE @]
      BY <1>3 DEF C!AskToken
    <2>2. /\ wizard'.left = wizard.left \ {o} /\ wizard'.at = "tokens"
          /\ wizard'.set = IF choice = "set" /\ valid THEN wizard.set \cup {o} ELSE wizard.set
          /\ wizard'.remove = IF choice = "remove" THEN wizard.remove \cup {o} ELSE wizard.remove
      BY <1>3, <2>1 DEF C!AskToken, ConfigInv, Wizards
    <2>3. o \in wizard.left /\ edits' = edits
      BY <1>3 DEF C!AskToken
    <2>4. choice = "set" => choice # "remove"
      OBVIOUS
    <2> QED BY <2>2, <2>3, <2>4 DEF ConfigTypes
  <1>4. ASSUME NEW o \in Owners, C!SetToken(o) \/ C!RemoveToken(o) PROVE ConfigTypes'
    BY <1>4 DEF C!SetToken, C!RemoveToken, ConfigTypes, ConfigInv, Wizards
  <1>5. ASSUME NEW manage \in BOOLEAN, NEW on \in BOOLEAN, NEW apply \in BOOLEAN,
               C!Confirm(manage, on, apply)
        PROVE  ConfigTypes'
    BY <1>5 DEF C!Confirm, ConfigTypes, ConfigInv, Wizards
  <1>6. CASE C!SetRoots \/ C!SetPull \/ C!Fails
    BY <1>6 DEF C!SetRoots, C!SetPull, C!Fails, C!Goto, ConfigTypes, ConfigInv, Wizards
  <1>7. CASE C!Other
    BY <1>7, BoundsAssumption DEF C!Other, ConfigTypes
  <1> QED BY <1>1, <1>2, <1>3, <1>4, <1>5, <1>6, <1>7 DEF C!Next

LEMMA SetupTyped == SetupInv /\ SetupTypes => S!TypeOK
  BY DEF SetupInv, SetupTypes, S!TypeOK

LEMMA ConfigTyped == ConfigInv /\ ConfigTypes => C!TypeOK
  BY DEF ConfigInv, ConfigTypes, C!TypeOK, Wizards

LEMMA TypesInit ==
  /\ S!Init => SetupTypes
  /\ C!Init => ConfigTypes
  BY BoundsAssumption DEF S!Init, SetupTypes, C!Init, C!Idle, ConfigTypes

\* A reply is one of the words of the protocol, whoever sent it.
Words == [id : L!Ids, word : {"rows", "mutated", "denied", "error"}]

LEMMA LinkTyped ==
  L!TypeOK <=>
    /\ server \in [L!Scopes -> {"absent", "denied", "broken", "drifted", "up"}]
    /\ link \in L!Scopes \cup {Nil} /\ reason \in L!Reasons
    /\ doing \in {"idle", "system", "user", "wait", "direct"}
    /\ request \in [id : L!Ids, kind : {"query", "set"}, value : BOOLEAN]
    /\ inbox \in SUBSET L!Requests /\ replies \in Seq(Words)
    /\ pull \in BOOLEAN /\ mirror \in BOOLEAN /\ answered \in BOOLEAN /\ disturbed \in BOOLEAN
    /\ may \in [read : BOOLEAN, write : BOOLEAN, ask : BOOLEAN]
    /\ changes \in 0 .. MaxChanges
  BY DEF L!TypeOK, Words

LEMMA LinkTypesInit == L!Init => L!TypeOK
  <1> SUFFICES ASSUME L!Init PROVE L!TypeOK
    OBVIOUS
  <1>1. mirror \in BOOLEAN /\ disturbed \in BOOLEAN
    BY DEF L!Init
  <1> QED BY <1>1, LinkTyped, BoundsAssumption DEF L!Init, L!Scopes, L!Reasons, L!Ids

\* What the handling of a request leaves to the client.
LEMMA HandlingTypes == ASSUME L!TypeOK, NEW q \in inbox, L!Handle(q) PROVE L!TypeOK'
  <1> USE LinkTyped
  <1>1. q \in L!Requests
    OBVIOUS
  <1>2. replies' \in Seq(Words)
    <2>1. \A word \in {"rows", "mutated", "denied", "error"} :
            Append(replies, [id |-> q.id, word |-> word]) \in Seq(Words)
      <3>1. SUFFICES ASSUME NEW word \in {"rows", "mutated", "denied", "error"}
                     PROVE  [id |-> q.id, word |-> word] \in Words
        OBVIOUS
      <3> QED BY <1>1 DEF Words, L!Requests
    <2>2. \E word \in {"rows", "mutated", "denied", "error"} :
            replies' = IF q.open THEN Append(replies, [id |-> q.id, word |-> word]) ELSE replies
      BY DEF L!Handle
    <2> QED BY <2>1, <2>2
  <1>3. pull' \in BOOLEAN /\ disturbed' \in BOOLEAN
    BY <1>1 DEF L!Handle, L!Requests
  <1>4. inbox' \in SUBSET L!Requests
    BY DEF L!Handle
  <1>5. UNCHANGED <<server, changes, link, reason, doing, request, mirror, may, answered>>
    BY DEF L!Handle, L!world
  <1>6. L!TypeOK'
    BY <1>2, <1>3, <1>4, <1>5 DEF L!TypeOK, Words
  <1> QED BY <1>6

LEMMA LinkTypesNext == LinkInv /\ L!TypeOK /\ L!Next => L!TypeOK'
  <1> SUFFICES ASSUME LinkInv, L!TypeOK, L!Next PROVE L!TypeOK'
    OBVIOUS
  <1> USE LinkTyped DEF L!world
  <1>1. CASE L!Refresh
    BY <1>1 DEF L!Refresh, L!TypeOK, L!Reasons
  <1>2. ASSUME NEW s \in L!Scopes, L!Probe(s) PROVE L!TypeOK'
    BY <1>2 DEF L!Probe, L!TypeOK, L!Reasons, L!Scopes
  <1>3. ASSUME NEW kind \in {"query", "set"}, NEW value \in BOOLEAN, L!Ask(kind, value)
        PROVE  L!TypeOK'
    <2>1. request' = [id |-> 1 - request.id, kind |-> kind, value |-> value]
      BY <1>3 DEF L!Ask
    <2>2. request.id \in L!Ids
      OBVIOUS
    <2>3. request' \in [id : L!Ids, kind : {"query", "set"}, value : BOOLEAN]
      BY <2>1, <2>2, IdsFlip
    <2>4. CASE link = Nil
      BY <1>3, <2>3, <2>4 DEF L!Ask, L!TypeOK
    <2>5. CASE link # Nil
      <3>1. [id |-> request'.id, kind |-> kind, value |-> value, open |-> TRUE, at |-> link]
              \in L!Requests
        BY <2>3, <2>5 DEF L!Requests
      <3> QED BY <1>3, <2>3, <2>5, <3>1 DEF L!Ask, L!TypeOK
    <2> QED BY <2>4, <2>5
  <1>4. CASE L!AskQuery \/ L!Toggle
    BY <1>3, <1>4 DEF L!AskQuery, L!Toggle
  <1>5. CASE L!Receive
    <2>1. Tail(replies) \in Seq(Words) /\ (Head(replies).id = request.id) \in BOOLEAN
      BY <1>5 DEF L!Receive
    <2> QED BY <1>5, <2>1 DEF L!Receive, L!TypeOK, Words
  <1>6. CASE L!GiveUp
    <2>1. inbox' \in SUBSET L!Requests
      <3>1. inbox' = {[q EXCEPT !.open = FALSE] : q \in inbox}
        BY <1>6 DEF L!GiveUp, L!Dropped
      <3>2. \A q \in inbox : [q EXCEPT !.open = FALSE] \in L!Requests
        <4>1. SUFFICES ASSUME NEW q \in L!Requests PROVE [q EXCEPT !.open = FALSE] \in L!Requests
          OBVIOUS
        <4> QED BY DEF L!Requests
      <3> HIDE LinkTyped
      <3> QED BY <3>1, <3>2
    <2>2. <<>> \in Seq(Words) /\ disturbed' \in BOOLEAN
      BY <1>6 DEF L!GiveUp
    <2> QED BY <1>6, <2>1, <2>2 DEF L!GiveUp, L!Dropped, L!TypeOK, L!Reasons, Words
  <1>7. CASE L!Direct \/ L!Reload
    BY <1>7 DEF L!Direct, L!Reload, L!TypeOK
  <1>8. ASSUME NEW s \in L!Scopes, L!ServerChanges(s) PROVE L!TypeOK'
    <2>1. /\ server' \in [L!Scopes -> {"absent", "denied", "broken", "drifted", "up"}]
          /\ inbox' \in SUBSET L!Requests /\ replies' \in Seq(Words)
          /\ changes' \in 0 .. MaxChanges
      BY <1>8, BoundsAssumption DEF L!ServerChanges
    <2> QED BY <1>8, <2>1 DEF L!ServerChanges, L!TypeOK, Words
  <1>9. CASE L!OthersEdit
    BY <1>9, BoundsAssumption DEF L!OthersEdit, L!TypeOK
  <1> QED BY <1>1, <1>2, <1>4, <1>5, <1>6, <1>7, <1>8, <1>9, HandlingTypes DEF L!Next

\* The rows of the table are the dirs shown, in their order.
LEMMA SameRowCount == \A set : T!Cardinality(set) = Cardinality(set)
  BY DEF T!Cardinality, Cardinality

LEMMA Shown ==
  ASSUME NEW f
  PROVE  /\ T!Present(f) \in SUBSET T!Dirs /\ T!Dirs \subseteq Nat
         /\ IsFiniteSet(T!Present(f)) /\ Cardinality(T!Present(f)) \in Nat
  <1>1. IsFiniteSet(T!Dirs) /\ T!Dirs \subseteq Nat
    <2>1. 1 \in Int /\ Count \in Int
      BY BoundsAssumption
    <2>2. IsFiniteSet(1 .. Count) /\ 1 .. Count \subseteq Nat
      BY <2>1, FS_Interval
    <2> QED BY <2>2 DEF T!Dirs
  <1>2. T!Present(f) \in SUBSET T!Dirs
    BY DEF T!Present
  <1> QED BY <1>1, <1>2, FS_Subset, FS_CardinalityType

\* Every row is of a dir: as many ranks as dirs, and no rank is taken twice.
LEMMA RowIsShown == ASSUME NEW i \in T!Rows PROVE T!Row(i) \in T!Dirs
  <1> DEFINE dirs == T!Present(shown)
             count == Cardinality(dirs)
             rank == [d \in dirs |-> Cardinality(UpTo(d, dirs))]
  <1>1. dirs \in SUBSET Nat /\ IsFiniteSet(dirs) /\ count \in Nat /\ dirs \in SUBSET T!Dirs
    BY Shown
  <1>2. i \in 1 .. count
    BY SameRowCount DEF T!Rows
  <1>3. \A d \in dirs : rank[d] \in 1 .. count
    BY <1>1, RankRises, RankOf
  <1>4. \A d, e \in dirs : d < e => rank[d] < rank[e]
    BY <1>1, RankRises, RankOf
  <1>5. \E d \in dirs : rank[d] = i
    <2>1. SUFFICES ASSUME \A d \in dirs : rank[d] # i PROVE FALSE
      OBVIOUS
    <2> DEFINE others == (1 .. count) \ {i}
    <2>2. IsFiniteSet(1 .. count) /\ Cardinality(1 .. count) = count
      BY <1>1, <1>2, FS_Interval
    <2>3. IsFiniteSet(others) /\ Cardinality(others) = count - 1
      BY <1>2, <2>2, FS_RemoveElement
    <2>4. rank \in [dirs -> others]
      BY <1>3, <2>1
    <2>5. Cardinality(others) < Cardinality(dirs)
      BY <1>1, <2>3
    <2> HIDE DEF others, rank, dirs
    <2>6. PICK d \in dirs, e \in dirs : d # e /\ rank[d] = rank[e]
      BY <1>1, <2>3, <2>4, <2>5, FS_PigeonHole
    <2>7. d < e \/ e < d
      BY <1>1, <2>6
    <2>8. rank[d] \in Nat /\ rank[e] \in Nat
      BY <1>3
    <2> QED BY <1>4, <2>6, <2>7, <2>8
  <1>6. PICK d \in dirs : Cardinality(UpTo(d, dirs)) = i
    BY <1>5
  <1>7. T!Cardinality({e \in T!Present(shown) : e <= d}) = i
    BY <1>6, SameRowCount DEF UpTo
  <1> QED BY <1>1, <1>7 DEF T!Row

\* A selection that is clamped lies in the table it is clamped to.
LEMMA ClampedFits ==
  ASSUME NEW i \in Nat, NEW n \in Nat
  PROVE  /\ T!Clamped(i, n) \in (1 .. n) \cup {0} /\ (T!Clamped(i, n) = 0 <=> (1 .. n) = {})
  <1>1. (1 .. n) = {} <=> n = 0
    <2>1. n # 0 => 1 \in 1 .. n
      OBVIOUS
    <2> QED BY <2>1
  <1> QED BY <1>1 DEF T!Clamped

ViewTypes ==
  /\ shown \in [T!Dirs -> {"absent", "idle", "busy", "stopped"}]
  /\ tab \in {"summary", "jobs", "trends", "config"}
  /\ sel \in T!Rows \cup {0} /\ (sel = 0 <=> T!Rows = {})
  /\ drill \in T!Dirs \cup {Nil}

ActionTypes ==
  /\ armed \in T!Actions \cup {T!NoAction} /\ jobs \in SUBSET T!Dirs /\ moves \in 0 .. MaxMoves

ScreenTypes == ViewTypes /\ ActionTypes /\ popup \in T!Popups

LEMMA ScreenTyped == ScreenInv /\ ScreenTypes => T!TypeOK
  BY DEF ScreenInv, ScreenTypes, ViewTypes, ActionTypes, T!TypeOK, T!TerminalFits,
         T!RecycleSparesJobs, T!Tui

LEMMA PopupKinds ==
  /\ \A kind \in {"none", "help", "info", "pick", "org", "remove", "saved", "failed"} :
       [kind |-> kind] \in T!Popups
  /\ \A k \in Keys, kind \in {"pat", "sure"} : [kind |-> kind, key |-> k] \in T!Popups
  /\ \A k \in Keys, t \in TokenKinds, mine \in SUBSET T!Dirs :
       [kind |-> "confirmed", key |-> k, token |-> t, mine |-> mine] \in T!Popups
  BY DEF T!Popups

LEMMA RefreshTypes == ASSUME ScreenInv, ViewTypes, T!Refreshed PROVE ViewTypes'
  <1> DEFINE n == Cardinality(T!Present(fleet))
  <1>1. n \in Nat
    BY Shown
  <1>2. T!Rows' = 1 .. n
    BY SameRowCount DEF T!Refreshed, T!Rows, T!Present
  <1>3. sel \in Nat
    BY Shown, SameRowCount DEF ViewTypes, T!Rows
  <1>4. sel' = T!Clamped(sel, n)
    BY SameRowCount DEF T!Refreshed
  <1> HIDE DEF n
  <1>5. sel' \in T!Rows' \cup {0} /\ (sel' = 0 <=> T!Rows' = {})
    BY <1>1, <1>2, <1>3, <1>4, ClampedFits
  <1> QED BY <1>5 DEF T!Refreshed, ViewTypes, ScreenInv

LEMMA ViewKept == ASSUME ViewTypes, UNCHANGED <<shown, tab, sel, drill>> PROVE ViewTypes'
  BY DEF ViewTypes, T!Rows, T!Present

LEMMA ScreenTypesInit == T!Init => ScreenTypes
  <1> SUFFICES ASSUME T!Init PROVE ScreenTypes
    OBVIOUS
  <1> DEFINE n == Cardinality(T!Present(fleet))
  <1>1. n \in Nat
    BY Shown
  <1>2. T!Rows = 1 .. n
    BY SameRowCount DEF T!Init, T!Rows
  <1>3. n = 0 <=> T!Present(fleet) = {}
    BY Shown, FS_EmptySet
  <1>4. sel \in T!Rows \cup {0} /\ (sel = 0 <=> T!Rows = {})
    <2>1. sel = IF n = 0 THEN 0 ELSE 1
      BY <1>3 DEF T!Init
    <2>2. n # 0 => 1 \in 1 .. n
      BY <1>1
    <2> HIDE DEF n
    <2> QED BY <1>1, <1>2, <2>1, <2>2
  <1>5. ViewTypes
    BY <1>4 DEF T!Init, ViewTypes
  <1>6. ActionTypes /\ popup \in T!Popups
    BY BoundsAssumption, PopupKinds DEF T!Init, ActionTypes, T!Closed
  <1> QED BY <1>5, <1>6 DEF ScreenTypes

LEMMA ScreenTypesNext == ScreenInv /\ ScreenTypes /\ T!Next => ScreenTypes'
  <1> SUFFICES ASSUME ScreenInv, ScreenTypes, T!Next PROVE ScreenTypes'
    OBVIOUS
  <1> USE DEF T!world, T!view, T!config, T!action, T!Free, T!Closed, ScreenTypes
  <1>1. CASE T!Refresh
    <2>1. T!Refreshed /\ UNCHANGED <<moves, popup, armed, jobs>>
      BY <1>1 DEF T!Refresh
    <2> QED BY <2>1, RefreshTypes DEF ActionTypes, T!Popups
  <1>2. ASSUME NEW t \in {"summary", "jobs", "trends", "config"}, T!SetTab(t)
        PROVE  ScreenTypes'
    BY <1>2 DEF T!SetTab, ViewTypes, ActionTypes, T!Rows, T!Present
  <1>3. ASSUME NEW i \in T!Rows, T!Move(i) PROVE ScreenTypes'
    <2>1. i # 0
      BY Shown, SameRowCount DEF T!Rows
    <2>2. ViewTypes'
      BY <1>3, <2>1 DEF T!Move, ViewTypes, T!Rows, T!Present
    <2> QED BY <1>3, <2>2 DEF T!Move, ActionTypes
  <1>4. CASE T!Enter \/ T!Back
    <2>1. drill' \in T!Dirs \cup {Nil}
      BY <1>4, RowIsShown DEF T!Enter, T!Back
    <2> QED BY <1>4, <2>1 DEF T!Enter, T!Back, ViewTypes, ActionTypes, T!Rows, T!Present
  <1>5. ASSUME NEW kind \in {"help", "info", "pick"}, T!Open(kind) PROVE ScreenTypes'
    BY <1>5, ViewKept, PopupKinds DEF T!Open, ActionTypes
  <1>6. CASE T!ArmHooks
    <2>1. \A a \in {"hooks", "editor"} : [do |-> a] \in T!Actions
      BY DEF T!Actions
    <2> QED BY <1>6, <2>1, ViewKept DEF T!ArmHooks, T!Arm, ActionTypes
  <1>7. CASE T!ArmRunner
    <2>1. drill \in T!Dirs
      BY <1>7 DEF T!ArmRunner, ViewTypes
    <2>2. \A a \in {"restart", "recycle"} : [do |-> a, dir |-> drill] \in T!Actions
      BY <2>1 DEF T!Actions
    <2> QED BY <1>7, <2>2, ViewKept DEF T!ArmRunner, T!Arm, ActionTypes
  <1>8. CASE T!Cancel \/ T!Suspend \/ T!Execute \/ T!StopUnit \/ T!Purge \/ T!StartUnit
               \/ T!Resume \/ T!Quit \/ T!Panic
    <2>1. UNCHANGED <<shown, tab, sel, drill, popup, moves>>
      BY <1>8 DEF T!Cancel, T!Suspend, T!Execute, T!StopUnit, T!Purge, T!StartUnit, T!Resume,
                  T!Quit, T!Panic
    <2>2. /\ armed' = armed \/ armed' = T!NoAction
          /\ jobs' = jobs \/ jobs' = {d \in T!Dirs : fleet[d] = "busy"}
      BY <1>8 DEF T!Cancel, T!Suspend, T!Execute, T!StopUnit, T!Purge, T!StartUnit, T!Resume,
                  T!Quit, T!Panic, T!Leave
    <2>3. ActionTypes'
      BY <2>1, <2>2 DEF ActionTypes
    <2> QED BY <2>1, <2>3, ViewKept
  <1>9. CASE T!Wizard
    <2>1. UNCHANGED <<moves, armed, jobs>>
      BY <1>9 DEF T!Wizard, T!Close, T!PickAdd, T!PickRemove, T!Save, T!Remove, T!DoneSaved,
                  T!DoneFailed, T!TypeKey, T!TypeRemoved, T!Validate, T!To
    <2>2. ViewTypes'
      BY <1>9, RefreshTypes, ViewKept
         DEF T!Wizard, T!Close, T!PickAdd, T!PickRemove, T!Save, T!Remove, T!DoneSaved,
             T!DoneFailed, T!TypeKey, T!TypeRemoved, T!Validate, T!To
    <2>3. popup' \in T!Popups
      <3>1. CASE T!Close \/ T!PickAdd \/ T!PickRemove \/ T!Save \/ T!Remove \/ T!DoneSaved
                   \/ T!DoneFailed
        BY <3>1, PopupKinds DEF T!Close, T!PickAdd, T!PickRemove, T!Save, T!Remove, T!DoneSaved,
                                T!DoneFailed, T!To
      <3>2. ASSUME NEW k \in Keys, T!TypeKey(k) \/ T!TypeRemoved(k) PROVE popup' \in T!Popups
        BY <3>2, PopupKinds DEF T!TypeKey, T!TypeRemoved, T!To
      <3>3. ASSUME NEW t \in TokenKinds, T!Validate(t) PROVE popup' \in T!Popups
        <4>1. popup.key \in Keys
          BY <3>3 DEF T!Validate, T!In, T!Popups
        <4>2. PICK mine \in SUBSET T!Dirs :
                popup' = [kind |-> "confirmed", key |-> popup.key, token |-> t, mine |-> mine]
          BY <3>3 DEF T!Validate, T!Present, T!To
        <4> QED BY <4>1, <4>2, PopupKinds
      <3> QED BY <1>9, <3>1, <3>2, <3>3 DEF T!Wizard
    <2> QED BY <2>1, <2>2, <2>3 DEF ActionTypes
  <1>10. ASSUME NEW d \in T!Dirs, T!FleetMoves(d) PROVE ScreenTypes'
    <2>1. ActionTypes' /\ popup' = popup
      BY <1>10, BoundsAssumption DEF T!FleetMoves, ActionTypes
    <2> QED BY <1>10, <2>1, ViewKept DEF T!FleetMoves
  <1> QED BY <1>1, <1>2, <1>3, <1>4, <1>5, <1>6, <1>7, <1>8, <1>9, <1>10 DEF T!Next, T!Browse, T!Act

\* A runner was started with hooks that its .env named then.
HookRunTypes ==
  /\ runner \in [Runners -> [busy : BOOLEAN, started : H!Paths \cup {Nil},
                             completed : H!Paths \cup {Nil}]]
  /\ runs \in 0 .. MaxRuns
  /\ raced \in SUBSET Runners /\ rechained \in SUBSET Runners /\ overlap \in BOOLEAN

LEMMA HookTyped == HookTypes /\ HookRunTypes => H!TypeOK
  BY DEF HookTypes, HookRunTypes, H!TypeOK, ToolStates

LEMMA StartedType ==
  ASSUME HookTypes, NEW r \in Runners
  PROVE  H!Started(r) \in [busy : BOOLEAN, started : H!Paths \cup {Nil},
                           completed : H!Paths \cup {Nil}]
  <1>1. env[r] \in H!Env
    BY DEF HookTypes
  <1>2. env[r].started \in H!Paths \cup {Nil} /\ env[r].completed \in H!Paths \cup {Nil}
    BY <1>1 DEF H!Env
  <1> QED BY <1>2 DEF H!Started

LEMMA HookRunTypesInit == H!Init => HookRunTypes
  <1> SUFFICES ASSUME H!Init PROVE HookRunTypes
    OBVIOUS
  <1>1. HookTypes
    BY HookTypesInit
  <1>2. \A r \in Runners : [busy |-> FALSE, started |-> env[r].started,
                            completed |-> env[r].completed]
          \in [busy : BOOLEAN, started : H!Paths \cup {Nil}, completed : H!Paths \cup {Nil}]
    BY <1>1, StartedType DEF H!Started
  <1>3. runner = [r \in Runners |-> [busy |-> FALSE, started |-> env[r].started,
                                     completed |-> env[r].completed]]
    BY DEF H!Init
  <1>4. runs = 0 /\ raced = {} /\ rechained = {} /\ overlap = FALSE
    BY DEF H!Init
  <1>5. 0 \in 0 .. MaxRuns
    BY BoundsAssumption
  <1>6. runner \in [Runners -> [busy : BOOLEAN, started : H!Paths \cup {Nil},
                                 completed : H!Paths \cup {Nil}]]
    BY <1>2, <1>3, Zenon
  <1> QED BY <1>4, <1>5, <1>6 DEF HookRunTypes

LEMMA HookRunTypesNext == HookInv /\ HookRunTypes /\ H!Next => HookRunTypes'
  <1> SUFFICES ASSUME HookInv, HookRunTypes, H!Next PROVE HookRunTypes'
    OBVIOUS
  <1> USE DEF H!files, H!history
  <1>1. ASSUME NEW t \in Tools, H!StartConfig(t) \/ H!StartUninstall(t) PROVE HookRunTypes'
    <2>1. /\ runs < MaxRuns /\ runs' = runs + 1 /\ overlap' \in BOOLEAN
          /\ UNCHANGED <<runner, raced, rechained>>
      BY <1>1 DEF H!StartConfig, H!StartUninstall, H!Begin, HookRunTypes
    <2> QED BY <2>1, BoundsAssumption DEF HookRunTypes
  <1>2. ASSUME NEW t \in Tools, H!WriteWrapper(t) PROVE HookRunTypes'
    <2>1. tool[t].r \in Runners
      BY <1>2 DEF H!WriteWrapper, HookInv, HookTypes
    <2>2. /\ rechained' = rechained \cup {tool[t].r} \/ rechained' = rechained
          /\ UNCHANGED <<runner, runs, raced, overlap>>
      BY <1>2 DEF H!WriteWrapper
    <2> QED BY <2>1, <2>2 DEF HookRunTypes
  <1>3. ASSUME NEW t \in Tools, H!Restart(t) PROVE HookRunTypes'
    <2>1. tool[t].r \in Runners
      BY <1>3 DEF H!Restart, HookInv, HookTypes
    <2>2. /\ runner' = [runner EXCEPT ![tool[t].r] = H!Started(tool[t].r)] \/ runner' = runner
          /\ UNCHANGED <<runs, raced, rechained, overlap>>
      BY <1>3 DEF H!Restart
    <2>3. H!Started(tool[t].r) \in [busy : BOOLEAN, started : H!Paths \cup {Nil},
                                    completed : H!Paths \cup {Nil}]
      BY <2>1, StartedType DEF HookInv
    <2> QED BY <2>1, <2>2, <2>3 DEF HookRunTypes
  <1>4. ASSUME NEW t \in Tools, H!ToolStep(t),
               ~H!StartConfig(t), ~H!StartUninstall(t), ~H!WriteWrapper(t), ~H!Restart(t)
        PROVE  HookRunTypes'
    <2>1. UNCHANGED <<runner, runs, raced, rechained, overlap>>
      BY <1>4 DEF H!ToolStep, H!ConfigDone, H!ReadEnv, H!Check, H!Replace, H!LookIdle, H!Confirm,
                  H!Applied, H!Killed, H!Detect, H!PlanRunner, H!Apply, H!Look, H!RemoveWrapper,
                  H!Sweep
    <2> QED BY <2>1 DEF HookRunTypes
  <1>5. ASSUME NEW r \in Runners, H!RunnerMoves(r) PROVE HookRunTypes'
    <2>1. /\ runner' = [runner EXCEPT ![r].busy = ~runner[r].busy]
             \/ runner' = [runner EXCEPT ![r] = H!Started(r)]
          /\ UNCHANGED <<runs, raced, rechained, overlap>>
      BY <1>5 DEF H!RunnerMoves
    <2> QED BY <2>1, StartedType DEF HookRunTypes, HookInv
  <1>6. ASSUME NEW r \in Runners, NEW s \in H!Slots, H!OwnerEdits(r, s) PROVE HookRunTypes'
    BY <1>6 DEF H!OwnerEdits, HookRunTypes
  <1> QED BY <1>1, <1>2, <1>3, <1>4, <1>5, <1>6 DEF H!Next

-----------------------------------------------------------------------------
(* The parts together: who is one of them keeps being that one. *)
Inv == /\ part = "hooks"  => HookInv /\ HookSound /\ HookRunTypes
       /\ part = "setup"  => SetupInv /\ SetupTypes
       /\ part = "config" => ConfigInv /\ ConfigTypes
       /\ part = "tui"    => ScreenInv /\ ScreenTypes
       /\ part = "link"   => LinkInv /\ L!TypeOK
       /\ part = "doctor" => DoctorInv
       /\ part = "status" => AnswerInv
       /\ part = "list"   => ListInv
       /\ part = "open"   => SchemaInv
       /\ part = "probe"  => ProbeInv
       /\ part = "push"   => PushInv

Steps == /\ part = "hooks"  => H!EditKept
         /\ part = "setup"  => S!InstallTook /\ S!RemovedShown
         /\ part = "config" => C!WrotePlanned
         /\ part = "push"   => M!PostPaced

LEMMA InitInv == Init => Inv
  <1>1. /\ H!Init => HookInv /\ HookSound /\ HookRunTypes
        /\ S!Init => SetupInv /\ SetupTypes
        /\ C!Init => ConfigInv /\ ConfigTypes
        /\ T!Init => ScreenInv /\ ScreenTypes
        /\ L!Init => LinkInv /\ L!TypeOK
    BY HookInit, SoundInit, HookRunTypesInit, SetupInit, ConfigInit, TypesInit, ScreenInit,
       ScreenTypesInit, LinkInit, LinkTypesInit
  <1> QED BY <1>1, DoctorInit, AnswerInit, ListInit, SchemaInit, ProbeInit, PushInit DEF Init, Inv

LEMMA NextInv == Inv /\ [Next]_vars => Inv' /\ (Steps \/ UNCHANGED vars)
  <1> SUFFICES ASSUME Inv, [Next]_vars
               PROVE  Inv' /\ (Steps \/ UNCHANGED vars)
    OBVIOUS
  <1>1. CASE Only("hooks") /\ H!Next
    BY <1>1, HookNext, SoundNext, HookRunTypesNext DEF Only, Inv, Steps
  <1>2. CASE Only("setup") /\ S!Next
    BY <1>2, SetupNext, SetupTypesNext DEF Only, Inv, Steps
  <1>3. CASE Only("config") /\ C!Next
    BY <1>3, ConfigNext, ConfigTypesNext DEF Only, Inv, Steps
  <1>4. CASE Only("tui") /\ T!Next
    BY <1>4, ScreenNext, ScreenTypesNext DEF Only, Inv, Steps
  <1>5. CASE Only("link") /\ L!Next
    BY <1>5, LinkNext, LinkTypesNext DEF Only, Inv, Steps
  <1>6. CASE Only("open") /\ O!Next
    BY <1>6, SchemaNext DEF Only, Inv, Steps
  <1>7. CASE Only("probe") /\ P!Next
    BY <1>7, ProbeNext DEF Only, Inv, Steps
  <1>8. CASE Only("push") /\ M!Next
    BY <1>8, PushNext DEF Only, Inv, Steps
  <1>9. CASE UNCHANGED vars
    <2> USE <1>9 DEF vars
    <2>1. HookInv /\ HookSound => HookInv' /\ HookSound'
      BY DEF hookVars, HookInv, HookTypes, StateOK, HookSound, Alone, Good, Kept, ToolSound,
             Pending, Wrapping, Turned, PlanFits, Clean
    <2>2. SetupInv => SetupInv'
      BY DEF setupVars, SetupInv
    <2>3. ConfigInv => ConfigInv'
      BY DEF wizardVars, ConfigInv
    <2>4. ScreenInv => ScreenInv'
      BY DEF screenVars, ScreenInv, T!OneModal, T!TerminalFits, T!RecycleSparesJobs,
             T!PersistedWereValidated
    <2>5. LinkInv => LinkInv'
      BY DEF linkVars, LinkInv, OneOpen, Believed
    <2>6. SchemaInv => SchemaInv'
      BY DEF schemaVars, SchemaInv
    <2>7. ProbeInv => ProbeInv'
      BY DEF probeVars, ProbeInv, P!LivenessOf
    <2>8. PushInv => PushInv'
      BY DEF pushVars, PushInv
    <2>9. DoctorInv => DoctorInv'
      BY DoctorRests
    <2>10. AnswerInv => AnswerInv'
      BY AnswersRest
    <2>11. ListInv => ListInv'
      BY ListRests
    <2>12. /\ HookRunTypes => HookRunTypes'
           /\ SetupTypes => SetupTypes'
           /\ ConfigTypes => ConfigTypes'
      BY DEF hookVars, setupVars, wizardVars, HookRunTypes, SetupTypes, ConfigTypes
    <2>13. ScreenTypes => ScreenTypes'
      BY DEF screenVars, ScreenTypes, ViewTypes, ActionTypes, T!Rows, T!Present
    <2>14. L!TypeOK => L!TypeOK'
      BY DEF linkVars, L!TypeOK
    <2>15. part' = part
      OBVIOUS
    <2> QED BY <2>1, <2>2, <2>3, <2>4, <2>5, <2>6, <2>7, <2>8, <2>9, <2>10, <2>11, <2>12, <2>13,
               <2>14, <2>15 DEF Inv
  <1>10. CASE Only("doctor") /\ D!Next
    BY <1>10, DoctorNext DEF Only, Inv, Steps
  <1>11. CASE Only("status") /\ A!Next
    BY <1>11, AnswerNext DEF Only, Inv, Steps
  <1>12. CASE Only("list") /\ G!Next
    BY <1>12, ListNext DEF Only, Inv, Steps
  <1> QED BY <1>1, <1>2, <1>3, <1>4, <1>5, <1>6, <1>7, <1>8, <1>9, <1>10, <1>11, <1>12 DEF Next

-----------------------------------------------------------------------------
(* Theorems. *)

\* Every variable of a part that keeps state over several commands has its type, a
\* selection the table it lies in, and the words of the protocol are those.
THEOREM PartsTypeCorrect == Spec => []TypeOK
  <1>1. Inv => TypeOK
    BY HookTyped, SetupTyped, ConfigTyped, ScreenTyped DEF Inv, TypeOK, HookInv, AnswerInv
  <1> QED BY InitInv, NextInv, <1>1, PTL DEF Spec

\* doctor calls a host whole only when it is, and says what would help whenever it
\* does not, whatever is done between its runs (ops/doctor/).
THEOREM DoctorStaysHonest == Spec => []DoctorHonest
  <1>1. Inv => DoctorHonest
    BY DoctorIsHonest DEF Inv, DoctorHonest
  <1> QED BY InitInv, NextInv, <1>1, PTL DEF Spec

\* Silence is an all-clear, and the verbs and the exposition say the same, for any
\* fleet of any orgs (models/verdict.rs, ops/wait.rs, metrics/encode).
THEOREM AnswersStayHonest == Spec => []AnswersHonest
  <1>1. Inv => AnswersHonest
    BY AnswersAreHonest DEF Inv, AnswersHonest
  <1> QED BY InitInv, NextInv, <1>1, PTL DEF Spec

\* A listing misses no runner that was there all the while, but for those that a
\* removal moved to a page it had read, and gives a PAT to no host but its own, for
\* any length and number of pages (shared/github/mod.rs:76, config/mod.rs:249).
THEOREM ListingStaysHonest == Spec => []ListingHonest
  <1>1. Inv => ListingHonest
    BY DEF Inv, ListInv, ListingHonest
  <1> QED BY InitInv, NextInv, <1>1, PTL DEF Spec

\* "Append-only: entry N is schema vN" (store/schema.rs:5), whoever opens.
THEOREM SchemaStaysWhole == Spec => []SchemaWhole
  <1>1. Inv => SchemaWhole
    BY DEF Inv, SchemaInv, SchemaWhole, O!SchemaWhole
  <1> QED BY InitInv, NextInv, <1>1, PTL DEF Spec

\* A unit systemd will start has a whole binary, for any number of installs and
\* removals (ops/systemd.rs copy_bin).
THEOREM UnitsStayRunnable == Spec => []UnitRunnable
  <1>1. Inv => UnitRunnable
    BY PartsAssumption DEF Inv, SetupInv, UnitRunnable, S!UnitRunnable
  <1> QED BY InitInv, NextInv, <1>1, PTL DEF Spec

\* No token that GitHub has not accepted is stored, by the wizard of `config` or
\* the dashboard's (shared/github/validate.rs).
THEOREM TokensWereValidated == Spec => []OnlyValidatedTokens
  <1>1. Inv => OnlyValidatedTokens
    BY DEF Inv, ConfigInv, ScreenInv, OnlyValidatedTokens, C!StoredWereValidated
  <1> QED BY InitInv, NextInv, <1>1, PTL DEF Spec

\* One modal, a terminal that fits what is drawn, and no job cut by a recycle
\* (tui/input/screen.rs, tui/action.rs).
THEOREM ScreenStaysSound == Spec => []ScreenSound
  <1>1. Inv => ScreenSound
    BY DEF Inv, ScreenInv, ScreenSound
  <1> QED BY InitInv, NextInv, <1>1, PTL DEF Spec

\* A late reply is no other request's answer, however long the inbox and however
\* often the collector is restarted (ipc/client.rs:98, tui/mutate.rs:115).
THEOREM LinkStaysHonest == Spec => []LinkHonest
  <1>1. Inv => LinkHonest
    BY LinkIsHonest DEF Inv, LinkHonest
  <1> QED BY InitInv, NextInv, <1>1, PTL DEF Spec

\* A discovery reports what processes of the runner lived during its walk
\* (collectors/runners.rs:352).
THEOREM ProbeStaysSound == Spec => []ProbeSound
  <1>1. Inv => ProbeSound
    BY WalkIsSound DEF Inv, ProbeSound
  <1> QED BY InitInv, NextInv, <1>1, PTL DEF Spec

\* "Never clobber a foreign hook" (install/mod.rs:1): the owner's hooks run, and what
\* .env points at is there, for any number of runners, tools, runs and edits, with
\* every write that fails and every interruption.
THEOREM HooksStayIntact == Spec => []HooksIntact
  <1>1. Inv => HooksIntact
    BY SoundIsIntact DEF Inv, HooksIntact
  <1> QED BY InitInv, NextInv, <1>1, PTL DEF Spec

\* An owner's edit of .env is lost only between a tool's last look and its
\* replacement, whatever the number of tools (shared/hooks/env.rs:54).
THEOREM EditsStay == Spec => EditsKept
  <1>1. Inv /\ [Next]_vars => Inv' /\ [part = "hooks" => H!EditKept]_vars
    BY NextInv DEF Steps
  <1> QED BY InitInv, <1>1, PTL DEF Spec, EditsKept

\* An install that reports success has replaced the collector (ops/systemd.rs).
THEOREM InstallsTake == Spec => InstallTakes
  <1>1. Inv /\ [Next]_vars => Inv' /\ [part = "setup" => S!InstallTook]_vars
    BY NextInv DEF Steps
  <1> QED BY InitInv, <1>1, PTL DEF Spec, InstallTakes

\* What is written or removed was announced, and agreed to
\* (ops/uninstall/mod.rs, ops/configure/mod.rs).
THEOREM ConsentIsAsked == Spec => OnlyAnnounced
  <1>1. Inv /\ [Next]_vars => Inv' /\ [/\ part = "setup"  => S!RemovedShown
                                       /\ part = "config" => C!WrotePlanned]_vars
    BY NextInv DEF Steps
  <1> QED BY InitInv, <1>1, PTL DEF Spec, OnlyAnnounced

\* No post comes sooner than an interval after the last (metrics/push.rs:58).
THEOREM PostsArePaced == Spec => PushPaced
  <1>1. Inv /\ [Next]_vars => Inv' /\ [part = "push" => M!PostPaced]_vars
    BY NextInv DEF Steps
  <1> QED BY InitInv, <1>1, PTL DEF Spec, PushPaced
=============================================================================
