----------------------------- MODULE Configure ------------------------------
(***************************************************************************)
(* `ghr-stats config` (ops/configure/): the wizard asks, plans and then    *)
(* writes the config file one setting at a time, while the dashboard or    *)
(* the collector may edit the same file. Each write is a locked            *)
(* load-modify-write of the whole file (shared/config/persist.rs), taken   *)
(* as one step; any of them may fail and end the wizard.                   *)
(***************************************************************************)
EXTENDS Naturals

CONSTANTS Owners,       \* orgs and accounts a PAT may be for
          Discovered,   \* those whose runners are on this host
          MaxEdits      \* edits by others

None  == "none"
Pats  == {"old", "new", "other"}   \* who stored a PAT: before, the wizard, another
Roots == {"before", "chosen", "other"}

VARIABLES file,    \* the config file: tokens, roots, pull endpoint
          wizard,  \* where it stands, and what it will write
          edits    \* edits by others, a bound

vars == <<file, wizard, edits>>

Idle == [at |-> "start", readable |-> TRUE, existing |-> {}, left |-> {}, set |-> {},
         remove |-> {}, pull |-> FALSE, asked |-> {}]

Goto(at) == wizard' = [wizard EXCEPT !.at = at]

-----------------------------------------------------------------------------
(* The prompts: nothing is written before the last of them. *)

\* Declined at once, or the target cannot be written: the wizard ends.
Proceed(ok) ==
  /\ wizard.at = "start" /\ Goto(IF ok THEN "roots" ELSE "end")
  /\ UNCHANGED <<file, edits>>

\* Roots are chosen; the keys that hold a PAT are read, if the file can be.
ReadExisting(readable) ==
  /\ wizard.at = "roots"
  /\ LET existing == IF readable THEN {o \in Owners : file.tokens[o] # None} ELSE {}
     IN  wizard' = [wizard EXCEPT !.at = "tokens", !.readable = readable,
                                  !.existing = existing, !.left = Discovered \cup existing]
  /\ UNCHANGED <<file, edits>>

\* Mutant: a PAT is stored though GitHub rejected it.
AskToken_Unvalidated(o) ==
  /\ wizard.at = "tokens" /\ o \in wizard.left
  /\ \E choice \in {"keep", "set", "remove"}, valid \in BOOLEAN :
       /\ choice = "remove" => o \in wizard.existing
       /\ wizard' = [wizard EXCEPT
            !.left = @ \ {o},
            !.set = IF choice = "set" THEN @ \cup {o} ELSE @,
            !.asked = IF choice = "set" /\ valid THEN @ \cup {o} ELSE @,
            !.remove = IF choice = "remove" THEN @ \cup {o} ELSE @]
  /\ UNCHANGED <<file, edits>>

\* Keep, replace or remove a PAT, or add one: only a validated PAT is planned,
\* and giving up on it keeps what was there.
AskToken(o) ==
  /\ wizard.at = "tokens" /\ o \in wizard.left
  /\ \E choice \in {"keep", "set", "remove"}, valid \in BOOLEAN :
       /\ choice = "remove" => o \in wizard.existing
       /\ wizard' = [wizard EXCEPT
            !.left = @ \ {o},
            !.set = IF choice = "set" /\ valid THEN @ \cup {o} ELSE @,
            !.asked = IF choice = "set" /\ valid THEN @ \cup {o} ELSE @,
            !.remove = IF choice = "remove" THEN @ \cup {o} ELSE @]
  /\ UNCHANGED <<file, edits>>

\* "Manage PATs now?" declined plans nothing; then the metrics and the last word.
Confirm(manage, pull, apply) ==
  /\ wizard.at = "tokens" /\ (wizard.left = {} \/ ~ manage)
  /\ wizard' = [wizard EXCEPT !.at = IF apply THEN "write" ELSE "hooks", !.pull = pull,
                              !.left = {},
                              !.set = IF manage THEN @ ELSE {},
                              !.remove = IF manage THEN @ ELSE {}]
  /\ manage \/ wizard.left = Discovered \cup wizard.existing
  /\ UNCHANGED <<file, edits>>

-----------------------------------------------------------------------------
(* apply_config: roots, then each PAT to set, each to remove, then metrics. *)

\* Mutant: what was read before the prompts is written back.
SetRoots_Stale ==
  /\ wizard.at = "write"
  /\ file' = [file EXCEPT !.roots = "chosen",
                !.tokens = [o \in Owners |-> IF o \in wizard.existing THEN "old" ELSE None]]
  /\ Goto("set")
  /\ UNCHANGED edits

SetRoots ==
  /\ wizard.at = "write"
  /\ file' = [file EXCEPT !.roots = "chosen"]
  /\ Goto("set")
  /\ UNCHANGED edits

SetToken(o) ==
  /\ wizard.at = "set" /\ o \in wizard.set
  /\ file' = [file EXCEPT !.tokens[o] = "new"]
  /\ wizard' = [wizard EXCEPT !.set = @ \ {o}]
  /\ UNCHANGED edits

\* Removing a PAT that is gone by now is an error and ends the wizard, unless the
\* login is still listed under `orgs`.
RemoveToken(o) ==
  /\ wizard.at = "set" /\ wizard.set = {} /\ o \in wizard.remove
  /\ file' = [file EXCEPT !.tokens[o] = None]
  /\ \E listed \in BOOLEAN :
       wizard' = IF file.tokens[o] = None /\ ~ listed THEN [wizard EXCEPT !.at = "failed"]
                 ELSE [wizard EXCEPT !.remove = @ \ {o}]
  /\ UNCHANGED edits

\* Declining the metrics leaves any endpoint alone.
SetPull ==
  /\ wizard.at = "set" /\ wizard.set = {} /\ wizard.remove = {}
  /\ file' = [file EXCEPT !.pull = @ \/ wizard.pull]
  /\ Goto("hooks")
  /\ UNCHANGED edits

\* A write fails, or the wizard is killed: what is written stays.
Fails ==
  /\ wizard.at \in {"write", "set"} /\ Goto("failed") /\ UNCHANGED <<file, edits>>

-----------------------------------------------------------------------------
\* The dashboard or the collector edits the file meanwhile.
Other ==
  /\ edits < MaxEdits /\ edits' = edits + 1
  /\ \/ \E o \in Owners, p \in {None, "other"} : file' = [file EXCEPT !.tokens[o] = p]
     \/ file' = [file EXCEPT !.pull = ~ @]
  /\ UNCHANGED wizard

Init ==
  /\ \E ts \in [Owners -> {None, "old"}] :
       file = [tokens |-> ts, roots |-> "before", pull |-> FALSE]
  /\ wizard = Idle /\ edits = 0

Next ==
  \/ \E ok \in BOOLEAN : Proceed(ok) \/ ReadExisting(ok)
  \/ \E o \in Owners : AskToken(o) \/ SetToken(o) \/ RemoveToken(o)
  \/ \E manage, pull, apply \in BOOLEAN : Confirm(manage, pull, apply)
  \/ SetRoots \/ SetPull \/ Fails
  \/ Other

Spec == Init /\ [][Next]_vars

-----------------------------------------------------------------------------
(* Properties. *)

TypeOK ==
  /\ file \in [tokens : [Owners -> Pats \cup {None}], roots : Roots, pull : BOOLEAN]
  /\ wizard.at \in {"start", "roots", "tokens", "write", "set", "hooks", "failed", "end"}
  /\ wizard.set \cap wizard.remove = {} /\ wizard.set \subseteq Owners
  /\ edits \in 0 .. MaxEdits

\* A PAT the wizard stored was validated, and was written after the last word.
StoredWereValidated ==
  \A o \in Owners : file.tokens[o] = "new" => o \in wizard.asked

\* The wizard changes only what it announced: a step of it that touches the file
\* is past the last prompt, and leaves every PAT it has not planned as it is
\* then, an edit made by another meanwhile included.
WrotePlanned ==
  (edits' = edits) /\ file' # file =>
       /\ wizard.at \in {"write", "set"}
       /\ \A o \in Owners \ (wizard.set \cup wizard.remove) :
            file'.tokens[o] = file.tokens[o]
       /\ ~ file'.pull => ~ file.pull
=============================================================================
