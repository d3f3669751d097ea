------------------------------- MODULE Schema -------------------------------
(***************************************************************************)
(* Opening the database for writing (store/mod.rs open_writer, schema.rs): *)
(* collectors and `db prune`s of several builds open one file at once, and *)
(* may be killed between any two steps. A build that knows n migrations    *)
(* brings the schema to version n, or refuses.                             *)
(***************************************************************************)
EXTENDS Integers

CONSTANTS Openers,     \* processes
          Latest,      \* the newest build's migrations
          Repeatable   \* the migrations that do nothing when applied again

Builds == 1 .. Latest

VARIABLES version, \* PRAGMA user_version
          applied, \* the migrations the tables show
          build,   \* opener -> the migrations it knows
          at,      \* opener -> where it is
          current, \* opener -> the version it read
          known    \* history: opener -> the version when it had opened

db == <<version, applied>>
vars == <<db, build, at, current, known>>

Places == {"closed", "begin", "open", "refused", "failed"}

\* A new file, one some build wrote, or one that is not ours.
Init ==
  /\ version \in -1 .. Latest /\ applied = 1 .. version
  /\ build \in [Openers -> Builds]
  /\ at = [p \in Openers |-> "closed"]
  /\ current = [p \in Openers |-> 0] /\ known = [p \in Openers |-> 0]

Goes(p, place) == at' = [at EXCEPT ![p] = place]

\* migrate: the version is read outside of any transaction.
Look(p) ==
  /\ at[p] = "closed"
  /\ current' = [current EXCEPT ![p] = version]
  /\ known' = [known EXCEPT ![p] = version]
  /\ Goes(p, IF version < 0 \/ version > build[p] THEN "refused"
             ELSE IF version = build[p] THEN "open" ELSE "begin")
  /\ UNCHANGED <<db, build>>

Todo(p) == (current[p] + 1) .. build[p]

\* Mutant of Migrate: each migration is committed on its own, the version last.
Migrate_Piecewise(p) ==
  /\ at[p] = "begin"
  /\ \E k \in 0 .. Latest :
       /\ k \in Todo(p) \cup {current[p]}
       /\ applied' = applied \cup (1 .. k)
       /\ IF k = build[p] THEN version' = k /\ Goes(p, "open") ELSE version' = version /\ Goes(p, "failed")
  /\ known' = [known EXCEPT ![p] = version']
  /\ UNCHANGED <<build, current>>

\* One transaction holds the write lock from its first statement to the commit;
\* a migration someone else has applied since fails it, unless it is repeatable.
Migrate(p) ==
  /\ at[p] = "begin" /\ Todo(p) \cap applied \subseteq Repeatable
  /\ applied' = applied \cup Todo(p) /\ version' = build[p]
  /\ known' = [known EXCEPT ![p] = version']
  /\ Goes(p, "open")
  /\ UNCHANGED <<build, current>>

\* A statement fails, the lock is not had within busy_timeout, or the process is
\* killed: nothing of the transaction stays.
Fails(p) ==
  /\ at[p] = "begin" /\ Goes(p, "failed")
  /\ UNCHANGED <<db, build, current, known>>

\* The process ends, and one of any build takes its place.
Again(p) ==
  /\ at[p] \in {"open", "refused", "failed"} /\ Goes(p, "closed")
  /\ \E b \in Builds : build' = [build EXCEPT ![p] = b]
  /\ UNCHANGED <<db, current, known>>

Next == \E p \in Openers : Look(p) \/ Migrate(p) \/ Fails(p) \/ Again(p)

Spec == Init /\ [][Next]_vars

-----------------------------------------------------------------------------
\* "Append-only: entry N is schema vN" (schema.rs:5): the tables show exactly the
\* migrations the version says, although it is read before the lock is held, and
\* who opens the file has found, or made it, its own build's.
SchemaWhole ==
  /\ applied = 1 .. version
  /\ \A p \in Openers : at[p] = "open" => known[p] = build[p]

\* Violated: a newer build's `db prune` migrates the file under an older
\* collector that has it open.
NeverBehind == \A p \in Openers : at[p] = "open" => version = build[p]
=============================================================================
