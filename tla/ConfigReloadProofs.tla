------------------------- MODULE ConfigReloadProofs -------------------------
(***************************************************************************)
(* Proof that concurrent edits of the config file lose nothing.  The       *)
(* argument is the lock's: an editor that may write holds the lock from    *)
(* before it loads the file until after it has replaced it, so the         *)
(* document it writes back is the file with one setting changed.           *)
(***************************************************************************)
EXTENDS ConfigReload, TLAPS

USE DEF history

\* Between the acquisition and the end of its edit an editor has the lock.
LockHeld == \A e \in Editors \ Denied :
              editor[e].at \in {"loading", "writing"} => lock = e

\* What it loaded is still the file when it writes.
LoadedIsCurrent == \A e \in Editors \ Denied :
                     editor[e].at = "writing" => editor[e].doc = file

IInv == TypeOK /\ EditsSurvive /\ LockHeld /\ LoadedIsCurrent

\* Each editor is idle or has an edit.
LEMMA EditorIs ==
  ASSUME TypeOK, NEW e \in Editors
  PROVE  /\ editor[e] \in Edits \cup {Idle}
         /\ editor[e].at # "idle" => editor[e] \in Edits
  BY DEF TypeOK, Idle

LEMMA IInvInit == Init => IInv
  <1> SUFFICES ASSUME Init PROVE IInv
    OBVIOUS
  <1>1. [s \in Settings |-> [n |-> 0, on |-> FALSE]] \in Configs
    BY BoundAssumption DEF Configs, Values
  <1>2. TypeOK
    BY <1>1, BoundAssumption DEF Init, TypeOK, Idle, Closed, Pulls
  <1>3. \A e \in Editors : editor[e].at = "idle"
    BY DEF Init, Idle
  <1> QED
    BY <1>2, <1>3 DEF Init, IInv, EditsSurvive, LockHeld, LoadedIsCurrent

\* An editor moves to x and the file stays: what has to be checked of x.
LEMMA EditorMoves ==
  ASSUME IInv, NEW e \in Editors, NEW x \in Edits \cup {Idle},
         editor' = [editor EXCEPT ![e] = x],
         UNCHANGED <<file, last>>, live' \in Configs,
         lock' \in (Editors \ Denied) \cup {None},
         \A d \in Editors \ {e} : lock = d => lock' = d,
         UNCHANGED pull, edits' \in 0..MaxEdits, faults' \in 0..MaxFaults,
         x.at \in {"writing", "storing"} => x.doc # None,
         e \notin Denied /\ x.at \in {"loading", "writing"} => lock' = e,
         x.at = "writing" => x.doc = file
  PROVE  IInv'
  <1>1. /\ editor'[e] = x
        /\ \A d \in Editors \ {e} : editor'[d] = editor[d]
    BY DEF IInv, TypeOK
  <1>2. TypeOK'
    BY <1>1 DEF IInv, TypeOK
  <1>3. LockHeld'
    BY <1>1 DEF IInv, LockHeld
  <1>4. LoadedIsCurrent'
    BY <1>1 DEF IInv, LoadedIsCurrent
  <1> QED
    BY <1>2, <1>3, <1>4 DEF IInv, EditsSurvive

\* An edit that ends without writing.
LEMMA EndsInv ==
  ASSUME IInv, NEW e \in Editors, NEW from, Ends(e, from),
         UNCHANGED <<file, last>>, live' \in Configs,
         UNCHANGED pull, edits' \in 0..MaxEdits, faults' \in 0..MaxFaults
  PROVE  IInv'
  <1>1. lock' \in (Editors \ Denied) \cup {None}
    BY DEF IInv, TypeOK, Ends
  <1>2. \A d \in Editors \ {e} : lock = d => lock' = d
    BY DEF Ends
  <1>3. Idle \in Edits \cup {Idle} /\ Idle.at = "idle"
    BY DEF Idle
  <1> QED
    BY <1>1, <1>2, <1>3, EditorMoves DEF Ends

LEMMA FaultType == ASSUME TypeOK, Fault PROVE faults' \in 0..MaxFaults
  BY BoundAssumption DEF TypeOK, Fault

LEMMA BeginInv ==
  ASSUME IInv, NEW e \in Editors, NEW s \in Settings, NEW on \in BOOLEAN, Begin(e, s, on)
  PROVE  IInv'
  <1> DEFINE x == [at |-> "locking", setting |-> s, doc |-> None,
                   value |-> [n |-> edits + 1, on |-> on]]
  <1>1. edits' \in 0..MaxEdits /\ edits + 1 \in 0..MaxEdits
    BY BoundAssumption DEF IInv, TypeOK, Begin
  <1>2. x \in Edits
    BY <1>1 DEF Edits, Values
  <1>3. /\ editor' = [editor EXCEPT ![e] = x]
        /\ UNCHANGED <<file, last, lock, live, pull, faults>>
    BY DEF Begin
  <1>4. x.at = "locking"
    OBVIOUS
  <1>5. /\ live' \in Configs /\ faults' \in 0..MaxFaults
        /\ lock' \in (Editors \ Denied) \cup {None}
    BY <1>3 DEF IInv, TypeOK
  <1> HIDE DEF x
  <1> QED
    BY <1>1, <1>2, <1>3, <1>4, <1>5, EditorMoves

LEMMA AcquireInv ==
  ASSUME IInv, NEW e \in Editors, Acquire(e)
  PROVE  IInv'
  <1> DEFINE x == [editor[e] EXCEPT !.at = "loading"]
  <1>1. editor[e] \in Edits
    BY EditorIs DEF IInv, Acquire, Goes
  <1>2. x \in Edits /\ x.at = "loading"
    BY <1>1 DEF Edits
  <1>3. /\ editor' = [editor EXCEPT ![e] = x]
        /\ UNCHANGED <<file, last, live, pull, faults, edits>>
    BY DEF Acquire, Goes
  <1>4. /\ lock' \in (Editors \ Denied) \cup {None}
        /\ \A d \in Editors \ {e} : lock = d => lock' = d
        /\ e \notin Denied => lock' = e
    BY EditorAssumption DEF IInv, TypeOK, Acquire, Editors
  <1>5. live' \in Configs /\ faults' \in 0..MaxFaults /\ edits' \in 0..MaxEdits
    BY <1>3 DEF IInv, TypeOK
  <1> HIDE DEF x
  <1> QED
    BY <1>2, <1>3, <1>4, <1>5, EditorMoves

LEMMA LoadInv ==
  ASSUME IInv, NEW e \in Editors, Load(e)
  PROVE  IInv'
  <1> DEFINE x == [editor[e] EXCEPT !.at = "writing", !.doc = file]
  <1>1. editor[e] \in Edits /\ file \in Configs
    BY EditorIs DEF IInv, TypeOK, Load
  <1>2. x \in Edits /\ x.at = "writing" /\ x.doc = file
    BY <1>1 DEF Edits
  <1>3. /\ editor' = [editor EXCEPT ![e] = x]
        /\ UNCHANGED <<file, last, lock, live, pull, faults, edits>>
    BY DEF Load
  <1>4. e \notin Denied => lock' = e
    BY <1>3 DEF IInv, LockHeld, Load
  <1>5. /\ live' \in Configs /\ faults' \in 0..MaxFaults /\ edits' \in 0..MaxEdits
        /\ lock' \in (Editors \ Denied) \cup {None}
    BY <1>3 DEF IInv, TypeOK
  <1>6. x.doc # None
    BY <1>1, <1>2, NoneAssumption
  <1> HIDE DEF x
  <1> QED
    BY <1>2, <1>3, <1>4, <1>5, <1>6, EditorMoves

LEMMA WriteInv ==
  ASSUME IInv, NEW e \in Editors, Write(e)
  PROVE  IInv'
  <1> DEFINE s == editor[e].setting
             v == editor[e].value
             x == IF e \in Conns THEN [editor[e] EXCEPT !.at = "reloading"] ELSE Idle
  <1>1. editor[e] \in Edits /\ e \in Editors \ Denied
    BY EditorIs DEF IInv, Write
  <1>2. s \in Settings /\ v \in Values /\ file \in Configs
    BY <1>1 DEF Edits, IInv, TypeOK
  <1>3. /\ x \in Edits \cup {Idle} /\ x.at \in {"reloading", "idle"}
    BY <1>1 DEF Edits, Idle
  <1>4. editor' = [editor EXCEPT ![e] = x] /\ lock' = None
        /\ UNCHANGED <<live, pull, edits, faults>>
    BY DEF Write
  <1>5. /\ editor'[e] = x
        /\ \A d \in Editors \ {e} : editor'[d] = editor[d]
    BY <1>4 DEF IInv, TypeOK
  <1>6. editor[e].doc = file /\ lock = e
    BY <1>1 DEF IInv, LoadedIsCurrent, LockHeld, Write
  <1>7. file' = [file EXCEPT ![s] = v] /\ last' = [last EXCEPT ![s] = v]
    BY <1>6 DEF Write
  <1>8. file' \in Configs /\ file' = last'
    BY <1>2, <1>7 DEF IInv, EditsSurvive, Configs
  <1> HIDE DEF x, s, v
  <1>9. TypeOK'
    BY <1>3, <1>4, <1>5, <1>8 DEF IInv, TypeOK
  <1>10. \A d \in Editors \ Denied : editor'[d].at \notin {"loading", "writing"}
    <2> TAKE d \in Editors \ Denied
    <2>1. CASE d = e
      BY <2>1, <1>3, <1>5
    <2>2. CASE d # e
      BY <2>2, <1>5, <1>6 DEF IInv, LockHeld
    <2> QED
      BY <2>1, <2>2
  <1> QED
    BY <1>8, <1>9, <1>10 DEF IInv, EditsSurvive, LockHeld, LoadedIsCurrent

LEMMA ReloadInv ==
  ASSUME IInv, NEW e \in Editors, Reload(e)
  PROVE  IInv'
  <1> DEFINE x == [editor[e] EXCEPT !.at = "storing", !.doc = file]
  <1>1. editor[e] \in Edits /\ file \in Configs
    BY EditorIs DEF IInv, TypeOK, Reload
  <1>2. x \in Edits /\ x.at = "storing" /\ x.doc = file
    BY <1>1 DEF Edits
  <1>3. /\ editor' = [editor EXCEPT ![e] = x]
        /\ UNCHANGED <<file, last, lock, live, pull, faults, edits>>
    BY DEF Reload
  <1>5. /\ live' \in Configs /\ faults' \in 0..MaxFaults /\ edits' \in 0..MaxEdits
        /\ lock' \in (Editors \ Denied) \cup {None}
    BY <1>3 DEF IInv, TypeOK
  <1>6. x.doc # None
    BY <1>1, <1>2, NoneAssumption
  <1> HIDE DEF x
  <1> QED
    BY <1>2, <1>3, <1>5, <1>6, EditorMoves

LEMMA StoreInv ==
  ASSUME IInv, NEW e \in Editors, Store(e)
  PROVE  IInv'
  <1>1. editor[e] \in Edits /\ editor[e].doc # None
    BY EditorIs DEF IInv, TypeOK, Store, Ends
  <1>2. live' \in Configs
    BY <1>1 DEF Store, Edits
  <1> QED
    BY <1>2, EndsInv DEF Store, IInv, TypeOK

LEMMA PullType ==
  ASSUME NEW a \in BOOLEAN \cup {None}, NEW l \in BOOLEAN, NEW f \in BOOLEAN
  PROVE  [applied |-> a, listening |-> l, failed |-> f] \in Pulls
  BY Zenon DEF Pulls

LEMMA PullTickInv ==
  ASSUME IInv, PullTick
  PROVE  IInv'
  <1>1. live["pull"].on \in BOOLEAN
    BY DEF IInv, TypeOK, Configs, Values, Settings
  <1>2. faults' \in 0..MaxFaults
    BY FaultType DEF IInv, TypeOK, PullTick
  <1>3. pull' \in Pulls
    <2>1. PICK on \in BOOLEAN :
             \/ pull' = [applied |-> on, listening |-> on, failed |-> FALSE]
             \/ pull' = [applied |-> on, listening |-> FALSE, failed |-> TRUE]
      BY <1>1, Zenon DEF PullTick
    <2>2. on \in BOOLEAN \cup {None} /\ FALSE \in BOOLEAN /\ TRUE \in BOOLEAN
      OBVIOUS
    <2>3. /\ [applied |-> on, listening |-> on, failed |-> FALSE] \in Pulls
          /\ [applied |-> on, listening |-> FALSE, failed |-> TRUE] \in Pulls
      BY <2>2, PullType
    <2> QED
      BY <2>1, <2>3, Zenon
  <1>4. UNCHANGED <<file, lock, editor, live, edits, last>>
    BY DEF PullTick
  <1> QED
    BY <1>2, <1>3, <1>4 DEF IInv, TypeOK, EditsSurvive, LockHeld, LoadedIsCurrent

LEMMA RestartInv ==
  ASSUME IInv, CollectorRestarts
  PROVE  IInv'
  <1>1. \A d \in Editors : editor'[d] = IF d \in Conns THEN Idle ELSE editor[d]
    BY DEF CollectorRestarts
  <1>2. /\ editor' \in [Editors -> Edits \cup {Idle}]
        /\ \A d \in Editors : editor'[d].at # "idle" => d \notin Conns /\ editor'[d] = editor[d]
    BY <1>1 DEF CollectorRestarts, IInv, TypeOK, Idle
  <1>3. faults' \in 0..MaxFaults
    BY FaultType DEF IInv, CollectorRestarts
  <1>4. pull' \in Pulls
    BY DEF CollectorRestarts, Closed, Pulls
  <1>5. /\ lock' \in (Editors \ Denied) \cup {None}
        /\ \A d \in Editors \ Conns : lock = d => lock' = d
    BY DEF CollectorRestarts, IInv, TypeOK
  <1>6. TypeOK'
    BY <1>2, <1>3, <1>4, <1>5 DEF CollectorRestarts, IInv, TypeOK
  <1>7. LockHeld' /\ LoadedIsCurrent'
    BY <1>2, <1>5 DEF CollectorRestarts, IInv, LockHeld, LoadedIsCurrent
  <1> QED
    BY <1>6, <1>7 DEF CollectorRestarts, IInv, EditsSurvive

LEMMA IInvNext == IInv /\ [Next]_vars => IInv'
  <1> SUFFICES ASSUME IInv, [Next]_vars PROVE IInv'
    OBVIOUS
  <1> USE EditorAssumption
  <1>1. ASSUME NEW e \in Editors, NEW s \in Settings, NEW on \in BOOLEAN, Begin(e, s, on)
        PROVE  IInv'
    BY <1>1, BeginInv
  <1>2. ASSUME NEW e \in Editors, Edit(e) PROVE IInv'
    <2>1. CASE Acquire(e) BY <2>1, AcquireInv
    <2>2. CASE Load(e) BY <2>2, LoadInv
    <2>3. CASE Write(e) BY <2>3, WriteInv
    <2>4. CASE Rejected(e)
      <3>1. faults' \in 0..MaxFaults
        BY <2>4, FaultType DEF Rejected, IInv, TypeOK
      <3> QED
        BY <2>4, <3>1, EndsInv DEF Rejected, IInv, TypeOK
    <2>5. CASE LoadFails(e)
      BY <2>5, EndsInv, FaultType DEF LoadFails, IInv, TypeOK
    <2> QED
      BY <1>2, <2>1, <2>2, <2>3, <2>4, <2>5 DEF Edit
  <1>3. ASSUME NEW c \in Conns, Apply(c) PROVE IInv'
    <2>1. c \in Editors BY DEF Editors
    <2>2. CASE Reload(c) BY <2>1, <2>2, ReloadInv
    <2>3. CASE Store(c) BY <2>1, <2>3, StoreInv
    <2>4. CASE ReloadFails(c)
      BY <2>1, <2>4, EndsInv, FaultType DEF ReloadFails, IInv, TypeOK
    <2> QED
      BY <1>3, <2>2, <2>3, <2>4 DEF Apply
  <1>4. ASSUME NEW t \in Tools, ToolDies(t) PROVE IInv'
    <2>1. t \in Editors BY DEF Editors
    <2> QED
      BY <1>4, <2>1, EndsInv, FaultType DEF ToolDies, IInv, TypeOK
  <1>5. CASE PullTick BY <1>5, PullTickInv
  <1>6. CASE CollectorRestarts BY <1>6, RestartInv
  <1>7. CASE UNCHANGED vars
    BY <1>7 DEF vars, IInv, TypeOK, EditsSurvive, LockHeld, LoadedIsCurrent
  <1> QED
    BY <1>1, <1>2, <1>3, <1>4, <1>5, <1>6, <1>7 DEF Next

THEOREM Invariance == Spec => []IInv
  BY IInvInit, IInvNext, PTL DEF Spec

\* The config file's variables keep their types, whoever edits it.
THEOREM ConfigTypeCorrect == Spec => []TypeOK
  <1>1. IInv => TypeOK BY DEF IInv
  <1> QED BY <1>1, Invariance, PTL

\* No edit that was written is undone by another editor's write, a crash or an
\* error: edit() of shared/config/persist.rs holds the lock over load and write.
THEOREM NoEditLost == Spec => []EditsSurvive
  <1>1. IInv => EditsSurvive BY DEF IInv
  <1> QED BY <1>1, Invariance, PTL

-----------------------------------------------------------------------------
(* Refinement of the config as an atomic file. *)

Waiting == {"reloading", "storing"}

\* The file is the last document of the past; whoever waits knows the place of
\* his edit, nobody else's, and what he loaded since is of that place or later.
PastKept ==
  /\ past \in Seq(Configs) /\ past # <<>> /\ past[Len(past)] = file
  /\ wrote \in [Conns -> Nat]
  /\ \A c \in Conns : Waits(c) => wrote[c] \in 1 .. Len(past)
  /\ \A c \in Conns : editor[c].at = "storing" =>
       \E m \in wrote[c] .. Len(past) : editor[c].doc = past[m]
  /\ \A c, d \in Conns : Waits(c) /\ Waits(d) /\ c # d => wrote[c] # wrote[d]

LEMMA PastInit == Init => PastKept
  <1> SUFFICES ASSUME Init PROVE PastKept
    OBVIOUS
  <1>1. file \in Configs
    BY IInvInit DEF IInv, TypeOK
  <1>2. past \in Seq(Configs) /\ past # <<>> /\ past[Len(past)] = file
    BY <1>1 DEF Init
  <1>3. \A c \in Conns : ~Waits(c) /\ editor[c].at # "storing"
    BY DEF Init, Idle, Waits, Editors
  <1> QED BY <1>2, <1>3 DEF Init, PastKept

\* An editor moves and the record stays: nobody begins to wait.
LEMMA Moves ==
  ASSUME IInv, PastKept, NEW e \in Editors, NEW x,
         editor' = [editor EXCEPT ![e] = x], UNCHANGED <<file, past, wrote>>,
         e \in Conns /\ x.at \in Waiting => Waits(e),
         e \in Conns /\ x.at = "storing" => \E m \in wrote[e] .. Len(past) : x.doc = past[m]
  PROVE  /\ PastKept'
         /\ (e \in Conns /\ Waits(e) => x.at \in Waiting) => Due' = Due
         /\ e \in Conns /\ Waits(e) /\ x.at \notin Waiting =>
              wrote[e] \in Due /\ Due' = Due \ {wrote[e]}
  <1>1. editor'[e] = x /\ \A d \in Editors \ {e} : editor'[d] = editor[d]
    BY DEF IInv, TypeOK
  <1>2. \A c \in Conns : c \in Editors /\ (Waits(c)' => Waits(c))
    BY <1>1 DEF Waits, Waiting, Editors
  <1>3. \A c \in Conns : editor'[c].at = "storing" =>
          \E m \in wrote[c] .. Len(past) : editor'[c].doc = past[m]
    BY <1>1, <1>2 DEF PastKept
  <1>4. PastKept'
    BY <1>2, <1>3 DEF PastKept
  <1>5. \A c \in Conns \ {e} : Waits(c)' <=> Waits(c)
    BY <1>1, <1>2 DEF Waits
  <1>6. Waits(e)' <=> x.at \in Waiting
    BY <1>1 DEF Waits, Waiting
  <1>7. ASSUME e \in Conns /\ Waits(e) => x.at \in Waiting PROVE Due' = Due
    <2>1. \A c \in Conns : Waits(c)' <=> Waits(c)
      BY <1>2, <1>5, <1>6, <1>7, Zenon
    <2> QED BY <2>1 DEF Due
  <1>8. ASSUME e \in Conns, Waits(e), x.at \notin Waiting
        PROVE  wrote[e] \in Due /\ Due' = Due \ {wrote[e]}
    <2>1. \A c \in Conns : Waits(c)' <=> Waits(c) /\ c # e
      BY <1>5, <1>6, <1>8
    <2>2. \A c \in Conns : Waits(c) /\ c # e => wrote[c] # wrote[e]
      BY <1>8 DEF PastKept
    <2> QED BY <2>1, <2>2, <1>8 DEF Due
  <1> QED BY <1>4, <1>7, <1>8

\* An edit is over, or a tool's: nothing of it is left but an answer.
LEMMA EndsMoves ==
  ASSUME IInv, PastKept, NEW e \in Editors, NEW from, Ends(e, from), UNCHANGED <<file, past, wrote>>
  PROVE  /\ PastKept'
         /\ (e \in Tools \/ from \notin Waiting) => Due' = Due
         /\ e \in Conns /\ from \in Waiting => wrote[e] \in Due /\ Due' = Due \ {wrote[e]}
  <1>1. Idle.at \notin Waiting /\ Idle.at # "storing"
    BY DEF Idle, Waiting
  <1>2. Waits(e) <=> from \in Waiting
    BY DEF Ends, Waits, Waiting
  <1>3. e \in Tools => e \notin Conns
    BY EditorAssumption
  <1> QED BY <1>1, <1>2, <1>3, Moves DEF Ends

\* A step of an editor that leaves the config as it is.
LEMMA QuietStep ==
  ASSUME IInv, PastKept, NEW e \in Editors, UNCHANGED <<file, past, wrote, live>>,
         \/ \E to : Goes(e, "locking", to) /\ to \notin Waiting
         \/ editor[e].at = "idle" /\ \E x : editor' = [editor EXCEPT ![e] = x] /\ x.at \notin Waiting
         \/ Load(e) \/ Reload(e)
         \/ \E from : Ends(e, from) /\ (e \in Tools \/ from \notin Waiting)
  PROVE  PastKept' /\ UNCHANGED Abstract!fileVars
  <1> SUFFICES PastKept' /\ Due' = Due
    BY DEF Abstract!fileVars
  <1>1. ASSUME NEW to, Goes(e, "locking", to), to \notin Waiting PROVE PastKept' /\ Due' = Due
    <2> DEFINE x == [editor[e] EXCEPT !.at = to]
    <2>1. editor[e] \in Edits
      BY <1>1, EditorIs DEF IInv, Goes
    <2>2. x.at = to /\ ~Waits(e) /\ to # "storing" /\ editor' = [editor EXCEPT ![e] = x]
      BY <1>1, <2>1 DEF Goes, Edits, Waits, Waiting
    <2> HIDE DEF x
    <2> QED BY <1>1, <2>2, Moves
  <1>2. ASSUME NEW x, editor[e].at = "idle", editor' = [editor EXCEPT ![e] = x], x.at \notin Waiting
        PROVE  PastKept' /\ Due' = Due
    <2>1. ~Waits(e) /\ x.at # "storing"
      BY <1>2 DEF Waits, Waiting
    <2> QED BY <1>2, <2>1, Moves
  <1>3. CASE Load(e)
    <2> DEFINE x == [editor[e] EXCEPT !.at = "writing", !.doc = file]
    <2>1. editor[e] \in Edits
      BY <1>3, EditorIs DEF IInv, Load
    <2>2. x.at = "writing" /\ ~Waits(e) /\ "writing" \notin Waiting
          /\ editor' = [editor EXCEPT ![e] = x]
      BY <1>3, <2>1 DEF Load, Edits, Waits, Waiting
    <2> HIDE DEF x
    <2> QED BY <2>2, Moves
  <1>4. CASE Reload(e)
    <2> DEFINE x == [editor[e] EXCEPT !.at = "storing", !.doc = file]
    <2>1. editor[e] \in Edits
      BY <1>4, EditorIs DEF IInv, Reload
    <2>2. /\ x.at = "storing" /\ x.doc = file /\ Waits(e) /\ "storing" \in Waiting
          /\ editor' = [editor EXCEPT ![e] = x]
      BY <1>4, <2>1 DEF Reload, Edits, Waits, Waiting
    <2>3. e \in Conns => Len(past) \in wrote[e] .. Len(past) /\ x.doc = past[Len(past)]
      BY <2>2 DEF PastKept
    <2> HIDE DEF x
    <2> QED BY <2>2, <2>3, Moves
  <1>5. ASSUME NEW from, Ends(e, from), e \in Tools \/ from \notin Waiting
        PROVE  PastKept' /\ Due' = Due
    BY <1>5, EndsMoves
  <1> QED BY <1>1, <1>2, <1>3, <1>4, <1>5

\* A write is an edit of the abstract file: one setting changes, at once.
LEMMA WriteStep ==
  ASSUME IInv, PastKept, NEW e \in Editors, Write(e)
  PROVE  PastKept' /\ Abstract!Next
  <1> DEFINE s == editor[e].setting
             v == editor[e].value
             x == IF e \in Conns THEN [editor[e] EXCEPT !.at = "reloading"] ELSE Idle
             place == Len(past) + 1
  <1>1. editor[e] \in Edits /\ editor[e].doc = file /\ editor[e].at = "writing"
    BY EditorIs DEF IInv, LoadedIsCurrent, Write
  <1>2. s \in Settings /\ v \in Values /\ file \in Configs /\ file' \in Configs
    BY <1>1, IInvNext DEF Edits, IInv, TypeOK, Next, Edit
  <1>3. /\ file' = [file EXCEPT ![s] = v] /\ past' = Append(past, file') /\ live' = live
        /\ editor' = [editor EXCEPT ![e] = x]
    BY <1>1 DEF Write
  <1>4. /\ past' \in Seq(Configs) /\ past' # <<>> /\ Len(past') = place
        /\ Len(past) \in Nat /\ past'[place] = file'
        /\ \A i \in 1 .. Len(past) : past'[i] = past[i]
    BY <1>2, <1>3 DEF PastKept
  <1>5. /\ editor'[e] = x /\ \A d \in Editors \ {e} : editor'[d] = editor[d]
        /\ x.at = IF e \in Conns THEN "reloading" ELSE "idle"
    BY <1>1, <1>3 DEF IInv, TypeOK, Edits, Idle
  <1>6. /\ wrote' \in [Conns -> Nat]
        /\ \A c \in Conns : wrote'[c] = IF c = e THEN place ELSE wrote[c]
    BY <1>4 DEF Write, PastKept
  <1>7. \A c \in Conns : c # e => (Waits(c)' <=> Waits(c)) /\ editor'[c] = editor[c]
    BY <1>5 DEF Waits, Editors
  <1>8. /\ e \in Conns => Waits(e)' /\ ~Waits(e) /\ editor'[e].at # "storing"
        /\ ~Waits(e)
    BY <1>1, <1>5 DEF Waits
  <1> HIDE DEF s, v, x
  <1>9. PastKept'
    <2>1. \A c \in Conns : Waits(c)' => wrote'[c] \in 1 .. Len(past')
      BY <1>4, <1>6, <1>7, <1>8 DEF PastKept
    <2>2. ASSUME NEW c \in Conns, editor'[c].at = "storing"
          PROVE  \E m \in wrote'[c] .. Len(past') : editor'[c].doc = past'[m]
      <3>1. c # e /\ editor[c].at = "storing" /\ Waits(c) /\ editor'[c].doc = editor[c].doc
        BY <1>7, <1>8, <2>2 DEF Waits
      <3>2. wrote[c] \in 1 .. Len(past) /\ wrote'[c] = wrote[c]
        BY <3>1, <1>6 DEF PastKept
      <3>3. PICK m \in wrote[c] .. Len(past) : editor[c].doc = past[m]
        BY <3>1 DEF PastKept
      <3>4. m \in 1 .. Len(past) /\ m \in wrote'[c] .. Len(past')
        BY <3>2, <3>3, <1>4
      <3> QED BY <3>1, <3>3, <3>4, <1>4
    <2>3. ASSUME NEW c \in Conns, NEW d \in Conns, Waits(c)', Waits(d)', c # d
          PROVE  wrote'[c] # wrote'[d]
      <3>1. /\ c # e => Waits(c) /\ wrote'[c] = wrote[c] /\ wrote[c] \in 1 .. Len(past)
            /\ d # e => Waits(d) /\ wrote'[d] = wrote[d] /\ wrote[d] \in 1 .. Len(past)
        BY <1>6, <1>7, <2>3 DEF PastKept
      <3>2. c = e \/ d = e => wrote'[c] # wrote'[d]
        BY <3>1, <1>4, <1>6, <2>3
      <3>3. c # e /\ d # e => wrote'[c] # wrote'[d]
        BY <3>1, <2>3 DEF PastKept
      <3> QED BY <3>2, <3>3
    <2> QED BY <1>4, <1>6, <2>1, <2>2, <2>3 DEF PastKept
  <1>10. Due' \in {Due, Due \cup {Len(past')}}
    <2>1. CASE e \in Conns
      <3>1. \A c \in Conns : Waits(c)' <=> Waits(c) \/ c = e
        BY <1>7, <1>8, <2>1
      <3>2. Due' = Due \cup {place}
        BY <3>1, <1>6, <1>8, <2>1 DEF Due
      <3> QED BY <3>2, <1>4
    <2>2. CASE e \notin Conns
      <3>1. \A c \in Conns : (Waits(c)' <=> Waits(c)) /\ wrote'[c] = wrote[c]
        BY <1>6, <1>7, <2>2
      <3> QED BY <3>1 DEF Due
    <2> QED BY <2>1, <2>2
  <1>11. Abstract!Edit(s, v)
    BY <1>3, <1>10 DEF Abstract!Edit
  <1> QED BY <1>2, <1>9, <1>11 DEF Abstract!Next

\* An answer to an operator comes after his edit, or a later one, is running.
LEMMA StoreStep ==
  ASSUME IInv, PastKept, NEW c \in Conns, Store(c)
  PROVE  PastKept' /\ Abstract!Next
  <1>1. c \in Editors /\ Ends(c, "storing") /\ "storing" \in Waiting
        /\ UNCHANGED <<file, past, wrote>> /\ live' = editor[c].doc
    BY DEF Store, Editors, Waiting
  <1>2. PastKept' /\ wrote[c] \in Due /\ Due' = Due \ {wrote[c]}
    BY <1>1, EndsMoves
  <1>3. \E m \in wrote[c] .. Len(past) : live' = past[m]
    BY <1>1 DEF PastKept, Ends
  <1>4. Abstract!Publish(wrote[c])
    BY <1>1, <1>2, <1>3 DEF Abstract!Publish
  <1> QED BY <1>2, <1>4 DEF Abstract!Next

LEMMA ReloadFailsStep ==
  ASSUME IInv, PastKept, NEW c \in Conns, ReloadFails(c)
  PROVE  PastKept' /\ Abstract!Next
  <1>1. c \in Editors /\ Ends(c, "reloading") /\ "reloading" \in Waiting
        /\ UNCHANGED <<file, past, wrote, live>>
    BY DEF ReloadFails, Editors, Waiting
  <1>2. PastKept' /\ wrote[c] \in Due /\ Due' = Due \ {wrote[c]}
    BY <1>1, EndsMoves
  <1> QED BY <1>1, <1>2 DEF Abstract!Next, Abstract!Abandon

LEMMA RestartStep ==
  ASSUME IInv, PastKept, CollectorRestarts
  PROVE  PastKept' /\ Abstract!Next
  <1>1. \A c \in Conns : ~Waits(c)' /\ editor'[c].at # "storing"
    BY DEF CollectorRestarts, Waits, Idle, Editors
  <1>2. PastKept'
    BY <1>1 DEF PastKept, CollectorRestarts
  <1>3. Due' = {}
    BY <1>1 DEF Due
  <1>4. Abstract!Restart
    BY <1>3 DEF CollectorRestarts, Abstract!Restart
  <1> QED BY <1>2, <1>4 DEF Abstract!Next

LEMMA StepOfFile ==
  IInv /\ PastKept /\ [Next]_vars => PastKept' /\ [Abstract!Next]_(Abstract!fileVars)
  <1> SUFFICES ASSUME IInv, PastKept, [Next]_vars
               PROVE  PastKept' /\ (Abstract!Next \/ UNCHANGED Abstract!fileVars)
    OBVIOUS
  <1> USE EditorAssumption
  <1>1. ASSUME NEW e \in Editors, NEW s \in Settings, NEW on \in BOOLEAN, Begin(e, s, on)
        PROVE  PastKept' /\ UNCHANGED Abstract!fileVars
    <2> DEFINE x == [at |-> "locking", setting |-> s, doc |-> None,
                     value |-> [n |-> edits + 1, on |-> on]]
    <2>1. /\ editor[e].at = "idle" /\ editor' = [editor EXCEPT ![e] = x]
          /\ UNCHANGED <<file, past, wrote, live>> /\ x.at \notin Waiting
      BY <1>1 DEF Begin, Waiting
    <2> HIDE DEF x
    <2> QED BY <2>1, QuietStep
  <1>2. ASSUME NEW e \in Editors, Edit(e)
        PROVE  PastKept' /\ (Abstract!Next \/ UNCHANGED Abstract!fileVars)
    <2>1. CASE Acquire(e)
      <3>1. /\ Goes(e, "locking", "loading") /\ "loading" \notin Waiting
            /\ UNCHANGED <<file, past, wrote, live>>
        BY <2>1 DEF Acquire, Waiting
      <3> QED BY <3>1, QuietStep
    <2>2. CASE Load(e)
      <3>1. UNCHANGED <<file, past, wrote, live>>
        BY <2>2 DEF Load
      <3> QED BY <3>1, <2>2, QuietStep
    <2>3. CASE Write(e)
      BY <2>3, WriteStep
    <2>4. CASE Rejected(e) \/ LoadFails(e)
      <3>1. PICK from \in {"writing", "loading"} :
              Ends(e, from) /\ from \notin Waiting /\ UNCHANGED <<file, past, wrote, live>>
        BY <2>4 DEF Rejected, LoadFails, Waiting
      <3> QED BY <3>1, QuietStep
    <2> QED BY <1>2, <2>1, <2>2, <2>3, <2>4 DEF Edit
  <1>3. ASSUME NEW c \in Conns, Apply(c)
        PROVE  PastKept' /\ (Abstract!Next \/ UNCHANGED Abstract!fileVars)
    <2>1. CASE Reload(c)
      <3>1. c \in Editors /\ UNCHANGED <<file, past, wrote, live>>
        BY <2>1 DEF Reload, Editors
      <3> QED BY <3>1, <2>1, QuietStep
    <2> QED BY <1>3, <2>1, StoreStep, ReloadFailsStep DEF Apply
  <1>4. ASSUME NEW t \in Tools, ToolDies(t)
        PROVE  PastKept' /\ UNCHANGED Abstract!fileVars
    <2>1. /\ t \in Editors /\ Ends(t, editor[t].at)
          /\ UNCHANGED <<file, past, wrote, live>>
      BY <1>4 DEF ToolDies, Editors
    <2> QED BY <2>1, QuietStep
  <1>5. CASE PullTick \/ UNCHANGED vars
    <2>1. UNCHANGED <<file, past, wrote, live, editor>>
      BY <1>5 DEF PullTick, vars
    <2>2. Due' = Due /\ PastKept'
      BY <2>1 DEF Due, Waits, PastKept
    <2> QED BY <2>1, <2>2 DEF Abstract!fileVars
  <1>6. CASE CollectorRestarts
    BY <1>6, RestartStep
  <1> QED BY <1>1, <1>2, <1>3, <1>4, <1>5, <1>6 DEF Next

\* The locked edits implement edits that happen at once, and a running config is
\* a document the file was, as new as the last answered edit when it is stored
\* (persist.rs edit; ipc_server/mod.rs serve_conn), for any number of editors.
THEOREM FileIsAtomic == Spec => ImplementsFile
  <1>1. Init => Abstract!Init
    <2> SUFFICES ASSUME Init PROVE Abstract!Init
      OBVIOUS
    <2>1. file \in [Settings -> Values]
      BY IInvInit DEF IInv, TypeOK, Configs
    <2>2. Due = {}
      BY DEF Init, Due, Waits, Idle, Editors
    <2> QED BY <2>1, <2>2 DEF Init, Abstract!Init
  <1>2. Spec => [](IInv /\ PastKept)
    <2>1. Init => IInv /\ PastKept
      BY IInvInit, PastInit
    <2>2. IInv /\ PastKept /\ [Next]_vars => (IInv /\ PastKept)'
      BY IInvNext, StepOfFile
    <2> QED BY <2>1, <2>2, PTL DEF Spec
  <1>3. Spec => Abstract!Init /\ [][Abstract!Next]_(Abstract!fileVars)
    BY <1>1, <1>2, StepOfFile, PTL DEF Spec
  <1> QED BY <1>3 DEF ImplementsFile, Abstract!FileSpec
=============================================================================
