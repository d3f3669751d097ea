------------------------------ MODULE JobProofs -----------------------------
(***************************************************************************)
(* Proofs about the conclusions of jobs, for any jobs, budgets and bounds: *)
(* whatever is read, looked up and written in between, a row only ever     *)
(* gets the conclusion of a job it can stand for.                          *)
(***************************************************************************)
EXTENDS JobConclusions, FiniteSetTheorems, TLAPS

\* A row says that a job of its key completed only once one did, and one that
\* did was on its runner.
RowsRan ==
  \A k \in Keys : completed[k] > 0 =>
    \E l \in Legs : KeyOf(l) = k /\ phase[l] # "waiting"

\* What a cycle took for pending had completed.
PendingCompleted == \A k \in worker.pending : completed[k] > 0

\* What a set of updates, or the table, says of each row is true of its job.
Sound(u) ==
  \A k \in Keys : u[k] # None => KeyOf(u[k]) = k /\ phase[u[k]] = "concluded"

OnTheWay == /\ Sound(worker.updates)
            /\ \A i \in 1 .. Len(channel) : Sound(channel[i])

IInv == TypeOK /\ RowsRan /\ PendingCompleted /\ OnTheWay /\ ConclusionIsOfRow

-----------------------------------------------------------------------------
LEMMA LegFields ==
  ASSUME NEW l \in Legs
  PROVE  /\ KeyOf(l) \in Keys /\ l.attempt \in {o.attempt : o \in Legs}
         /\ l # None
  BY JobsAssumption DEF Keys

LEMMA KeyFields ==
  ASSUME NEW k \in Keys
  PROVE  /\ k.attempt \in {l.attempt : l \in Legs}
         /\ \A l \in Legs : KeyOf(l) = k <=> /\ l.attempt = k.attempt /\ l.job = k.job
                                             /\ l.runner = k.runner
  BY DEF Keys, KeyOf

LEMMA OrgType ==
  ASSUME NEW a \in {l.attempt : l \in Legs}
  PROVE  OrgOf(a) \in {l.org : l \in Legs}
  <1>1. \E l \in Legs : l.attempt = a
    OBVIOUS
  <1>2. (CHOOSE l \in Legs : l.attempt = a) \in Legs
    BY <1>1
  <1> QED BY <1>2 DEF OrgOf

LEMMA NoUpdatesType == NoUpdates \in Updates
  BY DEF NoUpdates, Updates

LEMMA NoUpdatesSound == Sound(NoUpdates)
  BY DEF NoUpdates, Sound

LEMMA RestingType ==
  Resting \in [at : {"rest", "look", "send"}, todo : SUBSET {l.attempt : l \in Legs},
               pending : SUBSET Keys, denied : SUBSET {l.org : l \in Legs}, updates : Updates]
  BY NoUpdatesType DEF Resting

\* What the match takes for a row that has completed is a job of the row's.
LEMMA MatchIsOfRow ==
  ASSUME TypeOK, NEW k \in Keys, NEW o \in Legs, KeyOf(o) = k, phase[o] # "waiting",
         NEW l \in Match(k)
  PROVE  l \in Legs /\ KeyOf(l) = k /\ phase[l] = "concluded"
  <1> DEFINE on == {x \in Legs : /\ x.attempt = k.attempt /\ phase[x] # "waiting"
                                 /\ x.runner = k.runner}
             named == {x \in on : x.name = k.job}
             legs == {x \in on : x.legOf = k.job}
  <1>1. o \in on /\ o.job = k.job
    BY KeyFields
  <1>2. l \in on /\ phase[l] = "concluded"
        /\ (l \in named \/ l \in legs \/ Cardinality(on) = 1)
    <2>1. CASE named # {}
      <3>1. (CHOOSE x \in named : TRUE) \in named
        BY <2>1
      <3>2. Match(k) = {x \in {CHOOSE y \in named : TRUE} : phase[x] = "concluded"}
        BY <2>1, Zenon DEF Match
      <3> HIDE DEF named
      <3>3. l \in named /\ phase[l] = "concluded"
        BY <3>1, <3>2
      <3> QED BY <3>3 DEF named
    <2>2. CASE named = {} /\ Cardinality(legs) = 1
      <3>1. Match(k) = {x \in legs : phase[x] = "concluded"}
        BY <2>2 DEF Match
      <3> QED BY <3>1
    <2>3. CASE named = {} /\ Cardinality(legs) # 1 /\ Cardinality(on) = 1
      <3>1. Match(k) = {x \in on : phase[x] = "concluded"}
        BY <2>3 DEF Match
      <3> QED BY <3>1, <2>3
    <2>4. CASE named = {} /\ Cardinality(legs) # 1 /\ Cardinality(on) # 1
      <3>1. Match(k) = {}
        BY <2>4 DEF Match
      <3> QED BY <3>1
    <2> QED BY <2>1, <2>2, <2>3, <2>4
  <1>3. CASE l \in named \/ l \in legs
    BY <1>1, <1>2, <1>3, NamesAssumption, KeyFields
  <1>4. CASE Cardinality(on) = 1
    <2>1. IsFiniteSet(on)
      BY JobsAssumption, FS_Subset
    <2>2. \E x : on = {x}
      <3> HIDE DEF on
      <3> QED BY <2>1, <1>4, FS_Singleton
    <2> QED BY <2>2, <1>1, <1>2
  <1> QED BY <1>2, <1>3, <1>4

LEMMA InitInv == Init => IInv
  <1> SUFFICES ASSUME Init PROVE IInv
    OBVIOUS
  <1>1. TypeOK
    BY JobsAssumption, NoUpdatesType, RestingType DEF Init, TypeOK
  <1>2. RowsRan
    BY DEF Init, RowsRan
  <1>3. PendingCompleted /\ OnTheWay
    BY NoUpdatesSound DEF Init, PendingCompleted, OnTheWay, Resting
  <1>4. ConclusionIsOfRow
    BY DEF Init, ConclusionIsOfRow, NoUpdates
  <1> QED BY <1>1, <1>2, <1>3, <1>4 DEF IInv

\* A job that has ended stays so, and one on its runner is never off it again.
LEMMA SoundStays ==
  ASSUME NEW u, Sound(u), NEW k \in Keys, u[k] # None,
         \A l : phase[l] = "concluded" => phase'[l] = "concluded"
  PROVE  KeyOf(u[k]) = k /\ phase'[u[k]] = "concluded"
  BY DEF Sound

\* The budget of a cycle is of attempts, and its rows have completed.
LEMMA CycleType ==
  ASSUME NEW pending \in Oldest(SUBSET {k \in Keys : Awaiting(k)}, Limit),
         NEW budget \in Budgets(pending)
  PROVE  /\ pending \in SUBSET Keys /\ \A k \in pending : completed[k] > 0
         /\ budget \in SUBSET {l.attempt : l \in Legs}
  <1>1. pending \in SUBSET {k \in Keys : Awaiting(k)}
    BY DEF Oldest
  <1>2. budget \in SUBSET {k.attempt : k \in pending}
    BY DEF Budgets, Attempts
  <1> QED BY <1>1, <1>2, KeyFields DEF Awaiting

\* The updates of a cycle, with what one more look-up has matched.
LEMMA LookUpUpdates ==
  ASSUME IInv, NEW a, LookUp(a)
  PROVE  worker'.updates \in Updates /\ Sound(worker'.updates)
  <1> DEFINE matched(k) == k \in worker.pending /\ k.attempt = a /\ Match(k) # {}
             u == [k \in Keys |-> IF matched(k) THEN CHOOSE l \in Match(k) : TRUE
                                  ELSE worker.updates[k]]
  <1>1. worker'.updates = u
    BY DEF LookUp, IInv, TypeOK
  <1>2. ASSUME NEW k \in Keys
        PROVE  /\ u[k] \in Legs \cup {None}
               /\ u[k] # None => KeyOf(u[k]) = k /\ phase[u[k]] = "concluded"
    <2>1. CASE matched(k)
      <3>1. PICK o \in Legs : KeyOf(o) = k /\ phase[o] # "waiting"
        BY <2>1 DEF IInv, PendingCompleted, RowsRan
      <3>2. (CHOOSE l \in Match(k) : TRUE) \in Match(k)
        BY <2>1
      <3>3. (CHOOSE l \in Match(k) : TRUE) \in Legs
            /\ KeyOf(CHOOSE l \in Match(k) : TRUE) = k
            /\ phase[CHOOSE l \in Match(k) : TRUE] = "concluded"
        BY <3>1, <3>2, MatchIsOfRow DEF IInv
      <3> QED BY <2>1, <3>3
    <2>2. CASE ~matched(k)
      <3>1. u[k] = worker.updates[k]
        BY <2>2
      <3>2. worker.updates[k] \in Legs \cup {None}
        BY DEF IInv, TypeOK, Updates
      <3> QED BY <3>1, <3>2 DEF IInv, OnTheWay, Sound
    <2> QED BY <2>1, <2>2
  <1>3. u \in Updates
    BY <1>2 DEF Updates
  <1>4. phase' = phase
    BY DEF LookUp
  <1> HIDE DEF u
  <1>5. Sound(u)
    BY <1>2 DEF Sound
  <1> QED BY <1>1, <1>3, <1>5

LEMMA LookedType ==
  ASSUME TypeOK, NEW a \in {l.attempt : l \in Legs}, Looked(a) \/ Forbidden(a)
  PROVE  /\ worker' \in [at : {"rest", "look", "send"}, todo : SUBSET {l.attempt : l \in Legs},
                         pending : SUBSET Keys, denied : SUBSET {l.org : l \in Legs},
                         updates : Updates]
         /\ worker'.pending = worker.pending /\ worker'.updates = worker.updates
  <1>1. OrgOf(a) \in {l.org : l \in Legs}
    BY OrgType
  <1>2. CASE Looked(a)
    BY <1>2 DEF Looked, TypeOK
  <1>3. CASE Forbidden(a)
    BY <1>1, <1>3 DEF Forbidden, TypeOK
  <1> QED BY <1>2, <1>3

\* What one action of the worker may leave behind.
LEMMA WorkerStep ==
  ASSUME IInv, ApiThread
  PROVE  TypeOK' /\ PendingCompleted' /\ OnTheWay'
  <1> USE DEF IInv
  <1> DEFINE WorkerType ==
        [at : {"rest", "look", "send"}, todo : SUBSET {l.attempt : l \in Legs},
         pending : SUBSET Keys, denied : SUBSET {l.org : l \in Legs}, updates : Updates]
  <1>1. CASE StartCycle
    <2>0. PICK pending \in Oldest(SUBSET {k \in Keys : Awaiting(k)}, Limit) :
            \E budget \in Budgets(pending) :
              worker' = [Resting EXCEPT !.at = "look", !.todo = budget, !.pending = pending]
      BY <1>1 DEF StartCycle
    <2>1. PICK budget \in Budgets(pending) :
            worker' = [Resting EXCEPT !.at = "look", !.todo = budget, !.pending = pending]
      BY <2>0
    <2>2. /\ pending \in SUBSET Keys /\ \A k \in pending : completed[k] > 0
          /\ budget \in SUBSET {l.attempt : l \in Legs}
      BY CycleType
    <2>3. worker' \in WorkerType /\ worker'.pending = pending /\ worker'.updates = NoUpdates
      BY <2>1, <2>2, NoUpdatesType DEF Resting
    <2>4. TypeOK'
      BY <1>1, <2>3 DEF StartCycle, TypeOK
    <2>5. PendingCompleted'
      BY <1>1, <2>2, <2>3 DEF StartCycle, PendingCompleted
    <2>6. OnTheWay'
      BY <1>1, <2>3, NoUpdatesSound DEF StartCycle, OnTheWay, Sound, NoUpdates
    <2> QED BY <2>4, <2>5, <2>6
  <1>2. CASE Send
    <2>1. worker' = Resting /\ phase' = phase /\ completed' = completed
      BY <1>2 DEF Send
    <2>2. \/ channel' = channel
          \/ Len(channel) < Bound /\ channel' = Append(channel, worker.updates)
      BY <1>2 DEF Send
    <2>3. worker.updates \in Updates
      BY DEF TypeOK
    <2>4. channel \in Seq(Updates) /\ Len(channel) <= Bound /\ Bound \in Nat
      BY JobsAssumption DEF TypeOK
    <2>5. channel' \in Seq(Updates) /\ Len(channel') <= Bound
      <3>1. CASE channel' = channel
        BY <3>1, <2>4
      <3>2. CASE Len(channel) < Bound /\ channel' = Append(channel, worker.updates)
        <4>1. Append(channel, worker.updates) \in Seq(Updates)
              /\ Len(Append(channel, worker.updates)) = Len(channel) + 1
          BY <2>3, <2>4
        <4> QED BY <3>2, <4>1, <2>4
      <3> QED BY <2>2, <3>1, <3>2
    <2>6. worker' \in WorkerType
      BY <2>1, RestingType
    <2>7. TypeOK'
      BY <1>2, <2>5, <2>6 DEF Send, TypeOK
    <2>8. PendingCompleted'
      BY <2>1 DEF PendingCompleted, Resting
    <2>9. ASSUME NEW i \in 1 .. Len(channel')
          PROVE  Sound(channel'[i])
      <3>1. CASE channel' = channel
        BY <3>1 DEF OnTheWay
      <3>2. CASE channel' = Append(channel, worker.updates)
        <4>1. CASE i \in 1 .. Len(channel)
          BY <2>3, <2>4, <3>2, <4>1 DEF OnTheWay
        <4>2. CASE i = Len(channel) + 1
          BY <2>3, <2>4, <3>2, <4>2 DEF OnTheWay
        <4> QED BY <2>3, <2>4, <3>2, <4>1, <4>2
      <3> QED BY <2>2, <3>1, <3>2
    <2>10. Sound(worker'.updates)
      BY <2>1, NoUpdatesSound DEF Resting
    <2> QED BY <2>1, <2>7, <2>8, <2>9, <2>10 DEF OnTheWay, Sound
  <1>3. ASSUME NEW a \in {l.attempt : l \in Legs}, AttemptStep(a)
        PROVE  TypeOK' /\ PendingCompleted' /\ OnTheWay'
    <2>1. CASE Skip(a) \/ Forbidden(a) \/ LookUpFails(a)
      <3>1. Looked(a) \/ Forbidden(a)
        BY <2>1 DEF Skip, LookUpFails
      <3>2. /\ worker' \in WorkerType
            /\ worker'.pending = worker.pending /\ worker'.updates = worker.updates
        BY <3>1, LookedType
      <3>3. /\ phase' = phase /\ completed' = completed /\ recorded' = recorded
            /\ conclusion' = conclusion /\ channel' = channel /\ now' = now
            /\ faults' \in 0 .. MaxFaults
        BY <2>1, JobsAssumption DEF Skip, Forbidden, LookUpFails, TypeOK
      <3>4. TypeOK'
        BY <3>2, <3>3 DEF TypeOK
      <3>5. PendingCompleted'
        BY <3>2, <3>3 DEF PendingCompleted
      <3>6. Sound(worker'.updates) /\ \A i \in 1 .. Len(channel) : Sound(channel[i])
        BY <3>2 DEF OnTheWay
      <3>7. OnTheWay'
        BY <3>3, <3>6 DEF OnTheWay, Sound
      <3> QED BY <3>4, <3>5, <3>7
    <2>2. CASE LookUp(a)
      <3>1. worker'.updates \in Updates /\ Sound(worker'.updates)
        BY <2>2, LookUpUpdates
      <3>2. PICK u : worker' = [worker EXCEPT
              !.todo = @ \ {a}, !.at = IF worker.todo = {a} THEN "send" ELSE @, !.updates = u]
        BY <2>2 DEF LookUp
      <3>3. worker' \in WorkerType /\ worker'.pending = worker.pending
        <4>1. worker'.updates = u
          BY <3>2 DEF TypeOK
        <4> QED BY <3>1, <3>2, <4>1 DEF TypeOK
      <3>4. UNCHANGED <<phase, completed, recorded, conclusion, channel, now, faults>>
        BY <2>2 DEF LookUp
      <3>5. TypeOK'
        BY <3>3, <3>4 DEF TypeOK
      <3>6. PendingCompleted'
        BY <3>3, <3>4 DEF PendingCompleted
      <3> QED BY <3>1, <3>4, <3>5, <3>6 DEF OnTheWay, Sound
    <2> QED BY <1>3, <2>1, <2>2 DEF AttemptStep
  <1> QED BY <1>1, <1>2, <1>3 DEF ApiThread

LEMMA NextInv == IInv /\ [Next]_vars => IInv'
  <1> SUFFICES ASSUME IInv, [Next]_vars PROVE IInv'
    OBVIOUS
  <1> USE DEF IInv
  <1>1. CASE ApiThread
    <2>1. phase' = phase /\ completed' = completed /\ conclusion' = conclusion
      BY <1>1 DEF ApiThread, StartCycle, Send, AttemptStep, Skip, Forbidden, LookUpFails, LookUp
    <2> QED BY <1>1, <2>1, WorkerStep DEF RowsRan, ConclusionIsOfRow
  <1>2. CASE Apply
    <2>1. \A k \in Keys : conclusion'[k] = IF channel[1][k] # None THEN channel[1][k]
                                           ELSE conclusion[k]
      BY <1>2 DEF Apply
    <2>2. channel[1] \in Updates /\ Sound(channel[1]) /\ channel # <<>>
      BY <1>2 DEF Apply, OnTheWay, TypeOK
    <2>3. conclusion' \in Updates
      BY <1>2, <2>2 DEF Apply, TypeOK, Updates
    <2>4. phase' = phase /\ ConclusionIsOfRow'
      BY <1>2, <2>1, <2>2 DEF Apply, ConclusionIsOfRow, Sound
    <2>5. /\ channel' \in Seq(Updates) /\ Len(channel') = Len(channel) - 1
          /\ \A i \in 1 .. Len(channel') : channel'[i] = channel[i + 1]
      BY <1>2 DEF Apply, TypeOK
    <2>6. TypeOK'
      BY <1>2, <2>3, <2>5, JobsAssumption DEF Apply, TypeOK
    <2>7. OnTheWay'
      BY <1>2, <2>4, <2>5 DEF Apply, OnTheWay, Sound, TypeOK
    <2> QED BY <1>2, <2>4, <2>6, <2>7 DEF Apply, RowsRan, PendingCompleted
  <1>3. CASE ApplyFails
    <2>1. /\ channel' \in Seq(Updates) /\ Len(channel') = Len(channel) - 1
          /\ \A i \in 1 .. Len(channel') : channel'[i] = channel[i + 1]
      BY <1>3 DEF ApplyFails, TypeOK
    <2>2. TypeOK'
      BY <1>3, <2>1, JobsAssumption DEF ApplyFails, TypeOK
    <2>3. OnTheWay'
      BY <1>3, <2>1 DEF ApplyFails, OnTheWay, Sound, TypeOK
    <2> QED BY <1>3, <2>2, <2>3 DEF ApplyFails, RowsRan, PendingCompleted, ConclusionIsOfRow
  <1>4. CASE Crash
    <2>1. TypeOK'
      BY <1>4, RestingType, JobsAssumption DEF Crash, TypeOK
    <2>2. PendingCompleted' /\ OnTheWay'
      BY <1>4, NoUpdatesSound DEF Crash, PendingCompleted, OnTheWay, Sound, Resting, NoUpdates
    <2> QED BY <1>4, <2>1, <2>2 DEF Crash, RowsRan, ConclusionIsOfRow
  <1>5. CASE Clock
    <2>1. TypeOK'
      BY <1>5, JobsAssumption DEF Clock, TypeOK
    <2> QED BY <1>5, <2>1 DEF Clock, RowsRan, PendingCompleted, OnTheWay, Sound, ConclusionIsOfRow
  <1>6. ASSUME NEW l \in Legs, Conclude(l) \/ Assign(l)
        PROVE  IInv'
    <2>1. /\ phase' \in [Legs -> {"waiting", "running", "concluded"}]
          /\ \A o \in Legs : phase[o] # "waiting" => phase'[o] # "waiting"
          /\ \A o \in Legs : phase[o] = "concluded" => phase'[o] = "concluded"
      BY <1>6 DEF Conclude, Assign, TypeOK
    <2>2. UNCHANGED <<completed, recorded, conclusion, worker, channel, now, faults>>
      BY <1>6 DEF Conclude, Assign
    <2>3. TypeOK'
      BY <2>1, <2>2 DEF TypeOK
    <2>4. RowsRan' /\ PendingCompleted'
      BY <2>1, <2>2 DEF RowsRan, PendingCompleted
    <2>5. ASSUME NEW u \in Updates, Sound(u)
          PROVE  Sound(u)'
      BY <2>1, <2>5 DEF Sound, Updates
    <2>6. /\ worker.updates \in Updates
          /\ \A i \in 1 .. Len(channel) : channel[i] \in Updates
      BY DEF TypeOK
    <2>7. Sound(worker.updates)' /\ \A i \in 1 .. Len(channel) : Sound(channel[i])'
      BY <2>2, <2>5, <2>6 DEF OnTheWay
    <2>8. OnTheWay'
      BY <2>2, <2>7 DEF OnTheWay
    <2>9. ConclusionIsOfRow'
      BY <2>1, <2>2 DEF ConclusionIsOfRow, TypeOK, Updates
    <2> QED BY <2>3, <2>4, <2>8, <2>9
  <1>7. ASSUME NEW l \in Legs, Record(l)
        PROVE  IInv'
    <2>1. KeyOf(l) \in Keys /\ now > 0
      BY LegFields DEF TypeOK
    <2>2. /\ completed' = [completed EXCEPT ![KeyOf(l)] = now] /\ phase[l] # "waiting"
          /\ UNCHANGED <<phase, conclusion, worker, channel, now, faults>>
          /\ recorded' = recorded \cup {l}
      BY <1>7 DEF Record
    <2>3. TypeOK'
      BY <2>1, <2>2, JobsAssumption DEF TypeOK
    <2>4. RowsRan'
      BY <2>1, <2>2 DEF RowsRan, TypeOK
    <2>5. PendingCompleted'
      BY <2>1, <2>2 DEF PendingCompleted, TypeOK
    <2> QED BY <2>2, <2>3, <2>4, <2>5 DEF OnTheWay, Sound, ConclusionIsOfRow
  <1>8. CASE UNCHANGED vars
    <2>1. TypeOK'
      BY <1>8 DEF vars, TypeOK
    <2> QED BY <1>8, <2>1 DEF vars, RowsRan, PendingCompleted, OnTheWay, Sound, ConclusionIsOfRow
  <1> QED BY <1>1, <1>2, <1>3, <1>4, <1>5, <1>6, <1>7, <1>8 DEF Next, JobEnds

-----------------------------------------------------------------------------
\* Whatever says something of a row: the table, the worker's updates, the channel's.
InHand == {conclusion, worker.updates} \cup {channel[i] : i \in 1 .. Len(channel)}

\* No two of them say different things of one row.
Unanimous == \A u, v \in InHand : \A k \in Keys : u[k] # None /\ v[k] # None => u[k] = v[k]

\* Once a job of a row has ended, the match finds that job or nothing: a sibling
\* on the runner makes the row ambiguous, and never unambiguous again.
LEMMA MatchRepeats ==
  ASSUME SiblingsAlike, TypeOK, NEW k \in Keys, NEW o \in Legs, KeyOf(o) = k,
         phase[o] = "concluded", NEW l \in Match(k)
  PROVE  l = o
  <1> DEFINE on == {x \in Legs : /\ x.attempt = k.attempt /\ phase[x] # "waiting"
                                 /\ x.runner = k.runner}
             named == {x \in on : x.name = k.job}
             legs == {x \in on : x.legOf = k.job}
  <1> SUFFICES ASSUME l # o PROVE FALSE
    OBVIOUS
  <1>1. l \in Legs /\ KeyOf(l) = k /\ phase[l] = "concluded"
    BY MatchIsOfRow
  <1>2. l \in on /\ o \in on /\ l.job = k.job /\ o.job = k.job
    BY <1>1, KeyFields
  <1>3. named = {}
    <2> SUFFICES ASSUME NEW x \in on, x.name = k.job PROVE FALSE
      OBVIOUS
    <2>1. x.job = k.job /\ KeyOf(x) = k
      BY <1>2, NamesAssumption, KeyFields
    <2>2. x.name = x.job
      BY <2>1
    <2> QED BY <1>1, <2>1, <2>2 DEF SiblingsAlike
  <1>4. l \in legs <=> o \in legs
    BY <1>1, <1>2 DEF SiblingsAlike
  <1>5. IsFiniteSet(on) /\ IsFiniteSet(legs)
    BY JobsAssumption, FS_Subset
  <1>6. Cardinality(on) # 1
    <2> HIDE DEF on
    <2> QED BY <1>2, <1>5, FS_Singleton
  <1>7. Cardinality(legs) = 1 => l \notin legs
    <2> HIDE DEF legs
    <2> QED BY <1>4, <1>5, FS_Singleton
  <1>8. CASE Cardinality(legs) = 1
    <2>1. Match(k) = {x \in legs : phase[x] = "concluded"}
      BY <1>3, <1>8 DEF Match
    <2> QED BY <1>7, <1>8, <2>1
  <1>9. CASE Cardinality(legs) # 1
    <2>1. Match(k) = {}
      BY <1>3, <1>6, <1>9 DEF Match
    <2> QED BY <2>1
  <1> QED BY <1>8, <1>9

\* What is in hand says the truth, so a look-up can only repeat it.
LEMMA LookUpAgrees ==
  ASSUME SiblingsAlike, IInv, Unanimous, NEW a, LookUp(a), NEW v \in InHand, NEW k \in Keys,
         v[k] # None, worker'.updates[k] # None
  PROVE  worker'.updates[k] = v[k]
  <1> DEFINE matched == k \in worker.pending /\ k.attempt = a /\ Match(k) # {}
  <1>1. worker'.updates[k] = IF matched THEN CHOOSE l \in Match(k) : TRUE ELSE worker.updates[k]
    BY DEF LookUp, IInv, TypeOK
  <1>2. KeyOf(v[k]) = k /\ phase[v[k]] = "concluded" /\ v[k] \in Legs
    BY DEF IInv, OnTheWay, Sound, ConclusionIsOfRow, InHand, TypeOK, Updates
  <1>3. CASE matched
    <2>1. (CHOOSE l \in Match(k) : TRUE) \in Match(k)
      BY <1>3
    <2> QED BY <1>1, <1>2, <1>3, <2>1, MatchRepeats DEF IInv
  <1>4. CASE ~matched
    BY <1>1, <1>4 DEF Unanimous, InHand
  <1> QED BY <1>3, <1>4

\* A step that brings nothing new into hand, but for a set of updates that agrees.
LEMMA HandStep ==
  ASSUME Unanimous, NEW new, InHand' \subseteq InHand \cup {new},
         \A v \in InHand \cup {new} : \A k \in Keys : v[k] # None /\ new[k] # None => v[k] = new[k]
  PROVE  Unanimous'
  BY DEF Unanimous

LEMMA UnanimousNext ==
  ASSUME SiblingsAlike
  PROVE  IInv /\ Unanimous /\ [Next]_vars =>
           /\ Unanimous'
           /\ [\A k \in Keys : conclusion[k] # None => conclusion'[k] = conclusion[k]]_vars
  <1> SUFFICES ASSUME IInv, Unanimous, [Next]_vars
               PROVE  /\ Unanimous'
                      /\ \A k \in Keys : conclusion[k] # None => conclusion'[k] = conclusion[k]
    BY Zenon
  <1> DEFINE Sticks == \A k \in Keys : conclusion[k] # None => conclusion'[k] = conclusion[k]
  <1>1. CASE UNCHANGED <<conclusion, worker, channel>>
    BY <1>1 DEF Unanimous, InHand
  <1>2. CASE StartCycle
    <2>1. worker'.updates = NoUpdates /\ channel' = channel /\ conclusion' = conclusion
      BY <1>2 DEF StartCycle, Resting
    <2>2. InHand' \subseteq InHand \cup {NoUpdates}
      BY <2>1 DEF InHand
    <2> QED BY <2>1, <2>2, HandStep DEF NoUpdates
  <1>3. CASE Send
    <2>1. /\ worker'.updates = NoUpdates /\ conclusion' = conclusion
          /\ channel' = channel \/ channel' = Append(channel, worker.updates)
      BY <1>3 DEF Send, Resting
    <2>2. {channel'[i] : i \in 1 .. Len(channel')}
            \subseteq {channel[i] : i \in 1 .. Len(channel)} \cup {worker.updates}
      <3>1. CASE channel' = channel
        BY <3>1
      <3>2. CASE channel' = Append(channel, worker.updates)
        <4>1. channel \in Seq(Updates) /\ worker.updates \in Updates
          BY DEF IInv, TypeOK
        <4>2. Len(channel') = Len(channel) + 1 /\ Len(channel) \in Nat
          BY <3>2, <4>1
        <4>3. \A i \in 1 .. Len(channel') :
                channel'[i] = IF i <= Len(channel) THEN channel[i] ELSE worker.updates
          BY <3>2, <4>1, <4>2
        <4> QED BY <4>2, <4>3
      <3> QED BY <2>1, <3>1, <3>2
    <2>3. InHand' \subseteq InHand \cup {NoUpdates}
      BY <2>1, <2>2 DEF InHand
    <2> QED BY <2>1, <2>3, HandStep DEF NoUpdates
  <1>4. ASSUME NEW a \in {l.attempt : l \in Legs}, AttemptStep(a)
        PROVE  Unanimous' /\ Sticks
    <2>1. CASE Skip(a) \/ Forbidden(a) \/ LookUpFails(a)
      <3>1. Looked(a) \/ Forbidden(a)
        BY <2>1 DEF Skip, LookUpFails
      <3>2. worker'.updates = worker.updates
        BY <3>1, LookedType DEF IInv
      <3>3. channel' = channel /\ conclusion' = conclusion
        BY <2>1 DEF Skip, Forbidden, LookUpFails
      <3>4. InHand' = InHand
        BY <3>2, <3>3 DEF InHand
      <3> QED BY <3>3, <3>4 DEF Unanimous
    <2>2. CASE LookUp(a)
      <3>1. channel' = channel /\ conclusion' = conclusion
        BY <2>2 DEF LookUp
      <3>2. InHand' \subseteq InHand \cup {worker'.updates}
        BY <3>1 DEF InHand
      <3>3. \A v \in InHand \cup {worker'.updates} : \A k \in Keys :
              v[k] # None /\ worker'.updates[k] # None => v[k] = worker'.updates[k]
        BY <2>2, LookUpAgrees
      <3> QED BY <3>1, <3>2, <3>3, HandStep
    <2> QED BY <1>4, <2>1, <2>2 DEF AttemptStep
  <1>5. CASE Apply \/ ApplyFails
    <2>1. /\ channel # <<>> /\ channel \in Seq(Updates) /\ conclusion \in Updates
          /\ channel' = Tail(channel) /\ worker' = worker
      BY <1>5 DEF Apply, ApplyFails, IInv, TypeOK
    <2>2. /\ channel[1] \in InHand
          /\ \A i \in 1 .. Len(channel') : channel'[i] \in {channel[j] : j \in 1 .. Len(channel)}
      BY <2>1 DEF InHand
    <2>3. CASE Apply
      <3>1. /\ \A k \in Keys : conclusion'[k] = IF channel[1][k] # None THEN channel[1][k]
                                                ELSE conclusion[k]
        BY <2>3 DEF Apply
      <3>2. \A k \in Keys : conclusion[k] # None => conclusion'[k] = conclusion[k]
        BY <2>2, <3>1 DEF Unanimous, InHand
      <3>3. InHand' \subseteq InHand \cup {conclusion'}
        BY <2>1, <2>2 DEF InHand
      <3>4. ASSUME NEW v \in InHand \cup {conclusion'}, NEW k \in Keys,
                   v[k] # None, conclusion'[k] # None
            PROVE  v[k] = conclusion'[k]
        <4>1. PICK u \in InHand : conclusion'[k] = u[k]
          BY <2>2, <3>1 DEF InHand
        <4> QED BY <3>4, <4>1 DEF Unanimous
      <3> QED BY <3>2, <3>3, <3>4, HandStep
    <2>4. CASE ApplyFails
      <3>1. conclusion' = conclusion
        BY <2>4 DEF ApplyFails
      <3>2. InHand' \subseteq InHand
        BY <2>1, <2>2, <3>1 DEF InHand
      <3> QED BY <3>1, <3>2 DEF Unanimous
    <2> QED BY <1>5, <2>3, <2>4
  <1>6. CASE Crash
    <2>1. worker'.updates = NoUpdates /\ channel' = <<>> /\ conclusion' = conclusion
      BY <1>6 DEF Crash, Resting
    <2>2. InHand' \subseteq InHand \cup {NoUpdates}
      BY <2>1 DEF InHand
    <2> QED BY <2>1, <2>2, HandStep DEF NoUpdates
  <1>7. ASSUME NEW l \in Legs, Conclude(l) \/ Assign(l) \/ Record(l)
        PROVE  Unanimous' /\ Sticks
    BY <1>1, <1>7 DEF Conclude, Assign, Record
  <1>8. CASE Clock \/ UNCHANGED vars
    BY <1>1, <1>8 DEF Clock, vars
  <1> QED BY <1>2, <1>3, <1>4, <1>5, <1>6, <1>7, <1>8 DEF Next, ApiThread, JobEnds

-----------------------------------------------------------------------------
\* Every variable keeps its type: the channel stays within its bound.
THEOREM JobsTypeCorrect == Spec => []TypeOK
  <1>1. IInv => TypeOK
    BY DEF IInv
  <1> QED BY InitInv, NextInv, <1>1, PTL DEF Spec

\* "Anything ambiguous stays unresolved" (serve/github.rs:192): whatever order
\* rows, look-ups and updates come in, a conclusion is of the row's own job.
THEOREM ConclusionsAreOfTheirRow == Spec => []ConclusionIsOfRow
  <1>1. IInv => ConclusionIsOfRow
    BY DEF IInv
  <1> QED BY InitInv, NextInv, <1>1, PTL DEF Spec

\* Rows that were pending when a cycle began may be concluded before its updates
\* arrive; those never replace one job's conclusion by another's, provided that
\* the jobs that share a row are alike.
THEOREM ConclusionsAreFinal ==
  ASSUME SiblingsAlike
  PROVE  Spec => ConclusionsStick
  <1>1. Init => IInv /\ Unanimous
    BY InitInv DEF Init, Unanimous, InHand, Resting, NoUpdates
  <1>2. IInv /\ Unanimous /\ [Next]_vars =>
          /\ (IInv /\ Unanimous)'
          /\ [\A k \in Keys : conclusion[k] # None => conclusion'[k] = conclusion[k]]_vars
    BY NextInv, UnanimousNext
  <1> QED BY <1>1, <1>2, PTL DEF Spec, ConclusionsStick
=============================================================================
