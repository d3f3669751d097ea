----------------------------- MODULE TailProofs -----------------------------
(***************************************************************************)
(* Proofs about tail, for any streams, intervals and limits: its cursors   *)
(* forget nothing that a later window can answer again, so no line is      *)
(* printed twice; whatever the windows cut off, the transitions they yield *)
(* are changes between neighbours of the whole record; and what is stored  *)
(* within a lookback of the reading before it is printed, or covered by a  *)
(* gap line.                                                               *)
(***************************************************************************)
EXTENDS Tail, FiniteSetTheorems, TLAPS

\* Windows only move forward.
WindowBehind == tail.since <= now - Lookback

\* What was printed and can be answered again is remembered.
Remembered == \A l \in out \cup shown : l.ts >= tail.since => l \in seen

\* An answer holds nothing from before its window.
InWindow == tail.at = "printing" =>
              \A l \in answer.transitions \cup answer.jobs : l.ts >= tail.since

\* The readings of a stream are committed in the order they were taken.
InOrder ==
  /\ \A x \in coming, y \in readings : x.stream = y.stream => y.ts < x.ts
  /\ \A x, y \in coming : x.stream = y.stream => x = y
  /\ \A x \in coming \cup readings : x.ts <= taken[x.stream]

\* A transition line, printed or about to be, is a change in the record.
Lined(l) == l.key \in Streams \X Values => \E c \in Changes : TransitionLine(c) = l

LinesAreChanges ==
  \A l \in answer.transitions \cup answer.jobs \cup out \cup shown : Lined(l)

IInv == /\ TypeOK /\ WindowBehind /\ Remembered /\ InWindow /\ NothingTwice
        /\ InOrder /\ LinesAreChanges

-----------------------------------------------------------------------------
LEMMA MaxOfTwo ==
  ASSUME NEW a \in Int, NEW b \in Int
  PROVE  Max({a, b}) = IF a >= b THEN a ELSE b
  <1>1. \E x \in {a, b} : \A y \in {a, b} : x >= y
    OBVIOUS
  <1>2. Max({a, b}) \in {a, b} /\ \A y \in {a, b} : Max({a, b}) >= y
    BY <1>1 DEF Max
  <1> QED BY <1>2

LEMMA MinOfTwo ==
  ASSUME NEW a \in Int, NEW b \in Int
  PROVE  Min({a, b}) = IF a <= b THEN a ELSE b
  <1>1. \E x \in {a, b} : \A y \in {a, b} : x <= y
    OBVIOUS
  <1>2. Min({a, b}) \in {a, b} /\ \A y \in {a, b} : Min({a, b}) <= y
    BY <1>1 DEF Min
  <1> QED BY <1>2

LEMMA LookbackType == Lookback \in Nat
  <1>1. LookbackTicks * LocalSecs \in Nat
    BY TimesAssumption
  <1> QED BY <1>1, MaxOfTwo, TimesAssumption DEF Lookback

LEMMA ReadingLine ==
  ASSUME NEW x \in Readings
  PROVE  TransitionLine(x) \in Lines /\ TransitionLine(x).ts = x.ts
  BY DEF TransitionLine, Lines, Readings

LEMMA JobsLine ==
  ASSUME NEW x \in Jobs
  PROVE  /\ JobLine(x) \in Lines /\ JobLine(x).ts = x.ts
         /\ JobLine(x).key \notin Streams \X Values
  BY KeysAssumption DEF JobLine, Lines, Jobs

\* A change seen through a window is a change in the record.
LEMMA EdgesAreChanges ==
  ASSUME readings \subseteq Readings, NEW s \in Streams, NEW since \in Int,
         NEW c \in Edges(Of(s, readings), since)
  PROVE  c \in Changes /\ c.ts >= since
  <1> DEFINE window == {x \in Of(s, readings) : x.ts >= since}
  <1>1. /\ c \in window
        /\ \E p \in window : Precedes(p, c, window) /\ p.value # c.value
    BY DEF Edges
  <1>2. PICK p \in window : Precedes(p, c, window) /\ p.value # c.value
    BY <1>1
  <1>3. c \in readings /\ c.stream = s /\ c.ts >= since /\ p \in Of(s, readings) /\ p.ts >= since
    BY <1>1 DEF Of
  <1>4. \A x \in Of(s, readings) : x.ts \in Int
    BY DEF Of, Readings, Times
  <1>5. ASSUME NEW x \in Of(s, readings) PROVE x.ts <= p.ts \/ x.ts >= c.ts
    <2>1. CASE x.ts >= since
      BY <2>1, <1>2 DEF Precedes
    <2>2. CASE ~(x.ts >= since)
      BY <2>2, <1>3, <1>4
    <2> QED BY <2>1, <2>2
  <1>6. Precedes(p, c, Of(s, readings))
    BY <1>2, <1>5 DEF Precedes
  <1> QED BY <1>2, <1>3, <1>6 DEF Changes, Before

LEMMA AnsweredTransitions ==
  ASSUME readings \subseteq Readings, NEW since \in Int,
         NEW edges \in Transitions(readings, since), NEW t \in Bounded(edges),
         NEW x \in t.items
  PROVE  x \in Changes /\ x.ts >= since
  <1>1. PICK f \in [Streams -> SUBSET readings] :
          /\ edges = UNION {f[s] : s \in Streams}
          /\ \A s \in Streams : f[s] \in Newest(Edges(Of(s, readings), since), Probe)
    BY DEF Transitions
  <1>2. t.items \subseteq edges
    BY DEF Bounded, Newest
  <1>3. PICK s \in Streams : x \in f[s]
    BY <1>1, <1>2
  <1>4. x \in Edges(Of(s, readings), since)
    BY <1>1, <1>3 DEF Newest
  <1> QED BY <1>4, EdgesAreChanges

LEMMA AnsweredJobs ==
  ASSUME NEW since \in Int, NEW ends \in JobEdges(jobs, since), NEW j \in Bounded(ends),
         NEW x \in j.items
  PROVE  x \in jobs /\ x.ts >= since
  <1>1. j.items \subseteq ends
    BY DEF Bounded, Newest
  <1>2. ends \subseteq {y \in jobs : y.ts >= since}
    BY DEF JobEdges, Newest
  <1> QED BY <1>1, <1>2

\* A committed reading is after those of its stream, so it takes no change
\* back.
LEMMA ChangesStay ==
  ASSUME IInv, NEW x \in coming, readings' = readings \cup {[x EXCEPT !.stored = now]}
  PROVE  \A c \in Changes : c \in Changes'
  <1> DEFINE z == [x EXCEPT !.stored = now]
  <1>1. z.stream = x.stream /\ z.ts = x.ts
    BY DEF IInv, TypeOK, Readings
  <1> SUFFICES ASSUME NEW c \in Changes PROVE c \in Changes'
    OBVIOUS
  <1>2. PICK p \in Before(c) : p.value # c.value
    BY DEF Changes
  <1>3. /\ c \in readings /\ p \in Of(c.stream, readings)
        /\ Precedes(p, c, Of(c.stream, readings))
    BY DEF Changes, Before
  <1>4. ASSUME NEW y \in Of(c.stream, readings') PROVE y.ts <= p.ts \/ y.ts >= c.ts
    <2>1. CASE y \in readings
      <3>1. y \in Of(c.stream, readings)
        BY <2>1 DEF Of
      <3> QED BY <3>1, <1>3 DEF Precedes
    <2>2. CASE y = z
      <3>1. x.stream = c.stream /\ c.ts < x.ts
        BY <1>1, <1>3, <2>2 DEF IInv, InOrder, Of
      <3>2. c.ts \in Int /\ x.ts \in Int
        BY <1>3 DEF IInv, TypeOK, Readings, Times
      <3> QED BY <3>1, <3>2, <2>2, <1>1
    <2> QED BY <2>1, <2>2 DEF Of
  <1>5. p \in Of(c.stream, readings') /\ c \in readings'
    BY <1>3 DEF Of
  <1>6. Precedes(p, c, Of(c.stream, readings'))
    BY <1>3, <1>4 DEF Precedes
  <1> QED BY <1>2, <1>5, <1>6 DEF Changes, Before

-----------------------------------------------------------------------------
LEMMA IInvInit == Init => IInv
  <1> SUFFICES ASSUME Init PROVE IInv
    OBVIOUS
  <1>1. Lookback \in Nat /\ MaxTime \in Nat /\ LocalSecs \in Nat /\ MaxFaults \in Nat
    BY LookbackType, TimesAssumption
  <1>2. TypeOK
    BY <1>1 DEF Init, TypeOK, Times, NoAnswer
  <1>3. WindowBehind
    BY <1>1 DEF Init, WindowBehind
  <1>4. /\ Remembered /\ InWindow /\ NothingTwice /\ InOrder /\ LinesAreChanges
    BY DEF Init, Remembered, InWindow, NothingTwice, InOrder, LinesAreChanges, NoAnswer
  <1> QED BY <1>2, <1>3, <1>4 DEF IInv

\* A step that leaves the loop alone and lets no time go back.
LEMMA StoreSteps ==
  ASSUME IInv, TypeOK', InOrder', UNCHANGED <<tail, answer, seen, out, shown>>,
         now' = now \/ now' = now + 1,
         \A c \in Changes : c \in Changes'
  PROVE  IInv'
  <1>1. WindowBehind'
    <2>1. now \in Int /\ tail.since \in Int /\ Lookback \in Int
      BY LookbackType DEF IInv, TypeOK, Times
    <2> QED BY <2>1 DEF IInv, WindowBehind, Lookback
  <1>2. Remembered' /\ InWindow' /\ NothingTwice'
    BY DEF IInv, Remembered, InWindow, NothingTwice
  <1>3. LinesAreChanges'
    BY DEF IInv, LinesAreChanges, Lined
  <1> QED BY <1>1, <1>2, <1>3 DEF IInv

LEMMA ClockInv == ASSUME IInv, Clock PROVE IInv'
  <1>1. now' \in Times
    BY TimesAssumption DEF Clock, IInv, TypeOK, Times
  <1>2. TypeOK'
    BY <1>1 DEF Clock, IInv, TypeOK, store, history
  <1>3. InOrder' /\ \A c \in Changes : c \in Changes'
    BY DEF Clock, IInv, InOrder, Changes, Before, store
  <1> QED BY <1>2, <1>3, StoreSteps DEF Clock, history

LEMMA ReadInv == ASSUME IInv, NEW s \in Streams, NEW v \in Values, Read(s, v) PROVE IInv'
  <1> DEFINE x == [stream |-> s, ts |-> now, value |-> v, stored |-> -1]
  <1>1. x \in Readings
    BY DEF IInv, TypeOK, Readings
  <1>2. TypeOK'
    BY <1>1 DEF Read, IInv, TypeOK, history
  <1>3. taken[s] \in Int /\ now \in Int /\ taken[s] < now /\ taken'[s] = now
    BY TimesAssumption DEF Read, IInv, TypeOK, Times
  <1>4. \A y \in coming \cup readings : /\ y.ts \in Int /\ y.stream \in Streams
                                        /\ y.ts <= taken[y.stream]
    BY DEF IInv, TypeOK, InOrder, Readings, Times
  <1>5. ASSUME NEW y \in coming' \cup readings' PROVE y.ts <= taken'[y.stream]
    <2>1. CASE y = x
      BY <2>1, <1>3
    <2>2. CASE y \in coming \cup readings /\ y.stream = s
      BY <2>2, <1>3, <1>4
    <2>3. CASE y \in coming \cup readings /\ y.stream # s
      BY <2>3, <1>4 DEF Read, IInv, TypeOK
    <2> QED BY <2>1, <2>2, <2>3 DEF Read
  <1>6. \A y \in readings : y.stream = s => y.ts < now
    BY <1>3, <1>4
  <1>7. InOrder'
    BY <1>5, <1>6 DEF Read, IInv, InOrder
  <1>8. \A c \in Changes : c \in Changes'
    BY DEF Read, Changes, Before
  <1> QED BY <1>2, <1>7, <1>8, StoreSteps DEF Read, history

LEMMA CommitInv == ASSUME IInv, NEW x \in coming, Commit(x) PROVE IInv'
  <1> DEFINE z == [x EXCEPT !.stored = now]
  <1>1. x \in Readings /\ now \in Times
    BY DEF IInv, TypeOK
  <1>2. z \in Readings /\ z.stream = x.stream /\ z.ts = x.ts
    BY <1>1 DEF Readings
  <1>3. TypeOK'
    BY <1>2 DEF Commit, IInv, TypeOK, history
  <1>4. \A y \in coming' : y \in coming /\ y.stream # x.stream
    BY DEF Commit, IInv, InOrder
  <1>5. InOrder'
    BY <1>2, <1>4 DEF Commit, IInv, InOrder
  <1>6. \A c \in Changes : c \in Changes'
    BY ChangesStay DEF Commit
  <1> QED BY <1>3, <1>5, <1>6, StoreSteps DEF Commit, history

LEMMA JobArrivesInv ==
  ASSUME IInv, NEW name \in JobNames, NEW ts \in Times, JobArrives(name, ts)
  PROVE  IInv'
  <1>1. TypeOK'
    BY DEF JobArrives, IInv, TypeOK, Jobs, history
  <1>2. InOrder' /\ \A c \in Changes : c \in Changes'
    BY DEF JobArrives, IInv, InOrder, Changes, Before
  <1> QED BY <1>1, <1>2, StoreSteps DEF JobArrives, history

LEMMA FetchInv == ASSUME IInv, Fetch PROVE IInv'
  <1> DEFINE since == tail.since
  <1>1. PICK edges \in Transitions(readings, since), ends \in JobEdges(jobs, since) :
        \E t \in Bounded(edges), j \in Bounded(ends) :
          /\ answer'.transitions = {TransitionLine(x) : x \in t.items}
          /\ answer'.jobs = {JobLine(x) : x \in j.items}
    BY DEF Fetch
  <1>2. PICK t \in Bounded(edges), j \in Bounded(ends) :
          /\ answer'.transitions = {TransitionLine(x) : x \in t.items}
          /\ answer'.jobs = {JobLine(x) : x \in j.items}
    BY <1>1
  <1>3. since \in Int /\ readings \subseteq Readings /\ jobs \subseteq Jobs
    BY LookbackType DEF IInv, TypeOK
  <1>4. \A x \in t.items : x \in Changes /\ x \in Readings /\ x.ts >= since
    BY <1>3, AnsweredTransitions DEF Changes
  <1>5. \A x \in j.items : x \in Jobs /\ x.ts >= since
    BY <1>3, AnsweredJobs
  <1>6. \A l \in answer'.transitions : l \in Lines /\ l.ts >= since /\ Lined(l)
    BY <1>2, <1>4, ReadingLine DEF Lined
  <1>7. \A l \in answer'.jobs : l \in Lines /\ l.ts >= since /\ Lined(l)
    BY <1>2, <1>5, JobsLine DEF Lined
  <1>8. tail'.since = since /\ \A l : Lined(l) => Lined(l)'
    BY DEF Fetch, store, IInv, TypeOK, Lined, Changes, Before
  <1>9. TypeOK'
    BY <1>6, <1>7 DEF Fetch, store, IInv, TypeOK
  <1>10. WindowBehind' /\ Remembered' /\ NothingTwice' /\ InOrder'
    BY <1>8 DEF Fetch, store, IInv, WindowBehind, Remembered, NothingTwice, InOrder, Lookback
  <1>11. InWindow'
    BY <1>6, <1>7, <1>8 DEF InWindow
  <1>12. LinesAreChanges'
    BY <1>6, <1>7, <1>8 DEF Fetch, IInv, LinesAreChanges
  <1> QED BY <1>9, <1>10, <1>11, <1>12 DEF IInv

\* A step of the loop that neither answers nor prints.
LEMMA LoopSteps ==
  ASSUME IInv, TypeOK', UNCHANGED <<now, store, answer, seen, out, shown>>,
         tail'.since = tail.since, tail'.at # "printing"
  PROVE  IInv'
  BY DEF IInv, WindowBehind, Remembered, InWindow, NothingTwice, InOrder, LinesAreChanges,
         Lined, Changes, Before, store, Lookback

LEMMA FetchFailsInv == ASSUME IInv, FetchFails PROVE IInv'
  <1>1. now + LocalSecs \in 0..(MaxTime + LocalSecs) /\ faults' \in 0..MaxFaults
    BY TimesAssumption DEF FetchFails, IInv, TypeOK, Times
  <1>2. TypeOK' /\ tail'.since = tail.since /\ tail'.at # "printing"
    BY <1>1 DEF FetchFails, IInv, TypeOK, store, history
  <1> QED BY <1>2, LoopSteps DEF FetchFails, history

LEMMA PipeClosesInv == ASSUME IInv, PipeCloses PROVE IInv'
  <1>1. TypeOK' /\ tail'.since = tail.since /\ tail'.at # "printing"
    BY DEF PipeCloses, IInv, TypeOK, store, history
  <1> QED BY <1>1, LoopSteps DEF PipeCloses, history

LEMMA ShowInv == ASSUME IInv, Show PROVE IInv'
  <1> DEFINE rows == answer.transitions \cup answer.jobs
  <1>1. /\ out' = rows \ seen /\ shown' = shown \cup out
        /\ seen' = {l \in seen \cup out' : l.ts >= tail'.since}
        /\ answer' = NoAnswer /\ UNCHANGED <<now, store, faults>>
    BY DEF Show, Emit
  <1>2. now \in Int /\ tail.since \in Int /\ Lookback \in Nat /\ tail.since <= now - Lookback
    BY LookbackType DEF IInv, TypeOK, Times, WindowBehind
  <1>3. tail'.since = now - Lookback /\ tail'.at = "sleeping"
    BY DEF Show, Emit, IInv, TypeOK
  <1>4. \A l \in rows \cup out \cup shown : l \in Lines /\ l.ts \in Int
    BY DEF IInv, TypeOK, Lines, Times
  <1>5. TypeOK'
    <2>1. tail.started + LocalSecs \in 0..(MaxTime + LocalSecs) /\ now \in 0..(MaxTime + LocalSecs)
      BY TimesAssumption DEF IInv, TypeOK, Times
    <2>2. Max({now, tail.started + LocalSecs}) \in 0..(MaxTime + LocalSecs)
      BY <2>1, MaxOfTwo
    <2>3. now - Lookback \in -Lookback..MaxTime
      BY <1>2, TimesAssumption DEF IInv, TypeOK, Times
    <2>4. tail' \in [at : {"starting", "sleeping", "printing", "stopped"}, started : Times,
                     since : -Lookback..MaxTime, wake : 0..(MaxTime + LocalSecs)]
      BY <2>2, <2>3 DEF Show, Emit, IInv, TypeOK
    <2>5. seen' \cup out' \cup shown' \subseteq Lines
      BY <1>1, <1>4 DEF IInv, TypeOK
    <2> QED BY <1>1, <2>4, <2>5 DEF IInv, TypeOK, store, NoAnswer, Lookback
  <1>6. WindowBehind'
    BY <1>1, <1>2, <1>3 DEF WindowBehind, Lookback
  <1>7. Remembered'
    <2> SUFFICES ASSUME NEW l \in out' \cup shown', l.ts >= tail'.since PROVE l \in seen'
      BY DEF Remembered
    <2>1. CASE l \in out'
      BY <2>1, <1>1
    <2>2. CASE l \in out \cup shown
      <3>1. l.ts >= tail.since
        BY <2>2, <1>2, <1>3, <1>4
      <3>2. l \in seen
        BY <2>2, <3>1 DEF IInv, Remembered
      <3> QED BY <3>2, <1>1
    <2> QED BY <2>1, <2>2, <1>1
  <1>8. NothingTwice'
    <2> SUFFICES ASSUME NEW l \in out', l \in out \cup shown PROVE FALSE
      BY <1>1 DEF NothingTwice
    <2>1. l \in rows /\ l \notin seen
      BY <1>1
    <2>2. l.ts >= tail.since
      BY <2>1 DEF Show, Emit, IInv, InWindow
    <2> QED BY <2>1, <2>2 DEF IInv, Remembered
  <1>9. InWindow' /\ InOrder'
    BY <1>1, <1>3 DEF InWindow, InOrder, IInv, store
  <1>10. LinesAreChanges'
    <2>1. \A l : Lined(l) => Lined(l)'
      BY <1>1 DEF Lined, Changes, Before, store
    <2>2. \A l \in rows \cup out \cup shown : Lined(l)
      BY DEF IInv, LinesAreChanges
    <2> QED BY <1>1, <2>1, <2>2 DEF LinesAreChanges, NoAnswer
  <1> QED BY <1>5, <1>6, <1>7, <1>8, <1>9, <1>10 DEF IInv

LEMMA IInvNext == IInv /\ [Next]_vars => IInv'
  <1> SUFFICES ASSUME IInv, [Next]_vars PROVE IInv'
    OBVIOUS
  <1>1. CASE UNCHANGED vars
    <2>1. UNCHANGED <<now, taken, coming, readings, jobs, tail, answer, seen, out, faults, shown>>
      BY <1>1 DEF vars, store, history
    <2> QED BY <2>1 DEF IInv, TypeOK, WindowBehind, Remembered, InWindow, NothingTwice, InOrder,
                        LinesAreChanges, Lined, Changes, Before, Lookback
  <1>2. CASE Next
    BY <1>2, ClockInv, FetchInv, FetchFailsInv, ShowInv, PipeClosesInv, ReadInv, CommitInv,
       JobArrivesInv DEF Next
  <1> QED BY <1>1, <1>2

-----------------------------------------------------------------------------
(* What the lookback promises. *)

\* The record is finite, and of the past; an answer is of the record as it was.
OfThePast ==
  /\ IsFiniteSet(readings) /\ IsFiniteSet(jobs)
  /\ \A s \in Streams : taken[s] <= now
  /\ \A j \in jobs : j.ts <= now
  /\ known.readings \subseteq readings /\ known.jobs \subseteq jobs
  /\ tail.started <= now
  /\ seen \subseteq out \cup shown

\* What an answer did not know came after it, and an answer is printed within
\* PollTime: the next window reaches back a lookback from then.
Reaching ==
  /\ \A c \in readings \ known.readings : c.stored >= tail.started
  /\ \A j \in jobs \ known.jobs : j.stored >= tail.started
  /\ tail.since <= tail.started + PollTime - Lookback
  /\ tail.at = "printing" => answer.until = tail.started /\ now <= tail.started + PollTime

\* Printed, covered by a gap line, or about to be.
InHand(l, rows, section) ==
  \/ Shown(l, section)
  \/ tail.at = "printing" /\ \/ l \in rows
                             \/ /\ section \in answer.limited
                                /\ answer.since <= l.ts /\ l.ts <= answer.until

ReachInHand ==
  tail.at # "stopped" =>
    /\ \A c \in Changes \cap known.readings : \A p \in Before(c) :
         c.stored + PollTime <= p.ts + Lookback =>
           InHand(TransitionLine(c), answer.transitions, "transitions")
    /\ \A j \in known.jobs :
         j.stored + PollTime <= j.ts + Lookback => InHand(JobLine(j), answer.jobs, "jobs")

ReachInv == IInv /\ OfThePast /\ Reaching /\ ReachInHand

\* Rows are left out only for being too many, and then as many are kept.
LEMMA CutOff ==
  ASSUME NEW rows, IsFiniteSet(rows), NEW n \in Nat, NEW kept \in Newest(rows, n), kept # rows
  PROVE  /\ IsFiniteSet(kept) /\ Cardinality(kept) = n
         /\ n < Cardinality(rows) /\ Cardinality(rows) \in Nat
  <1>1. kept \in SUBSET rows /\ Cardinality(kept) = Min({n, Cardinality(rows)})
    BY DEF Newest
  <1>2. /\ IsFiniteSet(kept) /\ Cardinality(rows) \in Nat
        /\ Cardinality(kept) <= Cardinality(rows) /\ Cardinality(kept) # Cardinality(rows)
    BY <1>1, FS_Subset, FS_CardinalityType
  <1>3. Min({n, Cardinality(rows)}) = IF n <= Cardinality(rows) THEN n ELSE Cardinality(rows)
    BY <1>2, MinOfTwo
  <1> QED BY <1>1, <1>2, <1>3

\* A change is answered, or the answer says that it was cut.
LEMMA TransitionsReach ==
  ASSUME IsFiniteSet(readings), NEW since, NEW edges \in Transitions(readings, since),
         NEW t \in Bounded(edges), NEW s \in Streams, NEW c \in Edges(Of(s, readings), since)
  PROVE  c \in t.items \/ t.limited = TRUE
  <1>1. PICK f \in [Streams -> SUBSET readings] :
          /\ edges = UNION {f[u] : u \in Streams}
          /\ \A u \in Streams : f[u] \in Newest(Edges(Of(u, readings), since), Probe)
    BY DEF Transitions
  <1>2. edges \in SUBSET readings /\ f[s] \in SUBSET edges
    BY <1>1
  <1>3. IsFiniteSet(edges) /\ Cardinality(edges) \in Nat
    BY <1>2, FS_Subset, FS_CardinalityType
  <1>4. t.items \in Newest(edges, Limit) /\ t.limited = (Cardinality(edges) > Limit)
    BY DEF Bounded
  <1>5. CASE c \in f[s]
    <2>1. SUFFICES ASSUME c \notin t.items PROVE t.limited = TRUE
      OBVIOUS
    <2>2. t.items # edges /\ Limit \in Nat
      BY <1>2, <1>5, <2>1, LimitAssumption
    <2>3. Limit < Cardinality(edges)
      BY <1>3, <1>4, <2>2, CutOff, Zenon
    <2> QED BY <1>3, <1>4, <2>3, LimitAssumption
  <1>6. CASE c \notin f[s]
    <2> DEFINE rows == Edges(Of(s, readings), since)
    <2>1. rows \in SUBSET readings
      BY DEF Edges, Of
    <2>2. IsFiniteSet(rows) /\ f[s] \in Newest(rows, Probe) /\ f[s] # rows
      BY <1>1, <1>6, <2>1, FS_Subset
    <2> HIDE DEF rows
    <2>3. Probe \in Nat /\ Probe = Limit + 1
      BY LimitAssumption DEF Probe
    <2>4. Cardinality(f[s]) = Probe
      BY <2>2, <2>3, CutOff
    <2>5. Cardinality(f[s]) <= Cardinality(edges)
      BY <1>2, <1>3, FS_Subset
    <2>6. Cardinality(edges) > Limit
      BY <1>3, <2>3, <2>4, <2>5, LimitAssumption
    <2> QED BY <1>4, <2>6, Zenon
  <1> QED BY <1>5, <1>6

\* A job's end is answered, or the answer says that it was cut.
LEMMA JobsReach ==
  ASSUME IsFiniteSet(jobs), NEW since, NEW ends \in JobEdges(jobs, since),
         NEW t \in Bounded(ends), NEW x \in jobs, x.ts >= since
  PROVE  x \in t.items \/ t.limited = TRUE
  <1> DEFINE rows == {y \in jobs : y.ts >= since}
  <1>1. rows \in SUBSET jobs /\ x \in rows
    OBVIOUS
  <1>2. IsFiniteSet(rows) /\ ends \in Newest(rows, Probe)
    BY <1>1, FS_Subset DEF JobEdges
  <1> HIDE DEF rows
  <1>3. ends \in SUBSET rows
    BY <1>2 DEF Newest
  <1>4. IsFiniteSet(ends) /\ Cardinality(ends) \in Nat
    BY <1>2, <1>3, FS_Subset, FS_CardinalityType
  <1>5. t.items \in Newest(ends, Limit) /\ t.limited = (Cardinality(ends) > Limit)
    BY DEF Bounded
  <1>6. Probe \in Nat /\ Probe = Limit + 1
    BY LimitAssumption DEF Probe
  <1>7. CASE x \in ends
    <2>1. t.items # ends => Limit < Cardinality(ends)
      <3>1. Limit \in Nat
        BY LimitAssumption
      <3> QED BY <1>4, <1>5, <3>1, CutOff, Zenon
    <2>2. t.items # ends => t.limited = TRUE
      BY <1>4, <1>5, <2>1, LimitAssumption
    <2> QED BY <1>7, <2>2
  <1>8. CASE x \notin ends
    <2>1. Cardinality(ends) = Probe
      BY <1>1, <1>2, <1>6, <1>8, CutOff
    <2>2. Cardinality(ends) > Limit
      BY <1>6, <2>1, LimitAssumption
    <2> QED BY <1>5, <2>2, Zenon
  <1> QED BY <1>7, <1>8

\* A window that reaches the reading before a change shows the change.
LEMMA ChangesAreEdges ==
  ASSUME readings \subseteq Readings, NEW since \in Int,
         NEW c \in Changes, NEW p \in Before(c), p.ts >= since
  PROVE  c \in Edges(Of(c.stream, readings), since)
  <1> DEFINE window == {x \in Of(c.stream, readings) : x.ts >= since}
  <1>1. \A x \in Of(c.stream, readings) : x.ts \in Int
    BY DEF Of, Readings, Times
  <1>2. PICK q \in Before(c) : q.value # c.value
    BY DEF Changes
  <1>3. /\ c \in Of(c.stream, readings) /\ p \in Of(c.stream, readings)
        /\ q \in Of(c.stream, readings)
        /\ Precedes(p, c, Of(c.stream, readings)) /\ Precedes(q, c, Of(c.stream, readings))
    BY <1>2 DEF Before, Changes, Of
  <1>4. q.ts = p.ts /\ p.ts < c.ts
    BY <1>1, <1>3 DEF Precedes
  <1>5. c \in window /\ q \in window
    BY <1>1, <1>3, <1>4
  <1>6. Precedes(q, c, window)
    BY <1>3 DEF Precedes
  <1> QED BY <1>2, <1>5, <1>6 DEF Edges

LEMMA ReachInit == Init => ReachInv
  <1> SUFFICES ASSUME Init PROVE ReachInv
    OBVIOUS
  <1>1. IInv /\ Lookback \in Nat /\ PollTime \in Nat
    BY IInvInit, LookbackType, TimesAssumption
  <1>2. OfThePast
    BY FS_EmptySet DEF Init, OfThePast
  <1>3. Reaching /\ ReachInHand
    BY <1>1 DEF Init, Reaching, ReachInHand
  <1> QED BY <1>1, <1>2, <1>3 DEF ReachInv

\* A step that leaves the loop alone leaves what it has shown, and was to show.
LEMMA HandKept ==
  ASSUME ReachInHand, OfThePast, UNCHANGED <<tail, answer, out, shown, gaps, known>>,
         \A c \in readings : c \in Changes' => c \in Changes /\ Before(c)' \subseteq Before(c)
  PROVE  ReachInHand'
  <1> SUFFICES ASSUME tail.at # "stopped" PROVE ReachInHand'
    BY DEF ReachInHand
  <1>1. \A l, rows, section : InHand(l, rows, section) => InHand(l, rows, section)'
    BY DEF InHand, Shown
  <1>2. ASSUME NEW c \in Changes' \cap known.readings, NEW p \in Before(c)',
               c.stored + PollTime <= p.ts + Lookback
        PROVE  InHand(TransitionLine(c), answer.transitions, "transitions")'
    <2>1. c \in Changes /\ p \in Before(c)
      BY <1>2 DEF OfThePast
    <2>2. InHand(TransitionLine(c), answer.transitions, "transitions")
      BY <1>2, <2>1 DEF ReachInHand
    <2> QED BY <2>2 DEF InHand, Shown, TransitionLine
  <1>3. ASSUME NEW j \in known.jobs, j.stored + PollTime <= j.ts + Lookback
        PROVE  InHand(JobLine(j), answer.jobs, "jobs")'
    <2>1. InHand(JobLine(j), answer.jobs, "jobs")
      BY <1>3 DEF ReachInHand
    <2> QED BY <2>1 DEF InHand, Shown, JobLine
  <1> QED BY <1>2, <1>3 DEF ReachInHand, Lookback

\* The readings that were there keep what is before them.
LEMMA BeforeKept ==
  ASSUME IInv, NEW x \in coming, readings' = readings \cup {[x EXCEPT !.stored = now]}
  PROVE  \A c \in readings : c \in Changes' => c \in Changes /\ Before(c)' \subseteq Before(c)
  <1> DEFINE z == [x EXCEPT !.stored = now]
  <1>1. z.stream = x.stream /\ z.ts = x.ts
    BY DEF IInv, TypeOK, Readings
  <1>2. ASSUME NEW c \in readings, NEW p \in Before(c)' PROVE p \in Before(c)
    <2>1. p \in Of(c.stream, readings') /\ Precedes(p, c, Of(c.stream, readings'))
      BY <1>2 DEF Before
    <2>2. p # z
      <3>1. SUFFICES ASSUME p = z PROVE FALSE
        OBVIOUS
      <3>2. x.stream = c.stream /\ x.ts < c.ts
        BY <1>1, <2>1, <3>1 DEF Of, Precedes
      <3>3. c.ts < x.ts /\ c.ts \in Int /\ x.ts \in Int
        BY <3>2 DEF IInv, InOrder, TypeOK, Readings, Times
      <3> QED BY <3>2, <3>3
    <2>3. p \in Of(c.stream, readings) /\ Of(c.stream, readings) \subseteq Of(c.stream, readings')
      BY <2>1, <2>2 DEF Of
    <2>4. Precedes(p, c, Of(c.stream, readings))
      BY <2>1, <2>3 DEF Precedes
    <2> QED BY <2>3, <2>4 DEF Before
  <1>3. \A c \in readings : c \in Changes' => \E p \in Before(c)' : p.value # c.value
    BY DEF Changes
  <1> QED BY <1>2, <1>3 DEF Changes

LEMMA ClockReach == ASSUME ReachInv, Clock PROVE ReachInv'
  <1>1. IInv' /\ now \in Int /\ now' = now + 1
    BY ClockInv DEF ReachInv, Clock, IInv, TypeOK, Times
  <1>2. UNCHANGED <<taken, coming, readings, jobs, tail, answer, seen, out, shown, gaps, known>>
    BY DEF Clock, store, history
  <1>3. tail.started \in Int /\ PollTime \in Nat /\ \A s \in Streams : taken[s] \in Int
    BY TimesAssumption DEF ReachInv, IInv, TypeOK, Times
  <1>4. \A j \in jobs : j.ts \in Int
    BY DEF ReachInv, IInv, TypeOK, Jobs, Times
  <1>5. OfThePast'
    BY <1>1, <1>2, <1>3, <1>4 DEF ReachInv, OfThePast
  <1>6. Reaching'
    <2>1. tail.at = "printing" => now < tail.started + PollTime
      BY DEF Clock, ReachInv, Reaching
    <2> QED BY <1>1, <1>2, <1>3, <2>1 DEF ReachInv, Reaching, Lookback
  <1>7. ReachInHand'
    <2>1. \A c \in readings : c \in Changes' => c \in Changes /\ Before(c)' \subseteq Before(c)
      BY <1>2 DEF Changes, Before
    <2> QED BY <1>2, <2>1, HandKept DEF ReachInv
  <1> QED BY <1>1, <1>5, <1>6, <1>7 DEF ReachInv

LEMMA ReadReach ==
  ASSUME ReachInv, NEW s \in Streams, NEW v \in Values, Read(s, v) PROVE ReachInv'
  <1>1. IInv' /\ now \in Int
    BY ReadInv DEF ReachInv, IInv, TypeOK, Times
  <1>2. UNCHANGED <<now, readings, jobs, tail, answer, seen, out, shown, gaps, known>>
    BY DEF Read, history
  <1>3. \A u \in Streams : taken'[u] <= now
    BY <1>1 DEF Read, ReachInv, OfThePast, IInv, TypeOK
  <1>4. OfThePast' /\ Reaching'
    BY <1>2, <1>3 DEF ReachInv, OfThePast, Reaching, Lookback
  <1>5. ReachInHand'
    <2>1. \A c \in readings : c \in Changes' => c \in Changes /\ Before(c)' \subseteq Before(c)
      BY <1>2 DEF Changes, Before
    <2> QED BY <1>2, <2>1, HandKept DEF ReachInv
  <1> QED BY <1>1, <1>4, <1>5 DEF ReachInv

LEMMA CommitReach == ASSUME ReachInv, NEW x \in coming, Commit(x) PROVE ReachInv'
  <1> DEFINE z == [x EXCEPT !.stored = now]
  <1>1. IInv' /\ readings' = readings \cup {z}
    BY CommitInv DEF ReachInv, Commit
  <1>2. UNCHANGED <<now, taken, jobs, tail, answer, seen, out, shown, gaps, known>>
    BY DEF Commit, history
  <1>3. z.stored = now
    BY DEF ReachInv, IInv, TypeOK, Readings
  <1>4. IsFiniteSet(readings')
    BY <1>1, FS_AddElement DEF ReachInv, OfThePast
  <1> HIDE DEF z
  <1>5. OfThePast'
    BY <1>1, <1>2, <1>4 DEF ReachInv, OfThePast
  <1>6. Reaching'
    BY <1>1, <1>2, <1>3 DEF ReachInv, OfThePast, Reaching, Lookback
  <1>7. ReachInHand'
    BY <1>1, <1>2, BeforeKept, HandKept DEF ReachInv, z
  <1> QED BY <1>1, <1>5, <1>6, <1>7 DEF ReachInv

LEMMA JobArrivesReach ==
  ASSUME ReachInv, NEW name \in JobNames, NEW ts \in Times, JobArrives(name, ts)
  PROVE  ReachInv'
  <1> DEFINE j == [name |-> name, ts |-> ts, stored |-> now]
  <1>1. IInv' /\ jobs' = jobs \cup {j} /\ ts <= now
    BY JobArrivesInv DEF ReachInv, JobArrives
  <1>2. UNCHANGED <<now, taken, readings, tail, answer, seen, out, shown, gaps, known>>
    BY DEF JobArrives, history
  <1>3. j.stored = now /\ j.ts = ts
    OBVIOUS
  <1>4. IsFiniteSet(jobs')
    BY <1>1, FS_AddElement DEF ReachInv, OfThePast
  <1> HIDE DEF j
  <1>5. OfThePast'
    BY <1>1, <1>2, <1>3, <1>4 DEF ReachInv, OfThePast
  <1>6. Reaching'
    BY <1>1, <1>2, <1>3 DEF ReachInv, OfThePast, Reaching, Lookback
  <1>7. ReachInHand'
    <2>1. \A c \in readings : c \in Changes' => c \in Changes /\ Before(c)' \subseteq Before(c)
      BY <1>2 DEF Changes, Before
    <2> QED BY <1>2, <2>1, HandKept DEF ReachInv
  <1> QED BY <1>1, <1>5, <1>6, <1>7 DEF ReachInv

\* What a poll sees for the first time and lies in reach is in its window.
LEMMA FetchReach == ASSUME ReachInv, Fetch PROVE ReachInv'
  <1> DEFINE since == tail.since
  <1>1. PICK edges \in Transitions(readings, since), ends \in JobEdges(jobs, since) :
        \E t \in Bounded(edges), j \in Bounded(ends) :
          answer' = [transitions |-> {TransitionLine(x) : x \in t.items},
                     jobs |-> {JobLine(x) : x \in j.items},
                     limited |-> {s \in {"transitions", "jobs"} :
                                    (IF s = "jobs" THEN j ELSE t).limited},
                     since |-> since, until |-> now]
    BY DEF Fetch
  <1>2. PICK t \in Bounded(edges), j \in Bounded(ends) :
          answer' = [transitions |-> {TransitionLine(x) : x \in t.items},
                     jobs |-> {JobLine(x) : x \in j.items},
                     limited |-> {s \in {"transitions", "jobs"} :
                                    (IF s = "jobs" THEN j ELSE t).limited},
                     since |-> since, until |-> now]
    BY <1>1
  <1>3. /\ answer'.transitions = {TransitionLine(x) : x \in t.items}
        /\ answer'.jobs = {JobLine(x) : x \in j.items}
        /\ t.limited = TRUE => "transitions" \in answer'.limited
        /\ j.limited = TRUE => "jobs" \in answer'.limited
        /\ answer'.since = since /\ answer'.until = now
    BY <1>2
  <1>4. /\ IInv' /\ since \in Int /\ now \in Int /\ Lookback \in Nat /\ PollTime \in Nat
        /\ readings \subseteq Readings /\ jobs \subseteq Jobs /\ tail.started \in Int
        /\ IsFiniteSet(readings) /\ IsFiniteSet(jobs)
    BY FetchInv, LookbackType, TimesAssumption DEF ReachInv, IInv, TypeOK, OfThePast, Times
  <1>5. /\ UNCHANGED <<now, taken, coming, readings, jobs, seen, out, shown, gaps>>
        /\ tail.at \in {"starting", "sleeping"}
        /\ tail'.at = "printing" /\ tail'.started = now /\ tail'.since = since
        /\ known' = [readings |-> readings, jobs |-> jobs]
    BY <1>4 DEF Fetch, store, ReachInv, IInv, TypeOK
  <1>6. OfThePast'
    BY <1>4, <1>5 DEF ReachInv, OfThePast
  <1>7. since <= tail.started + PollTime - Lookback /\ tail.started <= now
    BY DEF ReachInv, Reaching, OfThePast
  <1>8. Reaching'
    BY <1>3, <1>4, <1>5, <1>7 DEF Reaching, Lookback
  <1>9. ASSUME NEW c \in Changes, NEW p \in Before(c), c.stored + PollTime <= p.ts + Lookback
        PROVE  InHand(TransitionLine(c), answer.transitions, "transitions")'
    <2>1. /\ c \in Readings /\ c.ts \in Int /\ c.stored \in Int /\ c.stream \in Streams
          /\ p \in Readings /\ p.ts \in Int
      BY <1>4 DEF Changes, Before, Of, Readings, Times
    <2>2. CASE c \in known.readings
      <3>1. InHand(TransitionLine(c), answer.transitions, "transitions")
        BY <1>5, <1>9, <2>2 DEF ReachInv, ReachInHand
      <3> QED BY <1>5, <3>1 DEF InHand, Shown, TransitionLine
    <2>3. CASE c \notin known.readings
      <3>1. c.stored >= tail.started
        BY <2>3 DEF ReachInv, Reaching, Changes
      <3>2. p.ts >= since
        BY <1>4, <1>7, <1>9, <2>1, <3>1
      <3>3. c \in Edges(Of(c.stream, readings), since)
        BY <1>4, <1>9, <3>2, ChangesAreEdges
      <3>4. c \in t.items \/ t.limited = TRUE
        BY <1>4, <2>1, <3>3, TransitionsReach
      <3>5. c.ts >= since /\ c.ts <= now
        <4>1. c.ts >= since
          BY <1>4, <3>3, EdgesAreChanges, <2>1
        <4>2. c.ts <= taken[c.stream] /\ taken[c.stream] <= now /\ taken[c.stream] \in Int
          BY <2>1 DEF ReachInv, OfThePast, IInv, InOrder, TypeOK, Times, Changes
        <4> QED BY <1>4, <2>1, <4>1, <4>2
      <3>6. \/ TransitionLine(c) \in answer'.transitions
            \/ /\ "transitions" \in answer'.limited
               /\ answer'.since <= TransitionLine(c).ts /\ TransitionLine(c).ts <= answer'.until
        BY <1>3, <1>4, <2>1, <3>4, <3>5, ReadingLine
      <3> QED BY <1>5, <3>6 DEF InHand, TransitionLine
    <2> QED BY <2>2, <2>3
  <1>10. ASSUME NEW e \in jobs, e.stored + PollTime <= e.ts + Lookback
         PROVE  InHand(JobLine(e), answer.jobs, "jobs")'
    <2>1. e \in Jobs /\ e.ts \in Int /\ e.stored \in Int /\ e.ts <= now
      BY <1>4 DEF Jobs, Times, ReachInv, OfThePast
    <2>2. CASE e \in known.jobs
      <3>1. InHand(JobLine(e), answer.jobs, "jobs")
        BY <1>5, <1>10, <2>2 DEF ReachInv, ReachInHand
      <3> QED BY <1>5, <3>1 DEF InHand, Shown, JobLine
    <2>3. CASE e \notin known.jobs
      <3>1. e.stored >= tail.started
        BY <2>3 DEF ReachInv, Reaching
      <3>2. e.ts >= since
        BY <1>4, <1>7, <1>10, <2>1, <3>1
      <3>3. e \in j.items \/ j.limited = TRUE
        BY <1>4, <3>2, JobsReach
      <3>4. \/ JobLine(e) \in answer'.jobs
            \/ /\ "jobs" \in answer'.limited
               /\ answer'.since <= JobLine(e).ts /\ JobLine(e).ts <= answer'.until
        BY <1>3, <1>4, <2>1, <3>2, <3>3, JobsLine
      <3> QED BY <1>5, <3>4 DEF InHand, JobLine
    <2> QED BY <2>2, <2>3
  <1>11. ReachInHand'
    <2>1. Changes' = Changes /\ \A c : Before(c)' = Before(c)
      BY <1>5 DEF Changes, Before
    <2>2. known'.readings = readings /\ known'.jobs = jobs
      BY <1>5
    <2> QED BY <1>9, <1>10, <2>1, <2>2 DEF ReachInHand, Lookback
  <1> QED BY <1>4, <1>6, <1>8, <1>11 DEF ReachInv

\* A poll that fails, or a pipe that closes, leaves the window where it is.
LEMMA LoopReach == ASSUME ReachInv, FetchFails \/ PipeCloses PROVE ReachInv'
  <1>1. IInv'
    BY FetchFailsInv, PipeClosesInv DEF ReachInv
  <1>2. UNCHANGED <<now, taken, coming, readings, jobs, answer, seen, out, shown, gaps, known>>
    BY DEF FetchFails, PipeCloses, store, history
  <1>3. /\ tail'.started = tail.started /\ tail'.since = tail.since
        /\ tail'.at = "stopped" \/ (tail'.at = "sleeping" /\ tail.at = "sleeping")
    BY DEF FetchFails, PipeCloses, ReachInv, IInv, TypeOK
  <1>4. OfThePast' /\ Reaching'
    BY <1>2, <1>3 DEF ReachInv, OfThePast, Reaching, Lookback
  <1>5. ReachInHand'
    <2>1. SUFFICES ASSUME tail'.at = "sleeping", tail.at = "sleeping" PROVE ReachInHand'
      BY <1>3 DEF ReachInHand
    <2>2. Changes' = Changes /\ \A c : Before(c)' = Before(c)
      BY <1>2 DEF Changes, Before
    <2>3. \A l, rows, section : InHand(l, rows, section) => Shown(l, section)'
      BY <1>2, <2>1 DEF InHand, Shown
    <2>4. \A l, rows, section : Shown(l, section)' => InHand(l, rows, section)'
      BY DEF InHand
    <2> QED BY <1>2, <2>1, <2>2, <2>3, <2>4 DEF ReachInv, ReachInHand, Lookback
  <1> QED BY <1>1, <1>4, <1>5 DEF ReachInv

\* What an answer holds is printed now, or was before.
LEMMA ShowReach == ASSUME ReachInv, Show PROVE ReachInv'
  <1> DEFINE rows == answer.transitions \cup answer.jobs
  <1>1. /\ out' = rows \ seen /\ shown' = shown \cup out
        /\ seen' = {l \in seen \cup out' : l.ts >= tail'.since}
        /\ gaps' = gaps \cup {[section |-> s, since |-> answer.since, until |-> answer.until] :
                                s \in answer.limited}
        /\ UNCHANGED <<now, taken, coming, readings, jobs, faults, known>>
        /\ tail.at = "printing"
    BY DEF Show, Emit, store
  <1>2. /\ IInv' /\ now \in Int /\ Lookback \in Nat /\ tail.started \in Int /\ PollTime \in Nat
        /\ answer.until = tail.started /\ now <= tail.started + PollTime
    BY <1>1, ShowInv, LookbackType, TimesAssumption DEF ReachInv, Reaching, IInv, TypeOK, Times
  <1>3. tail'.since = now - Lookback /\ tail'.at = "sleeping" /\ tail'.started = tail.started
    BY DEF Show, Emit, ReachInv, IInv, TypeOK
  <1>4. OfThePast'
    BY <1>1, <1>3 DEF ReachInv, OfThePast
  <1>5. Reaching'
    BY <1>1, <1>2, <1>3 DEF ReachInv, Reaching, Lookback
  <1>6. ASSUME NEW l, NEW printed \in SUBSET rows, NEW section, InHand(l, printed, section)
        PROVE  Shown(l, section)'
    <2>1. CASE l \in out \cup shown
      BY <1>1, <2>1 DEF Shown
    <2>2. CASE l \in printed
      BY <1>1, <2>2 DEF Shown, ReachInv, OfThePast
    <2>3. CASE \E g \in gaps : g.section = section /\ g.since <= l.ts /\ l.ts <= g.until
      BY <1>1, <2>3 DEF Shown
    <2>4. CASE section \in answer.limited /\ answer.since <= l.ts /\ l.ts <= answer.until
      <3>1. [section |-> section, since |-> answer.since, until |-> answer.until] \in gaps'
        BY <1>1, <2>4
      <3> QED BY <2>4, <3>1 DEF Shown
    <2> QED BY <1>6, <2>1, <2>2, <2>3, <2>4 DEF InHand, Shown
  <1>7. ReachInHand'
    <2>1. Changes' = Changes /\ \A c : Before(c)' = Before(c)
      BY <1>1 DEF Changes, Before
    <2>2. \A l : /\ InHand(l, answer.transitions, "transitions") => Shown(l, "transitions")'
                 /\ InHand(l, answer.jobs, "jobs") => Shown(l, "jobs")'
      BY <1>6
    <2>3. \A l, printed, section : Shown(l, section)' => InHand(l, printed, section)'
      BY DEF InHand
    <2> QED BY <1>1, <2>1, <2>2, <2>3 DEF ReachInv, ReachInHand, Lookback
  <1> QED BY <1>2, <1>4, <1>5, <1>7 DEF ReachInv

LEMMA ReachNext == ReachInv /\ [Next]_vars => ReachInv'
  <1> SUFFICES ASSUME ReachInv, [Next]_vars PROVE ReachInv'
    OBVIOUS
  <1>1. CASE UNCHANGED vars
    <2>1. /\ UNCHANGED <<now, taken, coming, readings, jobs, tail, answer, seen, out, faults>>
          /\ UNCHANGED <<shown, gaps, known>>
      BY <1>1 DEF vars, store, history
    <2>2. IInv'
      BY <1>1, IInvNext DEF ReachInv
    <2>3. OfThePast' /\ Reaching'
      BY <2>1 DEF ReachInv, OfThePast, Reaching, Lookback
    <2>4. \A c \in readings : c \in Changes' => c \in Changes /\ Before(c)' \subseteq Before(c)
      BY <2>1 DEF Changes, Before
    <2>5. ReachInHand'
      BY <2>1, <2>4, HandKept DEF ReachInv
    <2> QED BY <2>2, <2>3, <2>5 DEF ReachInv
  <1>2. CASE Next
    BY <1>2, ClockReach, FetchReach, LoopReach, ShowReach, ReadReach, CommitReach,
       JobArrivesReach DEF Next
  <1> QED BY <1>1, <1>2

-----------------------------------------------------------------------------
(* Theorems. *)

\* Together they hold in every state.
THEOREM Invariance == Spec => []IInv
  BY IInvInit, IInvNext, PTL DEF Spec

\* tail's variables keep their types.
THEOREM TailTypeCorrect == Spec => []TypeOK
  <1>1. IInv => TypeOK BY DEF IInv
  <1> QED BY <1>1, Invariance, PTL

\* No line is printed twice (ops/tail.rs, Cursor), however late job events
\* arrive and however the answers were cut.
THEOREM NoLineTwice == Spec => []NothingTwice
  <1>1. IInv => NothingTwice BY DEF IInv
  <1> QED BY <1>1, Invariance, PTL

\* Every transition line is a change between two neighbouring readings of the
\* record (reader/timeline/edges.rs), wherever the window begins.
THEOREM LinesAreReal == Spec => []OnlyChangesShown
  <1>1. IInv => OnlyChangesShown
    BY DEF IInv, LinesAreChanges, Lined, OnlyChangesShown
  <1> QED BY <1>1, Invariance, PTL

\* The lookback is long enough for what it is for (ops/tail.rs:79): for any streams,
\* limit, intervals and delays, a change stored within a lookback of the reading
\* before it, and a job's end ingested as soon, is printed, or a gap line covers it.
THEOREM ReachIsShown == Spec => []InReachShown
  <1>1. ReachInv => InReachShown
    <2> SUFFICES ASSUME ReachInv, tail.at = "sleeping" PROVE InReachShown
      BY DEF InReachShown, Between
    <2>1. \A l, rows, section : InHand(l, rows, section) => Shown(l, section)
      BY DEF InHand
    <2> QED BY <2>1 DEF ReachInv, ReachInHand, InReachShown
  <1> QED BY ReachInit, ReachNext, <1>1, PTL DEF Spec
=============================================================================
