-------------------------- MODULE HookIngestProofs --------------------------
(***************************************************************************)
(* Proofs about HookIngest: its types, the exactness of the rows, the      *)
(* order of the batches in flight and the refinement of JobLedger, for     *)
(* every set of runners and jobs and every value of the bounds.            *)
(***************************************************************************)
EXTENDS HookIngest, TLAPS, WellFoundedInduction

-----------------------------------------------------------------------------
(* The inductive invariant. *)

\* A position a read of l can stop at: a line boundary, or the end of a chunk
\* inside an overlong line.
Reached(l, s) ==
  /\ s <= Len(l)
  /\ \/ Boundary(l, s)
     \/ s >= Chunk /\ \A i \in (s - Chunk + 1)..s : l[i] = Part

\* A read that starts at s can stop at e.
OneRead(l, s, e) ==
  /\ s <= e /\ e <= s + Chunk /\ e <= Len(l)
  /\ \/ e = s
     \/ l[e] # Part
     \/ e = s + Chunk /\ \A i \in (s + 1)..e : l[i] = Part

\* Batch b is a read of its log, and so is what is left of it past the offset.
BatchOK(b) ==
  LET l == log[b.runner] IN
  /\ Reached(l, b.from)
  /\ b.events = Parsed(l, b.from, b.end)
  /\ OneRead(l, b.from, b.end)
  /\ OneRead(l, b.from, offset[b.runner])
  /\ offset[b.runner] <= b.end

\* Batch c was read after batch b of the same log.
Follows(b, c) ==
  b.runner = c.runner =>
    b.end <= c.end /\ OneRead(log[c.runner], c.from, b.end)

FlightOK ==
  /\ \A i \in 1..Len(InFlight) : BatchOK(InFlight[i])
  /\ \A i \in 1..Len(InFlight) : \A j \in 1..(i - 1) : Follows(InFlight[j], InFlight[i])

\* What the tailer is about to read starts no later than the offset.
TailerOK ==
  \A r \in todo :
    /\ Reached(log[r], snap[r])
    /\ OneRead(log[r], snap[r], offset[r])
    /\ \A i \in 1..Len(InFlight) :
         InFlight[i].runner = r => OneRead(log[r], snap[r], InFlight[i].end)

StoreOK ==
  \A r \in Runners :
    /\ Reached(log[r], offset[r])
    /\ rows[r] = Ledger(log[r], offset[r])
    /\ Reached(log[r], disk.offset[r])
    /\ disk.rows[r] = Ledger(log[r], disk.offset[r])

\* What a power loss returns to is never ahead of the offset.
DiskBehind == \A r \in Runners : disk.offset[r] <= offset[r]

IInv == TypeOK /\ StoreOK /\ DiskBehind /\ FlightOK /\ TailerOK

-----------------------------------------------------------------------------
(* Operators. *)

\* Max returns the greatest element of a bounded set of naturals.
LEMMA MaxIn ==
  ASSUME NEW S \in SUBSET Nat, S # {}, NEW n \in Nat, \A x \in S : x <= n
  PROVE  Max(S) \in S /\ \A x \in S : x <= Max(S)
<1> DEFINE T == {n - x : x \in S}
<1>1. T \subseteq Nat /\ T # {}
  <2>1. \A x \in S : x \in Nat /\ n - x \in Nat
    OBVIOUS
  <2>2. PICK x \in S : TRUE
    OBVIOUS
  <2>3. n - x \in T
    BY <2>2
  <2> QED BY <2>1, <2>3
<1>2. PICK m \in T : \A y \in T : ~(<<y, m>> \in OpToRel(<, Nat))
  BY <1>1, WFMin, NatLessThanWellFounded
<1>3. ASSUME NEW y \in T PROVE m <= y
  <2>1. m \in Nat /\ y \in Nat
    BY <1>1
  <2>2. ~(y < m)
    <3>1. (y < m) => <<y, m>> \in OpToRel(<, Nat)
      BY <2>1 DEF OpToRel
    <3> QED BY <3>1, <1>2
  <2> QED BY <2>1, <2>2
<1>4. PICK x \in S : m = n - x
  OBVIOUS
<1>5. ASSUME NEW y \in S PROVE x >= y
  <2>1. n - y \in T
    OBVIOUS
  <2>2. n - x <= n - y
    BY <2>1, <1>3, <1>4
  <2>3. x \in Nat /\ y \in Nat
    OBVIOUS
  <2> QED BY <2>2, <2>3
<1> QED
  BY <1>5 DEF Max

\* The greatest element of a set of naturals is its Max.
LEMMA MaxIs ==
  ASSUME NEW S \in SUBSET Nat, NEW m \in S, \A x \in S : x <= m
  PROVE  Max(S) = m
<1>1. m \in Nat /\ \A x \in S : x \in Nat
  OBVIOUS
<1>2. Max(S) \in S /\ \A x \in S : x <= Max(S)
  BY <1>1, MaxIn
<1>3. m <= Max(S) /\ Max(S) <= m /\ Max(S) \in Nat
  BY <1>1, <1>2
<1> QED
  BY <1>1, <1>3

LEMMA MinOfTwo ==
  ASSUME NEW a \in Nat, NEW b \in Nat
  PROVE  Min({a, b}) = IF a <= b THEN a ELSE b
<1>1. \E x \in {a, b} : \A y \in {a, b} : x <= y
  OBVIOUS
<1>2. Min({a, b}) \in {a, b} /\ \A y \in {a, b} : Min({a, b}) <= y
  BY <1>1 DEF Min
<1> QED
  BY <1>2

\* Where a read stops: past its start, within a chunk, at the last newline.
LEMMA TailEndIs ==
  ASSUME NEW l \in Seq(Cells), NEW s \in Nat, s <= Len(l)
  PROVE  /\ TailEnd(l, s) \in Nat
         /\ OneRead(l, s, TailEnd(l, s))
         /\ \A o \in Nat : OneRead(l, s, o) => o <= TailEnd(l, s)
<1> DEFINE limit == Min({Len(l), s + Chunk})
           newlines == {p \in (s + 1)..limit : l[p] # Part}
<1> USE ChunkAssumption
<1>1. limit \in Nat /\ limit <= Len(l) /\ limit <= s + Chunk
        /\ (limit = Len(l) \/ limit = s + Chunk) /\ s <= limit
  <2>1. limit = IF Len(l) <= s + Chunk THEN Len(l) ELSE s + Chunk
    BY MinOfTwo
  <2> QED BY <2>1
<1> HIDE DEF limit
<1>2. TailEnd(l, s) = IF newlines # {} THEN Max(newlines)
                      ELSE IF limit = s + Chunk THEN limit ELSE s
  BY DEF TailEnd, limit
<1>3. CASE newlines # {}
  <2>1. Max(newlines) \in newlines /\ \A x \in newlines : x <= Max(newlines)
    <3>1. newlines \in SUBSET Nat /\ \A x \in newlines : x <= limit
      BY <1>1
    <3> QED BY <3>1, <1>1, <1>3, MaxIn
  <2>2. TailEnd(l, s) = Max(newlines)
    BY <1>2, <1>3
  <2>3. ASSUME NEW o \in Nat, OneRead(l, s, o)
        PROVE  o <= Max(newlines)
    BY <2>1, <2>3, <1>1 DEF OneRead
  <2> QED BY <2>1, <2>2, <2>3, <1>1 DEF OneRead
<1>4. CASE newlines = {}
  <2>1. \A p \in (s + 1)..limit : l[p] = Part
    BY <1>4
  <2>2. TailEnd(l, s) = IF limit = s + Chunk THEN limit ELSE s
    BY <1>2, <1>4
  <2> QED BY <2>1, <2>2, <1>1 DEF OneRead
<1> QED BY <1>3, <1>4

\* A read that starts where another could have stopped stops where it did, or
\* further on.
LEMMA ReadResumed ==
  ASSUME NEW l \in Seq(Cells), NEW s \in Nat, NEW o \in Nat, NEW e \in Nat,
         OneRead(l, s, o), OneRead(l, s, e), o <= e
  PROVE  OneRead(l, o, e)
BY ChunkAssumption DEF OneRead

LEMMA ReachedByRead ==
  ASSUME NEW l \in Seq(Cells), NEW s \in Nat, NEW e \in Nat,
         Reached(l, s), OneRead(l, s, e)
  PROVE  Reached(l, e)
BY ChunkAssumption DEF OneRead, Reached, Boundary

\* Appending to a log changes nothing that was read of it.
LEMMA GrownLog ==
  ASSUME NEW l \in Seq(Cells), NEW m \in Seq(Cells),
         Len(l) <= Len(m), \A i \in 1..Len(l) : m[i] = l[i]
  PROVE  /\ \A s \in Nat : Reached(l, s) => Reached(m, s)
         /\ \A s, e \in Nat : OneRead(l, s, e) => OneRead(m, s, e)
         /\ \A s, e \in Nat : e <= Len(l) => Parsed(m, s, e) = Parsed(l, s, e)
         /\ \A n \in Nat : n <= Len(l) => Ledger(m, n) = Ledger(l, n)
<1> USE ChunkAssumption
<1>1. \A q \in 0..Len(l) : Boundary(m, q) = Boundary(l, q)
  BY DEF Boundary
<1>2. \A s \in Nat : Reached(l, s) => Reached(m, s)
  BY <1>1 DEF Reached
<1>3. \A s, e \in Nat : OneRead(l, s, e) => OneRead(m, s, e)
  BY DEF OneRead
<1>4. \A s \in Nat : \A p \in 1..Len(l) : Intact(m, s, p) = Intact(l, s, p)
  BY <1>1 DEF Intact
<1>5. ASSUME NEW s \in Nat, NEW e \in Nat, e <= Len(l)
      PROVE  Parsed(m, s, e) = Parsed(l, s, e)
  <2>1. \A x \in [at : (s + 1)..e, event : Events] : x.at \in 1..Len(l)
    BY <1>5
  <2> QED BY <2>1, <1>4 DEF Parsed
<1>6. \A p \in 1..Len(l) : Ingestable(m, p) = Ingestable(l, p)
  BY <1>1 DEF Ingestable
<1>7. ASSUME NEW n \in Nat, n <= Len(l)
      PROVE  Ledger(m, n) = Ledger(l, n)
  <2>1. \A v \in Events : {p \in 1..n : m[p] = v /\ Ingestable(m, p)}
                        = {p \in 1..n : l[p] = v /\ Ingestable(l, p)}
    BY <1>6, <1>7
  <2>2. \A v \in Events : LastLine(m, v, n) = LastLine(l, v, n)
    BY <2>1 DEF LastLine
  <2> QED BY <2>2 DEF Ledger
<1> QED BY <1>2, <1>3, <1>5, <1>7

LEMMA LedgerType ==
  ASSUME NEW l, NEW n \in Nat
  PROVE  Ledger(l, n) \in [Events -> Nat]
<1>1. ASSUME NEW v \in Events PROVE LastLine(l, v, n) \in Nat
  <2> DEFINE S == {0} \cup {p \in 1..n : l[p] = v /\ Ingestable(l, p)}
  <2>1. S \in SUBSET Nat /\ S # {} /\ \A x \in S : x <= n
    OBVIOUS
  <2>2. Max(S) \in S
    BY <2>1, MaxIn
  <2> QED BY <2>1, <2>2 DEF LastLine
<1> QED BY <1>1 DEF Ledger

\* A read from a position the tailer can have stopped at sees exactly the
\* ingestable lines of its span: none of them begins before it, and what it
\* parses fits in its chunk.
LEMMA ParsedIs ==
  ASSUME NEW l \in Seq(Cells), NEW s \in Nat, NEW e \in Nat, NEW v \in Events,
         Reached(l, s), e <= s + Chunk, e <= Len(l)
  PROVE  {x.at : x \in {y \in Parsed(l, s, e) : y.event = v}}
           = {p \in (s + 1)..e : l[p] = v /\ Ingestable(l, p)}
<1> DEFINE lines == {x.at : x \in {y \in Parsed(l, s, e) : y.event = v}}
<1> USE ChunkAssumption
<1>1. lines = {p \in (s + 1)..e : l[p] = v /\ Intact(l, s, p)}
  <2>1. ASSUME NEW p \in (s + 1)..e, l[p] = v, Intact(l, s, p)
        PROVE  p \in lines
    <3> DEFINE x == [at |-> p, event |-> v]
    <3>1. x \in Parsed(l, s, e) /\ x.event = v /\ x.at = p
      BY <2>1 DEF Parsed
    <3> QED BY <3>1
  <2>2. ASSUME NEW y \in Parsed(l, s, e), y.event = v
        PROVE  y.at \in (s + 1)..e /\ l[y.at] = v /\ Intact(l, s, y.at)
    BY <2>2 DEF Parsed
  <2> QED BY <2>1, <2>2
<1>2. ASSUME NEW p \in (s + 1)..e, l[p] = v
      PROVE  Intact(l, s, p) = Ingestable(l, p)
  <2>1. ASSUME Intact(l, s, p) PROVE Ingestable(l, p)
    <3>1. PICK q \in s..(p - 1) : Boundary(l, q)
      BY <2>1 DEF Intact
    <3>2. q \in 0..(p - 1) /\ p - q <= Chunk
      OBVIOUS
    <3> QED BY <3>1, <3>2, <1>2 DEF Ingestable
  <2>2. ASSUME Ingestable(l, p) PROVE Intact(l, s, p)
    <3>1. PICK q \in 0..(p - 1) : p - q <= Chunk /\ Boundary(l, q)
      BY <2>2 DEF Ingestable
    <3>2. CASE q >= s
      BY <3>1, <3>2 DEF Intact
    <3>3. CASE q < s
      <4>1. Boundary(l, s)
        BY <3>1, <3>3 DEF Reached, Boundary
      <4> QED BY <4>1 DEF Intact
    <3> QED BY <3>2, <3>3
  <2>3. Intact(l, s, p) \in BOOLEAN /\ Ingestable(l, p) \in BOOLEAN
    BY DEF Intact, Ingestable
  <2> QED BY <2>1, <2>2, <2>3
<1> QED BY <1>1, <1>2

\* Committing a read that spans the stored offset moves the rows from what
\* the log says up to that offset to what it says up to the read's end.
LEMMA UpsertedLedger ==
  ASSUME NEW l \in Seq(Cells), NEW s \in Nat, NEW o \in Nat, NEW e \in Nat,
         Reached(l, s), s <= o, o <= e, OneRead(l, s, e)
  PROVE  Upserted(Ledger(l, o), Parsed(l, s, e)) = Ledger(l, e)
<1> DEFINE lines(v) == {x.at : x \in {y \in Parsed(l, s, e) : y.event = v}}
           upTo(v, n) == {0} \cup {p \in 1..n : l[p] = v /\ Ingestable(l, p)}
<1>1. e <= s + Chunk /\ e <= Len(l)
  BY DEF OneRead
<1>2. ASSUME NEW v \in Events
      PROVE  (IF lines(v) = {} THEN Ledger(l, o)[v] ELSE Max(lines(v)))
               = LastLine(l, v, e)
  <2>1. lines(v) = {p \in (s + 1)..e : l[p] = v /\ Ingestable(l, p)}
    BY <1>1, ParsedIs
  <2> HIDE DEF lines
  <2>2. CASE lines(v) = {}
    <3>1. upTo(v, o) = upTo(v, e)
      BY <2>1, <2>2
    <3>2. Ledger(l, o)[v] = LastLine(l, v, o)
      BY DEF Ledger
    <3> QED BY <2>2, <3>1, <3>2 DEF LastLine
  <2>3. CASE lines(v) # {}
    <3>1. lines(v) \in SUBSET Nat /\ \A x \in lines(v) : x <= e
      BY <2>1
    <3>2. Max(lines(v)) \in lines(v) /\ \A x \in lines(v) : x <= Max(lines(v))
      BY <2>3, <3>1, MaxIn
    <3>3. upTo(v, e) \in SUBSET Nat /\ Max(lines(v)) \in upTo(v, e)
      BY <2>1, <3>2
    <3>4. \A x \in upTo(v, e) : x <= Max(lines(v))
      BY <2>1, <3>2
    <3>5. Max(upTo(v, e)) = Max(lines(v))
      BY <3>3, <3>4, MaxIs
    <3> QED BY <2>3, <3>5 DEF LastLine
  <2> QED BY <2>2, <2>3
<1> QED BY <1>2 DEF Upserted, Ledger

-----------------------------------------------------------------------------
(* The invariant is inductive: one lemma per kind of step. *)

LEMMA InFlightType ==
  ASSUME TypeOK
  PROVE  InFlight \in Seq(Batches)
BY DEF TypeOK, InFlight

\* Taking the oldest batch off the channel takes it off the batches in flight.
LEMMA InFlightTail ==
  ASSUME TypeOK, channel # <<>>, channel' = Tail(channel), held' = held
  PROVE  /\ InFlight # <<>> /\ Head(channel) = InFlight[1]
         /\ InFlight' = Tail(InFlight)
         /\ Len(InFlight') = Len(InFlight) - 1
         /\ \A i \in 1..Len(InFlight') : InFlight'[i] = InFlight[i + 1]
<1>1. InFlight # <<>> /\ Head(channel) = InFlight[1] /\ InFlight' = Tail(InFlight)
  <2>1. CASE held = None
    BY <2>1 DEF InFlight, TypeOK
  <2>2. CASE held # None
    <3>1. channel \in Seq(Batches) /\ held \in Batches
      BY <2>2 DEF TypeOK
    <3>2. Append(channel, held)[1] = channel[1]
            /\ Tail(Append(channel, held)) = Append(Tail(channel), held)
      BY <3>1
    <3> QED BY <2>2, <3>1, <3>2 DEF InFlight
  <2> QED BY <2>1, <2>2
<1> QED BY <1>1, InFlightType

LEMMA InvInit == Init => IInv
<1> SUFFICES ASSUME Init PROVE IInv
  OBVIOUS
<1>1. \A l, v : LastLine(l, v, 0) = 0
  <2> SUFFICES ASSUME NEW l, NEW v PROVE LastLine(l, v, 0) = 0
    OBVIOUS
  <2>1. {0} \cup {p \in 1..0 : l[p] = v /\ Ingestable(l, p)} = {0}
    OBVIOUS
  <2>2. Max({0}) = 0
    BY MaxIs
  <2> QED BY <2>1, <2>2 DEF LastLine
<1>2. TypeOK
  BY BoundAssumption DEF Init, TypeOK, Columns
<1>3. StoreOK /\ DiskBehind
  BY <1>1 DEF Init, StoreOK, DiskBehind, Reached, Boundary, Ledger
<1>4. InFlight = <<>>
  BY DEF Init, InFlight
<1>5. FlightOK
  BY <1>4 DEF FlightOK
<1>6. TailerOK
  BY DEF Init, TailerOK
<1> QED BY <1>2, <1>3, <1>5, <1>6 DEF IInv

LEMMA HookAppendsInv ==
  ASSUME IInv, NEW r \in Runners, HookAppends(r)
  PROVE  IInv'
<1> USE DEF IInv
<1>1. /\ log' \in [Runners -> Seq(Cells)]
      /\ \A q \in Runners : /\ Len(log[q]) <= Len(log'[q])
                            /\ \A i \in 1..Len(log[q]) : log'[q][i] = log[q][i]
  BY DEF HookAppends, TypeOK
<1>2. UNCHANGED <<offset, rows, disk, channel, snap, todo, held, faults>>
  BY DEF HookAppends, db, tailer
<1>3. TypeOK'
  BY <1>1, <1>2 DEF TypeOK
<1>4. InFlight' = InFlight /\ InFlight \in Seq(Batches)
  BY <1>2, InFlightType DEF InFlight
<1>5. \A q \in Runners :
        /\ \A s \in Nat : Reached(log[q], s) => Reached(log'[q], s)
        /\ \A s, e \in Nat : OneRead(log[q], s, e) => OneRead(log'[q], s, e)
        /\ \A s, e \in Nat : e <= Len(log[q]) => Parsed(log'[q], s, e) = Parsed(log[q], s, e)
        /\ \A n \in Nat : n <= Len(log[q]) => Ledger(log'[q], n) = Ledger(log[q], n)
  BY <1>1, GrownLog DEF TypeOK
<1>6. StoreOK'
  BY <1>2, <1>5 DEF StoreOK, Reached, TypeOK
<1>7. DiskBehind'
  BY <1>2 DEF DiskBehind
<1>8. FlightOK'
  <2>1. ASSUME NEW i \in 1..Len(InFlight) PROVE BatchOK(InFlight[i])'
    <3> DEFINE b == InFlight[i]
    <3>1. b \in Batches /\ BatchOK(b)
      BY <1>4, <2>1 DEF FlightOK
    <3>2. b.end <= Len(log[b.runner])
      BY <3>1 DEF BatchOK, OneRead
    <3>3. offset[b.runner] \in Nat
      BY <3>1 DEF TypeOK, Batches
    <3> QED BY <1>2, <1>4, <1>5, <3>1, <3>2, <3>3 DEF BatchOK, Batches
  <2>2. ASSUME NEW i \in 1..Len(InFlight), NEW j \in 1..(i - 1)
        PROVE  Follows(InFlight[j], InFlight[i])'
    <3>1. InFlight[i] \in Batches /\ InFlight[j] \in Batches
            /\ Follows(InFlight[j], InFlight[i])
      BY <1>4 DEF FlightOK
    <3> QED BY <1>4, <1>5, <3>1 DEF Follows, Batches
  <2> QED BY <1>4, <2>1, <2>2 DEF FlightOK
<1>9. TailerOK'
  <2>1. ASSUME NEW q \in todo
        PROVE  /\ Reached(log'[q], snap[q])
               /\ OneRead(log'[q], snap[q], offset[q])
               /\ \A i \in 1..Len(InFlight) :
                    InFlight[i].runner = q => OneRead(log'[q], snap[q], InFlight[i].end)
    <3>1. q \in Runners /\ snap[q] \in Nat /\ offset[q] \in Nat
      BY DEF TypeOK
    <3>2. \A i \in 1..Len(InFlight) : InFlight[i] \in Batches
      BY <1>4
    <3>3. \A i \in 1..Len(InFlight) : InFlight[i].end \in Nat
      BY <3>2 DEF Batches
    <3> QED BY <1>5, <3>3, <3>1, <3>2 DEF TailerOK
  <2> QED BY <1>2, <1>4, <2>1 DEF TailerOK
<1> QED BY <1>3, <1>6, <1>7, <1>8, <1>9

LEMMA TickStartInv ==
  ASSUME IInv, TickStart
  PROVE  IInv'
<1> USE DEF IInv
<1>1. /\ UNCHANGED <<log, offset, rows, disk, channel, held, faults>>
      /\ snap' = offset /\ todo' = Runners
  BY DEF TickStart, db
<1>2. TypeOK'
  BY <1>1 DEF TypeOK
<1>3. InFlight' = InFlight /\ InFlight \in Seq(Batches)
  BY <1>1, InFlightType DEF InFlight
<1>4. StoreOK' /\ DiskBehind'
  BY <1>1 DEF StoreOK, DiskBehind
<1>5. FlightOK'
  BY <1>1, <1>3 DEF FlightOK, BatchOK, Follows
<1>6. ASSUME NEW r \in Runners
      PROVE  /\ Reached(log[r], offset[r])
             /\ OneRead(log[r], offset[r], offset[r])
             /\ \A i \in 1..Len(InFlight) :
                  InFlight[i].runner = r => OneRead(log[r], offset[r], InFlight[i].end)
  <2>1. offset[r] \in Nat /\ log[r] \in Seq(Cells)
    BY DEF TypeOK
  <2>2. Reached(log[r], offset[r])
    BY DEF StoreOK
  <2>3. OneRead(log[r], offset[r], offset[r])
    BY <2>1, <2>2, ChunkAssumption DEF OneRead, Reached
  <2>4. ASSUME NEW i \in 1..Len(InFlight), InFlight[i].runner = r
        PROVE  OneRead(log[r], offset[r], InFlight[i].end)
    <3> DEFINE b == InFlight[i]
    <3>1. b \in Batches /\ BatchOK(b)
      BY <1>3 DEF FlightOK
    <3>2. b.from \in Nat /\ b.end \in Nat
      BY <3>1 DEF Batches
    <3>3. OneRead(log[r], b.from, offset[r]) /\ OneRead(log[r], b.from, b.end)
            /\ offset[r] <= b.end
      BY <2>4, <3>1 DEF BatchOK
    <3> QED BY <2>1, <3>2, <3>3, ReadResumed
  <2> QED BY <2>2, <2>3, <2>4
<1>7. TailerOK'
  BY <1>1, <1>3, <1>6 DEF TailerOK
<1> QED BY <1>2, <1>4, <1>5, <1>7

\* A step of the tailer's loop leaves the log and the store alone.
LEMMA TailedInv ==
  ASSUME IInv, NEW r \in todo, NEW b,
         UNCHANGED <<log, offset, rows, disk, channel, snap>>, held = None,
         todo' = todo \ {r}, faults' \in 0..MaxFaults,
         \/ held' = None
         \/ /\ held' = b /\ b \in Batches /\ b.runner = r /\ BatchOK(b)
            /\ b.from = snap[r] /\ b.end = TailEnd(log[r], snap[r])
  PROVE  IInv'
<1> USE DEF IInv
<1>1. TypeOK'
  BY DEF TypeOK
<1>2. StoreOK' /\ DiskBehind'
  BY DEF StoreOK, DiskBehind
<1>3. InFlight = channel /\ InFlight \in Seq(Batches)
  BY InFlightType DEF InFlight
<1>4. \A c : BatchOK(c)' = BatchOK(c)
  BY DEF BatchOK
<1>5. \A c, d : Follows(c, d)' = Follows(c, d)
  BY DEF Follows
<1>6. CASE InFlight' = channel
  <2>1. FlightOK'
    BY <1>3, <1>4, <1>5, <1>6 DEF FlightOK
  <2>2. TailerOK'
    BY <1>3, <1>6 DEF TailerOK
  <2> QED BY <1>1, <1>2, <2>1, <2>2
<1>7. CASE InFlight' = Append(channel, b)
  <2>1. b \in Batches /\ b.runner = r /\ BatchOK(b)
          /\ b.from = snap[r] /\ b.end = TailEnd(log[r], snap[r])
    BY <1>3, <1>7 DEF InFlight
  <2>2. /\ Len(InFlight') = Len(InFlight) + 1
        /\ \A i \in 1..Len(InFlight) : InFlight'[i] = InFlight[i]
        /\ InFlight'[Len(InFlight) + 1] = b
    BY <1>3, <1>7, <2>1
  <2>3. ASSUME NEW j \in 1..Len(InFlight) PROVE Follows(InFlight[j], b)
    <3> DEFINE c == InFlight[j]
    <3>1. SUFFICES ASSUME c.runner = r
                   PROVE  c.end <= b.end /\ OneRead(log[r], b.from, c.end)
      BY <2>1 DEF Follows
    <3>2. OneRead(log[r], snap[r], c.end)
      BY <3>1 DEF TailerOK
    <3>3. c \in Batches
      BY <1>3
    <3>4. log[r] \in Seq(Cells) /\ snap[r] \in Nat /\ c.end \in Nat
            /\ snap[r] <= Len(log[r])
      BY <3>3 DEF TypeOK, Batches, TailerOK, Reached
    <3>5. c.end <= TailEnd(log[r], snap[r])
      BY <3>2, <3>4, TailEndIs
    <3> QED BY <2>1, <3>2, <3>5
  <2>4. FlightOK'
    <3>1. ASSUME NEW i \in 1..Len(InFlight') PROVE BatchOK(InFlight'[i])
      BY <1>3, <2>1, <2>2 DEF FlightOK
    <3>2. ASSUME NEW i \in 1..Len(InFlight'), NEW j \in 1..(i - 1)
          PROVE  Follows(InFlight'[j], InFlight'[i])
      <4>1. CASE i = Len(InFlight) + 1
        BY <1>3, <2>2, <2>3, <4>1
      <4>2. CASE i # Len(InFlight) + 1
        <5>1. i \in 1..Len(InFlight) /\ j \in 1..Len(InFlight)
          BY <1>3, <2>2, <4>2
        <5> QED BY <2>2, <5>1 DEF FlightOK
      <4> QED BY <4>1, <4>2
    <3> QED BY <1>4, <1>5, <3>1, <3>2 DEF FlightOK
  <2>5. TailerOK'
    <3>1. ASSUME NEW q \in todo', NEW i \in 1..Len(InFlight'), InFlight'[i].runner = q
          PROVE  OneRead(log[q], snap[q], InFlight'[i].end)
      <4>1. q \in todo /\ q # r
        OBVIOUS
      <4>2. i \in 1..Len(InFlight)
        BY <1>3, <2>1, <2>2, <3>1, <4>1
      <4> QED BY <2>2, <3>1, <4>1, <4>2 DEF TailerOK
    <3> QED BY <3>1 DEF TailerOK
  <2> QED BY <1>1, <1>2, <2>4, <2>5
<1>8. InFlight' = channel \/ InFlight' = Append(channel, b)
  BY DEF InFlight
<1> QED BY <1>6, <1>7, <1>8

LEMMA ReadLogInv ==
  ASSUME IInv, NEW r \in Runners, ReadLog(r)
  PROVE  IInv'
<1> USE DEF IInv
<1> DEFINE s == TailStart(log[r], snap[r])
           e == TailEnd(log[r], s)
           b == [runner |-> r, from |-> s, end |-> e, events |-> Parsed(log[r], s, e)]
<1>1. /\ r \in todo /\ held = None /\ todo' = todo \ {r}
      /\ held' = IF e = snap[r] THEN None ELSE b
      /\ UNCHANGED <<log, offset, rows, disk, channel, snap, faults>>
  BY DEF ReadLog, Tailed, db
<1>2. log[r] \in Seq(Cells) /\ snap[r] \in Nat /\ offset[r] \in Nat
  BY DEF TypeOK
<1>3. Reached(log[r], snap[r]) /\ OneRead(log[r], snap[r], offset[r])
  BY <1>1 DEF TailerOK
<1>4. s = snap[r] /\ s <= Len(log[r])
  BY <1>2, <1>3 DEF TailStart, Reached
<1>5. e \in Nat /\ OneRead(log[r], s, e) /\ offset[r] <= e
  BY <1>2, <1>3, <1>4, TailEndIs
<1>6. b \in Batches /\ BatchOK(b)
  <2>1. Parsed(log[r], s, e) \in SUBSET [at : Nat, event : Events]
    BY <1>2, <1>4, <1>5 DEF Parsed
  <2> HIDE DEF s, e
  <2> QED BY <1>2, <1>3, <1>4, <1>5, <2>1 DEF Batches, BatchOK
<1>7. faults' \in 0..MaxFaults
  BY <1>1 DEF TypeOK
<1>8. b.runner = r /\ b.from = snap[r] /\ b.end = TailEnd(log[r], snap[r])
  BY <1>4
<1> HIDE DEF b, s, e
<1> QED BY <1>1, <1>6, <1>7, <1>8, TailedInv

LEMMA ReadFailsInv ==
  ASSUME IInv, NEW r \in Runners, ReadFails(r)
  PROVE  IInv'
<1> USE DEF IInv
<1>1. /\ r \in todo /\ held = None /\ todo' = todo \ {r}
      /\ UNCHANGED <<log, offset, rows, disk, channel, snap>>
  BY DEF ReadFails, Tailed, db
<1>2. TailStart(log[r], snap[r]) = snap[r]
  BY <1>1 DEF TailStart, TailerOK, Reached, TypeOK
<1>3. held' = None
  BY <1>2 DEF ReadFails, Tailed
<1>4. faults' \in 0..MaxFaults
  BY BoundAssumption DEF ReadFails, TypeOK
<1> QED BY <1>1, <1>3, <1>4, TailedInv

LEMMA SendInv ==
  ASSUME IInv, Send
  PROVE  IInv'
<1> USE DEF IInv
<1>1. /\ held # None /\ Len(channel) < ChannelBound
      /\ channel' = Append(channel, held) /\ held' = None
      /\ UNCHANGED <<log, offset, rows, disk, snap, todo, faults>>
  BY DEF Send, db
<1>2. held \in Batches /\ channel \in Seq(Batches) /\ Len(channel) \in Nat
  BY <1>1 DEF TypeOK
<1>3. TypeOK'
  BY <1>1, <1>2, BoundAssumption DEF TypeOK
<1>4. InFlight' = InFlight
  BY <1>1 DEF InFlight
<1>5. StoreOK' /\ DiskBehind' /\ FlightOK' /\ TailerOK'
  BY <1>1, <1>4 DEF StoreOK, DiskBehind, FlightOK, BatchOK, Follows, TailerOK
<1> QED BY <1>3, <1>5

\* Dropping the oldest batch and leaving the rest alone, as a failed write
\* does, or storing it, as a commit does.
LEMMA ReceivedInv ==
  ASSUME IInv, channel # <<>>, channel' = Tail(channel),
         UNCHANGED <<log, disk, snap, todo, held>>, faults' \in 0..MaxFaults,
         \/ UNCHANGED <<offset, rows>>
         \/ /\ rows' = [rows EXCEPT ![Head(channel).runner] =
                                       Upserted(@, Head(channel).events)]
            /\ offset' = [offset EXCEPT ![Head(channel).runner] = Head(channel).end]
  PROVE  /\ IInv'
         /\ \A r \in Runners : offset'[r] >= offset[r]
         /\ \A r \in Runners : offset'[r] <= Len(log[r])
<1> USE DEF IInv
<1> DEFINE b == Head(channel)
           r == b.runner
           l == log[r]
<1>1. /\ InFlight # <<>> /\ b = InFlight[1]
      /\ Len(InFlight') = Len(InFlight) - 1
      /\ \A i \in 1..Len(InFlight') : InFlight'[i] = InFlight[i + 1]
  BY InFlightTail
<1>2. InFlight \in Seq(Batches) /\ Len(InFlight) \in Nat \ {0}
  BY <1>1, InFlightType
<1>3. b \in Batches /\ BatchOK(b)
  BY <1>1, <1>2 DEF FlightOK
<1>4. /\ r \in Runners /\ b.from \in Nat /\ b.end \in Nat /\ l \in Seq(Cells)
      /\ offset[r] \in Nat /\ \A q \in Runners : offset[q] \in Nat
  BY <1>3 DEF Batches, TypeOK
<1>5. /\ Reached(l, b.from) /\ b.events = Parsed(l, b.from, b.end)
      /\ OneRead(l, b.from, b.end) /\ OneRead(l, b.from, offset[r]) /\ offset[r] <= b.end
  BY <1>3 DEF BatchOK
<1>6. Reached(l, b.end)
  BY <1>4, <1>5, ReachedByRead
<1>7. Upserted(rows[r], b.events) = Ledger(l, b.end)
  <2>1. b.from <= offset[r]
    BY <1>5 DEF OneRead
  <2>2. rows[r] = Ledger(l, offset[r])
    BY <1>4 DEF StoreOK
  <2> QED BY <1>4, <1>5, <2>1, <2>2, UpsertedLedger
<1>8. /\ offset' \in [Runners -> Nat] /\ rows' \in Columns
      /\ \A q \in Runners : /\ offset'[q] >= offset[q]
                            /\ Reached(log[q], offset'[q])
                            /\ rows'[q] = Ledger(log[q], offset'[q])
      /\ offset' = offset \/ offset' = [offset EXCEPT ![r] = b.end]
  <2>1. CASE UNCHANGED <<offset, rows>>
    BY <1>4, <2>1 DEF TypeOK, StoreOK
  <2>2. CASE /\ rows' = [rows EXCEPT ![r] = Upserted(@, b.events)]
             /\ offset' = [offset EXCEPT ![r] = b.end]
    <3>1. Ledger(l, b.end) \in [Events -> Nat]
      BY <1>4, LedgerType
    <3>2. rows' = [rows EXCEPT ![r] = Ledger(l, b.end)]
      BY <1>4, <1>7, <2>2 DEF TypeOK, Columns
    <3>3. offset' \in [Runners -> Nat] /\ rows' \in Columns
      BY <1>4, <2>2, <3>1, <3>2 DEF TypeOK, Columns
    <3>4. ASSUME NEW q \in Runners
          PROVE  /\ offset'[q] >= offset[q]
                 /\ Reached(log[q], offset'[q])
                 /\ rows'[q] = Ledger(log[q], offset'[q])
      <4>1. CASE q = r
        BY <1>4, <1>5, <1>6, <2>2, <3>2, <4>1 DEF TypeOK, Columns
      <4>2. CASE q # r
        <5>1. offset'[q] = offset[q] /\ rows'[q] = rows[q]
          BY <2>2, <3>2, <4>2 DEF TypeOK, Columns
        <5> QED BY <1>4, <5>1 DEF StoreOK
      <4> QED BY <4>1, <4>2
    <3> QED BY <2>2, <3>3, <3>4
  <2> QED BY <2>1, <2>2
<1>9. TypeOK'
  <2>1. channel' \in Seq(Batches) /\ Len(channel') <= ChannelBound
    BY BoundAssumption DEF TypeOK
  <2> QED BY <1>8, <2>1 DEF TypeOK
<1>10. StoreOK'
  BY <1>8 DEF StoreOK
<1>11. DiskBehind'
  <2>1. \A q \in Runners : disk.offset[q] \in Nat /\ disk.offset[q] <= offset[q]
    BY DEF DiskBehind, TypeOK
  <2>2. \A q \in Runners : offset'[q] \in Nat /\ offset'[q] >= offset[q]
    BY <1>8
  <2> QED BY <1>4, <2>1, <2>2 DEF DiskBehind
<1>12. FlightOK'
  <2>1. ASSUME NEW i \in 1..Len(InFlight') PROVE BatchOK(InFlight[i])'
    <3> DEFINE c == InFlight[i + 1]
    <3>1. i + 1 \in 1..Len(InFlight) /\ 1 \in 1..((i + 1) - 1) /\ InFlight'[i] = c
      BY <1>1, <1>2
    <3>2. c \in Batches /\ BatchOK(c) /\ Follows(b, c)
      BY <1>1, <1>2, <3>1 DEF FlightOK
    <3>3. /\ OneRead(log[c.runner], c.from, offset'[c.runner])
          /\ offset'[c.runner] <= c.end
      <4>1. CASE offset'[c.runner] = offset[c.runner]
        BY <3>2, <4>1 DEF BatchOK
      <4>2. CASE offset'[c.runner] # offset[c.runner]
        <5>1. c.runner = r /\ offset'[r] = b.end
          BY <1>4, <1>8, <3>2, <4>2 DEF TypeOK, Batches
        <5> QED BY <3>2, <5>1 DEF Follows
      <4> QED BY <4>1, <4>2
    <3> QED BY <3>1, <3>2, <3>3 DEF BatchOK
  <2>2. ASSUME NEW i \in 1..Len(InFlight'), NEW j \in 1..(i - 1)
        PROVE  Follows(InFlight[j], InFlight[i])'
    <3>1. /\ i + 1 \in 1..Len(InFlight) /\ j + 1 \in 1..((i + 1) - 1)
          /\ InFlight'[i] = InFlight[i + 1] /\ InFlight'[j] = InFlight[j + 1]
      <4>1. i \in Nat /\ j \in Nat /\ j \in 1..Len(InFlight') /\ j < i
        BY <1>1, <1>2
      <4>2. i + 1 \in 1..Len(InFlight) /\ j + 1 \in 1..i /\ i = (i + 1) - 1
        BY <1>1, <1>2, <4>1
      <4>3. InFlight'[i] = InFlight[i + 1] /\ InFlight'[j] = InFlight[j + 1]
        BY <1>1, <4>1
      <4> QED BY <4>2, <4>3
    <3>2. Follows(InFlight[j + 1], InFlight[i + 1])
      BY <3>1 DEF FlightOK
    <3> QED BY <3>1, <3>2 DEF Follows
  <2> QED BY <2>1, <2>2 DEF FlightOK
<1>13. TailerOK'
  <2>1. ASSUME NEW q \in todo
        PROVE  /\ Reached(log[q], snap[q])
               /\ OneRead(log[q], snap[q], offset'[q])
               /\ \A i \in 1..Len(InFlight') :
                    InFlight'[i].runner = q => OneRead(log[q], snap[q], InFlight'[i].end)
    <3>1. q \in Runners
      BY DEF TypeOK
    <3>2. offset'[q] = offset[q] \/ (q = r /\ offset'[q] = b.end)
      BY <1>4, <1>8, <3>1 DEF TypeOK
    <3>3. OneRead(log[q], snap[q], offset'[q])
      BY <1>1, <1>2, <3>2 DEF TailerOK
    <3>4. ASSUME NEW i \in 1..Len(InFlight'), InFlight'[i].runner = q
          PROVE  OneRead(log[q], snap[q], InFlight'[i].end)
      <4>1. i + 1 \in 1..Len(InFlight) /\ InFlight'[i] = InFlight[i + 1]
        BY <1>1, <1>2
      <4> QED BY <3>4, <4>1 DEF TailerOK
    <3> QED BY <3>3, <3>4 DEF TailerOK
  <2> QED BY <2>1 DEF TailerOK
<1>14. \A q \in Runners : offset'[q] >= offset[q] /\ offset'[q] <= Len(log[q])
  BY <1>8 DEF Reached
<1> QED BY <1>9, <1>10, <1>11, <1>12, <1>13, <1>14

LEMMA CommitInv ==
  ASSUME IInv, Commit
  PROVE  IInv' /\ \A r \in Runners : offset'[r] >= offset[r]
<1>1. faults' \in 0..MaxFaults
  BY DEF Commit, IInv, TypeOK
<1> QED BY <1>1, ReceivedInv DEF Commit, tailer

LEMMA WriteFailsInv ==
  ASSUME IInv, WriteFails
  PROVE  IInv'
<1>1. faults' \in 0..MaxFaults
  BY BoundAssumption DEF WriteFails, IInv, TypeOK
<1> QED BY <1>1, ReceivedInv DEF WriteFails, tailer, db

LEMMA CheckpointInv ==
  ASSUME IInv, Checkpoint
  PROVE  IInv'
<1> USE DEF IInv
<1>1. /\ disk' = [offset |-> offset, rows |-> rows]
      /\ UNCHANGED <<log, offset, rows, channel, snap, todo, held, faults>>
  BY DEF Checkpoint, db, tailer
<1>2. InFlight' = InFlight
  BY <1>1 DEF InFlight
<1>3. TypeOK'
  BY <1>1 DEF TypeOK
<1>4. StoreOK' /\ FlightOK' /\ TailerOK'
  BY <1>1, <1>2 DEF StoreOK, FlightOK, BatchOK, Follows, TailerOK
<1>5. DiskBehind'
  BY <1>1 DEF DiskBehind, TypeOK
<1> QED BY <1>3, <1>4, <1>5

\* Starting again with an empty channel, from the offsets and rows that were
\* committed or from the ones that had reached the disk.
LEMMA RestartInv ==
  ASSUME IInv, Crash \/ PowerLoss
  PROVE  IInv'
<1> USE DEF IInv
<1>1. /\ channel' = <<>> /\ todo' = {} /\ held' = None
      /\ UNCHANGED <<log, disk, snap>>
      /\ \/ offset' = offset /\ rows' = rows
         \/ offset' = disk.offset /\ rows' = disk.rows
  BY DEF Crash, PowerLoss, Restart, db
<1>2. faults' \in 0..MaxFaults
  BY BoundAssumption DEF Crash, PowerLoss, Restart, TypeOK
<1>3. TypeOK'
  BY <1>1, <1>2, BoundAssumption DEF TypeOK
<1>4. InFlight' = <<>>
  BY <1>1 DEF InFlight
<1>5. FlightOK' /\ TailerOK'
  BY <1>1, <1>4 DEF FlightOK, TailerOK
<1>6. StoreOK'
  BY <1>1 DEF StoreOK
<1>7. DiskBehind'
  BY <1>1 DEF DiskBehind, TypeOK
<1> QED BY <1>3, <1>5, <1>6, <1>7

LEMMA InvNext == IInv /\ [Next]_vars => IInv'
<1> SUFFICES ASSUME IInv, [Next]_vars PROVE IInv'
  OBVIOUS
<1>1. ASSUME NEW r \in Runners, HookAppends(r) PROVE IInv'
  BY <1>1, HookAppendsInv
<1>2. ASSUME NEW r \in Runners, ReadLog(r) PROVE IInv'
  BY <1>2, ReadLogInv
<1>3. ASSUME NEW r \in Runners, ReadFails(r) PROVE IInv'
  BY <1>3, ReadFailsInv
<1>4. CASE TickStart
  BY <1>4, TickStartInv
<1>5. CASE Send
  BY <1>5, SendInv
<1>6. CASE Commit
  BY <1>6, CommitInv
<1>7. CASE WriteFails
  BY <1>7, WriteFailsInv
<1>8. CASE Checkpoint
  BY <1>8, CheckpointInv
<1>9. CASE Crash \/ PowerLoss
  BY <1>9, RestartInv
<1>10. CASE UNCHANGED vars
  <2>1. UNCHANGED <<log, offset, rows, disk, channel, snap, todo, held, faults>>
    BY <1>10 DEF vars, db, tailer
  <2>2. InFlight' = InFlight
    BY <2>1 DEF InFlight
  <2>3. TypeOK'
    BY <2>1 DEF IInv, TypeOK
  <2> QED BY <2>1, <2>2, <2>3
       DEF IInv, StoreOK, DiskBehind, FlightOK, BatchOK, Follows, TailerOK
<1> QED BY <1>1, <1>2, <1>3, <1>4, <1>5, <1>6, <1>7, <1>8, <1>9, <1>10 DEF Next

-----------------------------------------------------------------------------
(* The theorems. *)

LEMMA Invariance == Spec => []IInv
BY InvInit, InvNext, PTL DEF Spec

\* Every variable keeps its type and the channel never exceeds its bound.
THEOREM TypeCorrect == Spec => []TypeOK
<1>1. IInv => TypeOK
  BY DEF IInv
<1> QED BY <1>1, Invariance, PTL

\* apply_hook_events' atomic commit makes the rows of job_event say exactly
\* what the logs say up to the stored offsets, whatever fails or is re-read.
THEOREM RowsExact == Spec => []RowsMatchOffset
<1>1. IInv => RowsMatchOffset
  BY DEF IInv, StoreOK, RowsMatchOffset, Reached
<1> QED BY <1>1, Invariance, PTL

\* The batches the tailer has in flight, re-read ones included, are in an
\* order in which committing them leaves no hole and undoes nothing.
THEOREM FlightInOrder == Spec => []NoHolesNoStepsBack
<1>1. ASSUME IInv PROVE NoHolesNoStepsBack
  <2> USE <1>1 DEF IInv
  <2>1. SUFFICES ASSUME NEW i \in 1..Len(InFlight)
                 PROVE  /\ InFlight[i].from <= offset[InFlight[i].runner]
                        /\ offset[InFlight[i].runner] <= InFlight[i].end
                        /\ \A j \in 1..i : InFlight[j].runner = InFlight[i].runner
                                             => InFlight[j].end <= InFlight[i].end
    BY DEF NoHolesNoStepsBack
  <2>2. InFlight \in Seq(Batches) /\ BatchOK(InFlight[i])
    BY InFlightType DEF FlightOK
  <2>3. InFlight[i] \in Batches /\ InFlight[i].end \in Nat
    <3>1. InFlight[i] \in Batches
      BY <2>2
    <3> QED BY <3>1 DEF Batches
  <2>4. ASSUME NEW j \in 1..i, InFlight[j].runner = InFlight[i].runner
        PROVE  InFlight[j].end <= InFlight[i].end
    <3>1. CASE j = i
      BY <2>3, <3>1
    <3>2. CASE j # i
      <4>1. j \in 1..(i - 1)
        BY <2>2, <3>2
      <4> QED BY <2>4, <4>1 DEF FlightOK, Follows
    <3> QED BY <3>1, <3>2
  <2> QED BY <2>2, <2>4 DEF BatchOK, OneRead
<1> QED BY <1>1, Invariance, PTL

\* No step moves a stored offset backward, but a power loss.
THEOREM OffsetsOnlyAdvance == Spec => OffsetsAdvance
<1> DEFINE A == \/ \A r \in Runners : offset'[r] >= offset[r]
                \/ offset' = disk.offset /\ channel' = <<>>
<1>1. ASSUME IInv, [Next]_vars PROVE [A]_vars
  <2>1. \A r \in Runners : offset[r] \in Nat
    BY <1>1 DEF IInv, TypeOK
  <2>2. ASSUME offset' = offset PROVE A
    BY <2>1, <2>2
  <2>3. CASE \E r \in Runners : HookAppends(r) \/ ReadLog(r) \/ ReadFails(r)
    <3>1. offset' = offset
      BY <2>3 DEF HookAppends, ReadLog, ReadFails, Tailed, db
    <3> QED BY <2>2, <3>1
  <2>4. CASE TickStart \/ Send \/ WriteFails \/ Checkpoint \/ Crash
    <3>1. offset' = offset
      BY <2>4 DEF TickStart, Send, WriteFails, Checkpoint, Crash, db
    <3> QED BY <2>2, <3>1
  <2>5. CASE Commit
    BY <1>1, <2>5, CommitInv
  <2>6. CASE PowerLoss
    BY <2>6 DEF PowerLoss, Restart
  <2> HIDE DEF A
  <2> QED BY <1>1, <2>3, <2>4, <2>5, <2>6 DEF Next
<1>2. Spec => [][A]_vars
  BY <1>1, Invariance, PTL DEF Spec
<1> QED BY <1>2 DEF OffsetsAdvance

-----------------------------------------------------------------------------
(* Refinement of the job ledger. *)

LEMMA SameCells == Abstract!Cells = Cells /\ Abstract!Events = Events
BY DEF Abstract!Cells, Cells, Abstract!Events, Events, Abstract!Phases, Phases

LEMMA SameLedger ==
  ASSUME NEW l, NEW n
  PROVE  Abstract!Ledger(l, n) = Ledger(l, n)
<1>1. \A q : Abstract!Boundary(l, q) = Boundary(l, q)
  BY DEF Abstract!Boundary, Boundary
<1>2. \A p : Abstract!Ingestable(l, p) = Ingestable(l, p)
  BY <1>1, SameCells DEF Abstract!Ingestable, Ingestable
<1>3. \A S : Abstract!Max(S) = Max(S)
  BY DEF Abstract!Max, Max
<1>4. ASSUME NEW v PROVE Abstract!LastLine(l, v, n) = LastLine(l, v, n)
  <2>1. {p \in 1..n : l[p] = v /\ Abstract!Ingestable(l, p)}
          = {p \in 1..n : l[p] = v /\ Ingestable(l, p)}
    BY <1>2
  <2> QED BY <1>3, <2>1 DEF Abstract!LastLine, LastLine
<1> QED BY <1>4, SameCells DEF Abstract!Ledger, Ledger

\* The detailed store implements the ledger: a reader of job_event sees, at
\* every step, the rows of a prefix of each log, and prefixes only grow
\* outside power losses.
THEOREM Refinement == Spec => ImplementsLedger
<1>1. Init => Abstract!Init
  BY SameCells DEF Init, Abstract!Init
<1>2. ASSUME IInv, IInv', [Next]_vars
      PROVE  [Abstract!Next]_(Abstract!ledgerVars)
  <2> USE DEF Abstract!ledgerVars
  <2>1. ASSUME UNCHANGED <<log, offset, rows>>
        PROVE  UNCHANGED Abstract!ledgerVars
    BY <2>1
  <2>2. ASSUME NEW r \in Runners, HookAppends(r) PROVE Abstract!Next
    <3>1. Abstract!Grow
      BY <2>2, SameCells DEF HookAppends, Abstract!Grow, db
    <3> QED BY <3>1 DEF Abstract!Next
  <2>3. CASE \/ \E r \in Runners : ReadLog(r) \/ ReadFails(r)
             \/ TickStart \/ Send \/ WriteFails \/ Checkpoint \/ Crash \/ UNCHANGED vars
    <3>1. UNCHANGED <<log, offset, rows>>
      BY <2>3 DEF ReadLog, ReadFails, Tailed, TickStart, Send, WriteFails,
                  Checkpoint, Crash, Restart, vars, db
    <3> QED BY <2>1, <3>1
  <2>4. CASE Commit
    <3> DEFINE r == Head(channel).runner
               n == offset'[r]
    <3>1. Head(channel) \in Batches
      BY <1>2, <2>4 DEF IInv, TypeOK, Commit
    <3>2. r \in Runners /\ Head(channel).end \in Nat
      BY <3>1 DEF Batches
    <3>3. UNCHANGED log /\ offset' = [offset EXCEPT ![r] = n]
      BY <1>2, <2>4, <3>2 DEF Commit, IInv, TypeOK
    <3>4. rows' = [rows EXCEPT ![r] = rows'[r]]
      BY <1>2, <2>4, <3>2 DEF Commit, IInv, TypeOK, Columns
    <3>5. rows'[r] = Ledger(log[r], n) /\ n <= Len(log[r]) /\ n \in Nat
      BY <1>2, <3>2, <3>3 DEF IInv, StoreOK, Reached, TypeOK
    <3>6. offset[r] \in Nat /\ n >= offset[r]
      BY <1>2, <2>4, <3>2, CommitInv DEF IInv, TypeOK
    <3>7. n \in offset[r]..Len(log[r])
      BY <1>2, <3>2, <3>5, <3>6 DEF IInv, TypeOK
    <3> HIDE DEF n, r
    <3>8. Abstract!Absorb
      BY <3>2, <3>3, <3>4, <3>5, <3>7, SameLedger DEF Abstract!Absorb
    <3> QED BY <3>8 DEF Abstract!Next
  <2>5. CASE PowerLoss
    <3>1. UNCHANGED log /\ offset' = disk.offset /\ rows' = disk.rows
      BY <2>5 DEF PowerLoss, Restart
    <3>2. offset' \in [Runners -> Nat] /\ \A r \in Runners : offset'[r] <= offset[r]
      BY <1>2, <3>1 DEF IInv, TypeOK, DiskBehind
    <3>3. rows' = [r \in Runners |-> Ledger(log[r], offset'[r])]
      BY <1>2, <3>1 DEF IInv, TypeOK, Columns, StoreOK
    <3>4. Abstract!FallBack
      BY <3>1, <3>2, <3>3, SameLedger DEF Abstract!FallBack
    <3> QED BY <3>4 DEF Abstract!Next
  <2> QED BY <1>2, <2>2, <2>3, <2>4, <2>5 DEF Next
<1>3. Spec => Abstract!Init /\ [][Abstract!Next]_(Abstract!ledgerVars)
  BY <1>1, <1>2, Invariance, PTL DEF Spec
<1> QED BY <1>3 DEF ImplementsLedger, Abstract!LedgerSpec
=============================================================================
