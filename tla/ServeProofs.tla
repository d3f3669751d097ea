---------------------------- MODULE ServeProofs -----------------------------
(***************************************************************************)
(* Proofs about the life of `serve`, for any processes, databases and      *)
(* channel bound.  The argument: two processes that are up hold different  *)
(* locks, so if one is at the socket while another is past its probe they  *)
(* serve different databases and their starts overlapped; only such a one  *)
(* touches the path.                                                       *)
(***************************************************************************)
EXTENDS ServeLifecycle, TLAPS

Rivalled(p) == rivals[p] \ {db[p]} # {}

Idle(p) == /\ ipc[p] = "off" /\ ~term[p] /\ alive[p] = {}
           /\ burst[p] = Stopped /\ channel[p] = 0

\* What holds of one process.
Own(p) ==
  /\ main[p] # "down" => db[p] \in Databases /\ holder[db[p]] = p
  /\ main[p] \in {"down"} \cup Starting => Idle(p)
  /\ Listens(p) => listener[p]
  /\ \A t \in Producers : t \notin alive[p] => burst[p][t] = 0
  /\ main[p] = "joining" => channel[p] = 0 /\ alive[p] \cap Producers = {}
  /\ main[p] \in {"writing", "joining"} /\ ipc[p] # "listening" => path # p
  /\ main[p] \in {"writing", "joining"} /\ ipc[p] = "off" => ~listener[p]
  /\ Listens(p) /\ path # p => Rivalled(p)

\* And of two.
Coexist(p, q) == p # q /\ Listens(p) /\ Past(q) => Rivalled(p)

IInv == /\ TypeOK
        /\ \A p \in Procs : Own(p)
        /\ \A p, q \in Procs : Coexist(p, q)

\* A step of p leaves the other processes alone, and their locks.
Apart(p) ==
  /\ \A q \in Procs \ {p} :
       /\ main'[q] = main[q] /\ db'[q] = db[q] /\ listener'[q] = listener[q]
       /\ term'[q] = term[q] /\ alive'[q] = alive[q] /\ burst'[q] = burst[q]
       /\ channel'[q] = channel[q] /\ ipc'[q] = ipc[q] /\ rivals'[q] = rivals[q]
  /\ \A d \in Databases : holder[d] \in Procs \ {p} => holder'[d] = holder[d]

-----------------------------------------------------------------------------
\* What a step of p has to show of p alone.
LEMMA StepOfOne ==
  ASSUME IInv, NEW p \in Procs, Apart(p), TypeOK', Own(p)',
         path' \in {path, None, p}, path' # path => Past(p),
         Past(p)' => Past(p) \/ \A q \in Procs \ {p} : Listens(q) => Rivalled(q),
         Listens(p)' => \/ Listens(p) /\ rivals'[p] = rivals[p] /\ db'[p] = db[p]
                        \/ \A q \in Procs \ {p} : Past(q) => Rivalled(p)'
  PROVE  IInv'
  <1>1. ASSUME NEW q \in Procs \ {p} PROVE Own(q)'
    <2>1. /\ main'[q] = main[q] /\ db'[q] = db[q] /\ listener'[q] = listener[q]
          /\ term'[q] = term[q] /\ alive'[q] = alive[q] /\ burst'[q] = burst[q]
          /\ channel'[q] = channel[q] /\ ipc'[q] = ipc[q] /\ rivals'[q] = rivals[q]
      BY DEF Apart
    <2>2. q # None /\ q # p /\ Own(q) /\ Coexist(q, p)
      BY ServeAssumption DEF IInv
    <2>3. main[q] # "down" => holder'[db[q]] = q
      BY <2>2 DEF Own, Apart
    <2>4. path' # q => path # q \/ Past(p)
      OBVIOUS
    <2>5. path # q => path' # q
      BY <2>2
    <2>6. Listens(q)' = Listens(q) /\ Rivalled(q)' = Rivalled(q) /\ Idle(q)' = Idle(q)
      BY <2>1 DEF Listens, Rivalled, Idle
    <2>7. Listens(q) /\ path' # q => Rivalled(q)
      BY <2>2, <2>4 DEF Own, Coexist
    <2> QED BY <2>1, <2>2, <2>3, <2>5, <2>6, <2>7 DEF Own
  <1>2. ASSUME NEW q \in Procs, NEW r \in Procs PROVE Coexist(q, r)'
    <2>1. \A x \in Procs \ {p} :
            /\ Listens(x)' = Listens(x) /\ Past(x)' = Past(x) /\ Rivalled(x)' = Rivalled(x)
      BY DEF Apart, Listens, Past, Rivalled
    <2>2. Coexist(q, r)
      BY DEF IInv
    <2>3. CASE q # p /\ r # p
      BY <2>1, <2>2, <2>3 DEF Coexist
    <2>4. CASE q # p /\ r = p
      BY <2>1, <2>2, <2>4 DEF Coexist
    <2>5. CASE q = p /\ r # p
      <3>1. CASE Listens(p) /\ rivals'[p] = rivals[p] /\ db'[p] = db[p]
        BY <2>1, <2>2, <2>5, <3>1 DEF Coexist, Rivalled
      <3> QED BY <2>1, <2>5, <3>1 DEF Coexist
    <2> QED BY <2>3, <2>4, <2>5 DEF Coexist
  <1> QED BY <1>1, <1>2 DEF IInv

LEMMA EndsInv ==
  ASSUME IInv, NEW p \in Procs, Ends(p), path' \in {path, None},
         path' # path => Past(p),
         \/ UNCHANGED listener
         \/ listener' = [listener EXCEPT ![p] = FALSE]
  PROVE  IInv'
  <1>1. TypeOK /\ TypeOK'
    <2>1. TypeOK
      BY DEF IInv
    <2>2. Stopped \in [Producers -> Nat] /\ 0 \in 0..ChannelBound
      BY ServeAssumption DEF Stopped
    <2>3. holder' \in [Databases -> Procs \cup {None}]
      BY <2>1 DEF Ends, TypeOK
    <2>4. path' \in Procs \cup {None} /\ listener' \in [Procs -> BOOLEAN]
      BY <2>1 DEF TypeOK
    <2> QED BY <2>1, <2>2, <2>3, <2>4 DEF Ends, Goes, TypeOK
  <1>2. /\ main'[p] = "down" /\ Idle(p)'
    BY <1>1 DEF Ends, Goes, TypeOK, Idle
  <1>3. Apart(p)
    BY <1>1 DEF Ends, Goes, TypeOK, Apart
  <1>4. Own(p)' /\ ~Past(p)' /\ ~Listens(p)'
    BY <1>2, <1>1 DEF Own, Idle, Stopped, Past, Listens, Starting
  <1> QED BY <1>1, <1>3, <1>4, StepOfOne

-----------------------------------------------------------------------------
(* The start. *)

LEMMA LockInv ==
  ASSUME IInv, NEW p \in Procs, NEW d \in Databases, Lock(p, d) PROVE IInv'
  <1>1. TypeOK /\ Own(p)
    BY DEF IInv
  <1>2. TypeOK'
    BY <1>1 DEF Lock, Goes, TypeOK, Starting, socket, threads
  <1>3. Apart(p)
    BY <1>1, ServeAssumption DEF Lock, Goes, TypeOK, Apart, socket, threads
  <1>4. /\ main'[p] = "locked" /\ db'[p] = d /\ holder'[d] = p /\ Idle(p)' /\ path' = path
    BY <1>1 DEF Lock, Goes, TypeOK, Own, Idle, socket, threads
  <1>5. Own(p)' /\ ~Past(p)' /\ ~Listens(p)'
    BY <1>4 DEF Own, Idle, Stopped, Past, Listens, Starting
  <1> QED BY <1>2, <1>3, <1>4, <1>5, StepOfOne

\* The steps of the main thread of p that only move it on.
LEMMA MovesOn ==
  ASSUME IInv, NEW p \in Procs, NEW to, Goes(p, to),
         UNCHANGED <<db, holder, listener, threads, ipc, rivals>>,
         main[p] \in {"locked", "probed", "stale"}, to \in {"probed", "stale", "clear"},
         path' \in {path, None}, path' # path => Past(p),
         main[p] = "locked" => ~Answers
  PROVE  IInv'
  <1>1. TypeOK /\ Own(p)
    BY DEF IInv
  <1>2. TypeOK' /\ main'[p] = to
    BY <1>1, ServeAssumption DEF Goes, TypeOK, Starting, threads
  <1>3. Apart(p)
    BY <1>1 DEF Goes, TypeOK, Apart, threads
  <1>4. Idle(p)' /\ ~Listens(p)'
    BY <1>1, <1>2 DEF Own, Idle, Listens, Starting, threads
  <1>5. Own(p)'
    BY <1>1, <1>2, <1>4 DEF Own, Idle, Stopped, Starting, threads
  <1>6. ASSUME main[p] = "locked", NEW q \in Procs, Listens(q) PROVE Rivalled(q)
    <2>1. Own(q) /\ q # None
      BY ServeAssumption DEF IInv
    <2> QED BY <1>6, <2>1 DEF Own, Answers
  <1>7. main[p] # "locked" => Past(p)
    BY DEF Past
  <1> QED BY <1>2, <1>3, <1>4, <1>5, <1>6, <1>7, StepOfOne

LEMMA BindInv == ASSUME IInv, NEW p \in Procs, Bind(p) PROVE IInv'
  <1>1. CASE path # None
    BY <1>1, EndsInv DEF Bind, socket
  <1>2. CASE path = None
    <2>1. TypeOK /\ Own(p) /\ main[p] = "clear" /\ Past(p)
      BY DEF IInv, Bind, Past
    <2>2. /\ Goes(p, "bound") /\ path' = p
          /\ listener' = [listener EXCEPT ![p] = TRUE]
          /\ rivals' = [rivals EXCEPT ![p] = {db[q] : q \in {x \in Procs \ {p} : Past(x)}}]
          /\ UNCHANGED <<db, holder, threads, ipc>>
      BY <1>2 DEF Bind
    <2>3. ASSUME NEW q \in Procs \ {p}, Past(q) PROVE db[q] \in Databases /\ db[q] # db[p]
      <3>1. Own(q) /\ Own(p)
        BY DEF IInv
      <3>2. main[q] # "down"
        BY <2>3, <3>1 DEF Past, Listens, Own, Idle
      <3> QED BY <2>1, <3>1, <3>2 DEF Own
    <2>4. TypeOK'
      <3>1. {db[q] : q \in {x \in Procs \ {p} : Past(x)}} \in SUBSET Databases
        BY <2>3
      <3>2. rivals' \in [Procs -> SUBSET Databases]
        BY <2>1, <2>2, <3>1 DEF TypeOK
      <3> QED BY <2>1, <2>2, <3>2 DEF Goes, TypeOK, Starting, threads
    <2>5. Apart(p)
      BY <2>1, <2>2 DEF Goes, TypeOK, Apart, threads
    <2>6. main'[p] = "bound" /\ listener'[p] /\ Idle(p)'
      BY <2>1, <2>2 DEF Goes, TypeOK, Own, Idle, Starting, threads
    <2>7. Own(p)'
      BY <2>1, <2>2, <2>6 DEF Own, Idle, Stopped, Starting
    <2>8. \A q \in Procs \ {p} : Past(q) => Rivalled(p)'
      <3>1. rivals'[p] = {db[q] : q \in {x \in Procs \ {p} : Past(x)}} /\ db' = db
        BY <2>1, <2>2 DEF TypeOK
      <3> QED BY <2>3, <3>1 DEF Rivalled
    <2> QED BY <2>1, <2>2, <2>4, <2>5, <2>7, <2>8, StepOfOne
  <1> QED BY <1>1, <1>2

LEMMA SpawnInv == ASSUME IInv, NEW p \in Procs, Spawn(p) PROVE IInv'
  <1>1. CASE path = None
    BY <1>1, EndsInv DEF Spawn
  <1>2. CASE path # None
    <2>1. TypeOK /\ Own(p) /\ main[p] = "bound" /\ Listens(p) /\ Past(p)
      BY DEF IInv, Spawn, Past, Listens
    <2>2. PICK running \in SUBSET (Producers \cup {"metrics"}) :
            alive' = [alive EXCEPT ![p] = running]
      BY <1>2 DEF Spawn
    <2>3. /\ Goes(p, "writing") /\ ipc' = [ipc EXCEPT ![p] = "listening"]
          /\ UNCHANGED <<db, holder, path, listener, term, burst, channel, rivals>>
      BY <1>2 DEF Spawn
    <2>4. TypeOK' /\ main'[p] = "writing" /\ ipc'[p] = "listening"
      BY <2>1, <2>2, <2>3 DEF Goes, TypeOK
    <2>5. Apart(p)
      BY <2>1, <2>2, <2>3 DEF Goes, TypeOK, Apart
    <2>6. Own(p)'
      BY <2>1, <2>3, <2>4 DEF Own, Idle, Stopped, Starting, Listens, Rivalled
    <2> QED BY <2>1, <2>3, <2>4, <2>5, <2>6, StepOfOne
  <1> QED BY <1>1, <1>2

LEMMA BoundInv == ASSUME IInv, NEW p \in Procs, Bound(p) PROVE IInv'
  <1>1. CASE Probe(p)
    BY <1>1, EndsInv, MovesOn DEF Probe, socket
  <1>2. CASE Look(p)
    BY <1>2, MovesOn DEF Look, socket
  <1>3. CASE Remove(p)
    <2>1. Past(p)
      BY <1>3 DEF Remove, Past
    <2> QED BY <1>3, <2>1, EndsInv, MovesOn DEF Remove
  <1> QED BY <1>1, <1>2, <1>3, BindInv, SpawnInv DEF Bound

-----------------------------------------------------------------------------
(* The threads. *)

\* Steps that touch neither the start nor the socket.
LEMMA ThreadStep ==
  ASSUME IInv, NEW p \in Procs, TypeOK', UNCHANGED <<db, holder, socket, ipc, rivals>>,
         main'[p] = main[p] \/ (main[p] = "writing" /\ main'[p] = "joining"),
         \A q \in Procs \ {p} :
           /\ main'[q] = main[q] /\ term'[q] = term[q] /\ alive'[q] = alive[q]
           /\ burst'[q] = burst[q] /\ channel'[q] = channel[q],
         main'[p] \in {"down"} \cup Starting => Idle(p)',
         \A t \in Producers : t \notin alive'[p] => burst'[p][t] = 0,
         main'[p] = "joining" => channel'[p] = 0 /\ alive'[p] \cap Producers = {}
  PROVE  IInv'
  <1>1. Own(p)
    BY DEF IInv
  <1>2. Apart(p)
    BY DEF Apart, socket
  <1>3. Listens(p)' = Listens(p) /\ Past(p)' = Past(p) /\ Rivalled(p)' = Rivalled(p)
    BY DEF Listens, Past, Rivalled
  <1>4. Own(p)'
    BY <1>1, <1>3 DEF Own, socket
  <1> QED BY <1>2, <1>3, <1>4, StepOfOne DEF socket

LEMMA TickInv == ASSUME IInv, NEW p \in Procs, NEW t \in Producers, Tick(p, t) PROVE IInv'
  <1>1. TypeOK /\ Own(p)
    BY DEF IInv
  <1>2. PICK n \in Bursts(t) : burst' = [burst EXCEPT ![p][t] = n]
    BY DEF Tick
  <1>3. n \in Nat
    BY ServeAssumption DEF Bursts
  <1>4. TypeOK'
    BY <1>1, <1>2, <1>3 DEF Tick, TypeOK, start, socket
  <1>5. ~(main[p] \in {"down"} \cup Starting)
    BY <1>1 DEF Tick, Own, Idle
  <1>6. \A u \in Producers : u \notin alive'[p] => burst'[p][u] = 0
    BY <1>1, <1>2 DEF Tick, Own, TypeOK
  <1>7. /\ UNCHANGED <<main, alive, channel>>
        /\ \A q \in Procs \ {p} : burst'[q] = burst[q]
    BY <1>1, <1>2 DEF Tick, TypeOK, start
  <1> QED BY <1>1, <1>4, <1>5, <1>6, <1>7, ThreadStep DEF Tick, Own, start

LEMMA SendInv == ASSUME IInv, NEW p \in Procs, NEW t \in Producers, Send(p, t) PROVE IInv'
  <1>1. TypeOK /\ Own(p) /\ burst[p][t] \in Nat /\ channel[p] \in Nat
    BY ServeAssumption DEF IInv, TypeOK
  <1>2. t \in alive[p]
    BY <1>1 DEF Send, Own
  <1>3. burst[p][t] - 1 \in Nat /\ channel[p] + 1 \in 0..ChannelBound
    BY <1>1, ServeAssumption DEF Send
  <1>4. TypeOK'
    BY <1>1, <1>3 DEF Send, TypeOK, start, socket
  <1>5. ~(main[p] \in {"down"} \cup Starting) /\ main[p] # "joining"
    BY <1>1, <1>2 DEF Own, Idle
  <1>6. \A u \in Producers : u \notin alive'[p] => burst'[p][u] = 0
    BY <1>1, <1>2 DEF Send, Own, TypeOK
  <1>7. /\ UNCHANGED <<main, alive>>
        /\ \A q \in Procs \ {p} : burst'[q] = burst[q] /\ channel'[q] = channel[q]
    BY <1>1 DEF Send, TypeOK, start
  <1> QED BY <1>4, <1>5, <1>6, <1>7, ThreadStep DEF Send, start

LEMMA ReturnsInv ==
  ASSUME IInv, NEW p \in Procs, NEW t \in Producers \cup {"metrics"}, Returns(p, t) PROVE IInv'
  <1>1. TypeOK /\ Own(p)
    BY DEF IInv
  <1>2. TypeOK'
    BY <1>1 DEF Returns, TypeOK, start, socket
  <1>3. ~(main[p] \in {"down"} \cup Starting)
    BY <1>1 DEF Returns, Own, Idle
  <1>4. \A u \in Producers : u \notin alive'[p] => burst'[p][u] = 0
    BY <1>1 DEF Returns, Own, TypeOK
  <1>5. /\ UNCHANGED <<main, burst, channel>>
        /\ alive'[p] \subseteq alive[p]
        /\ \A q \in Procs \ {p} : alive'[q] = alive[q]
    BY <1>1 DEF Returns, TypeOK, start
  <1>6. main'[p] = "joining" => channel'[p] = 0 /\ alive'[p] \cap Producers = {}
    BY <1>1, <1>5 DEF Own
  <1> QED BY <1>2, <1>3, <1>4, <1>5, <1>6, ThreadStep DEF Returns, start

LEMMA SignalInv == ASSUME IInv, NEW p \in Procs, Signal(p) PROVE IInv'
  <1>1. TypeOK /\ Own(p)
    BY DEF IInv
  <1>2. TypeOK'
    BY <1>1 DEF Signal, TypeOK, start, socket
  <1> QED BY <1>1, <1>2, ThreadStep DEF Signal, Own, TypeOK, start, Starting

LEMMA PersistInv == ASSUME IInv, NEW p \in Procs, Persist(p) PROVE IInv'
  <1>1. TypeOK /\ Own(p) /\ channel[p] - 1 \in 0..ChannelBound
    BY ServeAssumption DEF IInv, TypeOK, Persist
  <1>2. TypeOK'
    BY <1>1 DEF Persist, TypeOK, start, socket
  <1> QED BY <1>1, <1>2, ThreadStep DEF Persist, Own, TypeOK, start, Starting

LEMMA DrainedInv == ASSUME IInv, NEW p \in Procs, Drained(p) PROVE IInv'
  <1>1. TypeOK /\ Own(p)
    BY DEF IInv
  <1>2. TypeOK' /\ main'[p] = "joining"
    BY <1>1 DEF Drained, Goes, TypeOK, socket, threads
  <1> QED BY <1>1, <1>2, ThreadStep DEF Drained, Goes, Own, TypeOK, socket, threads, Starting

LEMMA ListenInv == ASSUME IInv, NEW p \in Procs, Listen(p) PROVE IInv'
  <1>1. TypeOK /\ Own(p)
    BY DEF IInv
  <1>2. ipc[p] # "off" /\ ~(main[p] \in {"down"} \cup Starting)
    BY <1>1 DEF Listen, Unlink, Close, Own, Idle
  <1>3. TypeOK'
    BY <1>1, ServeAssumption DEF Listen, Unlink, Close, TypeOK, start, threads
  <1>4. Apart(p)
    BY <1>1 DEF Listen, Unlink, Close, TypeOK, Apart, start, threads
  <1>5. ipc'[p] # "listening" /\ main'[p] = main[p] /\ main[p] # "bound"
    BY <1>1, <1>2 DEF Listen, Unlink, Close, TypeOK, start, Starting
  <1>6. ~Listens(p)' /\ ~Past(p)'
    BY <1>2, <1>5 DEF Listens, Past, Starting
  <1>7. path' # p /\ (ipc'[p] = "off" => ~listener'[p])
    BY <1>1, <1>2, ServeAssumption
       DEF Listen, Unlink, Close, Own, TypeOK, Starting, start
  <1>8. Own(p)'
    BY <1>1, <1>2, <1>5, <1>6, <1>7 DEF Listen, Unlink, Close, Own, start, threads
  <1>9. path' \in {path, None} /\ (path' # path => Past(p))
    BY DEF Listen, Unlink, Close, Past, Listens
  <1> QED BY <1>3, <1>4, <1>6, <1>8, <1>9, StepOfOne

LEMMA ReapedInv == ASSUME IInv, NEW p \in Procs, Reaped(p) PROVE IInv'
  <1>1. TypeOK /\ Own(p)
    BY DEF IInv
  <1>2. TypeOK' /\ main'[p] = "down"
    BY <1>1 DEF Reaped, TypeOK, start, threads
  <1>3. Apart(p)
    BY <1>1 DEF Reaped, TypeOK, Apart, start, threads
  <1>4. Own(p)' /\ ~Past(p)' /\ ~Listens(p)'
    BY <1>1, <1>2 DEF Reaped, Own, Idle, Past, Listens, start, threads
  <1> QED BY <1>2, <1>3, <1>4, StepOfOne DEF Reaped

-----------------------------------------------------------------------------
LEMMA IInvInit == Init => IInv
  BY ServeAssumption
     DEF Init, IInv, TypeOK, Own, Idle, Stopped, Coexist, Listens, Past, Starting

LEMMA IInvNext == IInv /\ [Next]_vars => IInv'
  <1> SUFFICES ASSUME IInv, [Next]_vars PROVE IInv'
    OBVIOUS
  <1>1. CASE UNCHANGED vars
    BY <1>1 DEF vars, start, socket, threads, IInv, TypeOK, Own, Idle, Coexist, Listens, Past,
                Rivalled
  <1>2. ASSUME NEW p \in Procs, Exit(p) \/ Die(p) PROVE IInv'
    BY <1>2, EndsInv DEF Exit, Die, socket
  <1>3. ASSUME NEW p \in Procs, Write(p) PROVE IInv'
    BY <1>2, <1>3, PersistInv, DrainedInv DEF Write
  <1> QED BY <1>1, <1>2, <1>3, LockInv, BoundInv, ListenInv, SignalInv, ReapedInv, TickInv,
             SendInv, ReturnsInv DEF Next

\* Together they hold in every state.
THEOREM Invariance == Spec => []IInv
  BY IInvInit, IInvNext, PTL DEF Spec

\* The variables keep their types, the channel its bound.
THEOREM ServeTypeCorrect == Spec => []TypeOK
  <1>1. IInv => TypeOK BY DEF IInv
  <1> QED BY <1>1, Invariance, PTL

\* ipc_server::bind and the serve lock: a listening collector loses its socket
\* only to a start for another database that overlapped its own.
THEOREM Reachable == Spec => []ReachableUnlessRaced
  <1>1. IInv => ReachableUnlessRaced
    BY DEF IInv, Own, Listens, Rivalled, ReachableUnlessRaced
  <1> QED BY <1>1, Invariance, PTL

\* serve::run drops nothing that was sent, and its socket is gone.
THEOREM NothingLeft == Spec => ReturnsClean
  <1>1. ASSUME IInv, NEW p \in Procs, Exit(p)
        PROVE  channel[p] = 0 /\ burst[p] = Stopped /\ path # p /\ ~listener[p]
    <2>1. Own(p)
      BY <1>1 DEF IInv
    <2>2. burst[p] \in [Producers -> Nat]
      BY <1>1 DEF IInv, TypeOK
    <2> QED BY <1>1, <2>1, <2>2 DEF Exit, Own, Stopped
  <1>2. IInv /\ [Next]_vars =>
          [\A p \in Procs : Exit(p) => /\ channel[p] = 0 /\ burst[p] = Stopped
                                       /\ path # p /\ ~listener[p]]_vars
    BY <1>1
  <1> QED BY <1>2, Invariance, PTL DEF Spec, ReturnsClean
=============================================================================
