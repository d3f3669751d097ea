--------------------------- MODULE IpcServerProofs --------------------------
(***************************************************************************)
(* Proofs about the IPC server, for any number of connections and slots:   *)
(* the slot counter is exact, the reserved slots keep operators able to    *)
(* connect, and no thread answers once the socket's path is removed.       *)
(***************************************************************************)
EXTENDS IpcServer, FiniteSetTheorems, TLAPS

\* The accepting thread has a connection in hand exactly while it decides on
\* it, and has found room for it once it is admitting.
InHand == LET c == acceptor.conn IN
  /\ acceptor.at \in {"checking", "admitting"} => c \in Conns /\ conn[c] = "accepted"
  /\ acceptor.at = "admitting" => live < Cap(c)

\* The connections of the unprivileged never reach the reserved slots.
ReservedKept == Cardinality(Holders \ Admins) + AdminReserved <= MaxConns

\* Every connection thread will be joined, and was once the server stopped.
AllJoined == /\ Holders \subseteq workers
             /\ bound <=> acceptor.at # "stopped"
             /\ acceptor.at = "stopped" => Holders = {}

IInv == TypeOK /\ InHand /\ SlotsCounted /\ ReservedKept /\ AllJoined

LEMMA HoldersFinite ==
  /\ IsFiniteSet(Holders) /\ Cardinality(Holders) \in Nat
  /\ IsFiniteSet(Holders \ Admins) /\ Cardinality(Holders \ Admins) \in Nat
  <1>1. Holders \subseteq Conns /\ Holders \ Admins \subseteq Conns
    BY DEF Holders
  <1> QED
    BY <1>1, ConnsAssumption, FS_Subset, FS_CardinalityType

LEMMA SplitCardinality ==
  ASSUME NEW S, NEW T, IsFiniteSet(S)
  PROVE  /\ Cardinality(S \cap T) \in Nat
         /\ Cardinality(S) = Cardinality(S \cap T) + Cardinality(S \ T)
  <1> DEFINE P == S \cap T
             Q == S \ T
  <1>1. P \cup Q = S /\ P \cap Q = {} /\ P \subseteq S /\ Q \subseteq S
    OBVIOUS
  <1>2. /\ IsFiniteSet(P) /\ Cardinality(P) \in Nat
        /\ IsFiniteSet(Q) /\ Cardinality(Q) \in Nat
    BY <1>1, FS_Subset, FS_CardinalityType
  <1> HIDE DEF P, Q
  <1>3. Cardinality(P \cup Q) = Cardinality(P) + Cardinality(Q) - Cardinality(P \cap Q)
    BY <1>2, FS_Union
  <1>4. Cardinality(P \cap Q) = 0
    BY <1>1, FS_EmptySet
  <1>5. Cardinality(S) = Cardinality(P) + Cardinality(Q)
    BY <1>1, <1>2, <1>3, <1>4
  <1> QED
    BY <1>2, <1>5 DEF P, Q

LEMMA CapType == ASSUME NEW c PROVE Cap(c) \in Nat /\ Cap(c) <= MaxConns
  BY SlotsAssumption DEF Cap

LEMMA IInvInit == Init => IInv
  <1> SUFFICES ASSUME Init PROVE IInv
    OBVIOUS
  <1>1. Holders = {}
    BY DEF Init, Holders, Working
  <1>2. Cardinality(Holders) = 0 /\ Cardinality(Holders \ Admins) = 0
    <2>1. {} \ Admins = {} OBVIOUS
    <2> QED
      BY <1>1, <2>1, FS_EmptySet
  <1>3. TypeOK
    <2>1. term \in BOOLEAN /\ bound \in BOOLEAN
      BY DEF Init
    <2>2. /\ conn \in [Conns -> Places] /\ live \in 0..MaxConns /\ workers \subseteq Conns
          /\ acceptor \in [at : {"polling", "accepting", "checking", "admitting",
                                "joining", "stopped"},
                           conn : Conns \cup {None}]
      BY SlotsAssumption DEF Init, Places
    <2> QED
      BY <2>1, <2>2 DEF TypeOK
  <1> QED
    BY <1>1, <1>2, <1>3, SlotsAssumption
       DEF Init, IInv, InHand, SlotsCounted, ReservedKept, AllJoined

\* A step that changes neither the threads that hold slots nor the counter.
LEMMA SameHolders ==
  ASSUME IInv, TypeOK', InHand', UNCHANGED live, Holders' = Holders,
         Holders \subseteq workers',
         bound' <=> acceptor'.at # "stopped",
         acceptor'.at = "stopped" => Holders = {}
  PROVE  IInv'
  BY DEF IInv, SlotsCounted, ReservedKept, AllJoined

\* A connection that has no slot goes where it has none.
LEMMA NoSlotMove ==
  ASSUME IInv, NEW c \in Conns, NEW from, NEW to \in Places, Move(c, from, to),
         (from \in Working) <=> (to \in Working)
  PROVE  /\ Holders' = Holders
         /\ conn' \in [Conns -> Places]
         /\ \A d \in Conns \ {c} : conn'[d] = conn[d]
         /\ conn'[c] = to
  <1>1. /\ conn' \in [Conns -> Places]
        /\ \A d \in Conns \ {c} : conn'[d] = conn[d]
        /\ conn'[c] = to /\ conn[c] = from
    BY DEF IInv, TypeOK, Move
  <1>2. Holders' = Holders
    BY <1>1 DEF Holders
  <1> QED
    BY <1>1, <1>2

LEMMA ConnectInv == ASSUME IInv, NEW c \in Conns, Connect(c) PROVE IInv'
  <1>1. "queued" \in Places /\ ("out" \in Working <=> "queued" \in Working)
    BY DEF Places, Working
  <1>2. /\ Holders' = Holders /\ conn' \in [Conns -> Places]
        /\ \A d \in Conns \ {c} : conn'[d] = conn[d]
        /\ conn[c] = "out"
    BY <1>1, NoSlotMove DEF Connect, Move
  <1>3. TypeOK' /\ InHand'
    BY <1>2 DEF IInv, TypeOK, InHand, Connect, Cap
  <1> QED
    BY <1>2, <1>3, SameHolders DEF Connect, IInv, AllJoined

LEMMA TerminateInv == ASSUME IInv, Terminate PROVE IInv'
  BY SameHolders DEF Terminate, IInv, TypeOK, InHand, AllJoined, Holders, Cap

LEMMA PollInv == ASSUME IInv, Poll PROVE IInv'
  <1>1. acceptor'.at = "accepting" /\ acceptor.at = "polling"
    BY DEF Poll, Step, IInv, TypeOK
  <1>2. TypeOK' /\ InHand'
    BY <1>1 DEF Poll, Step, IInv, TypeOK, InHand
  <1> QED
    BY <1>1, <1>2, SameHolders DEF Poll, IInv, AllJoined, Holders

LEMMA AcceptInv == ASSUME IInv, NEW c \in Conns, Accept(c) PROVE IInv'
  <1>1. "accepted" \in Places /\ ("queued" \in Working <=> "accepted" \in Working)
    BY DEF Places, Working
  <1>2. /\ Holders' = Holders /\ conn' \in [Conns -> Places]
        /\ conn'[c] = "accepted"
    BY <1>1, NoSlotMove DEF Accept
  <1>3. TypeOK' /\ InHand'
    BY <1>2 DEF IInv, TypeOK, InHand, Accept
  <1> QED
    BY <1>2, <1>3, SameHolders DEF Accept, IInv, AllJoined

LEMMA LoopInv == ASSUME IInv, NothingAccepted \/ Stop PROVE IInv'
  <1>1. acceptor'.at \in {"polling", "joining"} /\ acceptor.at \in {"accepting", "polling"}
    BY DEF NothingAccepted, Stop, Step, IInv, TypeOK
  <1>2. TypeOK' /\ InHand'
    BY <1>1 DEF NothingAccepted, Stop, Step, IInv, TypeOK, InHand
  <1> QED
    BY <1>1, <1>2, SameHolders DEF NothingAccepted, Stop, IInv, AllJoined, Holders

LEMMA TurnedAwayInv == ASSUME IInv, Refuse \/ SpawnFails PROVE IInv'
  <1> DEFINE c == acceptor.conn
  <1>1. c \in Conns
    BY DEF IInv, InHand, Refuse, SpawnFails
  <1>2. "out" \in Places /\ ("accepted" \in Working <=> "out" \in Working)
    BY DEF Places, Working
  <1>3. Holders' = Holders /\ conn' \in [Conns -> Places]
    BY <1>1, <1>2, NoSlotMove DEF Refuse, SpawnFails
  <1>4. /\ acceptor' = [at |-> "polling", conn |-> None]
        /\ acceptor.at \in {"checking", "admitting"}
        /\ UNCHANGED <<live, workers, term, bound>>
    BY DEF Refuse, SpawnFails
  <1>5. TypeOK' /\ InHand'
    BY <1>3, <1>4 DEF IInv, TypeOK, InHand
  <1> QED
    BY <1>3, <1>4, <1>5, SameHolders DEF IInv, AllJoined

LEMMA PassInv == ASSUME IInv, Pass PROVE IInv'
  <1>1. acceptor'.at = "admitting" /\ acceptor'.conn = acceptor.conn
    BY DEF Pass, Step, IInv, TypeOK
  <1>2. TypeOK'
    BY DEF Pass, Step, IInv, TypeOK
  <1>3. InHand'
    BY <1>1 DEF Pass, IInv, InHand, Cap
  <1> QED
    BY <1>1, <1>2, <1>3, SameHolders DEF Pass, IInv, AllJoined, Holders

\* One more holder, below the cap of its peer.
LEMMA AdmitInv == ASSUME IInv, Admit PROVE IInv'
  <1> DEFINE c == acceptor.conn
  <1>1. c \in Conns /\ conn[c] = "accepted" /\ live < Cap(c) /\ c \notin Holders
    BY DEF IInv, InHand, Admit, Holders, Working
  <1>2. /\ conn' = [conn EXCEPT ![c] = "top"] /\ live' = live + 1
        /\ workers' = workers \cup {c}
        /\ acceptor' = [at |-> "polling", conn |-> None]
        /\ UNCHANGED <<term, bound>>
    BY DEF Admit, Move
  <1>3. Holders' = Holders \cup {c}
    BY <1>1, <1>2 DEF Holders, Working, IInv, TypeOK
  <1>4. Cardinality(Holders') = Cardinality(Holders) + 1
    BY <1>1, <1>3, HoldersFinite, FS_AddElement
  <1>5. TypeOK'
    <2>1. live' \in 0..MaxConns
      BY <1>1, <1>2, CapType, SlotsAssumption DEF IInv, TypeOK
    <2>2. conn' \in [Conns -> Places]
      BY <1>1, <1>2 DEF IInv, TypeOK, Places, Working
    <2> QED
      BY <1>1, <1>2, <2>1, <2>2 DEF IInv, TypeOK
  <1>6. InHand' /\ AllJoined'
    BY <1>2, <1>3 DEF IInv, InHand, AllJoined, Admit
  <1>7. ReservedKept'
    <2>1. CASE c \in Admins
      <3>1. Holders' \ Admins = Holders \ Admins
        BY <1>3, <2>1
      <3> QED
        BY <3>1 DEF IInv, ReservedKept
    <2>2. CASE c \notin Admins
      <3>1. live + 1 <= MaxConns - AdminReserved /\ live = Cardinality(Holders)
        BY <1>1, <2>2, SlotsAssumption DEF Cap, IInv, SlotsCounted, TypeOK
      <3>2. /\ Holders' \ Admins = (Holders \ Admins) \cup {c}
            /\ c \notin Holders \ Admins
        BY <1>1, <1>3, <2>2
      <3>3. Cardinality(Holders' \ Admins) = Cardinality(Holders \ Admins) + 1
        BY <3>2, HoldersFinite, FS_AddElement
      <3>4. Cardinality(Holders \ Admins) <= Cardinality(Holders)
        BY HoldersFinite, FS_Subset
      <3> QED
        BY <3>1, <3>3, <3>4, HoldersFinite, SlotsAssumption DEF ReservedKept
    <2> QED
      BY <2>1, <2>2
  <1>8. SlotsCounted'
    BY <1>2, <1>4 DEF IInv, SlotsCounted
  <1> QED
    BY <1>5, <1>6, <1>7, <1>8 DEF IInv

LEMMA UnlinkInv == ASSUME IInv, Unlink PROVE IInv'
  <1>1. Holders = {}
    BY DEF IInv, AllJoined, Unlink
  <1>2. Holders' = {}
    BY <1>1 DEF Unlink, Holders, Working, IInv, TypeOK
  <1>3. acceptor'.at = "stopped" /\ acceptor.at = "joining"
    BY DEF Unlink, Step, IInv, TypeOK
  <1>4. TypeOK' /\ InHand'
    BY <1>3 DEF Unlink, Step, IInv, TypeOK, InHand, Places
  <1> QED
    BY <1>1, <1>2, <1>3, <1>4, SameHolders DEF Unlink, IInv, AllJoined

\* serve_conn's loop keeps the slot; the thread's end gives it back.
LEMMA ServeInv == ASSUME IInv, NEW c \in Conns, Serve(c) PROVE IInv'
  <1>1. CASE \E from, to \in Working : Move(c, from, to) /\ Worker
    <2>1. PICK from, to \in Working : Move(c, from, to) /\ Worker
      BY <1>1
    <2>2. to \in Places
      BY DEF Places
    <2>3. /\ Holders' = Holders /\ conn' \in [Conns -> Places]
          /\ \A d \in Conns \ {c} : conn'[d] = conn[d]
          /\ conn[c] # "accepted"
      BY <2>1, <2>2, NoSlotMove DEF Move, Working
    <2>4. TypeOK' /\ InHand'
      BY <2>1, <2>3 DEF IInv, TypeOK, InHand, Worker, Cap
    <2> QED
      BY <2>1, <2>3, <2>4, SameHolders DEF Worker, IInv, AllJoined
  <1>2. CASE Release(c)
    <2>1. conn[c] = "leaving" /\ conn' = [conn EXCEPT ![c] = "out"] /\ live' = live - 1
          /\ UNCHANGED <<acceptor, workers, term, bound>>
      BY <1>2 DEF Release, Move
    <2>2. Holders' = Holders \ {c} /\ c \in Holders
      BY <2>1 DEF Holders, Working, IInv, TypeOK
    <2>3. Cardinality(Holders') = Cardinality(Holders) - 1
      BY <2>2, HoldersFinite, FS_RemoveElement
    <2>4. SlotsCounted' /\ live' \in Nat
      BY <2>1, <2>2, <2>3, HoldersFinite, FS_RemoveElement, FS_CardinalityType
         DEF IInv, SlotsCounted
    <2>5. TypeOK'
      BY <2>1, <2>4, SlotsAssumption DEF IInv, TypeOK, Places
    <2>6. InHand'
      BY <2>1, CapType, SlotsAssumption DEF IInv, TypeOK, InHand, Cap
    <2>7. AllJoined'
      BY <2>1, <2>2 DEF IInv, AllJoined
    <2>8. ReservedKept'
      <3>1. Holders' \ Admins \subseteq Holders \ Admins
        BY <2>2
      <3>2. /\ Cardinality(Holders' \ Admins) <= Cardinality(Holders \ Admins)
            /\ Cardinality(Holders' \ Admins) \in Nat
        BY <3>1, HoldersFinite, FS_Subset, FS_CardinalityType
      <3> QED
        BY <3>2, HoldersFinite, SlotsAssumption DEF IInv, ReservedKept
    <2> QED
      BY <2>4, <2>5, <2>6, <2>7, <2>8 DEF IInv
  <1> QED
    BY <1>1, <1>2
       DEF Serve, CheckTerm, Request, ReadEnds, Reply, ReplyFails, Working

LEMMA IInvNext == IInv /\ [Next]_vars => IInv'
  <1> SUFFICES ASSUME IInv, [Next]_vars PROVE IInv'
    OBVIOUS
  <1>1. CASE UNCHANGED vars
    BY <1>1 DEF vars, IInv, TypeOK, InHand, SlotsCounted, ReservedKept, AllJoined,
                Holders, Cap
  <1>2. CASE AcceptLoop
    BY <1>2, PollInv, AcceptInv, LoopInv, TurnedAwayInv, PassInv, AdmitInv, UnlinkInv
       DEF AcceptLoop
  <1> QED
    BY <1>1, <1>2, TerminateInv, ConnectInv, ServeInv DEF Next

THEOREM Invariance == Spec => []IInv
  BY IInvInit, IInvNext, PTL DEF Spec

\* The counter stays within MAX_CONNS.
THEOREM ServerTypeCorrect == Spec => []TypeOK
  <1>1. IInv => TypeOK BY DEF IInv
  <1> QED BY <1>1, Invariance, PTL

\* No way through run and serve_conn leaks a slot or frees one twice.
THEOREM SlotsExact == Spec => []SlotsCounted
  <1>1. IInv => SlotsCounted BY DEF IInv
  <1> QED BY <1>1, Invariance, PTL

\* run joins the connection threads before it unlinks the socket.
THEOREM NobodyAnswersAfterUnlink == Spec => []NoAnswerOnRemovedPath
  <1>1. IInv => NoAnswerOnRemovedPath BY DEF IInv, AllJoined, NoAnswerOnRemovedPath
  <1> QED BY <1>1, Invariance, PTL

\* Whatever the unprivileged clients do, an operator is refused only when
\* operators have the reserved slots already.
THEOREM OperatorsGetIn == Spec => OperatorNotLockedOut
  <1> DEFINE Step1 == \A c \in Admins :
        conn[c] = "accepted" /\ conn'[c] = "out" /\ acceptor.at = "checking"
          => Cardinality(Holders \cap Admins) >= AdminReserved
  <1>1. IInv /\ [Next]_vars => [Step1]_vars
    <2> SUFFICES ASSUME IInv, Next, NEW c \in Admins,
                        conn[c] = "accepted", conn'[c] = "out", acceptor.at = "checking"
                 PROVE  Cardinality(Holders \cap Admins) >= AdminReserved
      OBVIOUS
    <2>1. c \in Conns /\ conn \in [Conns -> Places]
      BY ConnsAssumption DEF IInv, TypeOK
    <2>2. Refuse /\ acceptor.conn = c
      BY <2>1 DEF Next, Terminate, AcceptLoop, Poll, NothingAccepted, Refuse, Pass, Admit,
                  SpawnFails, Stop, Unlink, Accept, Connect, Serve, CheckTerm, Request,
                  ReadEnds, Reply, ReplyFails, Release, Move, Step
    <2>3. Cardinality(Holders) >= MaxConns
      BY <2>2 DEF Refuse, Cap, IInv, SlotsCounted
    <2>4. /\ Cardinality(Holders \cap Admins) \in Nat
          /\ Cardinality(Holders) =
               Cardinality(Holders \cap Admins) + Cardinality(Holders \ Admins)
      BY HoldersFinite, SplitCardinality
    <2>9. Cardinality(Holders \ Admins) + AdminReserved <= MaxConns
      BY DEF IInv, ReservedKept
    <2> QED
      BY <2>3, <2>4, <2>9, HoldersFinite, SlotsAssumption
  <1>2. Spec => [][Step1]_vars
    BY <1>1, Invariance, PTL DEF Spec
  <1> QED
    BY <1>2 DEF OperatorNotLockedOut
=============================================================================
