----------------------------- MODULE IpcServer ------------------------------
(***************************************************************************)
(* The collector's IPC server (service/ipc_server/mod.rs): one thread      *)
(* accepts connections and admits them to a bounded number of slots, a     *)
(* thread per admitted connection answers requests and gives its slot      *)
(* back, and on termination the accepting thread joins them and unlinks    *)
(* the socket.                                                             *)
(***************************************************************************)
EXTENDS Naturals, FiniteSets

CONSTANTS Conns,          \* connections; a client may come back on its own
          Admins,         \* those whose peer is root or in the admin group
          MaxConns,       \* MAX_CONNS
          AdminReserved,  \* ADMIN_RESERVED
          None            \* no connection

ASSUME ConnsAssumption == IsFiniteSet(Conns) /\ Admins \subseteq Conns /\ None \notin Conns
ASSUME SlotsAssumption ==
         MaxConns \in Nat /\ AdminReserved \in Nat /\ AdminReserved <= MaxConns

VARIABLES
  conn,      \* conn[c]: where connection c is
  acceptor,  \* where the accepting thread is, and the connection it has in hand
  live,      \* the counter of taken slots
  workers,   \* the connection threads it will join
  term,      \* the termination flag
  bound      \* the socket path is there

vars == <<conn, acceptor, live, workers, term, bound>>

\* Where a connection thread can be: before the termination check, waiting
\* for a frame, answering it, and past the loop with the stream closed and
\* the slot not given back yet.
Working == {"top", "reading", "handling", "leaving"}

Places == {"out", "queued", "accepted"} \cup Working

\* The connections whose thread has a slot.
Holders == {c \in Conns : conn[c] \in Working}

-----------------------------------------------------------------------------
Init == /\ conn = [c \in Conns |-> "out"]
        /\ acceptor = [at |-> "polling", conn |-> None]
        /\ live = 0
        /\ workers = {}
        /\ term = FALSE
        /\ bound = TRUE

Move(c, from, to) == conn[c] = from /\ conn' = [conn EXCEPT ![c] = to]

Step(from, to) == acceptor.at = from /\ acceptor' = [acceptor EXCEPT !.at = to]

\* The connection waits in the listener's backlog.
Connect(c) == /\ bound /\ Move(c, "out", "queued")
              /\ UNCHANGED <<acceptor, live, workers, term, bound>>

\* SIGINT, SIGTERM or SIGHUP.
Terminate == /\ ~term /\ term' = TRUE
             /\ UNCHANGED <<conn, acceptor, live, workers, bound>>

\* Mutant of Poll: `retain` with the condition the wrong way round.
Poll_DropsRunning ==
  /\ ~term /\ Step("polling", "accepting")
  /\ workers' = workers \ Holders
  /\ UNCHANGED <<conn, live, term, bound>>

\* The top of the accept loop: finished threads are forgotten.
Poll == /\ ~term /\ Step("polling", "accepting")
        /\ workers' = workers \cap Holders
        /\ UNCHANGED <<conn, live, term, bound>>

\* accept: a waiting connection, or WouldBlock or an error.
Accept(c) ==
  /\ acceptor.at = "accepting"
  /\ acceptor' = [at |-> "checking", conn |-> c]
  /\ Move(c, "queued", "accepted")
  /\ UNCHANGED <<live, workers, term, bound>>

NothingAccepted == /\ Step("accepting", "polling")
                   /\ UNCHANGED <<conn, live, workers, term, bound>>

\* Mutant of Cap: nothing is reserved.
Cap_Unreserved(c) == MaxConns

\* The slots the peer may fill.
Cap(c) == IF c \in Admins THEN MaxConns ELSE MaxConns - AdminReserved

\* At capacity, the connection is dropped.
Refuse ==
  /\ acceptor.at = "checking" /\ live >= Cap(acceptor.conn)
  /\ Move(acceptor.conn, "accepted", "out")
  /\ acceptor' = [at |-> "polling", conn |-> None]
  /\ UNCHANGED <<live, workers, term, bound>>

\* Below it, the connection will get a slot: the check and the increment are
\* two steps.
Pass ==
  /\ acceptor.at = "checking" /\ live < Cap(acceptor.conn)
  /\ Step("checking", "admitting")
  /\ UNCHANGED <<conn, live, workers, term, bound>>

\* The slot is taken and the thread spawned.
Admit ==
  /\ acceptor.at = "admitting"
  /\ live' = live + 1
  /\ Move(acceptor.conn, "accepted", "top")
  /\ workers' = workers \cup {acceptor.conn}
  /\ acceptor' = [at |-> "polling", conn |-> None]
  /\ UNCHANGED <<term, bound>>

\* Mutant of SpawnFails: the slot taken is not given back.
SpawnFails_Leaks ==
  /\ acceptor.at = "admitting"
  /\ live' = live + 1
  /\ Move(acceptor.conn, "accepted", "out")
  /\ acceptor' = [at |-> "polling", conn |-> None]
  /\ UNCHANGED <<workers, term, bound>>

\* No thread: the slot just taken is dropped with the closure.
SpawnFails ==
  /\ acceptor.at = "admitting"
  /\ Move(acceptor.conn, "accepted", "out")
  /\ acceptor' = [at |-> "polling", conn |-> None]
  /\ UNCHANGED <<live, workers, term, bound>>

Stop == /\ term /\ Step("polling", "joining")
        /\ UNCHANGED <<conn, live, workers, term, bound>>

\* All threads joined, the path is unlinked and the listener, with the
\* connections nobody accepted, dropped.
Unlink ==
  /\ Step("joining", "stopped")
  /\ workers \cap Holders = {}
  /\ bound' = FALSE
  /\ conn' = [c \in Conns |-> IF conn[c] = "queued" THEN "out" ELSE conn[c]]
  /\ UNCHANGED <<live, workers, term>>

-----------------------------------------------------------------------------
\* serve_conn.
Worker == UNCHANGED <<acceptor, live, workers, term, bound>>

\* Mutant of CheckTerm: the flag is not looked at between requests.
CheckTerm_Never(c) == Move(c, "top", "reading") /\ Worker

CheckTerm(c) == Move(c, "top", IF term THEN "leaving" ELSE "reading") /\ Worker

\* A whole frame is there.
Request(c) == Move(c, "reading", "handling") /\ Worker

\* The client hangs up, is silent for CONN_TIMEOUT or sends no frame.
ReadEnds(c) == Move(c, "reading", "leaving") /\ Worker

Reply(c) == Move(c, "handling", "top") /\ Worker

\* The reply cannot be written, or the handler panics.
ReplyFails(c) == Move(c, "handling", "leaving") /\ Worker

\* The Slot is dropped and the thread ends.
Release(c) == /\ Move(c, "leaving", "out")
              /\ live' = live - 1
              /\ UNCHANGED <<acceptor, workers, term, bound>>

-----------------------------------------------------------------------------
AcceptLoop == \/ Poll \/ NothingAccepted \/ Refuse \/ Pass \/ Admit \/ SpawnFails
              \/ Stop \/ Unlink
              \/ \E c \in Conns : Accept(c)

Serve(c) == CheckTerm(c) \/ Request(c) \/ ReadEnds(c) \/ Reply(c) \/ ReplyFails(c) \/ Release(c)

Next == Terminate \/ AcceptLoop \/ \E c \in Conns : Connect(c) \/ Serve(c)

Spec == Init /\ [][Next]_vars

\* The accepting thread and the connection threads run; a read ends, at the
\* latest at its timeout; an answer is finite work.
FairSpec == Spec /\ WF_vars(AcceptLoop) /\ \A c \in Conns : WF_vars(Serve(c))

-----------------------------------------------------------------------------
TypeOK == /\ conn \in [Conns -> Places]
          /\ acceptor \in [at : {"polling", "accepting", "checking", "admitting",
                                 "joining", "stopped"},
                           conn : Conns \cup {None}]
          /\ live \in 0..MaxConns
          /\ workers \subseteq Conns
          /\ term \in BOOLEAN /\ bound \in BOOLEAN

\* No way out of a connection leaks a slot or frees one twice: the counter is
\* the number of connection threads.
SlotsCounted == live = Cardinality(Holders)

\* "unprivileged clients cannot lock an operator out": an operator is refused
\* only when operators already have the reserved slots, at least.
OperatorNotLockedOut ==
  [][\A c \in Admins : conn[c] = "accepted" /\ conn'[c] = "out" /\ acceptor.at = "checking"
       => Cardinality(Holders \cap Admins) >= AdminReserved]_vars

\* "Join before unlinking so no worker still answers on a removed path".
NoAnswerOnRemovedPath == ~bound => Holders = {}

\* Termination is over in the end, whatever the clients do.
ShutdownEnds == term ~> acceptor.at = "stopped"
=============================================================================
