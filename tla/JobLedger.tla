----------------------------- MODULE JobLedger ------------------------------
(***************************************************************************)
(* What job-event ingestion promises to the readers of job_event: at any   *)
(* moment the rows of a runner are exactly what some prefix of its log     *)
(* says, and that prefix only grows, except that a power loss may take it  *)
(* back to a shorter one (the lines are then ingested again).              *)
(***************************************************************************)
EXTENDS EventLog

CONSTANT Runners

VARIABLES log,    \* log[r]: the event log of runner r
          upto,   \* upto[r]: the length of the prefix that is ingested
          rows    \* rows[r][v]: the line column v of runner r was filled from

ledgerVars == <<log, upto, rows>>

Init == /\ log = [r \in Runners |-> <<>>]
        /\ upto = [r \in Runners |-> 0]
        /\ rows = [r \in Runners |-> [v \in Events |-> 0]]

Grow == /\ \E r \in Runners, c \in Cells : log' = [log EXCEPT ![r] = Append(@, c)]
        /\ UNCHANGED <<upto, rows>>

\* A longer prefix of one runner's log becomes visible, rows and all, at once.
Absorb == \E r \in Runners : \E n \in upto[r]..Len(log[r]) :
            /\ upto' = [upto EXCEPT ![r] = n]
            /\ rows' = [rows EXCEPT ![r] = Ledger(log[r], n)]
            /\ UNCHANGED log

FallBack == /\ UNCHANGED log
            /\ upto' \in [Runners -> Nat]
            /\ \A r \in Runners : upto'[r] <= upto[r]
            /\ rows' = [r \in Runners |-> Ledger(log[r], upto'[r])]

Next == Grow \/ Absorb \/ FallBack

LedgerSpec == Init /\ [][Next]_ledgerVars
=============================================================================
