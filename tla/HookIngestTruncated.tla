------------------------- MODULE HookIngestTruncated ------------------------
(***************************************************************************)
(* HookIngest when something empties a log once (logrotate's copytruncate, *)
(* an operator), the case tail_events answers by reading a shrunken file   *)
(* from 0.  The offset 0 is not stored until the batch read from there is  *)
(* committed.                                                              *)
(***************************************************************************)
EXTENDS HookIngest

VARIABLES cut,    \* a log has been emptied
          lost    \* history: lost[r], the lines of r's log that were in a batch whose write failed

truncVars == <<vars, cut, lost>>

TruncInit == Init /\ cut = FALSE /\ lost = [r \in Runners |-> {}]

Truncate(r) ==
  /\ ~cut /\ cut' = TRUE
  /\ log' = [log EXCEPT ![r] = <<>>]
  /\ lost' = [lost EXCEPT ![r] = {}]
  /\ UNCHANGED <<db, disk, channel, tailer, faults>>

RecordLoss ==
  lost' = IF ~WriteFails THEN lost
          ELSE LET b == Head(channel)
                   there == {x \in b.events : /\ x.at <= Len(log[b.runner])
                                              /\ log[b.runner][x.at] = x.event}
               IN  [lost EXCEPT ![b.runner] = @ \cup {x.event : x \in there}]

TruncNext == \/ Next /\ UNCHANGED cut /\ RecordLoss
             \/ \E r \in Runners : Truncate(r)

TruncFairSpec ==
  TruncInit /\ [][TruncNext]_truncVars
    /\ WF_truncVars(TickStart /\ UNCHANGED <<cut, lost>>)
    /\ WF_truncVars((\E r \in Runners : ReadLog(r)) /\ UNCHANGED <<cut, lost>>)
    /\ WF_truncVars(Send /\ UNCHANGED <<cut, lost>>)
    /\ WF_truncVars(Commit /\ UNCHANGED <<cut, lost>>)

\* service/serve/jobs.rs:16: "Offsets are re-read from the DB each tick, so a
\* batch the writer failed to commit is read again."  An event of a batch whose
\* write failed gets to its row, unless the log is emptied first.
FailedBatchIsReadAgain ==
  \A r \in Runners, v \in Events :
    (v \in lost[r]) ~> (rows[r][v] # 0 \/ v \notin lost[r])
=============================================================================
