----------------------------- MODULE HookIngest -----------------------------
(***************************************************************************)
(* Job-event ingestion: the runners' hooks append lines to per-runner      *)
(* logs; the hooks-tail thread reads each log from the offset the database *)
(* holds (service/serve/jobs.rs, shared/hooks/ingest.rs) and sends batches *)
(* over a bounded channel; the writer commits a batch's events and its     *)
(* offset in one transaction (service/store/writer/jobs.rs).               *)
(***************************************************************************)
EXTENDS EventLog

CONSTANTS Runners,
          ChannelBound,  \* CHANNEL_BOUND
          None,          \* no batch
          MaxLog,        \* bound: cells in a log
          MaxFaults      \* bound: failed reads and writes, crashes, power losses

ASSUME BoundAssumption ==
         ChannelBound \in Nat \ {0} /\ MaxLog \in Nat /\ MaxFaults \in Nat

VARIABLES
  log,      \* log[r]: the file, as cells
  offset,   \* ingest_offset: offset[r]
  rows,     \* job_event: rows[r][v], the line that filled column v, or 0 (NULL)
  disk,     \* [offset, rows] as of the last commit that reached the disk
  channel,  \* the bounded channel's batches
  snap,     \* the tailer's offsets, read at the start of its tick
  todo,     \* the runners the tailer has yet to read in this tick
  held,     \* the batch the tailer is sending, or None
  faults    \* how many faults have happened

db == <<offset, rows>>
tailer == <<snap, todo, held>>
vars == <<log, db, disk, channel, tailer, faults>>

\* `from` is a history field, the offset the batch was read from: no step
\* reads it.
Batches == [runner : Runners, from : Nat, end : Nat,
            events : SUBSET [at : Nat, event : Events]]

Columns == [Runners -> [Events -> Nat]]

-----------------------------------------------------------------------------
Init == /\ log = [r \in Runners |-> <<>>]
        /\ offset = [r \in Runners |-> 0]
        /\ rows = [r \in Runners |-> [v \in Events |-> 0]]
        /\ disk = [offset |-> offset, rows |-> rows]
        /\ channel = <<>>
        /\ snap = offset
        /\ todo = {}
        /\ held = None
        /\ faults = 0

\* A hook's printf reaches the log, whole or (Part) in pieces.
HookAppends(r) ==
  /\ Len(log[r]) < MaxLog
  /\ \E c \in Cells : log' = [log EXCEPT ![r] = Append(@, c)]
  /\ UNCHANGED <<db, disk, channel, tailer, faults>>

\* Mutant of TickStart: the tailer trusts what it has sent to be committed.
TickStart_TrustsChannel ==
  /\ todo = {} /\ held = None
  /\ snap' = [r \in Runners |->
                Max({offset[r]} \cup {channel[i].end :
                       i \in {j \in 1..Len(channel) : channel[j].runner = r}})]
  /\ todo' = Runners
  /\ UNCHANGED <<log, db, disk, channel, held, faults>>

\* hooks_loop reads every stream's offset from the database, once a tick.
TickStart ==
  /\ todo = {} /\ held = None
  /\ snap' = offset
  /\ todo' = Runners
  /\ UNCHANGED <<log, db, disk, channel, held, faults>>

\* The loop's next runner, and the batch its log gives; a batch that would
\* leave the offset where it is is not sent.
Tailed(r, from, end, events) ==
  /\ r \in todo /\ held = None
  /\ todo' = todo \ {r}
  /\ held' = IF end = snap[r] THEN None
             ELSE [runner |-> r, from |-> from, end |-> end, events |-> events]
  /\ UNCHANGED <<log, db, disk, channel, snap>>

\* tail_events, when the file can be read.
ReadLog(r) ==
  LET s == TailStart(log[r], snap[r])
      e == TailEnd(log[r], s)
  IN  Tailed(r, s, e, Parsed(log[r], s, e)) /\ UNCHANGED faults

\* The log cannot be opened (or the runner is not discovered in this tick),
\* or it is opened and cannot be read.
ReadFails(r) ==
  /\ faults < MaxFaults /\ faults' = faults + 1
  /\ \/ Tailed(r, snap[r], snap[r], {})
     \/ LET s == TailStart(log[r], snap[r]) IN Tailed(r, s, s, {})

\* The bounded channel blocks the tailer while it is full.
Send ==
  /\ held # None
  /\ Len(channel) < ChannelBound
  /\ channel' = Append(channel, held)
  /\ held' = None
  /\ UNCHANGED <<log, db, disk, snap, todo, faults>>

\* Mutant of Upserted: the COALESCE operands swapped, the first line stays.
Upserted_FirstWins(old, events) ==
  [v \in Events |->
     LET lines == {x.at : x \in {y \in events : y.event = v}}
     IN  IF lines = {} \/ old[v] # 0 THEN old[v] ELSE Max(lines)]

\* The upserts of a batch, in line order: each event overwrites its column
\* and leaves the others (COALESCE).
Upserted(old, events) ==
  [v \in Events |->
     LET lines == {x.at : x \in {y \in events : y.event = v}}
     IN  IF lines = {} THEN old[v] ELSE Max(lines)]

\* apply_hook_events: one transaction.
Commit ==
  /\ channel # <<>>
  /\ LET b == Head(channel) IN
       /\ rows' = [rows EXCEPT ![b.runner] = Upserted(@, b.events)]
       /\ offset' = [offset EXCEPT ![b.runner] = b.end]
  /\ channel' = Tail(channel)
  /\ UNCHANGED <<log, disk, tailer, faults>>

\* Mutant of WriteFails: the failed batch is tried again after the others.
WriteFails_Requeues ==
  /\ channel # <<>>
  /\ faults < MaxFaults /\ faults' = faults + 1
  /\ channel' = Append(Tail(channel), Head(channel))
  /\ UNCHANGED <<log, db, disk, tailer>>

\* Mutant of WriteFails: the offset is committed without the events.
WriteFails_KeepsOffset ==
  /\ channel # <<>>
  /\ faults < MaxFaults /\ faults' = faults + 1
  /\ offset' = [offset EXCEPT ![Head(channel).runner] = Head(channel).end]
  /\ channel' = Tail(channel)
  /\ UNCHANGED <<log, rows, disk, tailer>>

\* persist fails (busy, disk full): nothing is written, the batch is logged
\* and forgotten.
WriteFails ==
  /\ channel # <<>>
  /\ faults < MaxFaults /\ faults' = faults + 1
  /\ channel' = Tail(channel)
  /\ UNCHANGED <<log, db, disk, tailer>>

\* synchronous=NORMAL: the WAL reaches the disk at checkpoints, not at commits.
Checkpoint ==
  /\ disk # [offset |-> offset, rows |-> rows]
  /\ disk' = [offset |-> offset, rows |-> rows]
  /\ UNCHANGED <<log, db, channel, tailer, faults>>

\* The process dies and is started again: what was in flight is gone.
Restart ==
  /\ faults < MaxFaults /\ faults' = faults + 1
  /\ channel' = <<>>
  /\ todo' = {} /\ held' = None
  /\ UNCHANGED <<log, disk, snap>>

Crash == Restart /\ UNCHANGED db

\* The machine dies: commits that had not reached the disk are gone too.
PowerLoss == Restart /\ offset' = disk.offset /\ rows' = disk.rows

Next == \/ \E r \in Runners : HookAppends(r) \/ ReadLog(r) \/ ReadFails(r)
        \/ TickStart \/ Send \/ Commit \/ WriteFails
        \/ Checkpoint \/ Crash \/ PowerLoss

Spec == Init /\ [][Next]_vars

\* The threads keep running; faults are bounded by MaxFaults, so they stop.
Fairness == /\ WF_vars(TickStart)
            /\ WF_vars(\E r \in Runners : ReadLog(r))
            /\ WF_vars(Send)
            /\ WF_vars(Commit)

FairSpec == Spec /\ Fairness

-----------------------------------------------------------------------------
TypeOK ==
  /\ log \in [Runners -> Seq(Cells)]
  /\ offset \in [Runners -> Nat]
  /\ rows \in Columns
  /\ disk \in [offset : [Runners -> Nat], rows : Columns]
  /\ channel \in Seq(Batches) /\ Len(channel) <= ChannelBound
  /\ snap \in [Runners -> Nat]
  /\ todo \subseteq Runners
  /\ held \in Batches \cup {None}
  /\ faults \in 0..MaxFaults

\* No line is skipped and none is counted that the offset has not passed: a
\* runner's rows are what the prefix of its log up to the stored offset says,
\* in the database and in the state a power loss would return to.
RowsMatchOffset ==
  \A r \in Runners :
    /\ offset[r] <= Len(log[r])
    /\ rows[r] = Ledger(log[r], offset[r])
    /\ disk.rows[r] = Ledger(log[r], disk.offset[r])

\* The batches read and not yet written, oldest first.
InFlight == IF held = None THEN channel ELSE Append(channel, held)

\* A tick re-reads what is still queued, so the same lines may be in flight
\* several times; even so no batch starts past the offset it will be
\* committed at (a hole) or ends before one of its stream ahead of it (a step
\* back).
NoHolesNoStepsBack ==
  \A i \in 1..Len(InFlight) :
    LET b == InFlight[i] IN
    /\ b.from <= offset[b.runner] /\ offset[b.runner] <= b.end
    /\ \A j \in 1..i : InFlight[j].runner = b.runner => InFlight[j].end <= b.end

\* A stored offset moves backward only to the one on disk, in a power loss.
OffsetsAdvance ==
  [][\/ \A r \in Runners : offset'[r] >= offset[r]
     \/ offset' = disk.offset /\ channel' = <<>>]_vars

\* Every line that fits a chunk and names an event is in its row in the end,
\* through failed reads and writes, crashes and power losses, and stays there
\* unless a later line of the same event takes its place.
EveryLineLands ==
  \A r \in Runners, p \in 1..MaxLog, v \in Events :
    (p <= Len(log[r]) /\ log[r][p] = v /\ Ingestable(log[r], p))
      ~> [](rows[r][v] >= p)

Abstract == INSTANCE JobLedger WITH upto <- offset
\* Ingestion implements the job ledger: readers only ever see the rows of a
\* prefix of the log.
ImplementsLedger == Abstract!LedgerSpec
=============================================================================
