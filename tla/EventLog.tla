------------------------------ MODULE EventLog ------------------------------
(***************************************************************************)
(* A runner's job-event log, and what tailing a piece of it yields         *)
(* (src/src/shared/hooks/ingest.rs).  The file is a sequence of cells.  A  *)
(* cell is either Part, a byte that ends nothing, or the newline at the    *)
(* end of a line: an event of one of the owner's repositories, or Junk for *)
(* a line parse_event_line rejects.  A position in the sequence is a byte  *)
(* offset, and stands for the timestamp the line at that position carries. *)
(***************************************************************************)
EXTENDS Naturals, Sequences, FiniteSetsExt

CONSTANTS Jobs,          \* (run_id, run_attempt, job) triples
          Part, Junk,    \* the two cells that are no event
          Chunk          \* TAIL_CHUNK, in cells

Phases == {"started", "completed"}

\* An event names the job_event row it upserts and the column it fills.
Events == [job : Jobs, phase : Phases]

Cells == Events \cup {Part, Junk}

ASSUME ChunkAssumption == Chunk \in Nat \ {0}
ASSUME CellAssumption == Part \notin Events /\ Junk \notin Events /\ Part # Junk

-----------------------------------------------------------------------------
\* A line starts right after the beginning of the file or a newline.
Boundary(log, q) == q = 0 \/ log[q] # Part

\* The line ending at p is in a buffer that starts at s, from its first byte.
Intact(log, s, p) == \E q \in s..(p - 1) : Boundary(log, q)

\* The events a buffer that spans s+1..e yields (split, then parse_event_line).
Parsed(log, s, e) ==
  {x \in [at : (s + 1)..e, event : Events] :
     log[x.at] = x.event /\ Intact(log, s, x.at)}

\* Mutant of TailEnd: an unfinished line is consumed with the rest.
TailEnd_TakesPartialLine(log, s) == Min({Len(log), s + Chunk})

\* Where the buffer read from s ends: at the last newline in it, or at its
\* end if the chunk is full and has none.
TailEnd(log, s) ==
  LET limit == Min({Len(log), s + Chunk})
      newlines == {p \in (s + 1)..limit : log[p] # Part}
  IN  IF newlines # {} THEN Max(newlines)
      ELSE IF limit = s + Chunk THEN limit ELSE s

\* A file shorter than the stored offset is read from its beginning.
TailStart(log, offset) == IF Len(log) < offset THEN 0 ELSE offset

-----------------------------------------------------------------------------
\* What the log says, whatever pieces it is read in: the line at p carries
\* an event and fits in one chunk.
Ingestable(log, p) ==
  log[p] \in Events /\ \E q \in 0..(p - 1) : p - q <= Chunk /\ Boundary(log, q)

\* The position of the last line for event v in the first n cells, or 0.
LastLine(log, v, n) ==
  Max({0} \cup {p \in 1..n : log[p] = v /\ Ingestable(log, p)})

\* The job_event columns of one runner after the first n cells of its log.
Ledger(log, n) == [v \in Events |-> LastLine(log, v, n)]
=============================================================================
