---------------------------- MODULE CollectorLink ---------------------------
(***************************************************************************)
(* The dashboard's link to a collector (tui/source.rs, shared/ipc/client): *)
(* which collector it finds, what a failed request does, and the change of *)
(* a setting through the collector or, when none answers, directly in the  *)
(* file (tui/app/mutate.rs). A request the client gave up on may still be  *)
(* carried out.                                                            *)
(***************************************************************************)
EXTENDS Naturals, FiniteSets, Sequences

CONSTANTS None,
          MaxInbox,   \* bound: requests the collectors have yet to handle
          MaxChanges  \* bound: collectors' starts and stops, others' edits

VARIABLES server,  \* scope -> what a client finds at its socket
          link,    \* the scope of the open connection; None: Ephemeral
          reason,  \* EphemeralReason
          place,   \* what the dashboard is doing
          request, \* the request it waits for
          inbox,   \* requests the collectors have received
          replies, \* what the open connection holds for the client to read
          file,    \* metrics.pull.enabled, in the file
          mirror,  \* and in the dashboard's own config
          may,     \* what this user may do
          answered,\* history: the last reply read answered the last request
          disturbed,\* history: the file was changed unseen since the mirror was set
          changes

world == <<server, changes>>
vars == <<server, link, reason, place, request, inbox, replies, file, mirror, may,
          answered, disturbed, changes>>

Scopes == {"system", "user"}
Reasons == {"no-collector", "version-drift", "denied", "handshake-failed"}
Ids == 0 .. 1
Requests == [id : Ids, kind : {"query", "set"}, value : BOOLEAN, open : BOOLEAN, at : Scopes]

TypeOK ==
  /\ server \in [Scopes -> {"absent", "denied", "broken", "drifted", "up"}]
  /\ link \in Scopes \cup {None} /\ reason \in Reasons
  /\ place \in {"idle", "system", "user", "wait", "direct"}
  /\ request \in [id : Ids, kind : {"query", "set"}, value : BOOLEAN]
  /\ inbox \in SUBSET Requests
  /\ replies \in Seq([id : Ids, word : {"rows", "mutated", "denied", "error"}])
  /\ {file, mirror, answered, disturbed} \subseteq BOOLEAN
  /\ may \in [read : BOOLEAN, write : BOOLEAN, ask : BOOLEAN]
  /\ changes \in 0 .. MaxChanges

\* Root may do all; a member of the group may ask the collector; anyone may
\* watch. A config that cannot be read counts as the defaults.
Init ==
  /\ server \in [Scopes -> {"absent", "broken", "up"}]
  /\ link = None /\ reason = "no-collector" /\ place = "idle"
  /\ request = [id |-> 0, kind |-> "query", value |-> FALSE]
  /\ inbox = {} /\ replies = <<>>
  /\ file \in BOOLEAN
  /\ may \in {m \in [read : BOOLEAN, write : BOOLEAN, ask : BOOLEAN] :
                m.write => m.read /\ m.ask}
  /\ mirror = (may.read /\ file)
  /\ answered = TRUE /\ disturbed = (mirror # file) /\ changes = 0

-----------------------------------------------------------------------------
\* The connection is dropped, with what it holds.
Dropped == /\ link' = None
           /\ replies' = <<>>
           /\ inbox' = {[q EXCEPT !.open = FALSE] : q \in inbox}

\* reconnect_if_ephemeral, at each refresh: System is probed before User.
Refresh ==
  /\ place = "idle" /\ link = None
  /\ place' = "system" /\ reason' = "no-collector"
  /\ UNCHANGED <<world, link, request, inbox, replies, file, mirror, may, answered, disturbed>>

\* Client::connect_any, one scope. A drifted or forbidden collector is the better
\* reason; a failed handshake only where there is none yet.
Probe(s) ==
  /\ place = s
  /\ IF server[s] = "up"
     THEN link' = s /\ place' = "idle" /\ reason' = reason
     ELSE /\ link' = None
          /\ place' = IF s = "system" THEN "user" ELSE "idle"
          /\ reason' = CASE server[s] = "denied" -> "denied"
                         [] server[s] = "drifted" -> "version-drift"
                         [] server[s] = "broken" /\ reason = "no-collector" -> "handshake-failed"
                         [] OTHER -> reason
  /\ UNCHANGED <<world, request, inbox, replies, file, mirror, may, answered, disturbed>>

\* Client::request, first half: the frame is written. Without a connection a
\* change is made directly, and a query is answered from the rings.
Ask(kind, value) ==
  /\ place = "idle"
  /\ request' = [id |-> 1 - request.id, kind |-> kind, value |-> value]
  /\ IF link = None
     THEN /\ kind = "set" /\ place' = "direct" /\ UNCHANGED inbox
     ELSE /\ Cardinality(inbox) < MaxInbox /\ place' = "wait"
          /\ inbox' = inbox \cup
               {[id |-> request'.id, kind |-> kind, value |-> value, open |-> TRUE, at |-> link]}
  /\ UNCHANGED <<world, link, reason, replies, file, mirror, may, answered, disturbed>>

AskQuery == link # None /\ Ask("query", FALSE)

\* toggle_metrics: refused at once when the config cannot be read; otherwise the
\* opposite of what the dashboard believes is asked for.
Toggle == may.read /\ Ask("set", ~mirror)

\* The collector handles one request of a connection, also of one that the
\* client has closed.
Handle(q) ==
  LET done == q.kind = "set" /\ may.ask
      reply(word) == replies' = IF q.open THEN Append(replies, [id |-> q.id, word |-> word]) ELSE replies
  IN
  /\ q \in inbox /\ inbox' = inbox \ {q}
  /\ \/ /\ done /\ reply("mutated") /\ file' = q.value
        /\ disturbed' = (disturbed \/ (~q.open /\ q.value # file))
     \/ /\ reply(IF q.kind = "query" THEN "rows" ELSE IF done THEN "error" ELSE "denied")
        /\ UNCHANGED <<file, disturbed>>
  /\ UNCHANGED <<world, link, reason, place, request, mirror, may, answered>>

\* Second half: the reply is read, and taken as the answer to the request.
Receive ==
  /\ place = "wait" /\ replies # <<>>
  /\ answered' = (Head(replies).id = request.id)
  /\ replies' = Tail(replies)
  /\ mirror' = IF request.kind = "set" /\ Head(replies).word = "mutated"
               THEN request.value ELSE mirror
  /\ place' = "idle"
  /\ UNCHANGED <<world, link, reason, request, inbox, file, may, disturbed>>

\* Mutant of GiveUp: the connection is kept after a failed request.
GiveUp_KeepsLink ==
  /\ place = "wait"
  /\ place' = IF request.kind = "set" THEN "direct" ELSE "idle"
  /\ UNCHANGED <<world, link, replies, inbox, request, reason, file, mirror, may, answered, disturbed>>

\* DataSource::query: a request that fails or takes longer than IO_TIMEOUT ends
\* the connection and the dashboard is Ephemeral; a change is then made directly.
GiveUp ==
  /\ place = "wait"
  /\ Dropped
  /\ reason' = "no-collector"
  /\ place' = IF request.kind = "set" THEN "direct" ELSE "idle"
  /\ disturbed' = (disturbed \/ request.kind = "set")
  /\ UNCHANGED <<world, request, file, mirror, may, answered>>

\* resolve: the file is written directly, which needs root and may fail.
Direct ==
  /\ place = "direct" /\ place' = "idle"
  /\ \/ /\ may.write
        /\ file' = request.value /\ mirror' = request.value /\ disturbed' = FALSE
     \/ UNCHANGED <<file, mirror, disturbed>>
  /\ UNCHANGED <<world, link, reason, request, inbox, replies, may, answered>>

\* reload_cfg, after the wizard saved a change.
Reload ==
  /\ place = "idle" /\ disturbed /\ may.read
  /\ mirror' = file /\ disturbed' = FALSE
  /\ UNCHANGED <<world, link, reason, place, request, inbox, replies, file, may, answered>>

-----------------------------------------------------------------------------
\* A collector stops, starts, is upgraded or loses its permissions; what it had
\* not handled is lost, and its connections with it.
ServerChanges(s) ==
  /\ changes < MaxChanges /\ changes' = changes + 1
  /\ \E now \in {"absent", "denied", "broken", "drifted", "up"} \ {server[s]} :
       server' = [server EXCEPT ![s] = now]
  /\ inbox' = {q \in inbox : q.at # s}
  /\ replies' = IF link = s THEN <<>> ELSE replies
  /\ UNCHANGED <<link, reason, place, request, file, mirror, may, answered, disturbed>>

OthersEdit ==
  /\ changes < MaxChanges /\ changes' = changes + 1
  /\ file' = ~file /\ disturbed' = TRUE
  /\ UNCHANGED <<server, link, reason, place, request, inbox, replies, mirror, may, answered>>

Next ==
  \/ Refresh \/ AskQuery \/ Toggle \/ Receive \/ GiveUp \/ Direct \/ Reload \/ OthersEdit
  \/ \E q \in inbox : Handle(q)
  \/ \E s \in Scopes : Probe(s) \/ ServerChanges(s)

Spec == Init /\ [][Next]_vars

-----------------------------------------------------------------------------
\* A reply is never taken for the answer to another request, although a late one
\* may still come when the client has given up (ipc/client.rs:98).
AnswersMatch == answered

\* What the dashboard shows as the state of the endpoint (mutate.rs:115) is what
\* the file says, unless someone else has changed it since: another tool, or a
\* collector carrying out a request that the dashboard had given up on.
MirrorTrue ==
  ~disturbed /\ place = "idle" /\ (\A q \in inbox : q.kind # "set") => mirror = file
=============================================================================
