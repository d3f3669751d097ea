------------------------------- MODULE Listing ------------------------------
(***************************************************************************)
(* One reconcile with GitHub: the scopes to ask about and the PAT for each *)
(* (service/serve/github.rs targets, gather_api; config github_token_for), *)
(* and the paged listing of a scope (shared/github/mod.rs), while runners  *)
(* are registered and removed between two pages.                           *)
(***************************************************************************)
EXTENDS Naturals, FiniteSets

CONSTANTS Ids,       \* agent ids, given in the order of registration
          NextId,    \* the first that is not in use when the reconcile starts
          PerPage, MaxPages,
          MaxMoves   \* bound: registrations and removals

\* A runner's scope: the host it is on, the login it is grouped by, what it is.
Scopes == [host : {"dotcom", "ghes"}, login : {"acme"}, kind : {"org", "repo"}]
            \cup {[host |-> "dotcom", login |-> "corp", kind |-> "enterprise"]}
Targets  == {[host |-> s.host, login |-> s.login] : s \in Scopes}
TargetOf(s)  == [host |-> s.host, login |-> s.login]
Listable(s)  == s.kind # "enterprise"
Codes    == {401, 403, 404, 500}
KindOf(code) == CASE code = 401 -> "Unauthorized" [] code = 403 -> "Forbidden"
                  [] code = 404 -> "NotFound"     [] OTHER -> "Http"
Failures == {KindOf(c) : c \in Codes} \cup {"Transport", "Decode"}

None == "none"
NoScope == [host |-> None, login |-> None, kind |-> None]
NoToken == [host |-> None, login |-> None]

VARIABLES
  settings,   \* orgs configured; targets with a PAT of their own; a fallback PAT
  here,       \* the scopes the runners of this host have
  registered, \* scope -> the ids GitHub has
  poll,       \* where the reconcile is
  outcome,    \* what the last target came to
  during,     \* history: what was registered while a scope was listed
  fresh,      \* the first id GitHub has not given yet: it gives none twice
  moves

vars == <<settings, here, registered, poll, outcome, during, fresh, moves>>

\* The configured orgs, on github.com, else what the runners here belong to.
Wanted ==
  IF settings.orgs = {} THEN here
  ELSE {[host |-> "dotcom", login |-> o, kind |-> "org"] : o \in settings.orgs}

\* A PAT of the target's own; the fallback is for github.com only.
TokenFor(t) ==
  IF t \in settings.keyed THEN [host |-> t.host, login |-> t.login]
  ELSE IF t.host = "dotcom" /\ settings.fallback THEN [host |-> "dotcom", login |-> None]
  ELSE NoToken

HasToken(t) == TokenFor(t) # NoToken

Rank(i, ids) == Cardinality({j \in ids : j <= i})
Page(ids, p) == {i \in ids : Rank(i, ids) \in (p - 1) * PerPage + 1 .. p * PerPage}

Nothing == [through |-> {}, ever |-> {}, gone |-> {}, sent |-> {}]
Start   == [at |-> "target", left |-> {TargetOf(s) : s \in Wanted}, scopes |-> {},
            target |-> NoToken, scope |-> NoScope, page |-> 1, rows |-> {}]

-----------------------------------------------------------------------------
Finish(result) ==
  /\ outcome' = result
  /\ poll' = [poll EXCEPT !.at = "target"]
  /\ UNCHANGED during

\* The next target: without a PAT, or nothing to list, it is unconfigured.
NextTarget(t) ==
  /\ poll.at = "target" /\ t \in poll.left
  /\ LET mine  == {s \in Wanted : TargetOf(s) = t /\ Listable(s)}
         asked == HasToken(t) /\ mine # {}
     IN  /\ poll' = [poll EXCEPT !.left = @ \ {t}, !.target = t, !.scopes = mine, !.rows = {},
                                 !.at = IF asked THEN "scope" ELSE "target"]
         /\ outcome' = [is |-> IF asked THEN None ELSE "Unconfigured", rows |-> {}]
  /\ during' = Nothing
  /\ UNCHANGED <<settings, here, registered, fresh, moves>>

NextScope(s) ==
  /\ poll.at = "scope" /\ s \in poll.scopes
  /\ poll' = [poll EXCEPT !.at = "page", !.scopes = @ \ {s}, !.scope = s, !.page = 1]
  /\ LET now == {<<s, i>> : i \in registered[s]}
     IN  during' = [during EXCEPT !.through = @ \cup now, !.ever = @ \cup now]
  /\ UNCHANGED <<settings, here, registered, outcome, fresh, moves>>

\* Mutant of GetPage: a page that is not empty is taken for a full one.
GetPage_LastIsFull ==
  /\ poll.at = "page"
  /\ LET batch == Page(registered[poll.scope], poll.page)
         last  == Cardinality(batch) <= PerPage \/ poll.page = MaxPages
     IN  poll' = [poll EXCEPT !.rows = @ \cup {<<poll.scope, i>> : i \in batch},
                              !.page = IF last THEN @ ELSE @ + 1,
                              !.at = IF last THEN "scope" ELSE "page"]
  /\ during' = [during EXCEPT !.sent = @ \cup {TokenFor(poll.target)}]
  /\ UNCHANGED <<settings, here, registered, outcome, fresh, moves>>

\* One page, as GitHub has it then; a short one is the last.
GetPage ==
  /\ poll.at = "page"
  /\ LET batch == Page(registered[poll.scope], poll.page)
         last  == Cardinality(batch) < PerPage \/ poll.page = MaxPages
     IN  poll' = [poll EXCEPT !.rows = @ \cup {<<poll.scope, i>> : i \in batch},
                              !.page = IF last THEN @ ELSE @ + 1,
                              !.at = IF last THEN "scope" ELSE "page"]
  /\ during' = [during EXCEPT !.sent = @ \cup {TokenFor(poll.target)}]
  /\ UNCHANGED <<settings, here, registered, outcome, fresh, moves>>

\* A page that fails fails its target: nothing of it is kept.
PageFails(kind) ==
  /\ poll.at = "page" /\ Finish([is |-> kind, rows |-> {}])
  /\ UNCHANGED <<settings, here, registered, fresh, moves>>

Listed ==
  /\ poll.at = "scope" /\ poll.scopes = {} /\ Finish([is |-> "Ok", rows |-> poll.rows])
  /\ UNCHANGED <<settings, here, registered, fresh, moves>>

\* The collector is stopping: what it has so far is sent.
Stop ==
  /\ poll.at = "target" /\ poll.left # {} /\ poll' = [poll EXCEPT !.left = {}]
  /\ UNCHANGED <<settings, here, registered, outcome, during, fresh, moves>>

-----------------------------------------------------------------------------
(* GitHub. *)

Register(s) ==
  /\ moves < MaxMoves /\ moves' = moves + 1
  /\ \E i \in Ids :
       /\ i >= fresh /\ fresh' = i + 1
       /\ registered' = [registered EXCEPT ![s] = @ \cup {i}]
       /\ during' = [during EXCEPT !.ever = IF poll.scope = s THEN @ \cup {<<s, i>>} ELSE @]
  /\ UNCHANGED <<settings, here, poll, outcome>>

Unregister(s, i) ==
  /\ moves < MaxMoves /\ moves' = moves + 1
  /\ i \in registered[s] /\ registered' = [registered EXCEPT ![s] = @ \ {i}]
  /\ during' = [during EXCEPT !.through = @ \ {<<s, i>>},
                              !.gone = IF poll.scope = s THEN @ \cup {<<s, i>>} ELSE @]
  /\ UNCHANGED <<settings, here, poll, outcome, fresh>>

Init ==
  /\ settings \in [orgs : {{}, {"acme"}}, keyed : SUBSET Targets, fallback : BOOLEAN]
  /\ here = Scopes   \* one of each kind; an org has many runners, a repository few
  /\ registered = [s \in Scopes |-> IF s.kind = "org" THEN {i \in Ids : i < NextId}
                                     ELSE {i \in Ids : i = 1}]
  /\ poll = Start /\ outcome = [is |-> None, rows |-> {}] /\ during = Nothing
  /\ fresh = NextId /\ moves = 0

Next ==
  \/ \E t \in Targets : NextTarget(t)
  \/ \E s \in Scopes : NextScope(s) \/ Register(s)
  \/ GetPage \/ Listed \/ Stop
  \/ \E kind \in Failures : PageFails(kind)
  \/ \E s \in Scopes, i \in Ids : Unregister(s, i)

Spec == Init /\ [][Next]_vars

-----------------------------------------------------------------------------
\* What is listed of a target was registered while it was being listed, and who
\* was registered all the while is in it, unless someone before it was removed
\* between two pages or MAX_PAGES were not enough; a host only ever sees a PAT
\* meant for it ("a github.com token is never sent to another host",
\* config/mod.rs:249).
ListingHonest ==
  /\ outcome.is = "Ok" =>
       /\ outcome.rows \subseteq during.ever
       /\ \A x \in during.through \ outcome.rows :
            \/ \E g \in during.gone : g[1] = x[1] /\ g[2] < x[2]
            \/ Cardinality({y \in outcome.rows : y[1] = x[1]}) = MaxPages * PerPage
  /\ \A token \in during.sent : token.host = poll.target.host
=============================================================================
