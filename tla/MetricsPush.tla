----------------------------- MODULE MetricsPush ----------------------------
(***************************************************************************)
(* The push thread (service/metrics/push.rs): it wakes, looks at the live  *)
(* config, which is edited meanwhile, posts when its deadline has come,    *)
(* which may take POST_TIMEOUT, and sets the next. Time is in steps of its *)
(* least interval of 5 s.                                                  *)
(***************************************************************************)
EXTENDS Naturals

CONSTANTS Intervals,  \* push.interval_secs, in steps; 0 is below the least
          MaxTime     \* bound on the clock

VARIABLES config, \* the live config: enabled, with an endpoint; its interval
          db,     \* the database could be opened when the thread started
          clock,
          seen,   \* the snapshot this turn of the loop works with
          active, \* on at the last turn
          next,   \* the deadline
          pusher, \* "sleep", "looked" or "post"
          ended,  \* history: when the last post ended, and the interval it saw
          turned  \* history: turned on since

vars == <<config, db, clock, seen, active, next, pusher, ended, turned>>

Configs == [enabled : BOOLEAN, endpoint : BOOLEAN, interval : Intervals]
On(c) == c.enabled /\ c.endpoint
Least(c) == IF c.interval = 0 THEN 1 ELSE c.interval

Init ==
  /\ config \in Configs /\ seen = config /\ db \in BOOLEAN
  /\ clock = 1 /\ next = 1 /\ active = FALSE /\ pusher = "sleep"
  /\ ended = [at |-> 0, least |-> 0] /\ turned = FALSE

\* Another thread stores a config.
Edit ==
  /\ config' \in Configs \ {config}
  /\ UNCHANGED <<db, clock, seen, active, next, pusher, ended, turned>>

\* It sleeps, or its post takes a while.
Time ==
  /\ pusher # "looked" /\ clock < MaxTime /\ clock' = clock + 1
  /\ UNCHANGED <<config, db, seen, active, next, pusher, ended, turned>>

\* The top of the loop: turned on, it posts at once.
Look ==
  /\ pusher = "sleep" /\ pusher' = "looked" /\ seen' = config
  /\ active' = On(config)
  /\ next' = IF On(config) /\ ~active THEN clock ELSE next
  /\ turned' = (turned \/ (On(config) /\ ~active))
  /\ UNCHANGED <<config, db, clock, ended>>

Due == On(seen) /\ clock >= next

NotDue ==
  /\ pusher = "looked" /\ ~Due /\ pusher' = "sleep"
  /\ UNCHANGED <<config, db, clock, seen, active, next, ended, turned>>

\* Snapshot::gather, and the post; without a database neither.
Post ==
  /\ pusher = "looked" /\ Due /\ db /\ pusher' = "post"
  /\ turned' = FALSE
  /\ UNCHANGED <<config, db, clock, seen, active, next, ended>>

\* Mutant of Posted: an interval after the deadline, not after the post.
Posted_FromDeadline ==
  /\ pusher = "post" \/ (pusher = "looked" /\ Due /\ ~db)
  /\ pusher' = "sleep" /\ next' = next + Least(seen)
  /\ ended' = IF pusher = "post" THEN [at |-> clock, least |-> Least(seen)] ELSE ended
  /\ UNCHANGED <<config, db, clock, seen, active, turned>>

\* Whatever became of the post, the next is an interval from now.
Posted ==
  /\ pusher = "post" \/ (pusher = "looked" /\ Due /\ ~db)
  /\ pusher' = "sleep" /\ next' = clock + Least(seen)
  /\ ended' = IF pusher = "post" THEN [at |-> clock, least |-> Least(seen)] ELSE ended
  /\ UNCHANGED <<config, db, clock, seen, active, turned>>

Next == Edit \/ Time \/ Look \/ NotDue \/ Post \/ Posted

Spec == Init /\ [][Next]_vars

-----------------------------------------------------------------------------
\* A post begins only with an endpoint and an interval, as the config then said
\* and 5 s at the least, after the last one has ended (push.rs:58), however long
\* that took and whatever is edited, unless the push was turned on in between.
PostPaced ==
  pusher # "post" /\ pusher' = "post" =>
    On(seen) /\ (turned \/ clock >= ended.at + ended.least)
=============================================================================
