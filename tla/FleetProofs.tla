----------------------------- MODULE FleetProofs ----------------------------
(***************************************************************************)
(* Proofs about the runner samples, for any runners, retention and channel *)
(* bound: edges and health describe every reading ever stored, pruning     *)
(* leaves what is fresh, and a scrape never sees a sample without its      *)
(* edge.  The argument is the channel's order: of one feed, a message is   *)
(* newer than everything stored and than every message ahead of it.        *)
(***************************************************************************)
EXTENDS FleetSnapshot, TLAPS

\* A message is one reading, taken at its time, of each runner it lists.
OneReading(m) == /\ \A x \in m.rows : x.ts = m.ts
                 /\ \A x, y \in m.rows : x.runner = y.runner => x = y

\* The newest time of feed f that is stored.
StoredBefore(f, t) == /\ \A x \in everRead[f] : x.ts < t
                      /\ f = "api" => \A x \in everTried : x.ts < t

Sending(f) ==
  pending[f] # None =>
    /\ pending[f].feed = f /\ pending[f].ts <= stamped[f]
    /\ OneReading(pending[f])
    /\ StoredBefore(f, pending[f].ts)
    /\ \A i \in 1..Len(channel) : channel[i].feed = f => channel[i].ts < pending[f].ts

Queued(i) ==
  LET m == channel[i] IN
  /\ OneReading(m) /\ m.ts <= stamped[m.feed]
  /\ StoredBefore(m.feed, m.ts)
  /\ \A j \in 1..Len(channel) : i < j /\ channel[j].feed = m.feed => m.ts < channel[j].ts

InOrder == /\ \A f \in Feeds : Sending(f)
           /\ \A i \in 1..Len(channel) : Queued(i)
           /\ \A f \in Feeds : \A x \in everRead[f] : x.ts <= stamped[f]
           /\ \A x \in everTried : x.ts <= stamped["api"]

\* What is no longer in a sample table is past the retention.
OnlyOldGone ==
  \A f \in Feeds :
    /\ samples[f] \subseteq everRead[f]
    /\ \A x \in everRead[f] \ samples[f] : x.ts + Retention < now

Greatest(S, m) == m \in S /\ \A t \in S : t <= m

TimesOf(rows) == {x.ts : x \in rows}

\* The edge that a runner's readings make.
Tracks(read, edge) ==
  IF read = {} THEN edge = None
  ELSE /\ edge # None
       /\ Greatest(TimesOf(read), edge.seen)
       /\ \E x \in read : x.ts = edge.since
       /\ \A x \in read : x.ts >= edge.since => x.value = edge.value
       /\ \A x \in read :
            x.ts < edge.since /\ (\A y \in read : y.ts < edge.since => y.ts <= x.ts)
              => x.value # edge.value

ReadOf(f, r) == {x \in everRead[f] : x.runner = r}

EdgesTrack == \A f \in Feeds, r \in Runners : Tracks(ReadOf(f, r), edges[f][r])

Oks(tried) == {x \in tried : x.ok}

\* The health that an org's tries make.
Remembers(tried, h) ==
  IF tried = {} THEN h = None
  ELSE /\ h # None
       /\ IF Oks(tried) = {} THEN h.lastOk = None ELSE Greatest(TimesOf(Oks(tried)), h.lastOk)
       /\ Greatest(TimesOf(tried), h.lastTry)
       /\ h.ok <=> h.lastOk = h.lastTry

IInv == TypeOK /\ InOrder /\ OnlyOldGone /\ EdgesTrack /\ Remembers(everTried, health)

-----------------------------------------------------------------------------
(* Edges and health. *)

LEMMA MaxIs ==
  ASSUME NEW S \in SUBSET Int, NEW m, Greatest(S, m)
  PROVE  Max(S) = m
  <1>1. \E x \in S : \A y \in S : x >= y
    BY DEF Greatest
  <1>2. Max(S) \in S /\ \A y \in S : Max(S) >= y
    BY <1>1 DEF Max
  <1>3. Max(S) <= m /\ Max(S) >= m /\ Max(S) \in Int /\ m \in Int
    BY <1>2 DEF Greatest
  <1> QED BY <1>3

LEMMA TracksImplies == TypeOK /\ EdgesTrack => EdgesTrackReadings
  <1> SUFFICES ASSUME TypeOK, EdgesTrack PROVE EdgesTrackReadings
    OBVIOUS
  <1>1. ASSUME NEW f \in Feeds, NEW r \in Runners, ReadOf(f, r) # {}
        PROVE  edges[f][r].seen = Max(TimesOf(ReadOf(f, r)))
    <2>1. TimesOf(ReadOf(f, r)) \in SUBSET Int
      BY DEF TypeOK, ReadOf, TimesOf, Rows, Times
    <2> QED BY <1>1, <2>1, MaxIs DEF EdgesTrack, Tracks
  <1>2. ASSUME NEW f \in Feeds, NEW r \in Runners
        PROVE  LET read == ReadOf(f, r)
                   edge == edges[f][r]
                   before == {x \in read : x.ts < edge.since}
               IN  IF read = {} THEN edge = None
                   ELSE /\ edge # None
                        /\ edge.seen = Max(TimesOf(read))
                        /\ \E x \in read : x.ts = edge.since
                        /\ \A x \in read : x.ts >= edge.since => x.value = edge.value
                        /\ \A x \in before :
                             (\A y \in before : y.ts <= x.ts) => x.value # edge.value
    <2>1. Tracks(ReadOf(f, r), edges[f][r])
      BY DEF EdgesTrack
    <2> QED BY <1>1, <2>1 DEF Tracks
  <1> QED BY <1>2 DEF EdgesTrackReadings, ReadOf, TimesOf

LEMMA RemembersImplies ==
  TypeOK /\ Remembers(everTried, health) => HealthRemembersSuccess
  <1> SUFFICES ASSUME TypeOK, Remembers(everTried, health), everTried # {}
               PROVE  /\ health.lastTry = Max(TimesOf(everTried))
                      /\ Oks(everTried) # {} => health.lastOk = Max(TimesOf(Oks(everTried)))
    BY DEF Remembers, HealthRemembersSuccess, TimesOf, Oks
  <1>1. TimesOf(everTried) \in SUBSET Int /\ TimesOf(Oks(everTried)) \in SUBSET Int
    BY DEF TypeOK, TimesOf, Oks, Times
  <1> QED BY <1>1, MaxIs DEF Remembers

\* A newer reading moves the edge as the readings say.
LEMMA EdgeStep ==
  ASSUME NEW read \in SUBSET Rows, NEW edge \in Edges \cup {None}, Tracks(read, edge),
         NEW x \in Rows, \A y \in read : y.ts < x.ts
  PROVE  /\ EdgeAfter(edge, x) \in Edges
         /\ Tracks(read \cup {x}, EdgeAfter(edge, x))
  <1> DEFINE new == EdgeAfter(edge, x)
  <1>1. /\ x.ts \in Times /\ x.value \in Values /\ x.ts \in Int
        /\ \A y \in read : y.ts \in Int /\ y.ts < x.ts
    BY DEF Rows, Times
  <1>2. new \in Edges /\ new # None /\ new.value = x.value /\ new.seen = x.ts
    BY <1>1, NoneAssumption DEF EdgeAfter, Edges
  <1>3. Greatest(TimesOf(read \cup {x}), new.seen)
    BY <1>1, <1>2 DEF Greatest, TimesOf
  <1>4. CASE edge # None /\ edge.value = x.value
    <2>1. new.since = edge.since /\ read # {}
      BY <1>4 DEF EdgeAfter, Tracks
    <2>2. PICK y \in read : y.ts = edge.since
      BY <2>1 DEF Tracks
    <2>3. \A z \in read \cup {x} : z.ts >= new.since => z.value = new.value
      BY <1>2, <1>4, <2>1 DEF Tracks
    <2>4. ASSUME NEW z \in read \cup {x}, z.ts < new.since,
                 \A w \in read \cup {x} : w.ts < new.since => w.ts <= z.ts
          PROVE  z.value # new.value
      <3>1. z \in read
        BY <1>1, <2>1, <2>2, <2>4
      <3> QED BY <3>1, <2>1, <2>4, <1>2, <1>4 DEF Tracks
    <2> QED BY <1>2, <1>3, <2>1, <2>2, <2>3, <2>4 DEF Tracks
  <1>5. CASE edge = None
    <2>1. read = {} /\ new.since = x.ts
      BY <1>5 DEF Tracks, EdgeAfter
    <2> QED BY <1>1, <1>2, <1>3, <2>1 DEF Tracks
  <1>6. CASE edge # None /\ edge.value # x.value
    <2>1. read # {} /\ new.since = x.ts
      BY <1>6 DEF Tracks, EdgeAfter
    <2>2. PICK y \in read : y.ts = edge.since
      BY <2>1 DEF Tracks
    <2>3. ASSUME NEW z \in read \cup {x}, z.ts < x.ts,
                 \A w \in read \cup {x} : w.ts < x.ts => w.ts <= z.ts
          PROVE  z.value # x.value
      <3>1. z \in read /\ z.ts >= edge.since
        BY <1>1, <2>2, <2>3
      <3> QED BY <3>1, <2>1, <1>6 DEF Tracks
    <2>4. \A z \in read \cup {x} : z.ts >= x.ts => z.value = x.value
      BY <1>1
    <2> QED BY <1>2, <1>3, <2>1, <2>3, <2>4 DEF Tracks
  <1> QED BY <1>2, <1>4, <1>5, <1>6

\* A newer try makes the health the tries say.
LEMMA HealthStep ==
  ASSUME NEW tried \in SUBSET [ts : Times, ok : BOOLEAN], NEW h \in Healths \cup {None},
         Remembers(tried, h), NEW m \in Messages, \A y \in tried : y.ts < m.ts
  PROVE  /\ HealthAfter(h, m) \in Healths
         /\ Remembers(tried \cup {[ts |-> m.ts, ok |-> m.outcome = "ok"]}, HealthAfter(h, m))
  <1> DEFINE x == [ts |-> m.ts, ok |-> m.outcome = "ok"]
             new == HealthAfter(h, m)
             all == tried \cup {x}
  <1>1. /\ m.ts \in Times /\ m.ts \in Int
        /\ \A y \in tried : y.ts \in Int /\ y.ts < m.ts
    BY DEF Messages, Times
  <1>2. x.ts = m.ts /\ x.ok = (m.outcome = "ok")
    OBVIOUS
  <1> SUFFICES new \in Healths /\ Remembers(all, new)
    OBVIOUS
  <1> HIDE DEF x
  <1>3. /\ new \in Healths /\ new # None
        /\ new.lastTry = m.ts /\ new.ok = (m.outcome = "ok")
    <2>1. h # None => h.lastOk \in Times \cup {None}
      BY DEF Healths
    <2> DEFINE lastOk == IF m.outcome = "ok" THEN m.ts ELSE IF h = None THEN None ELSE h.lastOk
    <2>2. lastOk \in Times \cup {None}
      BY <1>1, <2>1
    <2>3. new = [lastOk |-> lastOk, lastTry |-> m.ts, ok |-> m.outcome = "ok",
                 configured |-> m.outcome # "unconfigured"]
      BY DEF HealthAfter
    <2> HIDE DEF lastOk, new
    <2>4. new \in Healths /\ new.lastTry = m.ts /\ new.ok = (m.outcome = "ok")
      BY <1>1, <2>2, <2>3 DEF Healths
    <2> QED BY <2>4, NoneAssumption
  <1>4. Greatest(TimesOf(all), new.lastTry) /\ all # {}
    BY <1>1, <1>2, <1>3 DEF Greatest, TimesOf
  <1> HIDE DEF new
  <1>5. CASE m.outcome = "ok"
    <2>1. new.lastOk = m.ts /\ x \in Oks(all) /\ Oks(all) \subseteq all
      BY <1>2, <1>5 DEF HealthAfter, Oks, new
    <2>2. \A y \in all : y.ts \in Int /\ y.ts <= m.ts
      BY <1>1, <1>2
    <2>3. Greatest(TimesOf(Oks(all)), m.ts)
      BY <1>2, <2>1, <2>2 DEF Greatest, TimesOf
    <2> QED BY <1>3, <1>4, <1>5, <2>1, <2>3 DEF Remembers
  <1>6. CASE m.outcome # "ok"
    <2>0. ~x.ok
      BY <1>2, <1>6
    <2>1. Oks(all) = Oks(tried) /\ Oks(tried) \subseteq tried
      BY <2>0 DEF Oks
    <2>2. CASE Oks(tried) = {}
      <3>1. new.lastOk = None
        BY <1>6, <2>2 DEF HealthAfter, Remembers, Oks, new
      <3> QED BY <1>1, <1>3, <1>4, <1>6, <2>1, <2>2, <3>1, NoneAssumption DEF Remembers
    <2>3. CASE Oks(tried) # {}
      <3>1. tried # {} /\ h # None /\ Greatest(TimesOf(Oks(tried)), h.lastOk)
        BY <2>1, <2>3 DEF Remembers
      <3>2. new.lastOk = h.lastOk /\ h.lastOk < m.ts
        BY <1>1, <1>6, <2>1, <3>1 DEF HealthAfter, Greatest, TimesOf, new
      <3>3. new.lastOk # new.lastTry
        BY <1>1, <1>3, <2>1, <3>1, <3>2 DEF Greatest, TimesOf
      <3> QED BY <1>3, <1>4, <1>6, <2>1, <2>3, <3>1, <3>2, <3>3 DEF Remembers
    <2> QED BY <2>2, <2>3
  <1> QED BY <1>3, <1>5, <1>6

-----------------------------------------------------------------------------
(* The store's steps. *)

LEMMA IInvInit == StoreInit => IInv
  <1> SUFFICES ASSUME StoreInit PROVE IInv
    OBVIOUS
  <1>1. TypeOK
    BY StoreAssumption DEF StoreInit, TypeOK, Times
  <1>2. InOrder
    BY DEF StoreInit, InOrder, Sending
  <1>3. OnlyOldGone /\ EdgesTrack /\ Remembers(everTried, health)
    BY DEF StoreInit, OnlyOldGone, EdgesTrack, Tracks, ReadOf, Remembers
  <1> QED BY <1>1, <1>2, <1>3 DEF IInv

LEMMA ClockInv == ASSUME IInv, Clock PROVE IInv'
  <1>1. now \in Int /\ now' = now + 1 /\ now' \in Times
    BY StoreAssumption DEF Clock, IInv, TypeOK, Times
  <1>2. TypeOK'
    BY <1>1 DEF Clock, IInv, TypeOK, feeds, tables, history
  <1>3. InOrder' /\ EdgesTrack' /\ Remembers(everTried, health)'
    BY DEF Clock, IInv, InOrder, Sending, Queued, StoredBefore, EdgesTrack, ReadOf,
           feeds, tables, history
  <1>4. \A f \in Feeds : \A x \in everRead[f] : x.ts \in Int
    BY DEF IInv, TypeOK, Rows, Times
  <1>5. OnlyOldGone'
    BY <1>1, <1>4, StoreAssumption DEF Clock, IInv, OnlyOldGone, tables, history
  <1> QED BY <1>2, <1>3, <1>5 DEF IInv

\* A step that writes no table and lets no time pass.
LEMMA TablesStay ==
  ASSUME IInv, TypeOK', InOrder', UNCHANGED <<now, tables, history>>
  PROVE  IInv'
  BY DEF IInv, OnlyOldGone, EdgesTrack, ReadOf, tables, history

LEMMA StoredTypes ==
  ASSUME TypeOK
  PROVE  /\ \A f \in Feeds : stamped[f] \in Int
         /\ \A f \in Feeds : \A x \in everRead[f] : x.ts \in Int
         /\ \A x \in everTried : x.ts \in Int
         /\ \A i \in 1..Len(channel) : /\ channel[i] \in Messages
                                       /\ channel[i].feed \in Feeds /\ channel[i].ts \in Int
         /\ \A f \in Feeds : pending[f] # None => pending[f] \in Messages /\ pending[f].ts \in Int
         /\ now \in Int
  <1>1. Times \subseteq Int
    BY DEF Times
  <1>2. \A m \in Messages : m.feed \in Feeds /\ m.ts \in Int
    BY <1>1 DEF Messages
  <1>3. \A i \in 1..Len(channel) : channel[i] \in Messages
    BY DEF TypeOK
  <1>4. \A f \in Feeds : pending[f] # None => pending[f] \in Messages
    BY DEF TypeOK
  <1>5. \A f \in Feeds : \A x \in everRead[f] : x.ts \in Int
    <2>1. \A x \in Rows : x.ts \in Int
      BY <1>1 DEF Rows
    <2>2. \A f \in Feeds : everRead[f] \subseteq Rows
      BY DEF TypeOK
    <2> QED BY <2>1, <2>2
  <1>6. \A x \in everTried : x.ts \in Int
    BY <1>1 DEF TypeOK
  <1>7. now \in Int /\ \A f \in Feeds : stamped[f] \in Int
    BY <1>1 DEF TypeOK
  <1> QED BY <1>2, <1>3, <1>4, <1>5, <1>6, <1>7

LEMMA TickInv ==
  ASSUME IInv, NEW f \in Feeds, NEW rows \in Readings, NEW outcome \in Outcomes,
         Tick(f, rows, outcome)
  PROVE  IInv'
  <1> DEFINE m == [feed |-> f, ts |-> now, rows |-> rows, outcome |-> outcome]
  <1> USE DEF IInv
  <1>1. rows \subseteq Rows /\ OneReading(m)
    BY DEF TypeOK, Readings, Rows, OneReading
  <1>2. m \in Messages /\ m.ts = now /\ m.feed = f
    BY <1>1 DEF TypeOK, Messages
  <1>3. TypeOK'
    BY <1>2 DEF Tick, TypeOK, tables, history
  <1>4. /\ pending'[f] = m /\ stamped'[f] = now /\ stamped[f] < now
        /\ \A g \in Feeds : g # f => pending'[g] = pending[g] /\ stamped'[g] = stamped[g]
        /\ UNCHANGED <<channel, everRead, everTried>>
    BY StoredTypes DEF Tick, TypeOK, history
  <1>5. \A g \in Feeds : /\ stamped[g] <= stamped'[g]
                          /\ stamped[g] \in Int /\ stamped'[g] \in Int
    BY <1>4, StoredTypes
  <1>6. StoredBefore(f, now)
    BY <1>4, StoredTypes DEF InOrder, StoredBefore
  <1>7. Sending(f)'
    <2>1. \A i \in 1..Len(channel) : channel[i].feed = f => channel[i].ts < now
      BY <1>4, StoredTypes DEF InOrder, Queued
    <2>2. pending'[f].ts <= stamped'[f]
      BY <1>2, <1>4, StoredTypes
    <2> QED BY <1>1, <1>2, <1>4, <1>6, <2>1, <2>2 DEF Sending, StoredBefore
  <1>8. ASSUME NEW g \in Feeds, g # f PROVE Sending(g)'
    BY <1>4, <1>8 DEF InOrder, Sending, StoredBefore
  <1>9. ASSUME NEW i \in 1..Len(channel) PROVE Queued(i)'
    <2>1. channel[i].ts <= stamped'[channel[i].feed]
      BY <1>5, StoredTypes DEF InOrder, Queued
    <2> QED BY <1>4, <2>1 DEF InOrder, Queued, StoredBefore
  <1>10. /\ \A g \in Feeds : \A x \in everRead'[g] : x.ts <= stamped'[g]
         /\ \A x \in everTried' : x.ts <= stamped'["api"]
    BY <1>4, <1>5, StoredTypes DEF InOrder, Feeds
  <1>11. InOrder'
    BY <1>4, <1>7, <1>8, <1>9, <1>10 DEF InOrder
  <1> QED BY <1>3, <1>11, TablesStay DEF Tick

LEMMA SendInv == ASSUME IInv, NEW f \in Feeds, Send(f) PROVE IInv'
  <1> USE DEF IInv
  <1> DEFINE m == pending[f]
             n == Len(channel)
  <1>1. /\ m # None /\ m \in Messages /\ channel \in Seq(Messages) /\ n \in Nat
        /\ channel' = Append(channel, m)
        /\ pending'[f] = None /\ \A g \in Feeds : g # f => pending'[g] = pending[g]
        /\ UNCHANGED <<stamped, everRead, everTried>>
    BY DEF Send, TypeOK, history
  <1>2. /\ Len(channel') = n + 1 /\ channel'[n + 1] = m
        /\ \A i \in 1..n : channel'[i] = channel[i]
    BY <1>1
  <1>3. TypeOK'
    <2>1. channel' \in Seq(Messages) /\ Len(channel') <= ChannelBound
      BY <1>1, <1>2, StoreAssumption DEF Send
    <2> QED BY <1>1, <2>1 DEF Send, TypeOK, tables, history
  <1>4. /\ m.feed = f /\ m.ts <= stamped[f] /\ OneReading(m) /\ StoredBefore(f, m.ts)
        /\ \A i \in 1..n : channel[i].feed = f => channel[i].ts < m.ts
    BY <1>1 DEF InOrder, Sending
  <1>5. ASSUME NEW g \in Feeds PROVE Sending(g)'
    <2>1. CASE g = f
      BY <2>1, <1>1 DEF Sending
    <2>2. CASE g # f
      <3>1. Sending(g)
        BY DEF InOrder
      <3>2. \A i \in 1..(n + 1) : channel'[i].feed = g => i \in 1..n
        BY <1>2, <1>4, <2>2
      <3>3. pending[g] # None => \A i \in 1..(n + 1) : channel'[i].feed = g => channel'[i].ts < pending[g].ts
        BY <3>1, <3>2, <1>2 DEF Sending
      <3> QED BY <1>1, <1>2, <2>2, <3>1, <3>3 DEF Sending, StoredBefore
    <2> QED BY <2>1, <2>2
  <1>6. ASSUME NEW i \in 1..n PROVE Queued(i)'
    <2>1. Queued(i)
      BY DEF InOrder
    <2>2. ASSUME NEW j \in 1..(n + 1), i < j, channel'[j].feed = channel[i].feed
          PROVE  channel[i].ts < channel'[j].ts
      <3>1. CASE j \in 1..n
        BY <3>1, <2>1, <2>2, <1>2 DEF Queued
      <3>2. CASE j = n + 1
        BY <3>2, <2>2, <1>2, <1>4
      <3> QED BY <3>1, <3>2, <1>1
    <2> QED BY <1>1, <1>2, <2>1, <2>2 DEF Queued, StoredBefore
  <1>7. ASSUME NEW i \in 1..(n + 1), i = n + 1 PROVE Queued(i)'
    <2>1. channel'[i] = m /\ \A j \in 1..(n + 1) : ~(i < j)
      BY <1>1, <1>2, <1>7
    <2> QED BY <1>1, <1>2, <1>4, <2>1 DEF Queued, StoredBefore
  <1>8. \A i \in 1..(n + 1) : Queued(i)'
    BY <1>1, <1>6, <1>7
  <1>9. InOrder'
    BY <1>1, <1>2, <1>5, <1>8 DEF InOrder
  <1> QED BY <1>3, <1>9, TablesStay DEF Send

\* What is left when a message is received is in order still, whatever of the
\* message is stored.
LEMMA Received ==
  ASSUME IInv, channel # <<>>, channel' = Tail(channel), UNCHANGED feeds,
         \A f \in Feeds : \A x \in everRead'[f] :
           x \in everRead[f] \/ (f = channel[1].feed /\ x.ts = channel[1].ts),
         \A x \in everTried' :
           x \in everTried \/ (channel[1].feed = "api" /\ x.ts = channel[1].ts)
  PROVE  InOrder'
  <1> USE DEF IInv
  <1> DEFINE m == channel[1]
             n == Len(channel)
  <1>1. /\ channel \in Seq(Messages) /\ n \in Nat /\ n >= 1 /\ m \in Messages
        /\ Len(channel') = n - 1
        /\ \A i \in 1..(n - 1) : channel'[i] = channel[i + 1] /\ i + 1 \in 1..n /\ 1 < i + 1
    BY DEF TypeOK
  <1>2. Queued(1) /\ UNCHANGED <<stamped, pending>>
    BY <1>1 DEF InOrder, feeds
  <1>3. ASSUME NEW f \in Feeds, NEW t, StoredBefore(f, t), m.feed = f => m.ts < t
        PROVE  StoredBefore(f, t)'
    BY <1>3 DEF StoredBefore
  <1>4. ASSUME NEW f \in Feeds PROVE Sending(f)'
    <2> SUFFICES ASSUME pending[f] # None PROVE Sending(f)'
      BY <1>2 DEF Sending
    <2>1. /\ pending[f].feed = f /\ pending[f].ts <= stamped[f] /\ OneReading(pending[f])
          /\ StoredBefore(f, pending[f].ts)
          /\ \A i \in 1..n : channel[i].feed = f => channel[i].ts < pending[f].ts
      BY DEF InOrder, Sending
    <2>2. StoredBefore(f, pending[f].ts)'
      BY <1>1, <1>2, <1>3, <2>1 DEF StoredBefore
    <2>3. \A i \in 1..(n - 1) : channel'[i].feed = f => channel'[i].ts < pending[f].ts
      BY <1>1, <2>1
    <2> QED BY <1>1, <1>2, <2>1, <2>2, <2>3 DEF Sending
  <1>5. ASSUME NEW i \in 1..(n - 1) PROVE Queued(i)'
    <2> DEFINE b == channel[i + 1]
    <2>1. /\ Queued(i + 1) /\ channel'[i] = b /\ b.feed \in Feeds
          /\ (m.feed = b.feed => m.ts < b.ts)
      BY <1>1, <1>2, StoredTypes DEF InOrder, Queued
    <2>2. ASSUME NEW f, f = b.feed, NEW t, t = b.ts PROVE StoredBefore(f, t)'
      BY <1>3, <2>1, <2>2 DEF Queued
    <2>3. ASSUME NEW j \in 1..(n - 1), i < j, channel'[j].feed = b.feed
          PROVE  b.ts < channel'[j].ts
      <3>1. channel'[j] = channel[j + 1] /\ j + 1 \in 1..n /\ i + 1 < j + 1
        BY <1>1, <2>3
      <3> QED BY <2>1, <2>3, <3>1 DEF Queued
    <2> QED BY <1>1, <1>2, <2>1, <2>2, <2>3 DEF Queued, StoredBefore
  <1>6. /\ \A f \in Feeds : \A x \in everRead'[f] : x.ts <= stamped'[f]
        /\ \A x \in everTried' : x.ts <= stamped'["api"]
    BY <1>2 DEF InOrder, Queued
  <1> QED BY <1>1, <1>4, <1>5, <1>6 DEF InOrder

LEMMA WriteFailsInv == ASSUME IInv, WriteFails PROVE IInv'
  <1>1. /\ channel # <<>> /\ channel' = Tail(channel) /\ UNCHANGED feeds
        /\ everRead' = everRead /\ everTried' = everTried
    BY DEF WriteFails, history
  <1>2. InOrder'
    <2>1. \A f \in Feeds : \A x \in everRead'[f] :
            x \in everRead[f] \/ (f = channel[1].feed /\ x.ts = channel[1].ts)
      BY <1>1
    <2>2. \A x \in everTried' :
            x \in everTried \/ (channel[1].feed = "api" /\ x.ts = channel[1].ts)
      BY <1>1
    <2> QED BY <1>1, <2>1, <2>2, Received
  <1>3. channel' \in Seq(Messages) /\ Len(channel') <= ChannelBound
    BY <1>1, StoreAssumption DEF IInv, TypeOK
  <1>4. TypeOK'
    BY <1>3 DEF WriteFails, IInv, TypeOK, feeds, tables, history
  <1> QED BY <1>2, <1>4, TablesStay DEF WriteFails

LEMMA PruneInv == ASSUME IInv, Prune PROVE IInv'
  <1> USE DEF IInv
  <1>1. PICK gone \in [Feeds -> SUBSET UNION {samples[f] : f \in Feeds}] :
          /\ \A f \in Feeds : gone[f] \subseteq Expired(f)
          /\ samples' = [f \in Feeds |-> samples[f] \ gone[f]]
    BY DEF Prune
  <1>2. TypeOK'
    BY <1>1 DEF Prune, TypeOK, feeds, history
  <1>3. InOrder' /\ EdgesTrack' /\ Remembers(everTried, health)'
    BY DEF Prune, InOrder, Sending, Queued, StoredBefore, EdgesTrack, ReadOf, feeds, history
  <1>4. OnlyOldGone'
    BY <1>1 DEF Prune, OnlyOldGone, Expired, history
  <1> QED BY <1>2, <1>3, <1>4

LEMMA CrashInv == ASSUME IInv, Crash PROVE IInv'
  <1>1. TypeOK'
    BY StoreAssumption DEF Crash, IInv, TypeOK, tables, history
  <1>2. InOrder'
    BY DEF Crash, IInv, InOrder, Sending, history
  <1> QED BY <1>1, <1>2, TablesStay DEF Crash

LEMMA WriteInv == ASSUME IInv, Write PROVE IInv'
  <1> USE DEF IInv
  <1> DEFINE m == channel[1]
  <1>1. /\ channel # <<>> /\ channel \in Seq(Messages) /\ Len(channel) >= 1
        /\ m = Head(channel) /\ m \in Messages /\ m.feed \in Feeds
        /\ channel' = Tail(channel) /\ UNCHANGED feeds /\ now' = now
        /\ samples' = [samples EXCEPT ![m.feed] = @ \cup m.rows]
        /\ everRead' = [everRead EXCEPT ![m.feed] = @ \cup m.rows]
    <2>1. channel # <<>> /\ channel \in Seq(Messages) /\ m = Head(channel)
      BY DEF Write, TypeOK
    <2>2. Len(channel) >= 1 /\ m \in Messages
      BY <2>1
    <2>3. m.feed \in Feeds
      BY <2>2 DEF Messages
    <2>4. /\ channel' = Tail(channel) /\ UNCHANGED feeds /\ now' = now
          /\ samples' = [samples EXCEPT ![m.feed] = @ \cup m.rows]
          /\ everRead' = [everRead EXCEPT ![m.feed] = @ \cup m.rows]
      BY <2>1 DEF Write
    <2> QED BY <2>1, <2>2, <2>3, <2>4
  <1>2. OneReading(m) /\ StoredBefore(m.feed, m.ts) /\ m.rows \subseteq Rows
    BY <1>1 DEF InOrder, Queued, Messages
  <1>3. /\ samples' \in [Feeds -> SUBSET Rows] /\ everRead' \in [Feeds -> SUBSET Rows]
        /\ \A f \in Feeds : /\ samples'[f] = samples[f] \cup (IF f = m.feed THEN m.rows ELSE {})
                            /\ everRead'[f] = everRead[f] \cup (IF f = m.feed THEN m.rows ELSE {})
    BY <1>1, <1>2 DEF TypeOK
  <1>4. ASSUME NEW f \in Feeds, NEW r \in Runners
        PROVE  /\ edges'[f][r] \in Edges \cup {None}
               /\ Tracks(ReadOf(f, r)', edges'[f][r])
    <2> DEFINE new == {x \in m.rows : x.runner = r}
    <2>1. edges[f][r] \in Edges \cup {None} /\ Tracks(ReadOf(f, r), edges[f][r])
      BY DEF TypeOK, EdgesTrack
    <2>2. edges'[f][r] = IF f = m.feed /\ new # {} THEN EdgeAfter(edges[f][r], CHOOSE x \in new : TRUE)
                         ELSE edges[f][r]
      BY <1>1 DEF Write, TypeOK
    <2>3. ReadOf(f, r)' = ReadOf(f, r) \cup (IF f = m.feed THEN new ELSE {})
      BY <1>3 DEF ReadOf
    <2>4. CASE f = m.feed /\ new # {}
      <3> DEFINE x == CHOOSE x \in new : TRUE
      <3>1. x \in new /\ new = {x} /\ x \in Rows /\ x.ts = m.ts
        BY <1>2, <2>4 DEF OneReading
      <3> HIDE DEF x, new
      <3>2. /\ ReadOf(f, r) \in SUBSET Rows
            /\ \A y \in ReadOf(f, r) : y.ts < x.ts
        BY <1>2, <2>4, <3>1 DEF StoredBefore, ReadOf, TypeOK
      <3>3. edges'[f][r] = EdgeAfter(edges[f][r], x) /\ ReadOf(f, r)' = ReadOf(f, r) \cup {x}
        BY <2>2, <2>3, <2>4, <3>1 DEF x
      <3> QED BY <2>1, <3>1, <3>2, <3>3, EdgeStep
    <2>5. CASE ~(f = m.feed /\ new # {})
      <3>1. edges'[f][r] = edges[f][r] /\ ReadOf(f, r)' = ReadOf(f, r)
        BY <2>2, <2>3, <2>5
      <3> QED BY <2>1, <3>1
    <2> QED BY <2>4, <2>5
  <1>5. edges' \in [Feeds -> [Runners -> Edges \cup {None}]]
    <2> DEFINE upserted ==
          [r \in Runners |->
             IF {x \in m.rows : x.runner = r} = {} THEN edges[m.feed][r]
             ELSE EdgeAfter(edges[m.feed][r], CHOOSE x \in {y \in m.rows : y.runner = r} : TRUE)]
    <2>1. edges' = [edges EXCEPT ![m.feed] = upserted]
      BY <1>1 DEF Write
    <2>2. edges'[m.feed] = upserted
      BY <1>1, <2>1 DEF TypeOK
    <2>3. upserted \in [Runners -> Edges \cup {None}]
      <3>1. \A r \in Runners : upserted[r] \in Edges \cup {None}
        BY <1>1, <1>4, <2>2
      <3> QED BY <3>1
    <2> HIDE DEF upserted
    <2> QED BY <1>1, <2>1, <2>3 DEF TypeOK
  <1>6. /\ health' \in Healths \cup {None} /\ everTried' \subseteq [ts : Times, ok : BOOLEAN]
        /\ Remembers(everTried', health')
        /\ \A x \in everTried' : x \in everTried \/ (m.feed = "api" /\ x.ts = m.ts)
    <2> DEFINE x == [ts |-> m.ts, ok |-> m.outcome = "ok"]
    <2>1. CASE m.feed = "api"
      <3>1. health' = HealthAfter(health, m) /\ everTried' = everTried \cup {x}
        BY <1>1, <2>1 DEF Write
      <3>2. x \in [ts : Times, ok : BOOLEAN] /\ x.ts = m.ts
        BY <1>1 DEF Messages
      <3>3. \A y \in everTried : y.ts < m.ts
        BY <1>2, <2>1 DEF StoredBefore
      <3>4. health' \in Healths /\ Remembers(everTried', health')
        BY <1>1, <3>1, <3>3, HealthStep DEF TypeOK
      <3> HIDE DEF x
      <3> QED BY <2>1, <3>1, <3>2, <3>4 DEF TypeOK
    <2>2. CASE m.feed # "api"
      BY <1>1, <2>2 DEF Write, TypeOK
    <2> QED BY <2>1, <2>2
  <1>7. TypeOK'
    <2>1. channel' \in Seq(Messages) /\ Len(channel') <= ChannelBound
      BY <1>1, StoreAssumption DEF TypeOK
    <2> QED BY <1>1, <1>3, <1>5, <1>6, <2>1 DEF TypeOK, feeds
  <1>8. InOrder'
    <2>1. \A f \in Feeds : \A x \in everRead'[f] : x \in everRead[f] \/ (f = m.feed /\ x.ts = m.ts)
      BY <1>2, <1>3 DEF OneReading
    <2> QED BY <1>1, <1>6, <2>1, Received
  <1>9. OnlyOldGone'
    BY <1>1, <1>3 DEF OnlyOldGone
  <1>10. EdgesTrack'
    BY <1>4 DEF EdgesTrack
  <1> QED BY <1>6, <1>7, <1>8, <1>9, <1>10

LEMMA IInvNext == IInv /\ [StoreNext]_storeVars => IInv'
  <1> SUFFICES ASSUME IInv, [StoreNext]_storeVars PROVE IInv'
    OBVIOUS
  <1>1. CASE UNCHANGED storeVars
    BY <1>1 DEF storeVars, IInv, TypeOK, InOrder, Sending, Queued, StoredBefore, OnlyOldGone,
                EdgesTrack, ReadOf, feeds, tables, history
  <1>2. CASE StoreNext
    BY <1>2, ClockInv, WriteInv, WriteFailsInv, PruneInv, CrashInv, SendInv, TickInv DEF StoreNext
  <1> QED BY <1>1, <1>2

LEMMA FreshImplied == IInv => FreshReadingsKept
  <1> SUFFICES ASSUME IInv, NEW f \in Feeds, NEW x \in everRead[f], now - x.ts <= MaxAge
               PROVE  x \in samples[f]
    BY DEF FreshReadingsKept
  <1>1. now \in Int /\ x.ts \in Int
    BY StoredTypes DEF IInv
  <1> QED BY <1>1, StoreAssumption DEF IInv, OnlyOldGone

\* Together they hold in every state.
THEOREM Invariance == StoreSpec => []IInv
  BY IInvInit, IInvNext, PTL DEF StoreSpec

\* The store's variables keep their types and the channel its bound.
THEOREM StoreTypeCorrect == StoreSpec => []TypeOK
  <1>1. IInv => TypeOK BY DEF IInv
  <1> QED BY <1>1, Invariance, PTL

\* The edge upserts of write_local and write_api_runners (store/writer) keep
\* each runner's value and since when, over every reading ever stored.
THEOREM EdgesExact == StoreSpec => []EdgesTrackReadings
  <1>1. IInv => EdgesTrackReadings BY TracksImplies DEF IInv
  <1> QED BY <1>1, Invariance, PTL

\* The health upsert (store/writer/github.rs) keeps the last success.
THEOREM HealthExact == StoreSpec => []HealthRemembersSuccess
  <1>1. IInv => HealthRemembersSuccess BY RemembersImplies DEF IInv
  <1> QED BY <1>1, Invariance, PTL

\* The pruner (store/writer/mod.rs) leaves what is still fresh.
THEOREM PruningKeepsFresh == StoreSpec => []FreshReadingsKept
  BY FreshImplied, Invariance, PTL

-----------------------------------------------------------------------------
(* A scrape: samples are read before their edges, and every sample has one. *)

Covered(rows, of) == \A x \in rows : of[x.runner] # None /\ of[x.runner].seen >= x.ts

\* What the reads done so far have found.
Gathered ==
  /\ snap = [stage |-> snap.stage, at |-> snap.at, tick |-> snap.tick, latest |-> snap.latest,
             api |-> snap.api, states |-> snap.states, apiEdges |-> snap.apiEdges]
  /\ snap.stage \in 0..5
  /\ snap.stage = 2 => snap.latest \subseteq everRead["local"]
  /\ snap.stage >= 3 => Covered(snap.latest, snap.states)
  /\ snap.stage = 4 => snap.api \subseteq everRead["api"]
  /\ snap.stage = 5 => Covered(snap.api, snap.apiEdges)

LEMMA ReadAreCovered ==
  ASSUME IInv, NEW f \in Feeds, NEW rows \in SUBSET everRead[f]
  PROVE  Covered(rows, edges[f])
  <1> SUFFICES ASSUME NEW x \in rows
               PROVE  edges[f][x.runner] # None /\ edges[f][x.runner].seen >= x.ts
    BY DEF Covered
  <1>1. x \in everRead[f] /\ x.runner \in Runners /\ x \in ReadOf(f, x.runner)
    BY DEF IInv, TypeOK, Rows, ReadOf
  <1>2. Tracks(ReadOf(f, x.runner), edges[f][x.runner])
    BY <1>1 DEF IInv, EdgesTrack
  <1>3. x.ts \in TimesOf(ReadOf(f, x.runner))
    BY <1>1 DEF TimesOf
  <1>4. /\ edges[f][x.runner] # None
        /\ x.ts <= edges[f][x.runner].seen
        /\ edges[f][x.runner].seen \in TimesOf(ReadOf(f, x.runner))
    BY <1>1, <1>2, <1>3 DEF Tracks, Greatest
  <1>5. edges[f][x.runner].seen \in Int /\ x.ts \in Int
    BY <1>1, <1>4 DEF IInv, TypeOK, TimesOf, ReadOf, Rows, Times
  <1> QED BY <1>4, <1>5

\* What is stored stays in the history.
LEMMA HistoryGrows ==
  ASSUME IInv, StoreNext PROVE \A f \in Feeds : everRead[f] \subseteq everRead'[f]
  <1>1. CASE Write
    BY <1>1 DEF Write, IInv, TypeOK
  <1>2. CASE ~Write
    BY <1>2 DEF StoreNext, Clock, WriteFails, Prune, Crash, Send, Tick, history
  <1> QED BY <1>1, <1>2

LEMMA StoreKeepsGathered == ASSUME IInv, Gathered, StoreNext, UNCHANGED snap PROVE Gathered'
  BY HistoryGrows DEF Gathered, Feeds

LEMMA GatherKeepsGathered == ASSUME IInv, Gathered, Gather PROVE Gathered'
  <1>0. /\ UNCHANGED <<everRead, edges>>
        /\ \A f \in Feeds : samples[f] \subseteq everRead[f]
    BY DEF Gather, storeVars, tables, history, IInv, OnlyOldGone
  <1>1. CASE ReadTick
    <2>1. /\ snap'.stage = 1
          /\ snap' = [stage |-> snap'.stage, at |-> snap'.at, tick |-> snap'.tick,
                      latest |-> snap'.latest, api |-> snap'.api,
                      states |-> snap'.states, apiEdges |-> snap'.apiEdges]
      BY <1>1 DEF ReadTick, NoSnap
    <2> QED BY <2>1 DEF Gathered
  <1>2. CASE ReadLatest
    <2>1. /\ snap' = [stage |-> 2, at |-> snap.at, tick |-> snap.tick,
                      latest |-> {x \in samples["local"] : x.ts = snap.tick}, api |-> snap.api,
                      states |-> snap.states, apiEdges |-> snap.apiEdges]
      BY <1>2 DEF ReadLatest, Gathered
    <2> QED BY <1>0, <2>1 DEF Gathered, Feeds
  <1>3. CASE ReadStates
    <2>1. Covered(snap.latest, edges["local"])
      BY <1>3, ReadAreCovered DEF ReadStates, Gathered, Feeds
    <2>2. snap' = [stage |-> 3, at |-> snap.at, tick |-> snap.tick, latest |-> snap.latest,
                   api |-> snap.api, states |-> edges["local"], apiEdges |-> snap.apiEdges]
      BY <1>3 DEF ReadStates, Gathered
    <2> QED BY <2>1, <2>2 DEF Gathered, Covered
  <1>4. CASE ReadApi(4)
    <2> DEFINE newest == {x \in samples["api"] :
                            \A y \in samples["api"] : y.runner = x.runner => y.ts <= x.ts}
    <2>1. newest \subseteq everRead["api"]
      BY <1>0 DEF Feeds
    <2>2. snap.stage = 3 /\ snap' = [snap EXCEPT !.stage = 4, !.api = newest]
      BY <1>4 DEF ReadApi
    <2> HIDE DEF newest
    <2>3. snap' = [stage |-> 4, at |-> snap.at, tick |-> snap.tick, latest |-> snap.latest,
                   api |-> newest, states |-> snap.states, apiEdges |-> snap.apiEdges]
      BY <2>2 DEF Gathered
    <2>4. Covered(snap.latest, snap.states)
      BY <2>2 DEF Gathered
    <2> QED BY <1>0, <2>1, <2>3, <2>4 DEF Gathered, Covered
  <1>5. CASE ReadApiEdges(5)
    <2>1. Covered(snap.api, edges["api"])
      BY <1>5, ReadAreCovered DEF ReadApiEdges, Gathered, Feeds
    <2>2. snap.stage = 4 /\ snap' = [snap EXCEPT !.stage = 5, !.apiEdges = edges["api"]]
      BY <1>5 DEF ReadApiEdges
    <2>3. snap' = [stage |-> 5, at |-> snap.at, tick |-> snap.tick, latest |-> snap.latest,
                   api |-> snap.api, states |-> snap.states, apiEdges |-> edges["api"]]
      BY <2>2 DEF Gathered
    <2>4. Covered(snap.latest, snap.states)
      BY <2>2 DEF Gathered
    <2> QED BY <2>1, <2>3, <2>4 DEF Gathered, Covered
  <1>6. CASE Served
    BY <1>6 DEF Served, NoSnap, Gathered
  <1> QED BY <1>1, <1>2, <1>3, <1>4, <1>5, <1>6 DEF Gather

LEMMA GatheredNext == IInv /\ Gathered /\ [Next]_snapVars => (IInv /\ Gathered)'
  <1> SUFFICES ASSUME IInv, Gathered, [Next]_snapVars PROVE IInv' /\ Gathered'
    OBVIOUS
  <1>1. CASE UNCHANGED snapVars
    BY <1>1, IInvNext DEF snapVars, storeVars, history, Gathered
  <1>2. CASE StoreNext /\ UNCHANGED snap
    BY <1>2, IInvNext, StoreKeepsGathered
  <1>3. CASE Gather
    BY <1>3, IInvNext, GatherKeepsGathered DEF Gather
  <1> QED BY <1>1, <1>2, <1>3 DEF Next

\* Snapshot::gather (service/metrics/encode/mod.rs) reads every table on its
\* own, while the store is written, and never shows a sample without its edge.
THEOREM ScrapeIsCovered == Spec => []NoSampleWithoutEdge
  <1>1. Init => IInv /\ Gathered
    BY IInvInit DEF Init, Gathered, NoSnap
  <1>2. IInv /\ Gathered => NoSampleWithoutEdge
    BY DEF Gathered, Covered, NoSampleWithoutEdge, Complete
  <1> QED BY <1>1, <1>2, GatheredNext, PTL DEF Spec
=============================================================================
