---------------------------- MODULE ContractsProofs --------------------------
(***************************************************************************)
(* Proofs about the six contracts, for every instance: the cache's         *)
(* readable rounds have no gap and its search is exact, a bucket keeps to  *)
(* its capacity and rate, what the forwarder delivers takes effect once,   *)
(* only a committee attests, the OnRamp's messages are sound and its       *)
(* receipts are paid for, and lock boxes cover what can come back.         *)
(***************************************************************************)
EXTENDS Contracts, Induction

-----------------------------------------------------------------------------
(* The cache. Each stored round either outlives the window or is already    *)
(* outside it, both for the window in force and for the one it grows to.    *)

FeedRecord == [rounds : Seq(Round), frozen : BOOLEAN, window : Window]

RoundFits(r, w) ==
  /\ r.seq <= now
  /\ r.ttl >= w.growTo \/ r.seq + w.growTo < w.growAt
  /\ r.ttl >= w.shortest \/ r.seq + w.shortest < now

GoodFeed(f) ==
  /\ f \in FeedRecord
  /\ \A n \in DOMAIN f.rounds : RoundFits(f.rounds[n], f.window)
  /\ \A m, n \in DOMAIN f.rounds :
       m < n => f.rounds[m].seq <= f.rounds[n].seq /\ f.rounds[m].ts <= f.rounds[n].ts

CacheInv ==
  /\ now \in Nat /\ netTtl \in Nat
  /\ feeds \in [Feeds -> FeedRecord]
  /\ \A d \in Feeds : GoodFeed(feeds[d])

\* A round written now gets a natural number of ledgers.
LEMMA RoundTtlNat ==
  ASSUME netTtl \in Nat
  PROVE  RoundTtl \in Nat
BY CacheAssumption DEF RoundTtl

\* The window after a new round is a window.
LEMMA NextWindowType ==
  ASSUME now \in Nat, NEW f \in FeedRecord, NEW ttl \in Nat
  PROVE  NextWindow(f, ttl) \in Window
<1>1. CASE f.rounds = <<>>
  BY <1>1 DEF NextWindow, Window
<1>2. CASE f.rounds # <<>>
  <2>1. f.window \in Window /\ f.rounds \in Seq(Round)
    BY DEF FeedRecord
  <2>2. Latest(f) \in Round
    BY <1>2, <2>1 DEF Latest
  <2>3. GrowAt(f, ttl) \in Nat
    BY <2>1, <2>2 DEF GrowAt, Window, Round
  <2>4. WidthAt(f.window) \in Nat
    BY <2>1 DEF WidthAt, Window
  <2> QED
    BY <1>2, <2>3, <2>4 DEF NextWindow, Window
<1> QED
  BY <1>1, <1>2

\* A round that fits the window of a feed fits the one after a new round.
LEMMA StillFits ==
  ASSUME now \in Nat, NEW f \in FeedRecord, GoodFeed(f), NEW ttl \in Nat,
         NEW n \in DOMAIN f.rounds
  PROVE  RoundFits(f.rounds[n], NextWindow(f, ttl))
<1> DEFINE r == f.rounds[n]
           w == f.window
           v == NextWindow(f, ttl)
<1>1. f.rounds \in Seq(Round) /\ w \in Window /\ f.rounds # <<>>
  BY DEF FeedRecord
<1>2. r \in Round /\ Latest(f) \in Round
  BY <1>1 DEF Latest
<1>3. r.seq <= Latest(f).seq
  <2>1. Len(f.rounds) \in DOMAIN f.rounds /\ n \in Nat /\ n <= Len(f.rounds) /\ Len(f.rounds) \in Nat
    BY <1>1
  <2>2. CASE n = Len(f.rounds)
    BY <2>2, <1>2 DEF Latest, Round
  <2>3. CASE n < Len(f.rounds)
    BY <2>1, <2>3 DEF GoodFeed, Latest
  <2> QED
    BY <2>1, <2>2, <2>3
<1>4. /\ v.growTo = ttl
      /\ v.growAt = GrowAt(f, ttl)
      /\ v.shortest = IF WidthAt(w) <= ttl THEN WidthAt(w) ELSE ttl
  BY <1>1 DEF NextWindow
<1>5. RoundFits(r, w)
  BY DEF GoodFeed
<1>6. /\ r.seq \in Nat /\ r.ttl \in Nat /\ Latest(f).seq \in Nat
      /\ w.growTo \in Nat /\ w.growAt \in Nat /\ w.shortest \in Nat
  BY <1>1, <1>2 DEF Round, Window
<1>7. r.ttl >= v.growTo \/ r.seq + v.growTo < v.growAt
  BY <1>3, <1>4, <1>5, <1>6 DEF RoundFits, GrowAt
<1>8. r.ttl >= v.shortest \/ r.seq + v.shortest < now
  BY <1>4, <1>5, <1>6 DEF RoundFits, WidthAt
<1> QED
  BY <1>5, <1>7, <1>8 DEF RoundFits

\* A new round fits the window it makes.
LEMMA NewFits ==
  ASSUME now \in Nat, NEW f \in FeedRecord, NEW ttl \in Nat, NEW ts \in Nat
  PROVE  RoundFits([ts |-> ts, seq |-> now, ttl |-> ttl], NextWindow(f, ttl))
<1> DEFINE v == NextWindow(f, ttl)
<1>1. v \in Window
  BY NextWindowType
<1>2. v.growTo = ttl /\ v.shortest <= ttl
  <2>1. CASE f.rounds = <<>>
    BY <2>1 DEF NextWindow
  <2>2. CASE f.rounds # <<>>
    <3>1. WidthAt(f.window) \in Nat
      BY DEF WidthAt, FeedRecord, Window
    <3> QED
      BY <2>2, <3>1 DEF NextWindow
  <2> QED
    BY <2>1, <2>2
<1>3. v.shortest \in Nat
  BY <1>1 DEF Window
<1> QED
  BY <1>2, <1>3 DEF RoundFits

\* Recording keeps a feed good.
LEMMA RecordGood ==
  ASSUME now \in Nat, netTtl \in Nat, NEW f \in FeedRecord, GoodFeed(f), NEW ts \in Nat
  PROVE  GoodFeed(Record(f, ts))
<1>1. CASE ts <= LatestTs(f)
  BY <1>1 DEF Record
<1>2. CASE ~(ts <= LatestTs(f))
  <2> DEFINE r == [ts |-> ts, seq |-> now, ttl |-> RoundTtl]
             v == NextWindow(f, RoundTtl)
             g == [f EXCEPT !.rounds = Append(@, r), !.window = v]
  <2>1. Record(f, ts) = g
    BY <1>2 DEF Record
  <2>2. RoundTtl \in Nat
    BY RoundTtlNat
  <2>3. r \in Round /\ v \in Window
    BY <2>2, NextWindowType DEF Round
  <2>4. f.rounds \in Seq(Round) /\ f.frozen \in BOOLEAN
    BY DEF FeedRecord
  <2>5. g.rounds = Append(f.rounds, r) /\ g.window = v /\ g.frozen = f.frozen
    BY DEF FeedRecord
  <2>6. g \in FeedRecord
    <3>1. Append(f.rounds, r) \in Seq(Round)
      BY <2>3, <2>4
    <3> HIDE DEF r, v
    <3> QED
      BY <2>3, <3>1 DEF FeedRecord
  <2>7. ASSUME NEW n \in DOMAIN g.rounds
        PROVE  RoundFits(g.rounds[n], v)
    <3>1. CASE n \in DOMAIN f.rounds
      <4>1. g.rounds[n] = f.rounds[n]
        BY <3>1, <2>4, <2>5
      <4> QED
        BY <3>1, <4>1, <2>2, StillFits
    <3>2. CASE n \notin DOMAIN f.rounds
      <4>1. g.rounds[n] = r
        BY <3>2, <2>4, <2>5, <2>7
      <4> QED
        BY <4>1, <2>2, NewFits
    <3> QED
      BY <3>1, <3>2
  <2>8. ASSUME NEW m \in DOMAIN g.rounds, NEW n \in DOMAIN g.rounds, m < n
        PROVE  g.rounds[m].seq <= g.rounds[n].seq /\ g.rounds[m].ts <= g.rounds[n].ts
    <3>1. m \in DOMAIN f.rounds /\ g.rounds[m] = f.rounds[m]
      BY <2>4, <2>5, <2>8
    <3>2. CASE n \in DOMAIN f.rounds
      <4>1. g.rounds[n] = f.rounds[n]
        BY <3>2, <2>4, <2>5
      <4> QED
        BY <3>1, <3>2, <4>1, <2>8 DEF GoodFeed
    <3>3. CASE n \notin DOMAIN f.rounds
      <4>1. g.rounds[n] = r
        BY <3>3, <2>4, <2>5, <2>8
      <4> DEFINE k == Len(f.rounds)
      <4>2. k \in DOMAIN f.rounds /\ m <= k /\ k \in Nat /\ m \in Nat /\ f.rounds # <<>>
        BY <2>4, <3>1
      <4>3. f.rounds[m].ts <= f.rounds[k].ts
        <5>1. m = k \/ m < k
          BY <4>2
        <5>2. f.rounds[k] \in Round
          BY <2>4, <4>2
        <5>3. f.rounds[k].ts \in Nat
          BY <5>2 DEF Round
        <5> QED BY <3>1, <4>2, <5>1, <5>3 DEF GoodFeed
      <4>4. LatestTs(f) = f.rounds[k].ts
        BY <4>2 DEF LatestTs, Latest
      <4>5. f.rounds[m].ts \in Nat /\ f.rounds[k].ts \in Nat
        <5>1. f.rounds[m] \in Round /\ f.rounds[k] \in Round
          BY <2>4, <3>1, <4>2
        <5> QED BY <5>1 DEF Round
      <4>6. f.rounds[m].ts <= ts
        BY <1>2, <4>3, <4>4, <4>5, SMTT(30)
      <4>7. f.rounds[m].seq <= now
        BY <3>1 DEF GoodFeed, RoundFits
      <4> QED
        BY <3>1, <4>1, <4>6, <4>7
    <3> QED
      BY <3>2, <3>3
  <2> HIDE DEF g
  <2> QED
    BY <2>1, <2>5, <2>6, <2>7, <2>8 DEF GoodFeed
<1> QED
  BY <1>1, <1>2

GoodFeeds(fs) == fs \in [Feeds -> FeedRecord] /\ \A d \in Feeds : GoodFeed(fs[d])

\* An entry of a report keeps every feed good.
LEMMA EntryGood ==
  ASSUME now \in Nat, netTtl \in Nat, NEW fs, GoodFeeds(fs),
         NEW p \in Perms, NEW e \in Entry
  PROVE  GoodFeeds(RecordEntry(fs, p, e))
<1>1. CASE p \notin perms[e.id]
  BY <1>1 DEF RecordEntry
<1>2. CASE p \in perms[e.id]
  <2>1. e.id \in Feeds /\ e.ts \in Nat
    BY CacheAssumption DEF Entry
  <2>2. fs[e.id] \in FeedRecord /\ GoodFeed(fs[e.id])
    BY <2>1 DEF GoodFeeds
  <2>3. GoodFeed(Record(fs[e.id], e.ts))
    BY <2>1, <2>2, RecordGood
  <2>4. RecordEntry(fs, p, e) = [fs EXCEPT ![e.id] = Record(fs[e.id], e.ts)]
    BY <1>2 DEF RecordEntry
  <2>5. Record(fs[e.id], e.ts) \in FeedRecord
    BY <2>3 DEF GoodFeed
  <2> QED
    BY <2>1, <2>3, <2>4, <2>5 DEF GoodFeeds
<1> QED
  BY <1>1, <1>2

\* The cache's invariant holds throughout.
LEMMA CacheInvariant == Spec => []CacheInv
<1>1. Init => CacheInv
  <2> SUFFICES ASSUME Init PROVE CacheInv
    OBVIOUS
  <2>1. now = 1 /\ netTtl \in NetTtls
    BY LedgerAssumption DEF Init, LedgerInit
  <2>2. feeds = [d \in Feeds |-> NoFeed]
    BY DEF Init, CacheInit
  <2>3. NoFeed \in FeedRecord /\ NoFeed.rounds = <<>>
    BY DEF NoFeed, FeedRecord, Window
  <2>4. GoodFeed(NoFeed)
    BY <2>3 DEF GoodFeed
  <2> QED
    BY <2>1, <2>2, <2>3, <2>4, LedgerAssumption DEF CacheInv
<1>2. CacheInv /\ [Next]_vars => CacheInv'
  <2> SUFFICES ASSUME CacheInv, [Next]_vars PROVE CacheInv'
    OBVIOUS
  <2>0. GoodFeeds(feeds) /\ now \in Nat /\ netTtl \in Nat
    BY DEF CacheInv, GoodFeeds
  <2>1. CASE UNCHANGED <<now, netTtl, feeds>>
    BY <2>1 DEF CacheInv, GoodFeed, RoundFits
  <2>2. CASE UNCHANGED feeds /\ now' \in Nat /\ now <= now' /\ netTtl' \in Nat
    <3>1. ASSUME NEW d \in Feeds, NEW n \in DOMAIN feeds[d].rounds
          PROVE  RoundFits(feeds[d].rounds[n], feeds[d].window)'
      <4> DEFINE r == feeds[d].rounds[n]
                 w == feeds[d].window
      <4>1. feeds[d] \in FeedRecord /\ RoundFits(r, w)
        BY DEF CacheInv, GoodFeed
      <4>2. r \in Round /\ w \in Window
        BY <4>1 DEF FeedRecord
      <4>3. r' = r /\ w' = w
        BY <2>2
      <4> QED
        BY <4>1, <4>2, <4>3, <2>0, <2>2 DEF RoundFits, Round, Window
    <3> QED
      BY <2>2, <3>1 DEF CacheInv, GoodFeed
  <2>3. CASE UNCHANGED <<now, netTtl>> /\ GoodFeeds(feeds')
    BY <2>0, <2>3 DEF CacheInv, GoodFeeds, GoodFeed, RoundFits
  <2>4. CASE Close
    <3>1. CASE CloseLedger
      BY <2>4, <3>1, <2>2, <2>0 DEF Close, CloseLedger, cacheVars
    <3>2. CASE Upgrade
      BY <2>4, <3>2, <2>2, <2>0, LedgerAssumption DEF Close, Upgrade, cacheVars
    <3> QED
      BY <2>4, <3>1, <3>2 DEF Close
  <2>5. CASE Forwarding
    BY <2>1, <2>5 DEF Forwarding, ledgerVars, cacheVars
  <2>6. CASE Limiting
    BY <2>1, <2>6 DEF Limiting, ledgerVars, cacheVars
  <2>7. CASE Caching
    <3>0. UNCHANGED <<now, netTtl>>
      BY <2>7 DEF Caching, ledgerVars
    <3>1. ASSUME NEW p \in Perms, NEW a \in Entry, NEW b \in Entry, on_report(p, a, b)
          PROVE  CacheInv'
      <4>1. GoodFeeds(RecordEntry(feeds, p, a))
        BY <2>0, EntryGood
      <4>2. GoodFeeds(RecordEntry(RecordEntry(feeds, p, a), p, b))
        BY <2>0, <4>1, EntryGood
      <4> QED
        BY <4>2, <3>0, <3>1, <2>3 DEF on_report
    <3>2. ASSUME NEW d \in Feeds, NEW frozen \in BOOLEAN, set_feed_frozen(d, frozen)
          PROVE  CacheInv'
      <4>1. feeds' = [feeds EXCEPT ![d] = [feeds[d] EXCEPT !.frozen = frozen]]
        BY <3>2 DEF set_feed_frozen
      <4>2. feeds[d] \in FeedRecord /\ GoodFeed(feeds[d]) /\ feeds \in [Feeds -> FeedRecord]
        BY <2>0 DEF GoodFeeds
      <4> DEFINE g == [feeds[d] EXCEPT !.frozen = frozen]
      <4>3. g \in FeedRecord /\ g.rounds = feeds[d].rounds /\ g.window = feeds[d].window
        BY <4>2 DEF FeedRecord
      <4>4. GoodFeed(g)
        BY <4>2, <4>3 DEF GoodFeed
      <4> HIDE DEF g
      <4>5. GoodFeeds(feeds')
        BY <4>1, <4>2, <4>3, <4>4, <2>0 DEF GoodFeeds, g
      <4> QED
        BY <3>0, <4>5, <2>3
    <3>3. CASE UNCHANGED feeds
      BY <3>0, <3>3, <2>1
    <3> QED
      BY <2>7, <3>1, <3>2, <3>3
         DEF Caching, CacheNext, set_feed_configs, remove_feed_configs,
             add_feed_admin, remove_feed_admin
  <2>8. CASE UNCHANGED vars
    BY <2>1, <2>8 DEF vars, ledgerVars, cacheVars
  <2>9. CASE Siloing \/ Sending \/ Verifying
    BY <2>1, <2>9 DEF Siloing, Sending, Verifying, ledgerVars, cacheVars
  <2> QED
    BY <2>4, <2>5, <2>6, <2>7, <2>8, <2>9 DEF Next
<1> QED
  BY <1>1, <1>2, PTL DEF Spec

\* read_round's answers have no gap, whatever lives the network gives the
\* rounds: the demand search.rs makes of its probe.
THEOREM ReadableSuffixHolds == Spec => []ReadableSuffix
<1>1. CacheInv => ReadableSuffix
  <2> SUFFICES ASSUME CacheInv, NEW d \in Feeds,
                      NEW m \in DOMAIN feeds[d].rounds, NEW n \in DOMAIN feeds[d].rounds,
                      m < n, Readable(feeds[d], m)
               PROVE  Readable(feeds[d], n)
    BY DEF ReadableSuffix
  <2> DEFINE f == feeds[d]
             w == f.window
             a == f.rounds[m]
             b == f.rounds[n]
  <2>1. f \in FeedRecord /\ GoodFeed(f) /\ now \in Nat
    BY DEF CacheInv
  <2>2. f.rounds \in Seq(Round) /\ w \in Window
    BY <2>1 DEF FeedRecord
  <2>3. a \in Round /\ b \in Round /\ m # Len(f.rounds)
    BY <2>2
  <2>4. a.seq + WidthAt(w) >= now
    BY <2>3 DEF Readable
  <2>5. a.seq <= b.seq /\ RoundFits(b, w)
    BY <2>1 DEF GoodFeed
  <2>6. Stored(b) /\ b.seq + WidthAt(w) >= now
    <3>1. /\ a.seq \in Nat /\ b.seq \in Nat /\ b.ttl \in Nat
          /\ w.growTo \in Nat /\ w.growAt \in Nat /\ w.shortest \in Nat
      BY <2>2, <2>3 DEF Round, Window
    <3> HIDE DEF a, b, w
    <3>2. WidthAt(w) \in Nat
      BY <3>1 DEF WidthAt
    <3>3. b.seq + WidthAt(w) >= now
      BY <2>1, <2>4, <2>5, <3>1, <3>2
    <3>4. b.ttl >= WidthAt(w)
      BY <2>1, <2>5, <3>1, <3>3 DEF RoundFits, WidthAt
    <3> QED
      BY <2>1, <3>1, <3>2, <3>3, <3>4 DEF Stored
  <2> QED
    BY <2>6 DEF Readable
<1> QED
  BY <1>1, CacheInvariant, PTL

\* The search. What was passed over below lo and above hi is on its side of
\* the answer, and the best round so far is remembered.
Searching == [lo : Int, hi : Int, found : Int]

SearchOK(f, ts, after, s, n) ==
  LET len == Len(f.rounds) IN
  /\ s \in Searching /\ 1 <= s.lo /\ s.hi <= len /\ s.lo <= s.hi + 1
  /\ s.lo <= s.hi => s.hi - s.lo + 1 <= len - n
  /\ \A m \in 1 .. len :
       /\ m < s.lo => (Accept(f, m, ts, after) <=> ~after)
       /\ m > s.hi => (Accept(f, m, ts, after) <=> after)
  /\ after  => s.found = IF s.hi < len THEN s.hi + 1 ELSE 0
  /\ ~after => s.found = IF s.lo > 1 /\ Readable(f, s.lo - 1) THEN s.lo - 1 ELSE 0

SortedFeed(f) ==
  /\ f \in FeedRecord
  /\ \A m, n \in DOMAIN f.rounds : m < n =>
       f.rounds[m].ts <= f.rounds[n].ts /\ (Readable(f, m) => Readable(f, n))

\* What a search asks of a round is monotonic in the round.
LEMMA AcceptMonotonic ==
  ASSUME NEW f, SortedFeed(f), NEW ts \in Nat, NEW after \in BOOLEAN,
         NEW m \in 1 .. Len(f.rounds), NEW n \in 1 .. Len(f.rounds), m < n
  PROVE  /\ after /\ Accept(f, m, ts, after) => Accept(f, n, ts, after)
         /\ ~after /\ Accept(f, n, ts, after) => Accept(f, m, ts, after)
<1>1. f.rounds \in Seq(Round)
  BY DEF SortedFeed, FeedRecord
<1>2. m \in DOMAIN f.rounds /\ n \in DOMAIN f.rounds
  BY <1>1
<1>3. f.rounds[m] \in Round /\ f.rounds[n] \in Round
  BY <1>1, <1>2
<1>4. f.rounds[m].ts \in Nat /\ f.rounds[n].ts \in Nat
  BY <1>3 DEF Round
<1>5. f.rounds[m].ts <= f.rounds[n].ts /\ (Readable(f, m) => Readable(f, n))
  BY <1>2 DEF SortedFeed
<1>6. CASE after
  <2>1. Accept(f, m, ts, after) => Readable(f, m) /\ f.rounds[m].ts >= ts
    BY <1>6 DEF Accept
  <2>2. Readable(f, n) /\ f.rounds[n].ts >= ts => Accept(f, n, ts, after)
    BY <1>6 DEF Accept
  <2>3. f.rounds[m].ts >= ts => f.rounds[n].ts >= ts
    BY <1>4, <1>5
  <2> QED BY <1>5, <1>6, <2>1, <2>2, <2>3
<1>7. CASE ~after
  <2>1. Accept(f, n, ts, after) => (Readable(f, n) => f.rounds[n].ts <= ts)
    BY <1>7 DEF Accept
  <2>2. (Readable(f, m) => f.rounds[m].ts <= ts) => Accept(f, m, ts, after)
    BY <1>7 DEF Accept
  <2>3. f.rounds[n].ts <= ts => f.rounds[m].ts <= ts
    BY <1>4, <1>5
  <2> QED BY <1>5, <1>7, <2>1, <2>2, <2>3
<1> QED BY <1>6, <1>7

\* A pass keeps what the search knows.
LEMMA NarrowKeeps ==
  ASSUME NEW f, SortedFeed(f), NEW ts \in Nat, NEW after \in BOOLEAN, NEW s,
         NEW n \in 0 .. Len(f.rounds), SearchOK(f, ts, after, s, n), s.lo <= s.hi
  PROVE  SearchOK(f, ts, after, Narrow(f, ts, after, s), n + 1)
<1> DEFINE len == Len(f.rounds)
           mid == s.lo + (s.hi - s.lo) \div 2
           hit == IF Accept(f, mid, ts, after) /\ Readable(f, mid) THEN mid ELSE s.found
           A(m) == Accept(f, m, ts, after)
           R(m) == Readable(f, m)
<1>0. len \in Nat /\ n \in Nat
  <2>1. f.rounds \in Seq(Round)
    BY DEF SortedFeed, FeedRecord
  <2> QED BY <2>1
<1>1. /\ s.lo \in Int /\ s.hi \in Int /\ s.found \in Int
      /\ 1 <= s.lo /\ s.hi <= len /\ s.hi - s.lo + 1 <= len - n
  BY DEF SearchOK, Searching
<1>2. \A m \in 1 .. len : /\ m < s.lo => (A(m) <=> ~after)
                          /\ m > s.hi => (A(m) <=> after)
  BY DEF SearchOK
<1>3. /\ after  => s.found = IF s.hi < len THEN s.hi + 1 ELSE 0
      /\ ~after => s.found = IF s.lo > 1 /\ R(s.lo - 1) THEN s.lo - 1 ELSE 0
  BY DEF SearchOK
<1>4. mid \in Int /\ s.lo <= mid /\ mid <= s.hi /\ mid \in 1 .. len
  BY <1>0, <1>1, SMTT(30)
<1>5. \A m \in 1 .. len : m < mid => (after /\ A(m) => A(mid)) /\ (~after /\ A(mid) => A(m))
  BY <1>4, AcceptMonotonic
<1>6. \A m \in 1 .. len : m > mid => (after /\ A(mid) => A(m)) /\ (~after /\ A(m) => A(mid))
  BY <1>4, AcceptMonotonic
<1>7. after /\ A(mid) => R(mid)
  BY DEF Accept
<1>8. \A m \in 1 .. len : m < mid /\ R(m) => R(mid)
  <2>1. f.rounds \in Seq(Round)
    BY DEF SortedFeed, FeedRecord
  <2>2. DOMAIN f.rounds = 1 .. len
    BY <2>1
  <2> HIDE DEF mid
  <2> QED BY <2>2, <1>4 DEF SortedFeed
<1>9. Narrow(f, ts, after, s) =
        IF A(mid) = after THEN [lo |-> s.lo, hi |-> mid - 1, found |-> hit]
                          ELSE [lo |-> mid + 1, hi |-> s.hi, found |-> hit]
  BY DEF Narrow
<1>10. A(mid) \in BOOLEAN
  BY DEF Accept, Readable
<1>11. hit = IF A(mid) /\ R(mid) THEN mid ELSE s.found
  OBVIOUS
<1> HIDE DEF mid, hit, A, R, len
<1>12. CASE A(mid) <=> after
  <2> DEFINE t == [lo |-> s.lo, hi |-> mid - 1, found |-> hit]
  <2>1. Narrow(f, ts, after, s) = t
    BY <1>9, <1>10, <1>12
  <2>2. t.lo = s.lo /\ t.hi = mid - 1 /\ t.found = hit /\ hit \in Int
    BY <1>1, <1>4, <1>11
  <2>3. t \in Searching
    BY <1>1, <1>4, <2>2 DEF Searching
  <2> HIDE DEF t
  <2>4. \A m \in 1 .. len : /\ m < t.lo => (A(m) <=> ~after)
                            /\ m > t.hi => (A(m) <=> after)
    <3> SUFFICES ASSUME NEW m \in 1 .. len, m > mid - 1 PROVE A(m) <=> after
      BY <1>2, <2>2
    <3>1. m = mid \/ m > mid
      BY <1>4
    <3> QED BY <1>6, <1>12, <3>1
  <2>5. after => t.found = IF t.hi < len THEN t.hi + 1 ELSE 0
    <3> SUFFICES ASSUME after PROVE hit = mid /\ mid - 1 < len /\ (mid - 1) + 1 = mid
      BY <2>2
    <3> QED BY <1>0, <1>4, <1>7, <1>11, <1>12
  <2>6. ~after => t.found = IF t.lo > 1 /\ R(t.lo - 1) THEN t.lo - 1 ELSE 0
    BY <1>3, <1>11, <1>12, <2>2
  <2>7. 1 <= t.lo /\ t.hi <= len /\ t.lo <= t.hi + 1 /\ t.hi - t.lo + 1 <= len - (n + 1)
    BY <1>0, <1>1, <1>4, <2>2
  <2>8. SearchOK(f, ts, after, t, n + 1)
    BY <2>3, <2>4, <2>5, <2>6, <2>7 DEF SearchOK, A, R, len
  <2> QED BY <2>1, <2>8
<1>13. CASE ~(A(mid) <=> after)
  <2> DEFINE t == [lo |-> mid + 1, hi |-> s.hi, found |-> hit]
  <2>1. Narrow(f, ts, after, s) = t
    BY <1>9, <1>10, <1>13
  <2>2. t.lo = mid + 1 /\ t.hi = s.hi /\ t.found = hit /\ hit \in Int
    BY <1>1, <1>4, <1>11
  <2>3. t \in Searching
    BY <1>1, <1>4, <2>2 DEF Searching
  <2> HIDE DEF t
  <2>4. \A m \in 1 .. len : /\ m < t.lo => (A(m) <=> ~after)
                            /\ m > t.hi => (A(m) <=> after)
    <3> SUFFICES ASSUME NEW m \in 1 .. len, m < mid + 1 PROVE A(m) <=> ~after
      BY <1>2, <2>2
    <3>1. m = mid \/ m < mid
      BY <1>4
    <3> QED BY <1>5, <1>13, <3>1
  <2>5. after => t.found = IF t.hi < len THEN t.hi + 1 ELSE 0
    BY <1>3, <1>11, <1>13, <2>2
  <2>6. ~after => t.found = IF t.lo > 1 /\ R(t.lo - 1) THEN t.lo - 1 ELSE 0
    <3> SUFFICES ASSUME ~after
                 PROVE  hit = IF mid + 1 > 1 /\ R((mid + 1) - 1) THEN (mid + 1) - 1 ELSE 0
      BY <2>2
    <3>1. (mid + 1) - 1 = mid /\ mid + 1 > 1 /\ A(mid)
      BY <1>4, <1>13
    <3>2. CASE R(mid)
      BY <1>11, <3>1, <3>2
    <3>3. CASE ~R(mid)
      <4>1. s.lo > 1 => s.lo - 1 \in 1 .. len /\ s.lo - 1 < mid
        BY <1>0, <1>1, <1>4
      <4>2. s.found = 0
        BY <1>3, <1>8, <3>3, <4>1
      <4> QED BY <1>11, <3>1, <3>3, <4>2
    <3> QED BY <3>2, <3>3
  <2>7. /\ 1 <= t.lo /\ t.hi <= len /\ t.lo <= t.hi + 1
        /\ t.hi - t.lo + 1 <= len - (n + 1)
    BY <1>0, <1>1, <1>4, <2>2, SMTT(30)
  <2>8. SearchOK(f, ts, after, t, n + 1)
    BY <2>3, <2>4, <2>5, <2>6, <2>7 DEF SearchOK, A, R, len
  <2> QED BY <2>1, <2>8
<1> QED BY <1>12, <1>13

\* The passes of a search, and what the last one knows.
LEMMA SearchEnds ==
  ASSUME NEW f, SortedFeed(f), NEW ts \in Nat, NEW after \in BOOLEAN
  PROVE  \E s : /\ FindRound(f, ts, after) = s.found
                /\ SearchOK(f, ts, after, s, Len(f.rounds))
<1> DEFINE k == Len(f.rounds)
           V == Searching
           start == [lo |-> 1, hi |-> k, found |-> 0]
           Go(s) == IF s.lo > s.hi THEN s ELSE Narrow(f, ts, after, s)
           Step(g, n) == IF n = 0 THEN start ELSE Go(g[n - 1])
           u == CHOOSE g : g = [n \in 0 .. k |-> Step(g, n)]
           step == [n \in 1 .. k |-> [s \in V |-> Go(s)]]
<1>1. k \in Nat
  <2>1. f.rounds \in Seq(Round)
    BY DEF SortedFeed, FeedRecord
  <2> QED BY <2>1
<1>2. ASSUME NEW s \in V PROVE Go(s) \in V
  <2>1. s.lo \in Int /\ s.hi \in Int /\ s.found \in Int
    BY DEF Searching
  <2> DEFINE mid == s.lo + (s.hi - s.lo) \div 2
             hit == IF Accept(f, mid, ts, after) /\ Readable(f, mid) THEN mid ELSE s.found
  <2>2. mid \in Int
    BY <2>1
  <2>3. hit \in Int
    <3> HIDE DEF mid
    <3> QED BY <2>1, <2>2
  <2>4. Narrow(f, ts, after, s) \in { [lo |-> s.lo, hi |-> mid - 1, found |-> hit],
                                      [lo |-> mid + 1, hi |-> s.hi, found |-> hit] }
    BY DEF Narrow
  <2> HIDE DEF mid, hit
  <2>5. Narrow(f, ts, after, s) \in V
    BY <2>1, <2>2, <2>3, <2>4 DEF Searching
  <2> QED BY <2>5
<1>3. start \in V
  BY <1>1 DEF Searching
<1> HIDE DEF V, Go, start
<1>4. step \in StepFunctions(V, k)
  BY <1>2 DEF StepFunctions
<1>5. PICK w : Stepwise(w, V, start, k, step)
  <2> HIDE DEF step, k
  <2> QED BY <1>1, <1>3, <1>4, StepwiseFunction
<1>6. w \in [0 .. k -> V] /\ w[0] = start /\ \A n \in 1 .. k : w[n] = Go(w[n - 1])
  <2>1. w \in [0 .. k -> V] /\ w[0] = start /\ \A n \in 1 .. k : w[n] = step[n][w[n - 1]]
    BY <1>5 DEF Stepwise
  <2>2. \A n \in 1 .. k : n - 1 \in 0 .. k
    BY <1>1
  <2>3. \A n \in 1 .. k : w[n - 1] \in V
    <3> HIDE DEF k
    <3> QED BY <2>1, <2>2
  <2> QED BY <2>1, <2>3
<1>7. w = [n \in 0 .. k |-> Step(w, n)]
  <2>1. ASSUME NEW n \in 0 .. k PROVE w[n] = Step(w, n)
    <3>1. n # 0 => n \in 1 .. k
      BY <1>1
    <3> QED BY <1>6, <3>1
  <2>2. w = [n \in 0 .. k |-> w[n]]
    BY <1>6
  <2> HIDE DEF Step
  <2> QED BY <2>1, <2>2
<1>8. u = [n \in 0 .. k |-> Step(u, n)]
  <2> HIDE DEF Step
  <2> QED BY <1>7
<1>9. FindRound(f, ts, after) = u[k].found
  BY DEF FindRound, Go, start
<1> HIDE DEF u
<1>10. u[0] = start /\ \A n \in 1 .. k : u[n] = Go(u[n - 1])
  <2>1. \A n \in 0 .. k : u[n] = Step(u, n)
    <3> HIDE DEF Step
    <3> QED BY <1>8
  <2>2. \A n \in 1 .. k : n \in 0 .. k /\ n # 0
    BY <1>1
  <2> QED BY <1>1, <2>1, <2>2
<1> DEFINE T == {n \in Nat : n <= k => SearchOK(f, ts, after, u[n], n)}
<1>11. 0 \in T
  <2>1. start.lo = 1 /\ start.hi = k /\ start.found = 0 /\ start \in Searching
    BY <1>1 DEF start, Searching
  <2>2. SearchOK(f, ts, after, start, 0)
    BY <1>1, <2>1 DEF SearchOK
  <2> QED BY <1>10, <2>2
<1>12. ASSUME NEW n \in Nat, n \in T PROVE n + 1 \in T
  <2> SUFFICES ASSUME n + 1 <= k PROVE SearchOK(f, ts, after, u[n + 1], n + 1)
    OBVIOUS
  <2>1. n \in 0 .. k /\ n + 1 \in 1 .. k /\ (n + 1) - 1 = n /\ SearchOK(f, ts, after, u[n], n)
    BY <1>1, <1>12
  <2>2. u[n + 1] = Go(u[n])
    BY <1>10, <2>1
  <2>3. u[n].lo \in Int /\ u[n].hi \in Int
    BY <2>1 DEF SearchOK, Searching
  <2>4. CASE u[n].lo > u[n].hi
    <3>1. u[n + 1] = u[n]
      BY <2>2, <2>4 DEF Go
    <3>2. SearchOK(f, ts, after, u[n], n + 1)
      BY <2>1, <2>3, <2>4 DEF SearchOK
    <3> QED BY <3>1, <3>2
  <2>5. CASE ~(u[n].lo > u[n].hi)
    <3>1. u[n + 1] = Narrow(f, ts, after, u[n]) /\ u[n].lo <= u[n].hi
      BY <2>2, <2>3, <2>5 DEF Go
    <3> HIDE DEF T
    <3> QED BY <2>1, <3>1, NarrowKeeps
  <2> QED BY <2>4, <2>5
<1>13. SearchOK(f, ts, after, u[k], k)
  <2> HIDE DEF T
  <2>1. Nat \subseteq T
    BY <1>11, <1>12, NatSetInduction
  <2> QED BY <1>1, <2>1 DEF T
<1> QED BY <1>9, <1>13

\* Every search of a feed's rounds, in both directions and for every target,
\* ends at the round a scan of the readable ones would return: boundary of
\* search.rs, whose passes read_round answers.
THEOREM SearchesAreExact == Spec => []FindRoundExact
<1>1. CacheInv /\ ReadableSuffix => FindRoundExact
  <2> SUFFICES ASSUME CacheInv, ReadableSuffix, NEW d \in Feeds, NEW ts \in 0 .. MaxTime + 1
               PROVE  LET f == feeds[d]
                          Seen == {n \in DOMAIN f.rounds : Readable(f, n)}
                          Before == {n \in Seen : f.rounds[n].ts <= ts}
                          After  == {n \in Seen : f.rounds[n].ts >= ts}
                          before == FindRound(f, ts, FALSE)
                          after  == FindRound(f, ts, TRUE)
                      IN  /\ IF Before = {} THEN before = 0
                             ELSE before \in Before /\ \A n \in Before : n <= before
                          /\ IF After = {} THEN after = 0
                             ELSE after \in After /\ \A n \in After : after <= n
    BY DEF FindRoundExact
  <2> DEFINE f == feeds[d]
             k == Len(f.rounds)
             Seen == {n \in DOMAIN f.rounds : Readable(f, n)}
             Before == {n \in Seen : f.rounds[n].ts <= ts}
             After  == {n \in Seen : f.rounds[n].ts >= ts}
  <2>1. f \in FeedRecord /\ GoodFeed(f) /\ ts \in Nat
    BY CacheAssumption DEF CacheInv
  <2>2. SortedFeed(f)
    BY <2>1 DEF SortedFeed, GoodFeed, ReadableSuffix
  <2>3. f.rounds \in Seq(Round) /\ k \in Nat /\ DOMAIN f.rounds = 1 .. k
    <3>1. f.rounds \in Seq(Round)
      BY <2>1 DEF FeedRecord
    <3> QED BY <3>1
  <2>4. \A n \in 1 .. k : /\ n \in Before <=> Readable(f, n) /\ f.rounds[n].ts <= ts
                          /\ n \in After  <=> Readable(f, n) /\ f.rounds[n].ts >= ts
    BY <2>3
  <2>5. Before \subseteq 1 .. k /\ After \subseteq 1 .. k
    BY <2>3
  <2> HIDE DEF f, k, Seen, Before, After
  <2>6. IF Before = {} THEN FindRound(f, ts, FALSE) = 0
        ELSE FindRound(f, ts, FALSE) \in Before /\ \A n \in Before : n <= FindRound(f, ts, FALSE)
    <3>1. PICK s : FindRound(f, ts, FALSE) = s.found /\ SearchOK(f, ts, FALSE, s, k)
      BY <2>1, <2>2, SearchEnds DEF k
    <3>2. /\ s.lo \in Int /\ s.hi \in Int /\ 1 <= s.lo /\ s.hi <= k /\ s.lo = s.hi + 1
          /\ s.found = IF s.lo > 1 /\ Readable(f, s.lo - 1) THEN s.lo - 1 ELSE 0
      BY <2>3, <3>1 DEF SearchOK, Searching, k
    <3>3. \A m \in 1 .. k : /\ m < s.lo => Accept(f, m, ts, FALSE)
                            /\ m > s.hi => ~Accept(f, m, ts, FALSE)
      BY <3>1 DEF SearchOK, k
    <3>4. \A m \in 1 .. k : m \in Before <=> m < s.lo /\ Readable(f, m)
      <4> SUFFICES ASSUME NEW m \in 1 .. k PROVE m \in Before <=> m < s.lo /\ Readable(f, m)
        OBVIOUS
      <4>1. m < s.lo \/ m > s.hi
        BY <3>2
      <4>2. Accept(f, m, ts, FALSE) <=> (Readable(f, m) => f.rounds[m].ts <= ts)
        BY DEF Accept
      <4>3. ~(m < s.lo /\ m > s.hi)
        BY <3>2
      <4> QED BY <2>4, <3>3, <4>1, <4>2, <4>3
    <3>5. \A m, n \in 1 .. k : m < n /\ Readable(f, m) => Readable(f, n)
      BY <2>2, <2>3 DEF SortedFeed
    <3>6. CASE s.lo > 1 /\ Readable(f, s.lo - 1)
      <4>1. s.lo - 1 \in Before /\ s.found = s.lo - 1
        BY <2>3, <3>2, <3>4, <3>6
      <4>2. \A n \in Before : n <= s.lo - 1
        BY <2>5, <3>2, <3>4
      <4> QED BY <3>1, <4>1, <4>2
    <3>7. CASE ~(s.lo > 1 /\ Readable(f, s.lo - 1))
      <4>1. ASSUME NEW n \in Before PROVE FALSE
        <5>1. n \in 1 .. k /\ n < s.lo /\ Readable(f, n)
          BY <2>5, <3>4
        <5>2. s.lo - 1 \in 1 .. k /\ (n = s.lo - 1 \/ n < s.lo - 1) /\ s.lo > 1
          BY <2>3, <3>2, <5>1
        <5> QED BY <3>5, <3>7, <5>1, <5>2
      <4>2. Before = {}
        BY <4>1
      <4> QED BY <3>1, <3>2, <3>7, <4>2
    <3> QED BY <3>6, <3>7
  <2>7. IF After = {} THEN FindRound(f, ts, TRUE) = 0
        ELSE FindRound(f, ts, TRUE) \in After /\ \A n \in After : FindRound(f, ts, TRUE) <= n
    <3>1. PICK s : FindRound(f, ts, TRUE) = s.found /\ SearchOK(f, ts, TRUE, s, k)
      BY <2>1, <2>2, SearchEnds DEF k
    <3>2. /\ s.lo \in Int /\ s.hi \in Int /\ 1 <= s.lo /\ s.hi <= k /\ s.lo = s.hi + 1
          /\ s.found = IF s.hi < k THEN s.hi + 1 ELSE 0
      BY <2>3, <3>1 DEF SearchOK, Searching, k
    <3>3. \A m \in 1 .. k : /\ m < s.lo => ~Accept(f, m, ts, TRUE)
                            /\ m > s.hi => Accept(f, m, ts, TRUE)
      BY <3>1 DEF SearchOK, k
    <3>4. \A m \in 1 .. k : m \in After <=> m > s.hi
      <4> SUFFICES ASSUME NEW m \in 1 .. k PROVE m \in After <=> m > s.hi
        OBVIOUS
      <4>1. m < s.lo <=> ~(m > s.hi)
        BY <3>2
      <4>2. Accept(f, m, ts, TRUE) <=> Readable(f, m) /\ f.rounds[m].ts >= ts
        BY DEF Accept
      <4> QED BY <2>4, <3>3, <4>1, <4>2
    <3>6. CASE s.hi < k
      <4>1. s.hi + 1 \in After /\ s.found = s.hi + 1
        BY <2>3, <3>2, <3>4, <3>6
      <4>2. \A n \in After : s.hi + 1 <= n
        BY <2>5, <3>2, <3>4
      <4> QED BY <3>1, <4>1, <4>2
    <3>7. CASE ~(s.hi < k)
      <4>1. After = {}
        BY <2>3, <2>5, <3>2, <3>4, <3>7
      <4> QED BY <3>1, <3>2, <3>7, <4>1
    <3> QED BY <3>6, <3>7
  <2> QED BY <2>6, <2>7 DEF f, Before, After, Seen
<1> QED BY <1>1, CacheInvariant, ReadableSuffixHolds, PTL

-----------------------------------------------------------------------------
(* The rate limiter. What went through since the meter started, with what   *)
(* the bucket would hold now, is within the bound.                          *)

KeyWithin(k) ==
  LET b == buckets[k] IN
  /\ b.tokens <= b.capacity /\ b.updated <= now /\ meter[k].from <= now
  /\ b.enabled =>
       meter[k].used + calculate_refill(b) <= b.capacity + b.rate * (now - meter[k].from)

LimiterInv ==
  /\ now \in Nat
  /\ LimiterTypeOK
  /\ \A k \in Keys : KeyWithin(k)

\* One more ledger adds one more rate.
LEMMA OneMore ==
  ASSUME NEW r \in Nat, NEW x \in Nat
  PROVE  /\ r * (x + 1) = r * x + r /\ r * x \in Nat
         /\ (x + 1) * r = x * r + r /\ x * r \in Nat
OBVIOUS

\* A refill is between what the bucket held and its capacity.
LEMMA RefillBounds ==
  ASSUME now \in Nat, NEW b \in Bucket, b.updated <= now, b.tokens <= b.capacity
  PROVE  /\ calculate_refill(b) \in Nat
         /\ b.tokens <= calculate_refill(b) /\ calculate_refill(b) <= b.capacity
<1>1. /\ b.tokens \in Nat /\ b.updated \in Nat /\ b.capacity \in Nat /\ b.rate \in Nat
      /\ now - b.updated \in Nat
  BY DEF Bucket
<1>2. (now - b.updated) * b.rate \in Nat
  BY <1>1
<1> QED
  BY <1>1, <1>2 DEF calculate_refill

\* The limiter's invariant holds throughout.
LEMMA LimiterInvariant == Spec => []LimiterInv
<1>1. Init => LimiterInv
  <2> SUFFICES ASSUME Init PROVE LimiterInv
    OBVIOUS
  <2>1. now = 1 /\ buckets = [k \in Keys |-> Disabled]
        /\ meter = [k \in Keys |-> [from |-> now, used |-> 0]]
    BY DEF Init, LedgerInit, LimiterInit
  <2>2. LimiterTypeOK
    BY <2>1 DEF LimiterTypeOK, Bucket, Disabled
  <2>3. ASSUME NEW k \in Keys PROVE KeyWithin(k)
    BY <2>1 DEF KeyWithin, Disabled
  <2> QED
    BY <2>1, <2>2, <2>3 DEF LimiterInv
<1>2. LimiterInv /\ [Next]_vars => LimiterInv'
  <2> SUFFICES ASSUME LimiterInv, [Next]_vars PROVE LimiterInv'
    OBVIOUS
  <2>0. /\ now \in Nat /\ buckets \in [Keys -> Bucket]
        /\ meter \in [Keys -> [from : Nat, used : Nat]]
    BY DEF LimiterInv, LimiterTypeOK
  <2>1. CASE UNCHANGED <<now, buckets, meter>>
    BY <2>1 DEF LimiterInv, LimiterTypeOK, KeyWithin, calculate_refill
  <2>2. CASE Close
    <3>1. UNCHANGED <<buckets, meter>>
      BY <2>2 DEF Close, limiterVars
    <3>2. CASE CloseLedger
      <4>1. now' = now + 1
        BY <3>2 DEF CloseLedger
      <4>2. ASSUME NEW k \in Keys PROVE KeyWithin(k)'
        <5> DEFINE b == buckets[k]
                   mt == meter[k]
                   span == now - mt.from
                   idle == now - b.updated
        <5>1. b \in Bucket /\ mt \in [from : Nat, used : Nat] /\ KeyWithin(k)
          BY <2>0 DEF LimiterInv
        <5>2. /\ b.tokens \in Nat /\ b.updated \in Nat /\ b.capacity \in Nat
              /\ b.rate \in Nat /\ mt.from \in Nat /\ mt.used \in Nat
              /\ b.enabled \in BOOLEAN
          BY <5>1 DEF Bucket
        <5>3. /\ b.tokens <= b.capacity /\ b.updated <= now /\ mt.from <= now
              /\ b.enabled => mt.used + calculate_refill(b) <= b.capacity + b.rate * span
          BY <5>1 DEF KeyWithin
        <5>4. span \in Nat /\ idle \in Nat
          BY <2>0, <5>2, <5>3
        <5>5. b.rate * (span + 1) = b.rate * span + b.rate /\ b.rate * span \in Nat
          BY <5>2, <5>4, OneMore
        <5>6. (idle + 1) * b.rate = idle * b.rate + b.rate /\ idle * b.rate \in Nat
          BY <5>2, <5>4, OneMore
        <5>7. now' - mt.from = span + 1 /\ now' - b.updated = idle + 1
          BY <2>0, <4>1, <5>2
        <5>8. calculate_refill(b)' <= calculate_refill(b) + b.rate /\ calculate_refill(b)' \in Nat
              /\ calculate_refill(b) \in Nat
          BY <3>1, <5>2, <5>6, <5>7 DEF calculate_refill
        <5>9. b.enabled => mt.used + calculate_refill(b)' <= b.capacity + b.rate * (span + 1)
          BY <5>2, <5>3, <5>5, <5>8
        <5> QED
          BY <2>0, <3>1, <4>1, <5>2, <5>3, <5>7, <5>9 DEF KeyWithin
      <4> QED
        BY <2>0, <3>1, <4>1, <4>2 DEF LimiterInv, LimiterTypeOK
    <3>3. CASE Upgrade
      BY <3>1, <3>3, <2>1 DEF Upgrade
    <3> QED
      BY <2>2, <3>2, <3>3 DEF Close
  <2>3. CASE Limiting
    <3>0. now' = now
      BY <2>3 DEF Limiting, ledgerVars
    <3>a. ASSUME NEW k \in Keys
          PROVE  /\ buckets[k] \in Bucket /\ meter[k] \in [from : Nat, used : Nat]
                 /\ KeyWithin(k)
      BY <2>0 DEF LimiterInv
    <3>b. ASSUME NEW k \in Keys, buckets'[k] = buckets[k], meter'[k] = meter[k]
          PROVE  KeyWithin(k)'
      BY <3>0, <3>a, <3>b DEF KeyWithin, calculate_refill
    <3>1. ASSUME NEW k \in Keys, NEW amount \in Amounts, consume(k, amount)
          PROVE  LimiterInv'
      <4> DEFINE b == buckets[k]
                 filled == IF now > b.updated THEN calculate_refill(b) ELSE b.tokens
                 g == [b EXCEPT !.tokens = filled - amount, !.updated = now]
                 mt == meter[k]
      <4>1. b \in Bucket /\ mt \in [from : Nat, used : Nat] /\ KeyWithin(k)
        BY <3>a
      <4>2. /\ b.tokens \in Nat /\ b.updated \in Nat /\ b.capacity \in Nat
            /\ b.rate \in Nat /\ mt.from \in Nat /\ mt.used \in Nat
            /\ amount \in Nat
        BY <4>1, LimiterAssumption DEF Bucket
      <4>3. /\ b.tokens <= b.capacity /\ b.updated <= now /\ mt.from <= now
        BY <4>1 DEF KeyWithin
      <4>4. /\ calculate_refill(b) \in Nat
            /\ b.tokens <= calculate_refill(b) /\ calculate_refill(b) <= b.capacity
        BY <2>0, <4>1, <4>3, RefillBounds
      <4>5. /\ b.enabled /\ amount <= filled
            /\ buckets' = [buckets EXCEPT ![k] = g]
            /\ meter' = [meter EXCEPT ![k] = [mt EXCEPT !.used = mt.used + amount]]
        BY <3>1 DEF consume
      <4>6. filled \in Nat /\ filled <= calculate_refill(b)
        BY <4>2, <4>4
      <4>7. filled - amount \in Nat /\ filled - amount <= b.capacity
        BY <4>2, <4>4, <4>5, <4>6
      <4>8. g \in Bucket /\ g.tokens = filled - amount /\ g.updated = now
            /\ g.capacity = b.capacity /\ g.rate = b.rate /\ g.enabled = b.enabled
        BY <2>0, <4>1, <4>7 DEF Bucket
      <4>9. buckets' \in [Keys -> Bucket] /\ buckets'[k] = g
            /\ meter' \in [Keys -> [from : Nat, used : Nat]]
            /\ meter'[k].used = mt.used + amount /\ meter'[k].from = mt.from
        <5> HIDE DEF g, filled
        <5> QED
          BY <2>0, <4>1, <4>2, <4>5, <4>8
      <4> DEFINE h == buckets'[k]
      <4>10. calculate_refill(buckets[k])' = filled - amount
        <5>1. h.tokens = filled - amount /\ h.updated = now /\ h.capacity = b.capacity
          BY <4>8, <4>9
        <5>2. h.rate \in Nat
          BY <4>8, <4>9 DEF Bucket
        <5> HIDE DEF filled, g, h, b
        <5>3. now' - h.updated = 0
          BY <2>0, <3>0, <5>1
        <5>4. (now' - h.updated) * h.rate = 0
          BY <5>2, <5>3
        <5>5. calculate_refill(buckets[k])' =
                IF h.tokens + (now' - h.updated) * h.rate <= h.capacity
                THEN h.tokens + (now' - h.updated) * h.rate ELSE h.capacity
          BY DEF calculate_refill, h
        <5> QED
          BY <4>2, <4>7, <5>1, <5>4, <5>5
      <4>11. b.rate * (now - mt.from) \in Nat
             /\ mt.used + calculate_refill(b) <= b.capacity + b.rate * (now - mt.from)
        BY <2>0, <4>1, <4>2, <4>3, <4>5 DEF KeyWithin
      <4>12. KeyWithin(k)'
        <5>1. (mt.used + amount) + (filled - amount) <= b.capacity + b.rate * (now - mt.from)
          <6> HIDE DEF filled, b, mt
          <6> QED
            BY <4>2, <4>4, <4>6, <4>7, <4>11
        <5>2. /\ h.tokens = filled - amount /\ h.updated = now /\ h.capacity = b.capacity
              /\ h.rate = b.rate
              /\ meter'[k].used = mt.used + amount /\ meter'[k].from = mt.from
          BY <4>8, <4>9
        <5> HIDE DEF filled, g, h, b, mt
        <5>3. h.tokens <= h.capacity /\ h.updated <= now' /\ meter'[k].from <= now'
          BY <2>0, <3>0, <4>3, <4>7, <5>2
        <5>4. meter'[k].used + calculate_refill(buckets[k])'
                <= h.capacity + h.rate * (now' - meter'[k].from)
          BY <3>0, <4>10, <5>1, <5>2
        <5> QED
          BY <5>3, <5>4 DEF KeyWithin, h
      <4>13. ASSUME NEW j \in Keys PROVE KeyWithin(j)'
        <5>1. CASE j = k
          BY <4>12, <5>1
        <5>2. CASE j # k
          BY <2>0, <4>5, <5>2, <3>b
        <5> QED
          BY <5>1, <5>2
      <4> QED
        BY <2>0, <3>0, <4>9, <4>13 DEF LimiterInv, LimiterTypeOK
    <3>2. ASSUME NEW c \in Chains, NEW fast \in BOOLEAN, NEW amount \in Amounts,
                 Transfer(c, fast, amount)
          PROVE  LimiterInv'
      <4>1. Charged(c, fast) \in Keys
        BY DEF Charged, Keys
      <4> QED
        BY <3>1, <3>2, <4>1 DEF Transfer
    <3>3. ASSUME NEW k \in Keys, NEW limit \in Limits, NEW enabled \in BOOLEAN,
                 set_bucket_config(k, limit, enabled)
          PROVE  LimiterInv'
      <4> DEFINE g == [tokens |-> limit.capacity, updated |-> now, enabled |-> enabled,
                       capacity |-> limit.capacity, rate |-> limit.rate]
                 mt == [from |-> now, used |-> 0]
      <4>1. limit.capacity \in Nat /\ limit.rate \in Nat
        BY LimiterAssumption
      <4>2. g \in Bucket /\ mt \in [from : Nat, used : Nat]
        BY <2>0, <4>1 DEF Bucket
      <4>3. buckets' = [buckets EXCEPT ![k] = g] /\ meter' = [meter EXCEPT ![k] = mt]
        BY <3>3 DEF set_bucket_config
      <4>4. (now - now) * limit.rate = 0 /\ limit.rate * (now - now) = 0
        BY <2>0, <4>1
      <4>5. KeyWithin(k)'
        <5>1. buckets'[k] = g /\ meter'[k] = mt
          BY <2>0, <4>3
        <5> QED
          BY <2>0, <3>0, <4>1, <4>4, <5>1 DEF KeyWithin, calculate_refill
      <4>6. ASSUME NEW j \in Keys PROVE KeyWithin(j)'
        <5>1. CASE j = k
          BY <4>5, <5>1
        <5>2. CASE j # k
          BY <2>0, <4>3, <5>2, <3>b
        <5> QED
          BY <5>1, <5>2
      <4> QED
        BY <2>0, <3>0, <4>2, <4>3, <4>6 DEF LimiterInv, LimiterTypeOK
    <3>4. ASSUME NEW c \in Chains, remove_buckets(c)
          PROVE  LimiterInv'
      <4>1. buckets' = [k \in Keys |-> IF k[1] = c THEN Disabled ELSE buckets[k]] /\ meter' = meter
        BY <3>4 DEF remove_buckets
      <4>2. Disabled \in Bucket
        BY DEF Disabled, Bucket
      <4>3. ASSUME NEW j \in Keys PROVE KeyWithin(j)'
        <5>1. CASE buckets'[j] = buckets[j]
          BY <4>1, <5>1, <3>b
        <5>2. CASE buckets'[j] = Disabled
          <6>1. meter[j].from <= now
            BY <3>a DEF KeyWithin
          <6> QED
            BY <2>0, <3>0, <4>1, <5>2, <6>1 DEF KeyWithin, Disabled
        <5> QED
          BY <4>1, <5>1, <5>2
      <4> QED
        BY <2>0, <3>0, <4>1, <4>2, <4>3 DEF LimiterInv, LimiterTypeOK
    <3>5. ASSUME NEW k \in Keys, StartMeter(k)
          PROVE  LimiterInv'
      <4> DEFINE mt == [from |-> now, used |-> 0]
                 b == buckets[k]
      <4>1. meter' = [meter EXCEPT ![k] = mt] /\ buckets' = buckets
        BY <3>5 DEF StartMeter
      <4>2. b \in Bucket /\ KeyWithin(k)
        BY <3>a
      <4>3. /\ b.tokens <= b.capacity /\ b.updated <= now
            /\ b.capacity \in Nat /\ b.rate \in Nat
        BY <4>2 DEF KeyWithin, Bucket
      <4>4. calculate_refill(b) \in Nat /\ calculate_refill(b) <= b.capacity
        BY <2>0, <4>2, <4>3, RefillBounds
      <4>5. KeyWithin(k)'
        <5>1. meter'[k] = mt /\ buckets'[k] = b
          BY <2>0, <4>1
        <5>2. b.rate * (now - now) = 0
          BY <2>0, <4>3
        <5>3. calculate_refill(b)' = calculate_refill(b)
          BY <3>0, <4>1 DEF calculate_refill
        <5> QED
          BY <2>0, <3>0, <4>1, <4>3, <4>4, <5>1, <5>2, <5>3 DEF KeyWithin
      <4>6. ASSUME NEW j \in Keys PROVE KeyWithin(j)'
        <5>1. CASE j = k
          BY <4>5, <5>1
        <5>2. CASE j # k
          BY <2>0, <4>1, <5>2, <3>b
        <5> QED
          BY <5>1, <5>2
      <4> QED
        BY <2>0, <3>0, <4>1, <4>6 DEF LimiterInv, LimiterTypeOK
    <3> QED
      BY <2>3, <3>2, <3>3, <3>4, <3>5 DEF Limiting, LimiterNext
  <2>4. CASE Forwarding
    BY <2>1, <2>4 DEF Forwarding, ledgerVars, limiterVars
  <2>5. CASE Caching
    BY <2>1, <2>5 DEF Caching, ledgerVars, limiterVars
  <2>6. CASE UNCHANGED vars
    BY <2>1, <2>6 DEF vars, ledgerVars, limiterVars
  <2>7. CASE Siloing \/ Sending \/ Verifying
    BY <2>1, <2>7 DEF Siloing, Sending, Verifying, ledgerVars, limiterVars
  <2> QED
    BY <2>2, <2>3, <2>4, <2>5, <2>6, <2>7 DEF Next
<1> QED
  BY <1>1, <1>2, PTL DEF Spec

\* Over every span of time between two configurations a bucket lets through no
\* more than its capacity and what its rate adds, for every capacity and rate.
THEOREM RateBoundHolds == Spec => []RateBound
<1>1. LimiterInv => RateBound
  <2> SUFFICES ASSUME LimiterInv, NEW k \in Keys, buckets[k].enabled
               PROVE  meter[k].used <= buckets[k].capacity + buckets[k].rate * (now - meter[k].from)
    BY DEF RateBound
  <2> DEFINE b == buckets[k]
             mt == meter[k]
  <2>1. b \in Bucket /\ mt \in [from : Nat, used : Nat] /\ KeyWithin(k) /\ now \in Nat
    BY DEF LimiterInv, LimiterTypeOK
  <2>2. /\ b.tokens <= b.capacity /\ b.updated <= now /\ mt.from <= now
        /\ mt.used + calculate_refill(b) <= b.capacity + b.rate * (now - mt.from)
    BY <2>1 DEF KeyWithin
  <2>3. calculate_refill(b) \in Nat
    BY <2>1, <2>2, RefillBounds
  <2>4. mt.used \in Nat /\ b.capacity \in Nat /\ b.rate \in Nat /\ now - mt.from \in Nat
    BY <2>1, <2>2 DEF Bucket
  <2>5. b.rate * (now - mt.from) \in Nat
    BY <2>4
  <2> QED
    BY <2>2, <2>3, <2>4, <2>5
<1> QED
  BY <1>1, LimiterInvariant, PTL

-----------------------------------------------------------------------------
(* The forwarder.                                                           *)

TxStates == {"NotAttempted", "Succeeded", "InvalidReceiver", "Failed"}

ForwarderInv ==
  /\ tx \in [TxKeys -> TxStates]
  /\ effects \in [TxKeys -> Nat]
  /\ EffectsOnce

\* One delivery keeps the invariant.
LEMMA DeliverKeeps ==
  ASSUME ForwarderInv, NEW k \in TxKeys, NEW outcome \in Outcomes(k[2]), deliver(k, outcome)
  PROVE  ForwarderInv'
<1>1. outcome \in {"returned", "failed", "unreadable", "value"}
  BY DEF Outcomes
<1>2. StateAfter(outcome) \in TxStates /\ (StateAfter(outcome) = "Succeeded" <=> outcome = "returned")
  BY <1>1 DEF StateAfter, TxStates
<1>3. tx \in [TxKeys -> TxStates] /\ effects \in [TxKeys -> Nat]
  BY DEF ForwarderInv
<1>4. tx' = [tx EXCEPT ![k] = StateAfter(outcome)]
      /\ effects' = [effects EXCEPT ![k] = Counted(k, outcome)]
  BY DEF deliver
<1>5. Counted(k, outcome) \in Nat
  BY <1>3 DEF Counted
<1>6. tx' \in [TxKeys -> TxStates] /\ effects' \in [TxKeys -> Nat]
  BY <1>2, <1>3, <1>4, <1>5
<1>7. ASSUME NEW j \in TxKeys, j[2] \in Conforming
      PROVE  effects'[j] = IF tx'[j] = "Succeeded" THEN 1 ELSE 0
  <2>1. effects[j] = IF tx[j] = "Succeeded" THEN 1 ELSE 0
    BY <1>7 DEF ForwarderInv, EffectsOnce
  <2>2. CASE j # k
    BY <2>1, <2>2, <1>3, <1>4
  <2>3. CASE j = k
    <3>1. outcome # "value"
      BY <1>7, <2>3 DEF Outcomes
    <3>2. effects[k] = 0
      BY <2>1, <2>3 DEF deliver, Terminal
    <3>3. Counted(k, outcome) = IF outcome = "returned" THEN 1 ELSE 0
      BY <3>1, <3>2 DEF Counted
    <3>4. tx'[k] = StateAfter(outcome) /\ effects'[k] = Counted(k, outcome)
      BY <1>3, <1>4
    <3> QED
      BY <2>3, <3>3, <3>4, <1>2
  <2> QED
    BY <2>2, <2>3
<1> QED
  BY <1>6, <1>7 DEF ForwarderInv, EffectsOnce

\* What a key carries takes effect at a conforming receiver at most once, and
\* exactly when the forwarder says it succeeded.
THEOREM EffectsOnceHolds == Spec => []EffectsOnce
<1>1. Init => ForwarderInv
  BY DEF Init, ForwarderInit, ForwarderInv, TxStates, EffectsOnce
<1>2. ForwarderInv /\ [Next]_vars => ForwarderInv'
  <2> SUFFICES ASSUME ForwarderInv, [Next]_vars PROVE ForwarderInv'
    OBVIOUS
  <2>1. CASE UNCHANGED <<tx, effects>>
    BY <2>1 DEF ForwarderInv, EffectsOnce
  <2>2. CASE Forwarding
    <3>1. ASSUME NEW n \in Nodes, NEW r \in Receivers, NEW x \in Payloads, NEW v \in Versions,
                 NEW signatures \in SUBSET Signers, report(n, r, x, v, signatures)
          PROVE  ForwarderInv'
      <4> DEFINE k == <<"report", r, x>>
      <4>1. k \in TxKeys /\ k[2] = r
        BY DEF TxKeys, Spaces
      <4>2. dispatch_to_receiver(k)
        BY <3>1 DEF report
      <4>3. CASE r \in deployed
        <5>1. PICK outcome \in Outcomes(k[2]) : deliver(k, outcome)
          BY <4>1, <4>2, <4>3 DEF dispatch_to_receiver
        <5> QED
          BY <4>1, <5>1, DeliverKeeps
      <4>4. CASE r \notin deployed
        <5>1. ~Terminal(tx[k]) /\ tx' = [tx EXCEPT ![k] = "InvalidReceiver"] /\ effects' = effects
          BY <4>1, <4>2, <4>4 DEF dispatch_to_receiver
        <5>2. tx[k] # "Succeeded"
          BY <5>1 DEF Terminal
        <5> HIDE DEF k
        <5> QED
          BY <4>1, <5>1, <5>2 DEF ForwarderInv, EffectsOnce, TxStates
      <4> QED
        BY <4>3, <4>4
    <3>2. ASSUME NEW n \in Nodes, NEW r \in Receivers, NEW x \in Payloads, relay(n, r, x)
          PROVE  ForwarderInv'
      <4> DEFINE k == <<"relay", r, x>>
      <4>1. k \in TxKeys /\ k[2] = r
        BY DEF TxKeys, Spaces
      <4>2. PICK outcome \in Outcomes(r) : deliver(k, outcome)
        BY <3>2 DEF relay
      <4> QED
        BY <4>1, <4>2, DeliverKeeps
    <3> QED
      BY <2>1, <2>2, <3>1, <3>2
         DEF Forwarding, ForwarderNext, add_forwarder, remove_forwarder, add_relayer,
             remove_relayer, set_config, clear_config, Deploy
  <2>3. CASE Close
    BY <2>1, <2>3 DEF Close, forwarderVars
  <2>4. CASE Caching
    BY <2>1, <2>4 DEF Caching, forwarderVars
  <2>5. CASE Limiting
    BY <2>1, <2>5 DEF Limiting, forwarderVars
  <2>6. CASE UNCHANGED vars
    BY <2>1, <2>6 DEF vars, forwarderVars
  <2>7. CASE Siloing \/ Sending \/ Verifying
    BY <2>1, <2>7 DEF Siloing, Sending, Verifying, forwarderVars
  <2> QED
    BY <2>2, <2>3, <2>4, <2>5, <2>6, <2>7 DEF Next
<1>3. ForwarderInv => EffectsOnce
  BY DEF ForwarderInv
<1> QED
  BY <1>1, <1>2, <1>3, PTL DEF Spec
-----------------------------------------------------------------------------
(* The committee verifier. Signers in the order of their addresses are all   *)
(* different, which needs induction; so are the backers of a verdict.        *)

CommitteeRecord == [signers : Seq(Addresses), threshold : Nat]

CommitteeInv ==
  /\ committees \in [Verifiers -> [Sources -> CommitteeRecord]]
  /\ inbound \in [Tags -> Verifiers \union {NoVerifier}]
  /\ OnlyCommitteeAttests

\* The members who signed the message for the version.
Backers(k, tag, m, sigs) ==
  {s \in Range(k.signers) : [signer |-> s, tag |-> tag, msg |-> m] \in Range(sigs)}

\* Signatures that pass are those of as many different members as there are
\* signatures, each made for this message and version.
LEMMA QuorumBacks ==
  ASSUME NEW k \in CommitteeRecord, NEW tag \in Tags, NEW m \in InMessages,
         NEW n \in Nat, NEW sigs \in [1 .. n -> Signature],
         validate_signatures(k, tag, m, sigs)
  PROVE  k.threshold > 0 /\ Cardinality(Backers(k, tag, m, sigs)) >= k.threshold
<1> DEFINE members == Range(k.signers)
           backers == Backers(k, tag, m, sigs)
           who == [i \in DOMAIN sigs |-> identify_signer(sigs[i], tag, m)]
<1>1. k.signers \in Seq(Addresses) /\ k.threshold \in Nat
  BY DEF CommitteeRecord
<1>2. DOMAIN sigs = 1 .. n /\ Len(sigs) = n /\ Len(who) = n
  <2>1. DOMAIN sigs = 1 .. n /\ DOMAIN who = 1 .. n
    OBVIOUS
  <2>2. sigs \in Seq(Signature) /\ who \in Seq({who[i] : i \in 1 .. n})
    BY <2>1
  <2> QED BY <2>1, <2>2
<1>3. /\ k.threshold > 0 /\ n >= k.threshold
      /\ \A i \in 1 .. n - 1 : who[i] < who[i + 1]
      /\ \A i \in 1 .. n : who[i] \in members
  <2>1. /\ k.threshold # 0 /\ Len(sigs) >= k.threshold
        /\ Ascending(who) /\ Range(who) \subseteq members
    BY DEF validate_signatures
  <2>2. \A i \in 1 .. n : who[i] \in Range(who)
    BY <1>2 DEF Range
  <2> HIDE DEF who, members
  <2> QED BY <1>1, <1>2, <2>1, <2>2 DEF Ascending
<1>4. members \subseteq Addresses /\ Addresses \subseteq Nat \ {0}
  BY <1>1, VerifierAssumption DEF Range
<1> HIDE DEF members
<1>5. who \in [1 .. n -> Int]
  <2>1. who = [i \in 1 .. n |-> who[i]]
    BY <1>2
  <2> HIDE DEF who
  <2>2. \A i \in 1 .. n : who[i] \in Int
    <3>1. \A a \in members : a \in Int
      BY <1>4
    <3> QED BY <1>3, <3>1
  <2> QED BY <2>1, <2>2
<1>6. \A i, j \in 1 .. n : who[i] = who[j] => i = j
  <2> HIDE DEF who
  <2>1. \A i, j \in 1 .. n : i < j => who[i] < who[j]
    BY <1>3, <1>5, AscendingOrder
  <2> QED BY <1>5, <2>1
<1>7. ASSUME NEW i \in 1 .. n
      PROVE  who[i] \in backers
  <2>1. who[i] # 0 /\ who[i] \in members
    BY <1>3, <1>4, <1>7
  <2>2. who[i] = identify_signer(sigs[i], tag, m) /\ sigs[i] \in Signature
    BY <1>2
  <2>3. sigs[i].tag = tag /\ sigs[i].msg = m /\ sigs[i].signer = who[i]
    BY <2>1, <2>2 DEF identify_signer
  <2>4. sigs[i] = [signer |-> who[i], tag |-> tag, msg |-> m]
    BY <2>2, <2>3 DEF Signature
  <2>5. sigs[i] \in Range(sigs)
    BY <1>2 DEF Range
  <2> QED BY <2>1, <2>4, <2>5 DEF Backers, members
<1> DEFINE image == {who[i] : i \in 1 .. n}
<1> HIDE DEF who
<1>8. IsFiniteSet(image) /\ Cardinality(image) = n
  <2>1. IsFiniteSet(1 .. n) /\ Cardinality(1 .. n) = n
    BY FS_Interval
  <2>2. IsFiniteSet({who[i] : i \in 1 .. n})
        /\ Cardinality({who[i] : i \in 1 .. n}) = Cardinality(1 .. n)
    <3> DEFINE I == 1 .. n
    <3>1. IsFiniteSet(I) /\ \A i, j \in I : who[i] = who[j] => i = j
      BY <1>6, <2>1
    <3> HIDE DEF I
    <3>2. IsFiniteSet({who[i] : i \in I}) /\ Cardinality({who[i] : i \in I}) = Cardinality(I)
      BY <3>1, InjectiveImage
    <3> QED BY <3>2 DEF I
  <2> QED BY <2>1, <2>2
<1>9. IsFiniteSet(members)
  <2> DEFINE D == DOMAIN k.signers
             g == [i \in D |-> k.signers[i]]
  <2>1. IsFiniteSet(D)
    <3>1. D = 1 .. Len(k.signers) /\ Len(k.signers) \in Int
      BY <1>1
    <3> QED BY <3>1, FS_Interval
  <2>2. g \in Surjection(D, members)
    <3>1. g \in [D -> members] /\ \A s \in members : \E i \in D : g[i] = s
      BY DEF members, Range
    <3> QED BY <3>1, Fun_IsSurj
  <2> QED BY <2>1, <2>2, FS_Surjection
<1>10. image \subseteq backers /\ backers \subseteq members
  BY <1>7 DEF members, Backers
<1> HIDE DEF backers, image
<1>11. IsFiniteSet(backers)
  BY <1>9, <1>10, FS_Subset
<1>12. n <= Cardinality(backers) /\ Cardinality(backers) \in Nat
  BY <1>8, <1>10, <1>11, FS_Subset, FS_CardinalityType
<1>13. k.threshold > 0 /\ Cardinality(backers) >= k.threshold
  BY <1>1, <1>3, <1>12
<1> QED BY <1>13 DEF backers

\* A message is attested only by a quorum of different members of the committee in
\* force for its source chain, who signed it for the verifier that was asked, for
\* any verifiers, versions, chains and committees.
THEOREM OnlyCommitteeAttestsHolds == Spec => []OnlyCommitteeAttests
<1>1. Init => CommitteeInv
  <2>1. NoCommittee \in CommitteeRecord
    BY DEF NoCommittee, CommitteeRecord
  <2> QED BY <2>1 DEF Init, CommitteeInit, CommitteeInv, OnlyCommitteeAttests
<1>2. CommitteeInv /\ [Next]_vars => CommitteeInv'
  <2> SUFFICES ASSUME CommitteeInv, [Next]_vars PROVE CommitteeInv'
    OBVIOUS
  <2>1. CASE UNCHANGED verifierVars
    BY <2>1 DEF verifierVars, CommitteeInv, OnlyCommitteeAttests
  <2>2. CASE Verifying
    <3>1. ASSUME NEW v \in Verifiers, NEW removed \in SUBSET Sources,
                 NEW updated \in SUBSET Sources, NEW k \in Committees,
                 apply_signature_configs(v, removed, updated, k)
          PROVE  CommitteeInv'
      <4>1. k \in CommitteeRecord /\ NoCommittee \in CommitteeRecord
        BY VerifierAssumption DEF CommitteeRecord, NoCommittee
      <4>2. committees' \in [Verifiers -> [Sources -> CommitteeRecord]]
        BY <3>1, <4>1 DEF apply_signature_configs, CommitteeInv
      <4> QED BY <3>1, <4>2 DEF apply_signature_configs, CommitteeInv, OnlyCommitteeAttests
    <3>2. ASSUME NEW t \in Tags, NEW v \in Verifiers \union {NoVerifier},
                 apply_inbound_impl_updates(t, v)
          PROVE  CommitteeInv'
      BY <3>2 DEF apply_inbound_impl_updates, CommitteeInv, OnlyCommitteeAttests
    <3>3. ASSUME NEW m \in InMessages, NEW results \in Results, Attest(m, results)
          PROVE  CommitteeInv'
      <4> DEFINE v == inbound[results.tag]
                 k == committees[v][SourceOf[m]]
                 sigs == results.sigs
      <4>1. results.tag \in Tags /\ \E n \in Nat : sigs \in [1 .. n -> Signature]
        BY VerifierAssumption DEF Results
      <4>2. PICK n \in Nat : sigs \in [1 .. n -> Signature]
        BY <4>1
      <4>3. v \in Verifiers /\ SourceOf[m] \in Sources
        BY <3>3, <4>1, VerifierAssumption DEF Attest, CommitteeInv
      <4>4. k \in CommitteeRecord /\ results.tag = TagOf[v]
            /\ validate_signatures(k, TagOf[v], m, sigs)
        BY <3>3, <4>3 DEF Attest, verify_message, CommitteeInv
      <4> DEFINE backers == Backers(k, TagOf[v], m, sigs)
      <4>5. verdict' = [asked |-> k.threshold, backers |-> backers]
        BY <3>3 DEF Attest, Backers
      <4>6. k.threshold > 0 /\ Cardinality(backers) >= k.threshold
        <5>1. TagOf[v] \in Tags
          BY <4>1, <4>4
        <5> HIDE DEF k, sigs, v
        <5> QED BY <4>2, <4>4, <5>1, QuorumBacks
      <4>7. UNCHANGED <<committees, inbound>>
        BY <3>3 DEF Attest
      <4> HIDE DEF backers, k
      <4> QED BY <4>5, <4>6, <4>7 DEF CommitteeInv, OnlyCommitteeAttests
    <3> QED BY <2>2, <3>1, <3>2, <3>3 DEF Verifying, CommitteeNext
  <2>3. CASE Close \/ Forwarding \/ Caching \/ Limiting
    BY <2>1, <2>3 DEF Close, Forwarding, Caching, Limiting, others
  <2>4. CASE Siloing \/ Sending
    BY <2>1, <2>4 DEF Siloing, Sending
  <2>5. CASE UNCHANGED vars
    BY <2>1, <2>5 DEF vars, others
  <2> QED BY <2>2, <2>3, <2>4, <2>5 DEF Next
<1>3. CommitteeInv => OnlyCommitteeAttests
  BY DEF CommitteeInv
<1> QED
  BY <1>1, <1>2, <1>3, PTL DEF Spec

-----------------------------------------------------------------------------
(* The OnRamp. Merging lists keeps what each of them has and repeats         *)
(* nothing; converting charges one by one gives no more than converting      *)
(* their sum. Both are inductions over a list.                               *)

\* The list after each element of more was looked at.
LEMMA AppendUniqueSteps ==
  ASSUME NEW list \in Seq(Ccvs), NEW more \in Seq(Ccvs)
  PROVE  \E u \in [0 .. Len(more) -> Seq(Ccvs)] :
           /\ u[0] = list /\ append_unique(list, more) = u[Len(more)]
           /\ \A n \in 1 .. Len(more) :
                u[n] = IF more[n] \in Range(u[n - 1]) THEN u[n - 1] ELSE Append(u[n - 1], more[n])
<1> DEFINE k == Len(more)
           V == Seq(Ccvs)
           Added(l, c) == IF Contains(l, c) THEN l ELSE Append(l, c)
           Step(f, n) == IF n = 0 THEN list
                         ELSE IF Contains(f[n - 1], more[n]) THEN f[n - 1]
                              ELSE Append(f[n - 1], more[n])
           u == CHOOSE f : f = [n \in 0 .. k |-> Step(f, n)]
           step == [n \in 1 .. k |-> [l \in V |-> Added(l, more[n])]]
<1>1. k \in Nat /\ list \in V /\ \A n \in 1 .. k : more[n] \in Ccvs
  OBVIOUS
<1>2. step \in [1 .. k -> [V -> V]]
  <2>1. ASSUME NEW l \in V, NEW n \in 1 .. k PROVE Added(l, more[n]) \in V
    BY <1>1
  <2> HIDE DEF Added, V
  <2> QED BY <2>1
<1>3. PICK w \in [0 .. k -> V] : w[0] = list /\ \A n \in 1 .. k : w[n] = step[n][w[n - 1]]
  <2>1. k \in Nat /\ list \in V
    BY <1>1
  <2>2. step \in StepFunctions(V, k)
    BY <1>2 DEF StepFunctions
  <2> HIDE DEF step, V, k
  <2>3. PICK w : Stepwise(w, V, list, k, step)
    BY <2>1, <2>2, StepwiseFunction
  <2> QED BY <2>3 DEF Stepwise
<1>4. \A n \in 1 .. k : w[n] = Added(w[n - 1], more[n])
  <2>1. \A n \in 1 .. k : w[n - 1] \in V
    BY <1>1
  <2> HIDE DEF Added, V
  <2> QED BY <1>3, <2>1
<1>5. w = [n \in 0 .. k |-> Step(w, n)]
  <2>1. ASSUME NEW n \in 0 .. k PROVE w[n] = Step(w, n)
    <3>1. n # 0 => n \in 1 .. k
      BY <1>1
    <3> QED BY <1>3, <1>4, <3>1
  <2>2. w = [n \in 0 .. k |-> w[n]]
    OBVIOUS
  <2> HIDE DEF Step
  <2> QED BY <2>1, <2>2
<1>6. u = [n \in 0 .. k |-> Step(u, n)]
  <2> HIDE DEF Step
  <2> QED BY <1>5
<1>7. append_unique(list, more) = u[k]
  BY DEF append_unique
<1> HIDE DEF u
<1>8. u[0] = list /\ \A n \in 1 .. k : u[n] = Added(u[n - 1], more[n])
  <2>1. \A n \in 0 .. k : u[n] = Step(u, n)
    <3> HIDE DEF Step
    <3> QED BY <1>6
  <2>2. \A n \in 1 .. k : n \in 0 .. k /\ n # 0
    BY <1>1
  <2> QED BY <1>1, <2>1, <2>2
<1> DEFINE T == {n \in Nat : n <= k => u[n] \in V}
<1>9. Nat \subseteq T
  <2>1. 0 \in T
    BY <1>1, <1>8
  <2>2. ASSUME NEW n \in Nat, n \in T PROVE n + 1 \in T
    <3> SUFFICES ASSUME n + 1 <= k PROVE u[n + 1] \in V
      OBVIOUS
    <3>1. n + 1 \in 1 .. k /\ (n + 1) - 1 = n /\ u[n] \in V
      BY <1>1, <2>2
    <3>2. u[n + 1] = Added(u[n], more[n + 1]) /\ more[n + 1] \in Ccvs
      BY <1>1, <1>8, <3>1
    <3> QED BY <3>1, <3>2
  <2> HIDE DEF T
  <2> QED BY <2>1, <2>2, NatSetInduction
<1>10. u \in [0 .. k -> V]
  <2>1. \A n \in 0 .. k : u[n] \in V
    BY <1>1, <1>9
  <2>2. u = [n \in 0 .. k |-> u[n]]
    <3> HIDE DEF Step
    <3> QED BY <1>6
  <2> HIDE DEF V, Step
  <2> QED BY <2>1, <2>2
<1>11. \A l \in V : \A c : Contains(l, c) <=> c \in Range(l)
  BY DEF Contains, Range
<1>12. \A n \in 1 .. k : u[n] = IF more[n] \in Range(u[n - 1]) THEN u[n - 1]
                                ELSE Append(u[n - 1], more[n])
  <2>1. \A n \in 1 .. k : u[n - 1] \in V
    BY <1>1, <1>10, SMTT(30)
  <2> HIDE DEF V
  <2> QED BY <1>8, <1>11, <2>1
<1> QED BY <1>7, <1>8, <1>10, <1>12

LEMMA AppendOne ==
  ASSUME NEW l \in Seq(Ccvs), IsInjective(l), NEW c \in Ccvs, c \notin Range(l)
  PROVE  IsInjective(Append(l, c)) /\ Range(Append(l, c)) = Range(l) \union {c}
<1> DEFINE m == Append(l, c)
<1>1. /\ m \in Seq(Ccvs) /\ Len(m) = Len(l) + 1 /\ Len(l) \in Nat /\ m[Len(l) + 1] = c
      /\ \A i \in 1 .. Len(l) : m[i] = l[i]
      /\ DOMAIN m = 1 .. Len(l) + 1 /\ DOMAIN l = 1 .. Len(l)
  OBVIOUS
<1>2. \A i \in DOMAIN m : i \in DOMAIN l \/ i = Len(l) + 1
  BY <1>1
<1>3. \A i \in DOMAIN l : l[i] \in Range(l) /\ i \in DOMAIN m
  BY <1>1 DEF Range
<1> HIDE DEF m
<1>4. IsInjective(m)
  BY <1>1, <1>2, <1>3 DEF IsInjective
<1>5. Range(m) \subseteq Range(l) \union {c}
  BY <1>1, <1>2, <1>3 DEF Range
<1>6. c \in Range(m) /\ \A i \in DOMAIN l : l[i] \in Range(m)
  <2>1. Len(l) + 1 \in DOMAIN m
    BY <1>1
  <2> QED BY <1>1, <1>3, <2>1 DEF Range
<1>7. Range(m) = Range(l) \union {c}
  BY <1>5, <1>6 DEF Range
<1> QED BY <1>4, <1>7 DEF m

\* append_unique: nothing is lost, nothing is repeated.
LEMMA AppendUnique ==
  ASSUME NEW list \in Seq(Ccvs), NEW more \in Seq(Ccvs), IsInjective(list)
  PROVE  /\ append_unique(list, more) \in Seq(Ccvs)
         /\ IsInjective(append_unique(list, more))
         /\ Range(append_unique(list, more)) = Range(list) \union Range(more)
<1> DEFINE k == Len(more)
<1>1. PICK u \in [0 .. k -> Seq(Ccvs)] :
        /\ u[0] = list /\ append_unique(list, more) = u[k]
        /\ \A n \in 1 .. k :
             u[n] = IF more[n] \in Range(u[n - 1]) THEN u[n - 1] ELSE Append(u[n - 1], more[n])
  BY AppendUniqueSteps
<1>2. k \in Nat /\ DOMAIN more = 1 .. k /\ \A n \in 1 .. k : more[n] \in Ccvs
  OBVIOUS
<1> DEFINE P(n) == IsInjective(u[n]) /\ Range(u[n]) = Range(list) \union {more[i] : i \in 1 .. n}
           T == {n \in Nat : n <= k => P(n)}
<1>3. 0 \in T
  BY <1>1
<1>4. ASSUME NEW n \in Nat, n \in T PROVE n + 1 \in T
  <2> SUFFICES ASSUME n + 1 <= k PROVE P(n + 1)
    OBVIOUS
  <2>1. P(n) /\ n + 1 \in 1 .. k /\ (n + 1) - 1 = n /\ n \in 0 .. k
    <3> HIDE DEF P
    <3> QED BY <1>2, <1>4
  <2> DEFINE a == u[n]
             b == u[n + 1]
             x == more[n + 1]
  <2>2. a \in Seq(Ccvs) /\ x \in Ccvs /\ b = IF x \in Range(a) THEN a ELSE Append(a, x)
    BY <1>1, <1>2, <2>1
  <2>3. IsInjective(b) /\ Range(b) = Range(a) \union {x}
    <3> HIDE DEF a, b, x
    <3>1. IsInjective(a)
      BY <2>1 DEF a
    <3> QED BY <2>2, <3>1, AppendOne
  <2>4. {more[i] : i \in 1 .. n + 1} = {more[i] : i \in 1 .. n} \union {x}
    <3>1. \A i \in 1 .. n + 1 : i \in 1 .. n \/ i = n + 1
      OBVIOUS
    <3>2. \A i \in 1 .. n : i \in 1 .. n + 1
      OBVIOUS
    <3>3. n + 1 \in 1 .. n + 1
      OBVIOUS
    <3> QED BY <3>1, <3>2, <3>3
  <2> QED BY <2>1, <2>3, <2>4
<1>5. P(k)
  <2>1. Nat \subseteq T
    <3> HIDE DEF T
    <3> QED BY <1>3, <1>4, NatSetInduction
  <2> HIDE DEF P
  <2> QED BY <1>2, <2>1
<1>6. {more[i] : i \in 1 .. k} = Range(more)
  BY <1>2 DEF Range
<1>7. u[k] \in Seq(Ccvs)
  BY <1>1, <1>2
<1> QED BY <1>1, <1>5, <1>6, <1>7

\* The CCV plan of a message: a list without repetition that has what the sender,
\* the lane and the pool demand.
LaneRecord == [set : BOOLEAN, number : Nat, defaults : Seq(Ccvs), mandated : Seq(Ccvs)]

LEMMA PlanSound ==
  ASSUME NEW lane \in LaneRecord, NEW m \in OutMessages, NEW pool \in PoolAnswers,
         IsInjective(m.ccvs), IsInjective(lane.defaults)
  PROVE  LET l == build_merged_outbound_ccv_lists(lane, m, pool)
         IN  /\ l \in Seq(Ccvs) /\ IsInjective(l)
             /\ Demanded(lane, m, pool) \subseteq Range(l)
<1> DEFINE fallback == IF m.token /\ m.bare THEN <<>> ELSE lane.defaults
           merged == merge_ccv_lists(m.ccvs, lane.mandated, fallback)
           pooled == append_unique(merged, pool.ccvs)
           full == append_unique(pooled, lane.defaults)
           l == build_merged_outbound_ccv_lists(lane, m, pool)
<1>1. /\ m.ccvs \in Seq(Ccvs) /\ pool.ccvs \in Seq(Ccvs)
      /\ lane.defaults \in Seq(Ccvs) /\ lane.mandated \in Seq(Ccvs)
  BY OnRampAssumption DEF LaneRecord
<1>2. <<>> \in Seq(Ccvs) /\ IsInjective(<<>>) /\ Range(<<>>) = {}
  BY DEF IsInjective, Range
<1>3. fallback \in Seq(Ccvs) /\ IsInjective(fallback)
  BY <1>1, <1>2
<1>4. /\ merged \in Seq(Ccvs) /\ IsInjective(merged)
      /\ Range(m.ccvs) \subseteq Range(merged) /\ Range(lane.mandated) \subseteq Range(merged)
  <2> HIDE DEF fallback
  <2>1. CASE m.ccvs = <<>> /\ lane.mandated = <<>>
    BY <1>2, <1>3, <2>1 DEF merge_ccv_lists
  <2>2. CASE ~(m.ccvs = <<>> /\ lane.mandated = <<>>)
    <3>1. merged = append_unique(m.ccvs, lane.mandated)
      BY <2>2 DEF merge_ccv_lists
    <3> HIDE DEF merged
    <3> QED BY <1>1, <3>1, AppendUnique
  <2> QED BY <2>1, <2>2
<1>5. l = IF ~m.token THEN merged
          ELSE IF pool.defaults \/ pool.ccvs = <<>> THEN full ELSE pooled
  BY DEF build_merged_outbound_ccv_lists
<1> HIDE DEF merged, l
<1>6. /\ pooled \in Seq(Ccvs) /\ IsInjective(pooled)
      /\ Range(pooled) = Range(merged) \union Range(pool.ccvs)
  BY <1>1, <1>4, AppendUnique
<1> HIDE DEF pooled
<1>7. /\ full \in Seq(Ccvs) /\ IsInjective(full)
      /\ Range(full) = Range(pooled) \union Range(lane.defaults)
  BY <1>1, <1>6, AppendUnique
<1> HIDE DEF full
<1>8. l \in Seq(Ccvs) /\ IsInjective(l)
  BY <1>4, <1>5, <1>6, <1>7
<1>9. Demanded(lane, m, pool) \subseteq Range(l)
  BY <1>4, <1>5, <1>6, <1>7 DEF Demanded
<1> QED BY <1>8, <1>9 DEF l

\* What SumOf adds up.
LEMMA SumOfSteps ==
  ASSUME NEW charge \in [Ccvs -> Nat], NEW l \in Seq(Ccvs)
  PROVE  \E u \in [0 .. Len(l) -> Nat] :
           /\ u[0] = 0 /\ SumOf(charge, l) = u[Len(l)]
           /\ \A n \in 1 .. Len(l) : u[n] = u[n - 1] + charge[l[n]]
<1> DEFINE k == Len(l)
           Step(f, n) == IF n = 0 THEN 0 ELSE f[n - 1] + charge[l[n]]
           u == CHOOSE f : f = [n \in 0 .. k |-> Step(f, n)]
           step == [n \in 1 .. k |-> [v \in Nat |-> v + charge[l[n]]]]
<1>1. k \in Nat /\ \A n \in 1 .. k : charge[l[n]] \in Nat
  OBVIOUS
<1>2. step \in StepFunctions(Nat, k)
  BY <1>1 DEF StepFunctions
<1>3. PICK w : Stepwise(w, Nat, 0, k, step)
  <2> HIDE DEF step, k
  <2> QED BY <1>1, <1>2, StepwiseFunction
<1>4. /\ w \in [0 .. k -> Nat] /\ w[0] = 0
      /\ \A n \in 1 .. k : w[n] = w[n - 1] + charge[l[n]]
  <2>1. w \in [0 .. k -> Nat] /\ w[0] = 0 /\ \A n \in 1 .. k : w[n] = step[n][w[n - 1]]
    BY <1>3 DEF Stepwise
  <2>2. \A n \in 1 .. k : n - 1 \in 0 .. k
    BY <1>1
  <2>3. \A n \in 1 .. k : w[n - 1] \in Nat
    <3> HIDE DEF k
    <3> QED BY <2>1, <2>2
  <2> QED BY <2>1, <2>3
<1>5. w = [n \in 0 .. k |-> Step(w, n)]
  <2>1. ASSUME NEW n \in 0 .. k PROVE w[n] = Step(w, n)
    <3>1. n # 0 => n \in 1 .. k
      BY <1>1
    <3> QED BY <1>4, <3>1
  <2>2. w = [n \in 0 .. k |-> w[n]]
    BY <1>4
  <2> HIDE DEF Step
  <2> QED BY <2>1, <2>2
<1>6. u = [n \in 0 .. k |-> Step(u, n)]
  <2> HIDE DEF Step
  <2> QED BY <1>5
<1>7. SumOf(charge, l) = u[k]
  BY DEF SumOf
<1> HIDE DEF u
<1>8. u[0] = 0 /\ \A n \in 1 .. k : u[n] = u[n - 1] + charge[l[n]]
  <2>1. \A n \in 0 .. k : u[n] = Step(u, n)
    <3> HIDE DEF Step
    <3> QED BY <1>6
  <2>2. \A n \in 1 .. k : n \in 0 .. k /\ n # 0
    BY <1>1
  <2> QED BY <1>1, <2>1, <2>2
<1> DEFINE T == {n \in Nat : n <= k => u[n] \in Nat}
<1>9. Nat \subseteq T
  <2>1. 0 \in T
    BY <1>8
  <2>2. ASSUME NEW n \in Nat, n \in T PROVE n + 1 \in T
    <3> SUFFICES ASSUME n + 1 <= k PROVE u[n + 1] \in Nat
      OBVIOUS
    <3>1. n + 1 \in 1 .. k /\ (n + 1) - 1 = n /\ u[n] \in Nat
      BY <1>1, <2>2
    <3> QED BY <1>1, <1>8, <3>1
  <2> HIDE DEF T
  <2> QED BY <2>1, <2>2, NatSetInduction
<1>10. u \in [0 .. k -> Nat]
  <2>1. \A n \in 0 .. k : u[n] \in Nat
    BY <1>1, <1>9
  <2>2. u = [n \in 0 .. k |-> u[n]]
    <3> HIDE DEF Step
    <3> QED BY <1>6
  <2> HIDE DEF Step
  <2> QED BY <2>1, <2>2
<1> QED BY <1>7, <1>8, <1>10

Charges == [ccv : [Ccvs -> Nat], pool : Nat, flat : Nat, gas : Nat, network : Nat,
            premium : Nat, price : Nat \ {0}]

LEMMA DiscountAdds ==
  ASSUME NEW q \in Charges, NEW x \in Nat, NEW y \in Nat
  PROVE  /\ Discounted(q, x) \in Nat
         /\ Discounted(q, x) + Discounted(q, y) <= Discounted(q, x + y)
<1> DEFINE a == x * q.premium
           c == y * q.premium
<1>1. q.premium \in Nat /\ q.price \in Nat \ {0}
  BY DEF Charges
<1>2. a \in Nat /\ c \in Nat /\ (x + y) * q.premium = a + c
  BY <1>1
<1>3. /\ Discounted(q, x) = a \div q.price /\ Discounted(q, y) = c \div q.price
      /\ Discounted(q, x + y) = (a + c) \div q.price
  BY <1>2 DEF Discounted, usd_cents_to_fee_token
<1> HIDE DEF a, c
<1> QED BY <1>1, <1>2, <1>3, DivAdd, DivBounds

\* Each CCV's charge converted by itself comes to no more than their sum.
LEMMA ReceiptsWithin ==
  ASSUME NEW q \in Charges, NEW l \in Seq(Ccvs)
  PROVE  LET each == SumOf([c \in Ccvs |-> Discounted(q, q.ccv[c])], l)
         IN  each \in Nat /\ SumOf(q.ccv, l) \in Nat /\ each <= Discounted(q, SumOf(q.ccv, l))
<1> DEFINE k == Len(l)
           fee == [c \in Ccvs |-> Discounted(q, q.ccv[c])]
<1>1. q.ccv \in [Ccvs -> Nat]
  BY DEF Charges
<1>2. fee \in [Ccvs -> Nat]
  <2>1. \A c \in Ccvs : Discounted(q, q.ccv[c]) \in Nat
    BY <1>1, DiscountAdds
  <2> QED BY <2>1
<1>3. \A c \in Ccvs : fee[c] = Discounted(q, q.ccv[c])
  OBVIOUS
<1> HIDE DEF fee
<1>4. PICK u \in [0 .. k -> Nat] :
        /\ u[0] = 0 /\ SumOf(q.ccv, l) = u[k]
        /\ \A n \in 1 .. k : u[n] = u[n - 1] + q.ccv[l[n]]
  BY <1>1, SumOfSteps
<1>5. PICK w \in [0 .. k -> Nat] :
        /\ w[0] = 0 /\ SumOf(fee, l) = w[k]
        /\ \A n \in 1 .. k : w[n] = w[n - 1] + fee[l[n]]
  BY <1>2, SumOfSteps
<1>6. k \in Nat /\ \A n \in 1 .. k : l[n] \in Ccvs
  OBVIOUS
<1> DEFINE T == {n \in Nat : n <= k => w[n] <= Discounted(q, u[n])}
<1>7. 0 \in T
  <2>1. Discounted(q, u[0]) \in Nat
    BY <1>4, DiscountAdds
  <2> QED BY <1>5, <2>1
<1>8. ASSUME NEW n \in Nat, n \in T PROVE n + 1 \in T
  <2> SUFFICES ASSUME n + 1 <= k PROVE w[n + 1] <= Discounted(q, u[n + 1])
    OBVIOUS
  <2>1. /\ n + 1 \in 1 .. k /\ (n + 1) - 1 = n /\ n \in 0 .. k
        /\ w[n] <= Discounted(q, u[n])
    BY <1>6, <1>8
  <2> DEFINE c == l[n + 1]
             x == u[n]
             y == q.ccv[c]
  <2>2. x \in Nat /\ y \in Nat /\ u[n + 1] = x + y /\ w[n] \in Nat
    BY <1>1, <1>4, <1>5, <1>6, <2>1
  <2>3. w[n + 1] = w[n] + Discounted(q, y)
    BY <1>3, <1>5, <1>6, <2>1
  <2> HIDE DEF x, y
  <2>4. /\ Discounted(q, x) \in Nat /\ Discounted(q, y) \in Nat /\ Discounted(q, x + y) \in Nat
        /\ Discounted(q, x) + Discounted(q, y) <= Discounted(q, x + y)
    <3>1. x + y \in Nat
      BY <2>2
    <3> QED BY <2>2, <3>1, DiscountAdds
  <2>5. w[n] <= Discounted(q, x)
    BY <2>1 DEF x
  <2> QED BY <2>2, <2>3, <2>4, <2>5
<1>9. w[k] <= Discounted(q, u[k])
  <2>1. Nat \subseteq T
    <3> HIDE DEF T
    <3> QED BY <1>7, <1>8, NatSetInduction
  <2> QED BY <1>6, <2>1
<1>10. u[k] \in Nat /\ w[k] \in Nat
  BY <1>4, <1>5, <1>6
<1> QED BY <1>4, <1>5, <1>9, <1>10 DEF fee

\* The fee of a message pays its receipts and leaves the network's share.
LEMMA FeeCovers ==
  ASSUME NEW q \in Quotes, NEW m \in OutMessages, NEW l \in Seq(Ccvs)
  PROVE  /\ total_fee(q, m, l) \in Nat /\ distributed(q, m, l) \in Nat
         /\ NetworkTokens(q) \in Nat
         /\ NetworkTokens(q) + distributed(q, m, l) <= total_fee(q, m, l)
<1> DEFINE each == SumOf([c \in Ccvs |-> Discounted(q, q.ccv[c])], l)
           cents == SumOf(q.ccv, l)
           p == PoolCents(q, m)
           f == Flat(q, m)
           g == GasTokens(q, m)
<1>1. q \in Charges
  BY OnRampAssumption DEF Charges
<1>2. p \in Nat /\ f \in Nat /\ q.network \in Nat
  BY <1>1 DEF Charges, PoolCents, Flat
<1>3. g \in Nat
  <2>1. q.gas * Percent \in Nat /\ q.price \in Nat \ {0}
    BY <1>1 DEF Charges, Percent
  <2> QED BY <2>1, DivBounds DEF GasTokens, usd_cents_to_fee_token
<1>4. each \in Nat /\ cents \in Nat /\ each <= Discounted(q, cents)
  BY <1>1, ReceiptsWithin
<1> HIDE DEF each, cents, p, f, g
<1>5. /\ Discounted(q, cents) + Discounted(q, p) <= Discounted(q, cents + p)
      /\ Discounted(q, cents + p) + Discounted(q, f) <= Discounted(q, (cents + p) + f)
  <2>1. cents + p \in Nat
    BY <1>2, <1>4
  <2> QED BY <1>1, <1>2, <1>4, <2>1, DiscountAdds
<1>6. /\ Discounted(q, cents) \in Nat /\ Discounted(q, p) \in Nat /\ Discounted(q, f) \in Nat
      /\ Discounted(q, cents + p) \in Nat /\ Discounted(q, (cents + p) + f) \in Nat
      /\ Discounted(q, q.network) \in Nat
  <2>1. cents + p \in Nat /\ (cents + p) + f \in Nat
    BY <1>2, <1>4
  <2> QED BY <1>1, <1>2, <1>4, <2>1, DiscountAdds
<1>7. /\ total_fee(q, m, l) = Discounted(q, q.network) + Discounted(q, (cents + p) + f) + g
      /\ distributed(q, m, l) = each + Discounted(q, p) + Discounted(q, f) + g
      /\ NetworkTokens(q) = Discounted(q, q.network)
  BY DEF total_fee, distributed, NetworkTokens, each, cents, p, f, g
<1> DEFINE net == Discounted(q, q.network)
           dc == Discounted(q, cents)
           dp == Discounted(q, p)
           df == Discounted(q, f)
           dcp == Discounted(q, cents + p)
           all == Discounted(q, (cents + p) + f)
<1>8. {net, dc, dp, df, dcp, all} \subseteq Nat /\ dc + dp <= dcp /\ dcp + df <= all
      /\ each <= dc
  BY <1>4, <1>5, <1>6
<1>9. /\ total_fee(q, m, l) = net + all + g /\ distributed(q, m, l) = each + dp + df + g
      /\ NetworkTokens(q) = net
  BY <1>7
<1> HIDE DEF net, dc, dp, df, dcp, all
<1> QED BY <1>3, <1>4, <1>8, <1>9, SMTT(30)

OnRampInv ==
  /\ lanes \in [DestChains -> LaneRecord] /\ sent \in [DestChains -> Seq(Nat)]
  /\ \A c \in DestChains : IsInjective(lanes[c].defaults) /\ Len(sent[c]) = lanes[c].number
  /\ fees \in Nat /\ owed \in Nat
  /\ MessagesSound /\ FeesKept

\* Sending a message.
LEMMA SendKeeps ==
  ASSUME OnRampInv, NEW c \in DestChains, NEW m \in OutMessages, NEW pool \in PoolAnswers,
         NEW q \in Quotes, ccip_send(c, m, pool, q)
  PROVE  OnRampInv'
<1> DEFINE lane == lanes[c]
           l == build_merged_outbound_ccv_lists(lane, m, pool)
           must == Demanded(lane, m, pool)
           total == total_fee(q, m, l)
           paid == IF total > 0 THEN distributed(q, m, l) ELSE 0
<1>1. /\ IsInjective(m.ccvs) /\ l # <<>>
      /\ lanes' = [lanes EXCEPT ![c].number = @ + 1]
      /\ sent' = [sent EXCEPT ![c] = Append(@, lane.number + 1)]
      /\ last' = [ccvs |-> l, must |-> must]
      /\ fees' = (fees + total) - paid
      /\ owed' = owed + NetworkTokens(q)
  BY DEF ccip_send, forward_from_router, get_fee
<1>2. lane \in LaneRecord /\ IsInjective(lane.defaults) /\ Len(sent[c]) = lane.number
      /\ sent[c] \in Seq(Nat) /\ lane.number \in Nat
  BY DEF OnRampInv, LaneRecord
<1>3. l \in Seq(Ccvs) /\ IsInjective(l) /\ must \subseteq Range(l)
  BY <1>1, <1>2, PlanSound
<1>4. /\ lanes' \in [DestChains -> LaneRecord]
      /\ \A d \in DestChains : IsInjective(lanes'[d].defaults)
      /\ lanes'[c].number = lane.number + 1
      /\ \A d \in DestChains \ {c} : lanes'[d] = lanes[d]
  <2> DEFINE new == [lane EXCEPT !.number = @ + 1]
  <2>1. lanes' = [lanes EXCEPT ![c] = new]
    BY <1>1
  <2>2. new \in LaneRecord /\ new.defaults = lane.defaults /\ new.number = lane.number + 1
    BY <1>2, SMTT(30) DEF LaneRecord
  <2> HIDE DEF new, l, must
  <2> QED BY <1>2, <2>1, <2>2 DEF OnRampInv
<1>5. /\ sent' \in [DestChains -> Seq(Nat)]
      /\ Len(sent'[c]) = lane.number + 1
      /\ \A i \in DOMAIN sent'[c] : sent'[c][i] = i
      /\ \A d \in DestChains \ {c} : sent'[d] = sent[d]
  <2> DEFINE new == Append(sent[c], lane.number + 1)
  <2>1. sent' = [sent EXCEPT ![c] = new]
    BY <1>1
  <2>2. new \in Seq(Nat) /\ Len(new) = lane.number + 1
    BY <1>2
  <2>3. \A i \in DOMAIN sent[c] : sent[c][i] = i
    BY DEF OnRampInv, MessagesSound
  <2>4. \A i \in DOMAIN new : new[i] = i
    BY <1>2, <2>3
  <2> HIDE DEF new, l, must
  <2> QED BY <2>1, <2>2, <2>4 DEF OnRampInv
<1>6. fees' \in Nat /\ owed' \in Nat /\ fees' >= owed'
  <2>1. /\ total \in Nat /\ distributed(q, m, l) \in Nat /\ NetworkTokens(q) \in Nat
        /\ NetworkTokens(q) + distributed(q, m, l) <= total
    BY <1>3, FeeCovers
  <2>2. fees \in Nat /\ owed \in Nat /\ fees >= owed
    BY DEF OnRampInv, FeesKept
  <2>3. fees' = (fees + total) - paid /\ owed' = owed + NetworkTokens(q)
    BY <1>1
  <2>4. paid = IF total > 0 THEN distributed(q, m, l) ELSE 0
    OBVIOUS
  <2> HIDE DEF total, paid, l
  <2> QED BY <2>1, <2>2, <2>3, <2>4
<1>7. last'.ccvs = l /\ last'.must = must
  BY <1>1
<1>8. MessagesSound'
  <2>1. \A d \in DestChains : \A i \in DOMAIN sent'[d] : sent'[d][i] = i
    BY <1>5 DEF OnRampInv, MessagesSound
  <2> HIDE DEF l, must
  <2> QED BY <1>1, <1>3, <1>7, <2>1 DEF MessagesSound
<1>9. \A d \in DestChains : Len(sent'[d]) = lanes'[d].number
  BY <1>4, <1>5 DEF OnRampInv
<1> QED BY <1>4, <1>5, <1>6, <1>8, <1>9 DEF OnRampInv, FeesKept

LEMMA OnRampInvariant == Spec => []OnRampInv
<1>1. Init => OnRampInv
  <2> SUFFICES ASSUME Init PROVE OnRampInv
    OBVIOUS
  <2>1. /\ lanes = [c \in DestChains |-> NoLane] /\ sent = [c \in DestChains |-> <<>>]
        /\ last = NoMessage /\ fees = 0 /\ owed = 0
    BY DEF Init, OnRampInit
  <2>2. NoLane \in LaneRecord /\ NoLane.defaults = <<>> /\ NoLane.number = 0
    BY DEF NoLane, LaneRecord
  <2>3. IsInjective(<<>>)
    BY DEF IsInjective
  <2>4. MessagesSound
    BY <2>1, <2>3 DEF MessagesSound, NoMessage
  <2> QED BY <2>1, <2>2, <2>3, <2>4 DEF OnRampInv, FeesKept
<1>2. OnRampInv /\ [Next]_vars => OnRampInv'
  <2> SUFFICES ASSUME OnRampInv, [Next]_vars PROVE OnRampInv'
    OBVIOUS
  <2>1. CASE UNCHANGED onrampVars
    BY <2>1 DEF onrampVars, OnRampInv, MessagesSound, FeesKept
  <2>2. CASE Sending
    <3>1. ASSUME NEW c \in DestChains, NEW defaults \in CcvLists, NEW mandated \in CcvLists,
                 apply_dest_chain_config_update(c, defaults, mandated)
          PROVE  OnRampInv'
      <4> DEFINE new == [set |-> TRUE, number |-> lanes[c].number,
                         defaults |-> defaults, mandated |-> mandated]
      <4>1. lanes' = [lanes EXCEPT ![c] = new] /\ UNCHANGED <<sent, last, fees, owed>>
        BY <3>1 DEF apply_dest_chain_config_update
      <4>2. defaults \in Seq(Ccvs) /\ mandated \in Seq(Ccvs) /\ IsInjective(defaults)
        BY <3>1, OnRampAssumption DEF apply_dest_chain_config_update, validate
      <4>3. /\ new \in LaneRecord /\ new.defaults = defaults
            /\ new.number = lanes[c].number
        BY <4>2 DEF LaneRecord, OnRampInv
      <4> HIDE DEF new
      <4>4. /\ lanes' \in [DestChains -> LaneRecord]
            /\ \A d \in DestChains : /\ IsInjective(lanes'[d].defaults)
                                     /\ lanes'[d].number = lanes[d].number
        BY <4>1, <4>2, <4>3 DEF OnRampInv
      <4> QED BY <4>1, <4>4 DEF OnRampInv, MessagesSound, FeesKept
    <3>2. CASE withdraw_fee_tokens
      BY <3>2 DEF withdraw_fee_tokens, OnRampInv, MessagesSound, FeesKept
    <3> QED BY <2>2, <3>1, <3>2, SendKeeps DEF Sending, OnRampNext
  <2>3. CASE Close \/ Forwarding \/ Caching \/ Limiting
    BY <2>1, <2>3 DEF Close, Forwarding, Caching, Limiting, others
  <2>4. CASE Siloing \/ Verifying
    BY <2>1, <2>4 DEF Siloing, Verifying
  <2>5. CASE UNCHANGED vars
    BY <2>1, <2>5 DEF vars, others
  <2> QED BY <2>2, <2>3, <2>4, <2>5 DEF Next
<1> QED
  BY <1>1, <1>2, PTL DEF Spec

\* The messages of each lane are numbered without gap or repetition across its
\* reconfigurations, and each goes out with a CCV list that is not empty, repeats
\* nothing and leaves out nothing its sender, the lane or the pool demands, for
\* any lanes, lists, messages and answers of pools.
THEOREM MessagesAreSound == Spec => []MessagesSound
<1>1. OnRampInv => MessagesSound
  BY DEF OnRampInv
<1> QED BY <1>1, OnRampInvariant, PTL

\* The receipts of a message, each rounded by itself, never cost more than the
\* fee collected for their rounded sum: the network fees not swept yet stay in
\* the OnRamp's balance, for any prices, premiums and charges.
THEOREM FeesAreKept == Spec => []FeesKept
<1>1. OnRampInv => FeesKept
  BY DEF OnRampInv
<1> QED BY <1>1, OnRampInvariant, PTL

-----------------------------------------------------------------------------
(* Sums over a set, as MapThenSumSet takes them: an element at a time, in an *)
(* order nobody knows. The sum does not depend on it.                        *)

SumOver(f, S) == MapThenSumSet(LAMBDA x : f[x], S)
Picked(s) == CHOOSE x \in s : TRUE
Summed(f, S, g) == [s \in SUBSET S |-> IF s = {} THEN 0 ELSE f[Picked(s)] + g[s \ {Picked(s)}]]

\* The partial sums of a set of at most n elements.
Partial(f, S, n, g) ==
  /\ g \in [{s \in SUBSET S : Cardinality(s) <= n} -> Nat]
  /\ \A s \in SUBSET S : Cardinality(s) <= n =>
       g[s] = IF s = {} THEN 0 ELSE f[Picked(s)] + g[s \ {Picked(s)}]

LEMMA OneLess ==
  ASSUME NEW s, IsFiniteSet(s), s # {}
  PROVE  /\ Picked(s) \in s
         /\ \A x \in s : /\ IsFiniteSet(s \ {x}) /\ Cardinality(s) \in Nat
                         /\ Cardinality(s \ {x}) \in Nat
                         /\ Cardinality(s \ {x}) = Cardinality(s) - 1
<1>1. Picked(s) \in s
  BY DEF Picked
<1>2. ASSUME NEW x \in s
      PROVE  /\ IsFiniteSet(s \ {x}) /\ Cardinality(s) \in Nat
             /\ Cardinality(s \ {x}) \in Nat /\ Cardinality(s \ {x}) = Cardinality(s) - 1
  <2>1. IsFiniteSet(s \ {x}) /\ Cardinality(s \ {x}) = Cardinality(s) - 1
    BY FS_RemoveElement
  <2> QED BY <2>1, FS_CardinalityType
<1> QED BY <1>1, <1>2

\* A finite set of indices of natural numbers.
Summable(f, S) == IsFiniteSet(S) /\ \A x \in S : f[x] \in Nat

LEMMA SummableSubset ==
  ASSUME NEW f, NEW S, Summable(f, S), NEW U \in SUBSET S
  PROVE  /\ Summable(f, U) /\ IsFiniteSet(U) /\ Cardinality(U) \in Nat
         /\ Cardinality(U) <= 0 => U = {}
<1>1. IsFiniteSet(U) /\ Cardinality(U) \in Nat
  BY FS_Subset, FS_CardinalityType DEF Summable
<1> QED BY <1>1, FS_EmptySet DEF Summable

LEMMA PartialSums ==
  ASSUME NEW f, NEW S, Summable(f, S), NEW n \in Nat
  PROVE  \E g : Partial(f, S, n, g)
<1> DEFINE Upto(m) == {s \in SUBSET S : Cardinality(s) <= m}
           M == {m \in Nat : \E g : Partial(f, S, m, g)}
<1>1. ASSUME NEW s \in SUBSET S PROVE IsFiniteSet(s) /\ Cardinality(s) \in Nat
  BY SummableSubset
<1>2. 0 \in M
  <2> DEFINE g == [s \in Upto(0) |-> 0]
  <2>1. \A s \in SUBSET S : Cardinality(s) <= 0 => s = {}
    BY <1>1, FS_EmptySet
  <2>2. g \in [Upto(0) -> Nat]
    OBVIOUS
  <2>3. \A s \in Upto(0) : g[s] = 0 /\ s = {}
    BY <2>1
  <2> HIDE DEF g
  <2>4. Partial(f, S, 0, g)
    BY <2>2, <2>3 DEF Partial
  <2> QED BY <2>4
<1>3. ASSUME NEW m \in Nat, m \in M PROVE m + 1 \in M
  <2>1. PICK g : Partial(f, S, m, g)
    BY <1>3
  <2> DEFINE h == [s \in Upto(m + 1) |-> IF s = {} THEN 0
                                          ELSE f[Picked(s)] + g[s \ {Picked(s)}]]
  <2>2. g \in [Upto(m) -> Nat]
    BY <2>1 DEF Partial
  <2>3. ASSUME NEW s \in Upto(m + 1), s # {}
        PROVE  /\ s \ {Picked(s)} \in Upto(m) /\ f[Picked(s)] \in Nat
               /\ s \ {Picked(s)} \in Upto(m + 1)
    <3>1. IsFiniteSet(s) /\ Cardinality(s) \in Nat /\ Cardinality(s) <= m + 1
      BY <1>1
    <3>2. Picked(s) \in s /\ Cardinality(s \ {Picked(s)}) = Cardinality(s) - 1
      BY <2>3, <3>1, OneLess
    <3> QED BY <3>1, <3>2 DEF Summable
  <2>4. h \in [Upto(m + 1) -> Nat]
    <3> HIDE DEF Upto
    <3> QED BY <2>2, <2>3
  <2>5. ASSUME NEW s \in Upto(m) PROVE s \in Upto(m + 1) /\ h[s] = g[s]
    <3>1. s \in Upto(m + 1) /\ s \in SUBSET S /\ Cardinality(s) <= m
      BY <1>1
    <3>2. g[s] = IF s = {} THEN 0 ELSE f[Picked(s)] + g[s \ {Picked(s)}]
      BY <2>1, <3>1 DEF Partial
    <3> HIDE DEF Upto
    <3> QED BY <3>1, <3>2
  <2>6. ASSUME NEW s \in Upto(m + 1)
        PROVE  h[s] = IF s = {} THEN 0 ELSE f[Picked(s)] + h[s \ {Picked(s)}]
    <3>1. s # {} => h[s \ {Picked(s)}] = g[s \ {Picked(s)}]
      BY <2>3, <2>5
    <3>2. h[s] = IF s = {} THEN 0 ELSE f[Picked(s)] + g[s \ {Picked(s)}]
      <4> HIDE DEF Upto
      <4> QED OBVIOUS
    <3> HIDE DEF h
    <3> QED BY <3>1, <3>2
  <2> HIDE DEF h
  <2>7. Partial(f, S, m + 1, h)
    BY <2>4, <2>6 DEF Partial
  <2>8. \E k : Partial(f, S, m + 1, k)
    BY <2>7
  <2> QED BY <2>8
<1> HIDE DEF M
<1>4. n \in M
  BY <1>2, <1>3, NatSetInduction
<1> QED BY <1>4 DEF M

\* What the sums of the subsets are, as the definition has them.
Sums(f, S) == CHOOSE g : g = Summed(f, S, g)

SumsOK(f, S) ==
  \A s \in SUBSET S :
    Sums(f, S)[s] = IF s = {} THEN 0 ELSE f[Picked(s)] + Sums(f, S)[s \ {Picked(s)}]

LEMMA SumsAre ==
  ASSUME NEW f, NEW S, Summable(f, S)
  PROVE  SumOver(f, S) = Sums(f, S)[S] /\ SumsOK(f, S)
<1>1. SumOver(f, S) = Sums(f, S)[S]
  BY DEF SumOver, MapThenSumSet, MapThenFoldSet, Sums, Summed, Picked
<1> DEFINE n == Cardinality(S)
<1>2. n \in Nat
  BY FS_CardinalityType DEF Summable
<1>3. PICK g : Partial(f, S, n, g)
  BY <1>2, PartialSums
<1>4. \A s \in SUBSET S : Cardinality(s) <= n
  BY FS_Subset DEF Summable
<1>5. g = Summed(f, S, g)
  <2>1. {s \in SUBSET S : Cardinality(s) <= n} = SUBSET S
    BY <1>4
  <2>2. g \in [SUBSET S -> Nat]
    BY <1>3, <2>1 DEF Partial
  <2>3. \A s \in SUBSET S : g[s] = IF s = {} THEN 0 ELSE f[Picked(s)] + g[s \ {Picked(s)}]
    BY <1>3, <1>4 DEF Partial
  <2>4. g = [s \in SUBSET S |-> g[s]]
    BY <2>2
  <2> QED BY <2>3, <2>4 DEF Summed
<1>6. Sums(f, S) = Summed(f, S, Sums(f, S))
  BY <1>5 DEF Sums
<1>7. \A s \in SUBSET S : Summed(f, S, Sums(f, S))[s]
        = IF s = {} THEN 0 ELSE f[Picked(s)] + Sums(f, S)[s \ {Picked(s)}]
  BY DEF Summed
<1> QED BY <1>1, <1>6, <1>7 DEF SumsOK

LEMMA SumOfNone == ASSUME NEW f PROVE SumOver(f, {}) = 0
<1>1. Summable(f, {})
  BY FS_EmptySet DEF Summable
<1> QED BY <1>1, SumsAre DEF SumsOK

\* The sum of a subset does not depend on the set it is taken in.
LEMMA SubsetSums ==
  ASSUME NEW f, NEW S, Summable(f, S), NEW s \in SUBSET S
  PROVE  Sums(f, S)[s] = SumOver(f, s) /\ SumOver(f, s) \in Nat
<1> DEFINE P(U, u) == Sums(f, U)[u] = SumOver(f, u) /\ SumOver(f, u) \in Nat
           M == {m \in Nat : \A U \in SUBSET S :
                   \A u \in SUBSET U : Cardinality(u) <= m => P(U, u)}
<1>1. ASSUME NEW U \in SUBSET S, NEW u \in SUBSET U
      PROVE  /\ IsFiniteSet(u) /\ Cardinality(u) \in Nat /\ (Cardinality(u) <= 0 => u = {})
             /\ SumOver(f, u) = Sums(f, u)[u]
             /\ Sums(f, u)[u] = IF u = {} THEN 0 ELSE f[Picked(u)] + Sums(f, u)[u \ {Picked(u)}]
             /\ Sums(f, U)[u] = IF u = {} THEN 0 ELSE f[Picked(u)] + Sums(f, U)[u \ {Picked(u)}]
  <2>1. Summable(f, U) /\ Summable(f, u) /\ IsFiniteSet(u) /\ Cardinality(u) \in Nat
        /\ (Cardinality(u) <= 0 => u = {})
    BY SummableSubset
  <2>2. u \in SUBSET u
    OBVIOUS
  <2>3. /\ SumOver(f, u) = Sums(f, u)[u]
        /\ Sums(f, u)[u] = IF u = {} THEN 0 ELSE f[Picked(u)] + Sums(f, u)[u \ {Picked(u)}]
    BY <2>1, <2>2, SumsAre DEF SumsOK
  <2>4. Sums(f, U)[u] = IF u = {} THEN 0 ELSE f[Picked(u)] + Sums(f, U)[u \ {Picked(u)}]
    <3>1. SumsOK(f, U)
      BY <2>1, SumsAre
    <3> QED BY <3>1 DEF SumsOK
  <2> QED BY <2>1, <2>3, <2>4
<1>2. 0 \in M
  <2>1. ASSUME NEW U \in SUBSET S, NEW u \in SUBSET U, Cardinality(u) <= 0
        PROVE  P(U, u)
    <3>1. u = {}
      BY <1>1, <2>1
    <3>2. SumOver(f, u) = Sums(f, u)[u] /\ Sums(f, u)[u] = 0 /\ Sums(f, U)[u] = 0
      BY <1>1, <3>1
    <3> QED BY <3>2
  <2> HIDE DEF P
  <2> QED BY <2>1
<1>3. ASSUME NEW m \in Nat, m \in M PROVE m + 1 \in M
  <2>1. ASSUME NEW U \in SUBSET S, NEW u \in SUBSET U, Cardinality(u) <= m + 1
        PROVE  P(U, u)
    <3>1. CASE u = {}
      <4>1. SumOver(f, u) = Sums(f, u)[u] /\ Sums(f, u)[u] = 0 /\ Sums(f, U)[u] = 0
        BY <1>1, <3>1
      <4> QED BY <4>1
    <3>2. CASE u # {}
      <4> DEFINE x == Picked(u)
                 v == u \ {x}
      <4>1. IsFiniteSet(u) /\ Cardinality(u) \in Nat
        BY <1>1
      <4>2. x \in u /\ Cardinality(v) = Cardinality(u) - 1
        BY <3>2, <4>1, OneLess
      <4>3. v \in SUBSET U /\ v \in SUBSET u /\ Cardinality(v) <= m /\ u \in SUBSET S
        BY <2>1, <4>1, <4>2
      <4>4. f[x] \in Nat
        BY <4>2 DEF Summable
      <4>5. P(U, v) /\ P(u, v)
        <5> HIDE DEF P, v, x
        <5> QED BY <1>3, <4>3
      <4>6. /\ SumOver(f, u) = f[x] + Sums(f, u)[v]
            /\ Sums(f, U)[u] = f[x] + Sums(f, U)[v]
        BY <1>1, <3>2
      <4> HIDE DEF v, x
      <4> QED BY <4>4, <4>5, <4>6
    <3> QED BY <3>1, <3>2
  <2> HIDE DEF P
  <2> QED BY <2>1
<1> HIDE DEF P
<1>4. Nat \subseteq M
  <2> HIDE DEF M
  <2> QED BY <1>2, <1>3, NatSetInduction
<1>5. Cardinality(s) \in Nat /\ Cardinality(s) \in M /\ S \in SUBSET S
  BY <1>4, SummableSubset
<1>6. P(S, s)
  BY <1>5
<1> QED BY <1>6 DEF P

\* Any element may be taken first.
LEMMA SumWithout ==
  ASSUME NEW f, NEW S, Summable(f, S), NEW x \in S
  PROVE  /\ SumOver(f, S \ {x}) \in Nat /\ SumOver(f, S) \in Nat
         /\ SumOver(f, S) = f[x] + SumOver(f, S \ {x})
<1> DEFINE P(U, y) == SumOver(f, U) = f[y] + SumOver(f, U \ {y})
           M == {m \in Nat : \A U \in SUBSET S : Cardinality(U) <= m => \A y \in U : P(U, y)}
<1>1. ASSUME NEW U \in SUBSET S
      PROVE  /\ IsFiniteSet(U) /\ Cardinality(U) \in Nat /\ (Cardinality(U) <= 0 => U = {})
             /\ SumOver(f, U) \in Nat
  BY SummableSubset, SubsetSums
<1>2. ASSUME NEW U \in SUBSET S, U # {}
      PROVE  SumOver(f, U) = f[Picked(U)] + SumOver(f, U \ {Picked(U)})
  <2>1. U \in SUBSET U /\ U \ {Picked(U)} \in SUBSET U /\ Summable(f, U)
    BY SummableSubset
  <2>2. SumOver(f, U) = f[Picked(U)] + Sums(f, U)[U \ {Picked(U)}]
    BY <1>2, <2>1, SumsAre DEF SumsOK
  <2> QED BY <2>1, <2>2, SubsetSums
<1>3. 0 \in M
  <2> HIDE DEF P
  <2> QED BY <1>1
<1>4. ASSUME NEW m \in Nat, m \in M PROVE m + 1 \in M
  <2>1. ASSUME NEW U \in SUBSET S, Cardinality(U) <= m + 1, NEW y \in U
        PROVE  P(U, y)
    <3> DEFINE p == Picked(U)
               A == U \ {p}
               B == U \ {y}
               C == U \ {p, y}
    <3>1. IsFiniteSet(U) /\ Cardinality(U) \in Nat /\ U # {}
      BY <1>1
    <3>2. p \in U /\ SumOver(f, U) = f[p] + SumOver(f, A)
      BY <1>2, <3>1, OneLess
    <3>3. CASE y = p
      BY <3>2, <3>3
    <3>4. CASE y # p
      <4>1. Cardinality(A) = Cardinality(U) - 1 /\ Cardinality(B) = Cardinality(U) - 1
        BY <3>1, <3>2, OneLess
      <4>2. /\ Cardinality(A) <= m /\ Cardinality(B) <= m
            /\ A \in SUBSET S /\ B \in SUBSET S /\ C \in SUBSET S /\ y \in A /\ p \in B
            /\ A \ {y} = C /\ B \ {p} = C
        <5> HIDE DEF p
        <5> QED BY <2>1, <3>1, <3>2, <3>4, <4>1
      <4>3. P(A, y) /\ P(B, p)
        <5> HIDE DEF P, A, B, p
        <5> QED BY <1>4, <4>2
      <4>4. f[p] \in Nat /\ f[y] \in Nat /\ SumOver(f, C) \in Nat
        BY <1>1, <3>2, <4>2 DEF Summable
      <4>5. SumOver(f, A) = f[y] + SumOver(f, C) /\ SumOver(f, B) = f[p] + SumOver(f, C)
        BY <4>2, <4>3
      <4> HIDE DEF A, C, p
      <4> QED BY <3>2, <4>4, <4>5
    <3> QED BY <3>3, <3>4
  <2> HIDE DEF P
  <2> QED BY <2>1
<1> HIDE DEF P
<1>5. Nat \subseteq M
  <2> HIDE DEF M
  <2> QED BY <1>3, <1>4, NatSetInduction
<1>6. Cardinality(S) \in Nat /\ Cardinality(S) \in M /\ S \in SUBSET S
  BY <1>1, <1>5
<1>7. P(S, x)
  BY <1>6
<1>8. SumOver(f, S) \in Nat /\ SumOver(f, S \ {x}) \in Nat
  BY <1>1
<1> QED BY <1>7, <1>8 DEF P

\* Functions that agree on a set have the same sum over it.
LEMMA SumAgrees ==
  ASSUME NEW f, NEW g, NEW S, Summable(f, S), \A x \in S : f[x] = g[x]
  PROVE  Summable(g, S) /\ SumOver(f, S) = SumOver(g, S)
<1> DEFINE M == {m \in Nat : \A U \in SUBSET S : Cardinality(U) <= m =>
                   SumOver(f, U) = SumOver(g, U)}
<1>0. Summable(g, S)
  BY DEF Summable
<1>1. ASSUME NEW U \in SUBSET S
      PROVE  /\ IsFiniteSet(U) /\ Cardinality(U) \in Nat /\ (Cardinality(U) <= 0 => U = {})
             /\ Summable(f, U) /\ Summable(g, U)
  BY <1>0, SummableSubset
<1>2. ASSUME NEW U \in SUBSET S, U = {} PROVE SumOver(f, U) = 0 /\ SumOver(g, U) = 0
  BY <1>2, SumOfNone
<1>3. 0 \in M
  <2>1. ASSUME NEW U \in SUBSET S, Cardinality(U) <= 0 PROVE SumOver(f, U) = SumOver(g, U)
    BY <1>1, <1>2, <2>1
  <2> QED BY <2>1
<1>4. ASSUME NEW m \in Nat, m \in M PROVE m + 1 \in M
  <2>1. ASSUME NEW U \in SUBSET S, Cardinality(U) <= m + 1 PROVE SumOver(f, U) = SumOver(g, U)
    <3>1. CASE U = {}
      BY <1>2, <3>1
    <3>2. CASE U # {}
      <4> DEFINE x == Picked(U)
                 V == U \ {x}
      <4>1. IsFiniteSet(U) /\ Cardinality(U) \in Nat
        BY <1>1
      <4>2. x \in U /\ Cardinality(V) = Cardinality(U) - 1
        BY <3>2, <4>1, OneLess
      <4>3. V \in SUBSET S /\ Cardinality(V) <= m
        BY <2>1, <4>1, <4>2
      <4>4. SumOver(f, V) = SumOver(g, V)
        <5> HIDE DEF V
        <5> QED BY <1>4, <4>3
      <4>5. SumOver(f, U) = f[x] + SumOver(f, V) /\ SumOver(g, U) = g[x] + SumOver(g, V)
        BY <1>1, <4>2, SumWithout
      <4> HIDE DEF V, x
      <4> QED BY <4>2, <4>4, <4>5
    <3> QED BY <3>1, <3>2
  <2> QED BY <2>1
<1> HIDE DEF M
<1>5. Nat \subseteq M
  BY <1>3, <1>4, NatSetInduction
<1>6. Cardinality(S) \in M /\ Cardinality(S) \in Nat /\ S \in SUBSET S
  BY <1>1, <1>5
<1> QED BY <1>0, <1>6 DEF M

-----------------------------------------------------------------------------
(* The lock boxes. A lane that was never pointed elsewhere owes to the one  *)
(* box it uses, so that only that box's sum moves with it.                  *)

\* A sum whose terms differ in one place differs by that term.
LEMMA SumChange ==
  ASSUME NEW f, NEW g, NEW S, Summable(f, S), NEW x \in S, g[x] \in Nat,
         \A y \in S \ {x} : f[y] = g[y]
  PROVE  /\ SumOver(f, S) \in Nat /\ SumOver(g, S) \in Nat
         /\ SumOver(g, S) + f[x] = SumOver(f, S) + g[x]
<1> DEFINE A == S \ {x}
<1>1. Summable(g, S) /\ f[x] \in Nat
  BY DEF Summable
<1>2. Summable(f, A)
  BY SummableSubset
<1>3. SumOver(f, A) = SumOver(g, A)
  BY <1>2, SumAgrees
<1>4. /\ SumOver(f, S) \in Nat /\ SumOver(f, A) \in Nat
      /\ SumOver(f, S) = f[x] + SumOver(f, A)
  BY SumWithout
<1>5. SumOver(g, S) \in Nat /\ SumOver(g, S) = g[x] + SumOver(g, A)
  BY <1>1, SumWithout
<1> QED BY <1>1, <1>3, <1>4, <1>5

\* A term that is zero may join a sum.
LEMMA SumWithZero ==
  ASSUME NEW f, NEW S, NEW x, Summable(f, S), f[x] = 0
  PROVE  Summable(f, S \union {x}) /\ SumOver(f, S \union {x}) = SumOver(f, S)
<1> DEFINE U == S \union {x}
<1>1. Summable(f, U)
  BY FS_AddElement DEF Summable
<1>2. CASE x \in S
  <2>1. U = S
    BY <1>2
  <2> QED BY <1>1, <2>1
<1>3. CASE x \notin S
  <2>1. U \ {x} = S /\ x \in U
    BY <1>3
  <2>2. SumOver(f, U) = f[x] + SumOver(f, U \ {x}) /\ SumOver(f, U \ {x}) \in Nat
    BY <1>1, <2>1, SumWithout
  <2> QED BY <1>1, <2>1, <2>2
<1> QED BY <1>2, <1>3

\* Amounts of either side are natural numbers.
LEMMA LocalAmountNat ==
  ASSUME NEW c \in SiloLanes, NEW a \in Nat
  PROVE  calculate_local_amount(c, a) \in Nat /\ RemoteAmount(c, a) \in Nat
<1>1. Pow[c] \in Nat \ {0}
  BY SiloAssumption
<1>2. a \div Pow[c] \in Nat
  BY <1>1, DivBounds
<1>3. a * Pow[c] \in Nat
  BY <1>1
<1> QED BY <1>2, <1>3 DEF calculate_local_amount, RemoteAmount

\* What a lock mints abroad is worth no more here than what it locked.
LEMMA LockOwes ==
  ASSUME NEW c \in SiloLanes, NEW a \in Nat, NEW d \in Nat
  PROVE  calculate_local_amount(c, a + RemoteAmount(c, d))
           <= calculate_local_amount(c, a) + d
<1> DEFINE r == Pow[c]
<1>0. r \in Nat \ {0}
  BY SiloAssumption
<1> HIDE DEF r
<1>1. CASE c \in Finer
  <2> DEFINE q == a \div r
             p == (a + d * r) \div r
  <2>1. d * r \in Nat /\ a + d * r \in Nat
    BY <1>0
  <2>2. q \in Nat /\ a < r * q + r
    BY <1>0, DivBounds
  <2>3. p \in Nat /\ r * p <= a + d * r
    BY <1>0, <2>1, DivBounds
  <2> HIDE DEF p, q
  <2>4. r * p < r * q + r + d * r
    BY <1>0, <2>1, <2>2, <2>3
  <2>5. r * q + r + d * r = r * (q + 1 + d)
    BY <1>0, <2>2
  <2>6. p <= q + d
    <3> SUFFICES ASSUME p >= q + 1 + d PROVE FALSE
      BY <2>2, <2>3
    <3>1. r * p >= r * (q + 1 + d)
      <4> DEFINE e == p - (q + 1 + d)
      <4>1. e \in Nat /\ p = (q + 1 + d) + e
        BY <2>2, <2>3
      <4> HIDE DEF e
      <4>2. r * p = r * (q + 1 + d) + r * e /\ r * e \in Nat /\ r * (q + 1 + d) \in Nat
        BY <1>0, <2>2, <4>1
      <4> QED BY <4>2
    <3> QED BY <3>1, <2>4, <2>5, <2>2, <2>3, <1>0
  <2> QED BY <1>1, <2>6 DEF p, q, r, calculate_local_amount, RemoteAmount
<1>2. CASE c \notin Finer
  <2> DEFINE q == d \div r
  <2>1. q \in Nat /\ r * q <= d
    BY <1>0, DivBounds
  <2> HIDE DEF q
  <2>2. (a + q) * r = a * r + r * q /\ a * r \in Nat /\ r * q \in Nat
    BY <1>0, <2>1
  <2>3. (a + q) * r <= a * r + d
    BY <2>1, <2>2
  <2> QED BY <1>2, <2>3 DEF q, r, calculate_local_amount, RemoteAmount
<1> QED BY <1>1, <1>2

\* What a release takes is made good by what can no longer come back.
LEMMA ReleaseOwes ==
  ASSUME NEW c \in SiloLanes, NEW a \in Nat, NEW n \in Nat, n <= a
  PROVE  calculate_local_amount(c, a - n) + calculate_local_amount(c, n)
           <= calculate_local_amount(c, a)
<1> DEFINE r == Pow[c]
<1>0. r \in Nat \ {0} /\ a - n \in Nat /\ (a - n) + n = a
  BY SiloAssumption
<1> HIDE DEF r
<1>1. CASE c \in Finer
  <2>1. (a - n) \div r + n \div r <= ((a - n) + n) \div r
    BY <1>0, DivAdd
  <2>2. (a - n) \div r + n \div r <= a \div r
    BY <1>0, <2>1
  <2> QED BY <1>1, <2>2 DEF r, calculate_local_amount
<1>2. CASE c \notin Finer
  <2> DEFINE m == a - n
  <2>1. m \in Nat /\ a = m + n
    BY <1>0
  <2> HIDE DEF m
  <2>2. m * r + n * r = a * r /\ m * r \in Nat /\ n * r \in Nat
    BY <1>0, <2>1
  <2> QED BY <1>2, <2>2 DEF m, r, calculate_local_amount
<1> QED BY <1>1, <1>2

SiloTypes ==
  /\ boxOf \in [SiloLanes -> Boxes \union {NoBox}]
  /\ held \in [Boxes -> Nat]
  /\ abroad \in [SiloLanes -> Nat]
  /\ users \in [Boxes -> SUBSET SiloLanes]
  /\ moved \in SUBSET SiloLanes

\* A lane is among the users of its box, a lane that was never pointed
\* elsewhere among no other's, and a lane without a box has nothing abroad.
LanesAtHome ==
  \A c \in SiloLanes :
    /\ boxOf[c] = NoBox => abroad[c] = 0
    /\ boxOf[c] # NoBox => c \in users[boxOf[c]]
    /\ \A b \in Boxes : c \in users[b] /\ c \notin moved => boxOf[c] = b

Covered(b) == users[b] \intersect moved = {} => SumOver(Owing, users[b]) <= held[b]

SiloInv == SiloTypes /\ LanesAtHome /\ \A b \in Boxes : Covered(b)

LEMMA OwingSummable ==
  ASSUME abroad \in [SiloLanes -> Nat], NEW S \in SUBSET SiloLanes
  PROVE  Summable(Owing, S) /\ SumOver(Owing, S) \in Nat
<1>1. \A c \in SiloLanes : Owing[c] \in Nat
  BY LocalAmountNat DEF Owing
<1>2. IsFiniteSet(S)
  BY SiloAssumption, FS_Subset
<1>3. Summable(Owing, S)
  BY <1>1, <1>2 DEF Summable
<1>4. S \in SUBSET S
  OBVIOUS
<1> QED BY <1>3, <1>4, SubsetSums

\* What one lane owes and the box of that lane change together: if the debt
\* grows by no more than the box does, every box stays covered.
LEMMA LaneMoves ==
  ASSUME SiloInv, NEW c \in SiloLanes, boxOf[c] # NoBox,
         UNCHANGED <<boxOf, users, moved>>,
         held' \in [Boxes -> Nat], abroad' \in [SiloLanes -> Nat],
         \A b \in Boxes \ {boxOf[c]} : held'[b] = held[b],
         \A x \in SiloLanes \ {c} : abroad'[x] = abroad[x],
         Owing'[c] + held[boxOf[c]] <= Owing[c] + held'[boxOf[c]]
  PROVE  SiloInv'
<1> DEFINE h == boxOf[c]
<1>0. h \in Boxes /\ SiloTypes /\ LanesAtHome
  BY DEF SiloInv, SiloTypes
<1>1. SiloTypes'
  BY <1>0 DEF SiloTypes
<1>2. LanesAtHome'
  <2> SUFFICES ASSUME NEW x \in SiloLanes, boxOf[x] = NoBox PROVE abroad'[x] = 0
    BY <1>0 DEF LanesAtHome
  <2> QED BY <1>0 DEF LanesAtHome
<1>3. \A x \in SiloLanes \ {c} : Owing'[x] = Owing[x]
  BY DEF Owing
<1>4. Owing[c] \in Nat /\ Owing'[c] \in Nat
  BY <1>0, <1>1, LocalAmountNat DEF Owing, SiloTypes
<1>5. ASSUME NEW b \in Boxes, users[b] \intersect moved = {}
      PROVE  SumOver(Owing', users[b]) <= held'[b]
  <2> DEFINE S == users[b]
             f == Owing
             g == Owing'
  <2>1. S \in SUBSET SiloLanes
    BY <1>0 DEF SiloTypes
  <2>2. Summable(f, S) /\ SumOver(f, S) \in Nat /\ SumOver(f, S) <= held[b]
    BY <1>0, <1>5, <2>1, OwingSummable DEF SiloInv, SiloTypes, Covered
  <2>3. held[b] \in Nat /\ held'[b] \in Nat
    BY <1>0 DEF SiloTypes
  <2>4. CASE c \in S
    <3>1. b = h
      BY <1>0, <1>5, <2>4 DEF LanesAtHome
    <3>2. \A y \in S \ {c} : f[y] = g[y]
      BY <1>3, <2>1
    <3>3. g[c] \in Nat /\ f[c] \in Nat /\ g[c] + held[b] <= f[c] + held'[b]
      BY <1>4, <3>1
    <3> HIDE DEF f, g, S
    <3>4. SumOver(g, S) \in Nat /\ SumOver(g, S) + f[c] = SumOver(f, S) + g[c]
      BY <2>2, <2>4, <3>2, <3>3, SumChange
    <3>5. SumOver(g, S) <= held'[b]
      BY <2>2, <2>3, <3>3, <3>4
    <3> QED BY <3>5 DEF g, S
  <2>5. CASE c \notin S
    <3>1. \A y \in S : f[y] = g[y]
      BY <1>3, <2>1, <2>5
    <3>2. b # h
      BY <1>0, <2>5 DEF LanesAtHome
    <3>3. held'[b] = held[b]
      BY <3>2
    <3> HIDE DEF f, g, S
    <3>4. SumOver(f, S) = SumOver(g, S)
      BY <2>2, <3>1, SumAgrees
    <3> QED BY <2>2, <3>3, <3>4 DEF g, S
  <2> QED BY <2>4, <2>5
<1>6. \A b \in Boxes : Covered(b)'
  BY <1>5 DEF Covered
<1> QED BY <1>1, <1>2, <1>6 DEF SiloInv

\* Pointing a lane at a box: a lane without one owes nothing, and a box that
\* takes a lane from another no longer answers for it.
LEMMA ConfigureKeeps ==
  ASSUME SiloInv, NEW c \in SiloLanes, NEW h \in Boxes, configure_lock_box(c, h)
  PROVE  SiloInv'
<1>0. SiloTypes /\ LanesAtHome /\ NoBox \notin Boxes
  BY SiloAssumption DEF SiloInv
<1>1. SiloTypes'
  BY <1>0 DEF SiloTypes, configure_lock_box
<1>2. /\ boxOf'[c] = h /\ \A x \in SiloLanes \ {c} : boxOf'[x] = boxOf[x]
      /\ users'[h] = users[h] \union {c}
      /\ \A b \in Boxes \ {h} : users'[b] = users[b]
      /\ held' = held /\ abroad' = abroad /\ Owing' = Owing
      /\ moved \subseteq moved'
      /\ boxOf[c] \notin {h, NoBox} => c \in moved'
  BY <1>0 DEF SiloTypes, configure_lock_box, Owing
<1>3. LanesAtHome'
  <2> SUFFICES ASSUME NEW x \in SiloLanes
               PROVE  /\ boxOf'[x] = NoBox => abroad'[x] = 0
                      /\ boxOf'[x] # NoBox => x \in users'[boxOf'[x]]
                      /\ \A b \in Boxes : x \in users'[b] /\ x \notin moved' => boxOf'[x] = b
    BY DEF LanesAtHome
  <2>1. CASE x = c
    <3>1. ASSUME NEW b \in Boxes, c \in users'[b], c \notin moved' PROVE b = h
      <4> SUFFICES ASSUME b # h PROVE FALSE
        OBVIOUS
      <4>1. c \in users[b] /\ c \notin moved
        BY <1>2, <3>1
      <4>2. boxOf[c] = b
        BY <1>0, <4>1 DEF LanesAtHome
      <4> QED BY <1>0, <1>2, <3>1, <4>2
    <3> QED BY <1>0, <1>2, <2>1, <3>1
  <2>2. CASE x # c
    <3>1. boxOf'[x] = boxOf[x] /\ boxOf[x] \in Boxes \union {NoBox}
      BY <1>0, <1>2, <2>2 DEF SiloTypes
    <3>2. \A b \in Boxes : x \in users'[b] <=> x \in users[b]
      BY <1>2, <2>2
    <3> QED BY <1>0, <1>2, <3>1, <3>2 DEF LanesAtHome
  <2> QED BY <2>1, <2>2
<1>4. ASSUME NEW b \in Boxes, users'[b] \intersect moved' = {}
      PROVE  SumOver(Owing, users'[b]) <= held[b]
  <2>0. users[b] \in SUBSET SiloLanes /\ users[b] \intersect moved = {}
    BY <1>0, <1>2, <1>4 DEF SiloTypes
  <2>1. Summable(Owing, users[b]) /\ SumOver(Owing, users[b]) <= held[b]
    BY <1>0, <2>0, OwingSummable DEF SiloInv, SiloTypes, Covered
  <2>2. CASE b # h
    BY <1>2, <2>1, <2>2
  <2>3. CASE b = h
    <3>1. c \notin moved' /\ users'[b] = users[b] \union {c}
      BY <1>2, <1>4, <2>3
    <3>2. CASE boxOf[c] = h
      <4>1. c \in users[b]
        BY <1>0, <2>3, <3>2 DEF LanesAtHome
      <4> QED BY <2>1, <3>1, <4>1
    <3>3. CASE boxOf[c] = NoBox
      <4>1. Owing[c] = 0
        <5>1. abroad[c] = 0 /\ Pow[c] \in Nat \ {0}
          BY <1>0, <3>3, SiloAssumption DEF LanesAtHome
        <5>2. 0 \div Pow[c] = 0 /\ 0 * Pow[c] = 0
          BY <5>1
        <5> QED BY <5>1, <5>2 DEF Owing, calculate_local_amount
      <4> QED BY <2>1, <3>1, <4>1, SumWithZero
    <3> QED BY <1>2, <3>1, <3>2, <3>3
  <2> QED BY <2>2, <2>3
<1>5. \A b \in Boxes : Covered(b)'
  BY <1>2, <1>4 DEF Covered
<1> QED BY <1>1, <1>3, <1>5 DEF SiloInv

LEMMA LockKeeps ==
  ASSUME SiloInv, NEW c \in SiloLanes, NEW amount \in LockAmounts, NEW bps \in Bps,
         lock_or_burn(c, amount, bps)
  PROVE  SiloInv'
<1> DEFINE h == boxOf[c]
           d == amount - _get_fee(amount, bps)
<1>0. SiloTypes /\ h \in Boxes
  BY DEF SiloInv, SiloTypes, lock_or_burn
<1>1. amount \in Nat /\ bps \in Nat /\ BpsDivider \in Nat \ {0}
  BY SiloAssumption
<1>2. _get_fee(amount, bps) \in Nat
  <2>1. amount * bps \in Nat
    BY <1>1
  <2> QED BY <1>1, <2>1, DivBounds DEF _get_fee
<1>3. d > 0 /\ held' = [held EXCEPT ![h] = @ + d]
      /\ abroad' = [abroad EXCEPT ![c] = @ + RemoteAmount(c, d)]
      /\ UNCHANGED <<boxOf, users, moved>>
  BY DEF lock_or_burn, deposit
<1>4. d \in Nat
  BY <1>1, <1>2, <1>3
<1> HIDE DEF d
<1>5. RemoteAmount(c, d) \in Nat /\ held[h] \in Nat /\ abroad[c] \in Nat
  BY <1>0, <1>4, LocalAmountNat DEF SiloTypes
<1>6. held' \in [Boxes -> Nat] /\ abroad' \in [SiloLanes -> Nat]
  BY <1>0, <1>3, <1>4, <1>5 DEF SiloTypes
<1>7. /\ held'[h] = held[h] + d /\ abroad'[c] = abroad[c] + RemoteAmount(c, d)
      /\ \A b \in Boxes \ {h} : held'[b] = held[b]
      /\ \A x \in SiloLanes \ {c} : abroad'[x] = abroad[x]
  BY <1>0, <1>3 DEF SiloTypes
<1>8. Owing'[c] + held[h] <= Owing[c] + held'[h]
  <2>1. /\ Owing'[c] = calculate_local_amount(c, abroad[c] + RemoteAmount(c, d))
        /\ Owing[c] = calculate_local_amount(c, abroad[c])
    BY <1>7 DEF Owing
  <2>2. Owing'[c] <= Owing[c] + d
    BY <1>4, <1>5, <2>1, LockOwes
  <2>3. Owing'[c] \in Nat /\ Owing[c] \in Nat
    BY <1>5, <2>1, LocalAmountNat
  <2> QED BY <1>4, <1>5, <1>7, <2>2, <2>3
<1>9. boxOf[c] # NoBox
  BY DEF lock_or_burn
<1> QED BY <1>3, <1>6, <1>7, <1>8, <1>9, LaneMoves

LEMMA ReleaseKeeps ==
  ASSUME SiloInv, NEW c \in SiloLanes, NEW amount \in ReleaseAmounts,
         release_or_mint(c, amount)
  PROVE  SiloInv'
<1> DEFINE h == boxOf[c]
           d == calculate_local_amount(c, amount)
<1>0. SiloTypes /\ h \in Boxes
  BY DEF SiloInv, SiloTypes, release_or_mint
<1>1. amount \in Nat /\ abroad[c] \in Nat /\ held[h] \in Nat
  BY <1>0, SiloAssumption DEF SiloTypes
<1>2. d \in Nat
  BY <1>1, LocalAmountNat
<1> HIDE DEF d
<1>3. /\ amount <= abroad[c]
      /\ \/ d <= held[h] /\ held' = [held EXCEPT ![h] = @ - d]
         \/ d = 0 /\ held' = held
      /\ abroad' = [abroad EXCEPT ![c] = @ - amount]
      /\ UNCHANGED <<boxOf, users, moved>>
  BY DEF release_or_mint, withdraw, d
<1>6. held' \in [Boxes -> Nat] /\ abroad' \in [SiloLanes -> Nat]
  BY <1>0, <1>1, <1>2, <1>3 DEF SiloTypes
<1>7. /\ held'[h] = held[h] - d /\ abroad'[c] = abroad[c] - amount
      /\ \A b \in Boxes \ {h} : held'[b] = held[b]
      /\ \A x \in SiloLanes \ {c} : abroad'[x] = abroad[x]
  BY <1>0, <1>1, <1>3 DEF SiloTypes
<1>8. Owing'[c] + held[h] <= Owing[c] + held'[h]
  <2>1. /\ Owing'[c] = calculate_local_amount(c, abroad[c] - amount)
        /\ Owing[c] = calculate_local_amount(c, abroad[c])
    BY <1>7 DEF Owing
  <2>2. Owing'[c] + d <= Owing[c]
    BY <1>1, <1>3, <2>1, ReleaseOwes DEF d
  <2>3. Owing'[c] \in Nat /\ Owing[c] \in Nat
    BY <1>1, <1>3, <2>1, LocalAmountNat
  <2> QED BY <1>1, <1>2, <1>7, <2>2, <2>3
<1>9. boxOf[c] # NoBox
  BY DEF release_or_mint
<1> QED BY <1>3, <1>6, <1>7, <1>8, <1>9, LaneMoves

LEMMA SiloInvariant == Spec => []SiloInv
<1>1. Init => SiloInv
  <2> SUFFICES ASSUME SiloInit PROVE SiloInv
    BY DEF Init
  <2>1. SiloTypes /\ LanesAtHome
    BY SiloAssumption DEF SiloInit, SiloTypes, LanesAtHome
  <2>2. ASSUME NEW b \in Boxes PROVE Covered(b)
    <3>1. users[b] = {} /\ held[b] = 0
      BY DEF SiloInit
    <3> QED BY <3>1, SumOfNone DEF Covered
  <2> QED BY <2>1, <2>2 DEF SiloInv
<1>2. SiloInv /\ [Next]_vars => SiloInv'
  <2> SUFFICES ASSUME SiloInv, [Next]_vars PROVE SiloInv'
    OBVIOUS
  <2>1. CASE Siloing
    BY <2>1, ConfigureKeeps, LockKeeps, ReleaseKeeps DEF Siloing, SiloNext
  <2>2. CASE UNCHANGED siloVars
    BY <2>2 DEF SiloInv, SiloTypes, LanesAtHome, Covered, Owing, siloVars
  <2>3. Siloing \/ UNCHANGED siloVars
    BY DEF Next, Close, Forwarding, Caching, Limiting, Sending, Verifying, vars, others
  <2> QED BY <2>1, <2>2, <2>3
<1> QED BY <1>1, <1>2, PTL DEF Spec

\* Every behaviour of the pool keeps what its boxes hold at or above what can
\* come back on their lanes, for every rounding of lock_or_burn's and
\* release_or_mint's amounts and every order of configure_lock_box.
THEOREM SilosAreCovered == Spec => []SilosCovered
<1>1. SiloInv => SilosCovered
  BY DEF SiloInv, SilosCovered, Covered, SumOver
<1> QED BY <1>1, SiloInvariant, PTL
=============================================================================
