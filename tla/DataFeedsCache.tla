---------------------------- MODULE DataFeedsCache ---------------------------
(***************************************************************************)
(* The data feeds cache: each feed's rounds, the window through which old  *)
(* rounds are read, and the workflows permitted to report for the feed.    *)
(*                                                                         *)
(* A round lives in temporary storage for the life it was given when it    *)
(* was written; the newest round is kept in the feed's own entry as well.  *)
(* Persistent entries do not vanish, so their extensions are left out. A   *)
(* permission stands for the hash of sender, workflow owner and name, and  *)
(* the set perms[d] for a feed's configuration together with the keys of   *)
(* the permission store: configure and remove write the two as one.        *)
(***************************************************************************)
EXTENDS Ledger, Sequences

CONSTANTS Feeds, Perms,
          Retention,  \* DATA_RETENTION_TTL
          MaxTime,    \* Bound: the last timestamp a report carries.
          MaxRounds   \* Bound: rounds of a feed.

ASSUME CacheAssumption ==
  Retention \in Nat /\ MaxTime \in Nat /\ MaxRounds \in Nat

VARIABLES feeds, perms, isAdmin

cacheVars == <<feeds, perms, isAdmin>>

Entry == [id : Feeds, ts : 0 .. MaxTime]

NoFeed == [rounds |-> <<>>, frozen |-> FALSE,
           window |-> [shortest |-> 0, growTo |-> 0, growAt |-> 0]]

CacheInit ==
  /\ feeds = [d \in Feeds |-> NoFeed]
  /\ perms = [d \in Feeds |-> {}]
  /\ isAdmin = FALSE

Latest(f)   == f.rounds[Len(f.rounds)]
LatestTs(f) == IF f.rounds = <<>> THEN 0 ELSE Latest(f).ts

\* The life a round written now is given.
RoundTtl == IF Retention <= netTtl THEN Retention ELSE netTtl

WidthAt(w) == IF now >= w.growAt THEN w.growTo ELSE w.shortest

GrowAtOldAnchor(f, ttl) ==        \* mutant: counted from the first round
  IF ttl = f.window.growTo THEN f.window.growAt ELSE f.rounds[1].seq + ttl + 1

GrowAt(f, ttl) ==
  IF ttl = f.window.growTo THEN f.window.growAt ELSE Latest(f).seq + ttl + 1

NextWindow(f, ttl) ==
  IF f.rounds = <<>>
  THEN [shortest |-> ttl, growTo |-> ttl, growAt |-> 0]
  ELSE [shortest |-> IF WidthAt(f.window) <= ttl THEN WidthAt(f.window) ELSE ttl,
        growTo   |-> ttl,
        growAt   |-> GrowAt(f, ttl)]

\* A round no newer than the stored one changes nothing.
Record(f, ts) ==
  IF ts <= LatestTs(f) THEN f
  ELSE [f EXCEPT !.rounds = Append(@, [ts |-> ts, seq |-> now, ttl |-> RoundTtl]),
                 !.window = NextWindow(f, RoundTtl)]

RecordEntry(fs, p, e) ==
  IF p \in perms[e.id] THEN [fs EXCEPT ![e.id] = Record(@, e.ts)] ELSE fs

\* A report of two entries, applied in their order in one transaction. A report
\* of one is a repeated entry, whose second application is stale.
on_report(p, a, b) ==
  /\ feeds' = RecordEntry(RecordEntry(feeds, p, a), p, b)
  /\ \A d \in Feeds : Len(feeds'[d].rounds) <= MaxRounds
  /\ UNCHANGED <<perms, isAdmin>>

\* Replaces the permissions; the rounds stay.
set_feed_configs(d, ps) ==
  /\ isAdmin /\ ps # {}
  /\ perms' = [perms EXCEPT ![d] = ps]
  /\ UNCHANGED <<feeds, isAdmin>>

remove_feed_configs(d) ==
  /\ isAdmin /\ perms[d] # {}
  /\ perms' = [perms EXCEPT ![d] = {}]
  /\ UNCHANGED <<feeds, isAdmin>>

\* The flag is for readers: a frozen feed still takes reports.
set_feed_frozen(d, frozen) ==
  /\ isAdmin /\ feeds[d].rounds # <<>>
  /\ feeds' = [feeds EXCEPT ![d].frozen = frozen]
  /\ UNCHANGED <<perms, isAdmin>>

add_feed_admin    == isAdmin' = TRUE  /\ UNCHANGED <<feeds, perms>>
remove_feed_admin == isAdmin' = FALSE /\ UNCHANGED <<feeds, perms>>

CacheNext ==
  \/ \E p \in Perms, a, b \in Entry : on_report(p, a, b)
  \/ \E d \in Feeds, ps \in SUBSET Perms : set_feed_configs(d, ps)
  \/ \E d \in Feeds : remove_feed_configs(d)
  \/ \E d \in Feeds, frozen \in BOOLEAN : set_feed_frozen(d, frozen)
  \/ add_feed_admin
  \/ remove_feed_admin

-----------------------------------------------------------------------------
\* Whether the temporary store still has the round.
Stored(r) == r.seq + r.ttl >= now

\* read_round: the newest round always, an older one while it is in the window
\* and in the store.
Readable(f, n) ==
  \/ n = Len(f.rounds)
  \/ Stored(f.rounds[n]) /\ f.rounds[n].seq + WidthAt(f.window) >= now

AcceptReadable(f, n, ts, after) ==  \* mutant: an expired round is no hit
  Readable(f, n) /\ IF after THEN f.rounds[n].ts >= ts ELSE f.rounds[n].ts <= ts

\* Whether the answer to a search is round n or one beyond it on the side of ts
\* asked for. A round that cannot be read counts as old.
Accept(f, n, ts, after) ==
  IF after THEN Readable(f, n) /\ f.rounds[n].ts >= ts
           ELSE Readable(f, n) => f.rounds[n].ts <= ts

\* One pass of the search of find_round: the middle of the rounds still to look at.
Narrow(f, ts, after, s) ==
  LET mid    == s.lo + (s.hi - s.lo) \div 2
      accept == Accept(f, mid, ts, after)
      hit    == IF accept /\ Readable(f, mid) THEN mid ELSE s.found
  IN  IF accept = after THEN [lo |-> s.lo, hi |-> mid - 1, found |-> hit]
                        ELSE [lo |-> mid + 1, hi |-> s.hi, found |-> hit]

\* find_round: a binary search of the rounds for the one nearest to ts on one
\* side of it. 0 is no round. There are no more passes than rounds.
FindRound(f, ts, after) ==
  LET pass[n \in 0 .. Len(f.rounds)] ==
        IF n = 0 THEN [lo |-> 1, hi |-> Len(f.rounds), found |-> 0]
        ELSE IF pass[n - 1].lo > pass[n - 1].hi THEN pass[n - 1]
        ELSE Narrow(f, ts, after, pass[n - 1])
  IN  pass[Len(f.rounds)].found

Window == [shortest : Nat, growTo : Nat, growAt : Nat]
Round  == [ts : Nat, seq : Nat, ttl : Nat]

\* The rounds of a feed that cannot be read are its oldest ones, without a gap:
\* what the search of find_round demands of read_round, however the network's
\* limit moves between the rounds.
ReadableSuffix ==
  \A d \in Feeds : \A m, n \in DOMAIN feeds[d].rounds :
    m < n /\ Readable(feeds[d], m) => Readable(feeds[d], n)

\* find_round returns what a scan of the readable rounds would: the last one at
\* or before the timestamp, or the first one at or after it.
FindRoundExact ==
  \A d \in Feeds, ts \in 0 .. MaxTime + 1 :
    LET f == feeds[d]
        Seen == {n \in DOMAIN f.rounds : Readable(f, n)}
        Before == {n \in Seen : f.rounds[n].ts <= ts}
        After  == {n \in Seen : f.rounds[n].ts >= ts}
        before == FindRound(f, ts, FALSE)
        after  == FindRound(f, ts, TRUE)
    IN  /\ IF Before = {} THEN before = 0
           ELSE before \in Before /\ \A n \in Before : n <= before
        /\ IF After = {} THEN after = 0
           ELSE after \in After /\ \A n \in After : after <= n
=============================================================================
