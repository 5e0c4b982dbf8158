--------------------------- MODULE CcvReadersProofs --------------------------
(***************************************************************************)
(* Proofs for CcvReaders, for any page limit, chain and queue.             *)
(***************************************************************************)
EXTENDS CcvReaders, Induction, SequenceTheorems

FeedInv ==
  /\ ledger \in Nat /\ MinLedger <= ledger /\ inclusive \in BOOLEAN
  /\ events \in Seq(Nat) /\ Len(events) <= MaxEvents
  /\ \A i \in 1 .. Len(events) : events[i] <= ledger
  /\ \A i, j \in 1 .. Len(events) : i <= j => events[i] <= events[j]

Cursors == [pos : Nat, ledger : Nat, event : BOOLEAN]

\* A cursor of a scan that starts with ledger `from`.
CursorOK(c, from) ==
  /\ c \in Cursors
  /\ c # NoCursor =>
       /\ EventsBelow(from) <= c.pos /\ c.pos <= Len(events)
       /\ c.event => EventsBelow(from) < c.pos

Has(out, e) == \E i \in 1 .. Len(out) : out[i] = e

\* What a scan from ledger `from` has read so far: everything up to its cursor.
Scanned(out, c, from) ==
  /\ c = NoCursor => out = <<>>
  /\ c # NoCursor => \A e \in EventsBelow(from) + 1 .. c.pos : Has(out, e)

-----------------------------------------------------------------------------
Fetches == [pc : {"idle", "page", "done"}, from : Nat, to : Nat, cursor : Cursors,
            out : Seq(Nat)]

ReaderInv ==
  /\ s \in Fetches
  /\ 1 <= s.from
  /\ s.pc = "idle" => s.out = <<>>
  /\ s.pc # "idle" => s.from <= s.to /\ s.to <= ledger
  /\ \A i \in 1 .. Len(s.out) : /\ s.out[i] \in 1 .. Len(events)
                                /\ s.from <= events[s.out[i]] /\ events[s.out[i]] <= s.to
  /\ \A i, j \in 1 .. Len(s.out) :
       i < j => s.out[i] < s.out[j] \/ (inclusive /\ s.out[i] = s.out[j])
  /\ s.pc = "page" =>
       /\ CursorOK(s.cursor, s.from) /\ Scanned(s.out, s.cursor, s.from)
       /\ \A i \in 1 .. Len(s.out) : s.out[i] <= s.cursor.pos
  /\ s.pc = "done" =>
       \A e \in 1 .. Len(events) : s.from <= events[e] /\ events[e] < s.to => Has(s.out, e)

-----------------------------------------------------------------------------
Polls == [pc : {"down", "backfill", "idle", "page", "process"}, started : BOOLEAN,
          start : Nat, last : Nat, to : Nat, cursor : Cursors, out : Seq(Nat), i : Nat]

\* The polling loop.
PollInv ==
  /\ p \in Polls
  /\ 1 <= p.start /\ p.start <= p.last /\ p.last <= ledger
  /\ 1 <= p.i /\ p.i <= Len(p.out) + 1
  /\ p.pc \in {"page", "process"} => p.last < p.to /\ p.to <= ledger
  /\ p.pc \notin {"page", "process"} => p.out = <<>> /\ p.cursor = NoCursor
  /\ \A i \in 1 .. Len(p.out) : /\ p.out[i] \in 1 .. Len(events)
                                /\ p.last <= events[p.out[i]] /\ events[p.out[i]] <= p.to
  /\ \A i, j \in 1 .. Len(p.out) : p.out[i] = p.out[j] => i = j
  /\ p.pc = "page" =>
       p.i = 1 /\ CursorOK(p.cursor, p.last) /\ Scanned(p.out, p.cursor, p.last)
  /\ p.pc = "process" =>
       \A e \in 1 .. Len(events) : p.last <= events[e] /\ events[e] < p.to => Has(p.out, e)
  /\ p.pc = "down" => p.last = MinLedger

Tasks == [e : Nat, retries : Nat]
RetryStates == [keys : Seq(Nat), task : Tasks, peeked : BOOLEAN]

\* A task is of an event, and its event failed once more often than it was retried.
TaskOK(t) ==
  /\ t \in Tasks /\ t.e \in 1 .. Len(events)
  /\ t.retries < MaxEventProcessRetries /\ t.retries < fails[t.e]

\* The retry queue has one task per event.
QueueInv ==
  /\ queue \in Seq(Tasks)
  /\ \A i \in 1 .. Len(queue) : TaskOK(queue[i])
  /\ \A i, j \in 1 .. Len(queue) : queue[i].e = queue[j].e => i = j
  /\ rt \in RetryStates
  /\ (rt.task # NoTask => TaskOK(rt.task)) /\ (rt.peeked => rt.task # NoTask)
  /\ cache \in [Ids -> Nat] /\ fails \in [Ids -> 0 .. MaxEventProcessRetries + 1]
  /\ lost \subseteq Ids /\ exhausted \subseteq Ids

Covered(e) == cache[e] > 0 \/ Queued(e) \/ rt.task.e = e \/ e \in lost

\* Everything the loop went past is accounted for, up to the event in hand.
CoverInv ==
  /\ \A e \in 1 .. Len(events) : p.start <= events[e] /\ events[e] < p.last => Covered(e)
  /\ \A i \in 1 .. Len(p.out) : i < p.i => Covered(p.out[i])

\* How often an event is or will be cached: once for each time it was polled.
\* A task the retry loop has peeked at and the one in the queue are one chance: the
\* removal drops the second.
InHand(e) == rt.task.e = e /\ ~(rt.peeked /\ Queued(e))
Chances(e) == cache[e] + (IF Queued(e) THEN 1 ELSE 0) + (IF InHand(e) THEN 1 ELSE 0)

Polled(e) == IF \E i \in 1 .. Len(p.out) : i < p.i /\ p.out[i] = e THEN 1 ELSE 0

\* A range has its last ledger in common with the next one, and no other.
Allowed(e) ==
  IF e > Len(events) THEN 0
  ELSE IF events[e] > p.last THEN Polled(e)
  ELSE IF events[e] = p.last THEN 1 + Polled(e)
  ELSE 2

CacheInv == \A e \in Ids : Chances(e) <= Allowed(e)

-----------------------------------------------------------------------------
(* The feed.                                                                 *)

LEMMA BelowFacts ==
  ASSUME FeedInv, NEW l \in Nat
  PROVE  /\ EventsBelow(l) \in Nat /\ EventsBelow(l) <= Len(events)
         /\ \A i \in 1 .. Len(events) : events[i] < l <=> i <= EventsBelow(l)
<1> DEFINE S == {i \in DOMAIN events : events[i] < l}
           n == Len(events)
<1>1. n \in Nat /\ DOMAIN events = 1 .. n /\ \A i \in 1 .. n : events[i] \in Nat
  BY DEF FeedInv
<1>2. /\ S \in SUBSET (1 .. n) /\ \A i \in 1 .. n : i \in S <=> events[i] < l
      /\ \A i \in S : \A j \in 1 .. n : j <= i => j \in S
  <2>1. \A i, j \in 1 .. n : i <= j => events[i] <= events[j]
    BY DEF FeedInv
  <2> HIDE DEF n
  <2> QED BY <1>1, <2>1
<1>3. Cardinality(S) \in 0 .. n /\ \A i \in 1 .. n : i \in S <=> i <= Cardinality(S)
  <2> HIDE DEF S, n
  <2> QED BY <1>1, <1>2, PrefixLength
<1> HIDE DEF S
<1>4. EventsBelow(l) = Cardinality(S)
  BY DEF EventsBelow, S
<1> QED BY <1>1, <1>2, <1>3, <1>4

\* A page is the run of events from `first`, up to the limit or to `last`.
PageOK(page, first, last, scanned) ==
  /\ page.cursor \in Cursors
  /\ first <= page.cursor.pos + 1 /\ page.cursor.pos <= last
  /\ page.ids \in Seq(Nat) /\ Len(page.ids) = (page.cursor.pos + 1) - first
  /\ \A i \in 1 .. Len(page.ids) : page.ids[i] = first + i - 1
  /\ Len(page.ids) <= PageLimit
  /\ Len(page.ids) < PageLimit => page.cursor.pos = last
  /\ page.cursor.event <=> Len(page.ids) = PageLimit
  /\ page.cursor.ledger = IF page.cursor.event THEN events[page.cursor.pos] ELSE scanned

LEMMA PageFacts ==
  ASSUME FeedInv, NEW first \in Nat, NEW last \in Nat, NEW scanned \in Nat,
         1 <= first, first <= last + 1, last <= Len(events),
         NEW page, page = PageOf(first, last, scanned)
  PROVE  PageOK(page, first, last, scanned)
<1> DEFINE full == last >= first + PageLimit - 1
           stop == IF full THEN first + PageLimit - 1 ELSE last
           n == (stop + 1) - first
           ids == [i \in 1 .. n |-> first + i - 1]
           cursor == [pos |-> stop, event |-> full,
                      ledger |-> IF full THEN events[stop] ELSE scanned]
<1>1. page = [ids |-> ids, cursor |-> cursor]
  BY DEF PageOf
<1>2. PageLimit \in Nat /\ PageLimit >= 2 /\ Len(events) \in Nat
  BY FeedAssumption DEF FeedInv
<1>3. /\ stop \in Nat /\ first <= stop + 1 /\ stop <= last /\ n \in Nat /\ n <= PageLimit
      /\ n < PageLimit => stop = last
      /\ full <=> n = PageLimit
      /\ full => stop \in 1 .. Len(events)
      /\ full \in BOOLEAN
  BY <1>2
<1>4. full => events[stop] \in Nat
  BY <1>3, SMTT(30) DEF FeedInv
<1> HIDE DEF stop, full
<1>5. cursor \in Cursors /\ cursor.pos = stop /\ cursor.event = full
      /\ cursor.ledger = IF full THEN events[stop] ELSE scanned
  BY <1>3, <1>4 DEF Cursors
<1>6. ids \in Seq(Nat) /\ Len(ids) = n /\ \A i \in 1 .. n : ids[i] = first + i - 1
  <2> HIDE DEF n
  <2>1. \A i \in 1 .. n : first + i - 1 \in Nat
    BY <1>3
  <2> QED BY <1>3, <2>1
<1> HIDE DEF ids, cursor, n
<1>7. n = (stop + 1) - first
  BY DEF n
<1> QED BY <1>1, <1>3, <1>5, <1>6, <1>7 DEF PageOK

\* The events of a page that are not past the range come first.
LEMMA WindowFacts ==
  ASSUME FeedInv, NEW ids \in Seq(Nat), NEW first \in Nat, NEW to \in Nat,
         1 <= first, first + Len(ids) <= Len(events) + 1,
         \A i \in 1 .. Len(ids) : ids[i] = first + i - 1
  PROVE  LET n == Cardinality(InWindow(ids, to)) IN
         /\ n \in Nat /\ n <= Len(ids)
         /\ \A i \in 1 .. Len(ids) : events[first + i - 1] <= to <=> i <= n
<1> DEFINE S == InWindow(ids, to)
           k == Len(ids)
<1>1. k \in Nat /\ DOMAIN ids = 1 .. k /\ Len(events) \in Nat
  BY DEF FeedInv
<1>2. \A i \in 1 .. k : first + i - 1 \in 1 .. Len(events) /\ events[first + i - 1] \in Nat
  BY <1>1, SMTT(30) DEF FeedInv
<1>3. /\ S \in SUBSET (1 .. k) /\ \A i \in 1 .. k : i \in S <=> events[first + i - 1] <= to
  BY <1>1 DEF InWindow
<1>4. \A i \in S : \A j \in 1 .. k : j <= i => j \in S
  <2> SUFFICES ASSUME NEW i \in S, NEW j \in 1 .. k, j <= i
               PROVE  events[first + j - 1] <= to
    BY <1>3
  <2>1. i \in 1 .. k /\ events[first + i - 1] <= to
    BY <1>3
  <2>2. events[first + j - 1] <= events[first + i - 1]
    <3> DEFINE a == first + j - 1
               b == first + i - 1
    <3>1. a \in 1 .. Len(events) /\ b \in 1 .. Len(events) /\ a <= b
      BY <1>1, <1>2, <2>1
    <3>2. \A x, y \in 1 .. Len(events) : x <= y => events[x] <= events[y]
      BY DEF FeedInv
    <3> HIDE DEF a, b
    <3>3. events[a] <= events[b]
      BY <3>1, <3>2
    <3> QED BY <3>3 DEF a, b
  <2> QED BY <1>2, <2>1, <2>2, SMTT(30)
<1> HIDE DEF S, k
<1>5. Cardinality(S) \in 0 .. k /\ \A i \in 1 .. k : i \in S <=> i <= Cardinality(S)
  BY <1>1, <1>3, <1>4, PrefixLength
<1> QED BY <1>1, <1>3, <1>5 DEF S, k

\* The answer to the next request of a scan of from .. to, and its first event.
Answer(c, from, to) == IF c = NoCursor THEN FirstPage(from, to) ELSE NextPage(c)

FirstOf(c, from) ==
  IF c = NoCursor THEN EventsBelow(from) + 1
  ELSE IF inclusive /\ c.event THEN c.pos ELSE c.pos + 1

AnswerOK(c, from, to, resp, first, stop, n) ==
  /\ first \in Nat /\ EventsBelow(from) + 1 <= first /\ first <= stop + 1
  /\ EventsBelow(from) \in Nat /\ EventsBelow(from) <= EventsBelow(to)
  /\ resp.cursor \in Cursors /\ stop \in Nat /\ stop <= Len(events)
  /\ resp.ids \in Seq(Nat) /\ Len(resp.ids) = (stop + 1) - first
  /\ \A i \in 1 .. Len(resp.ids) : resp.ids[i] = first + i - 1
  /\ Len(resp.ids) <= PageLimit
  /\ resp.cursor.event <=> Len(resp.ids) = PageLimit
  /\ resp.cursor.event => resp.cursor.ledger = events[stop]
  /\ ~resp.cursor.event =>
       IF c = NoCursor THEN stop = EventsBelow(to) /\ resp.cursor.ledger = to - 1
       ELSE stop = Len(events) /\ resp.cursor.ledger = ledger
  /\ n \in Nat /\ n <= Len(resp.ids)
  /\ \A i \in 1 .. Len(resp.ids) : events[first + i - 1] <= to <=> i <= n

LEMMA AnswerFacts ==
  ASSUME FeedInv, NEW from \in Nat, NEW to \in Nat, 1 <= from, from <= to, to <= ledger,
         NEW c, CursorOK(c, from), NEW resp, resp = Answer(c, from, to),
         NEW first, first = FirstOf(c, from),
         NEW n, n = Cardinality(InWindow(resp.ids, to)),
         NEW stop, stop = resp.cursor.pos
  PROVE  AnswerOK(c, from, to, resp, first, stop, n)
<1> DEFINE lo == EventsBelow(from)
           hi == EventsBelow(to)
           last == IF c = NoCursor THEN hi ELSE Len(events)
           scanned == IF c = NoCursor THEN to - 1 ELSE ledger
<1>1. /\ lo \in Nat /\ lo <= Len(events) /\ hi \in Nat /\ hi <= Len(events)
      /\ \A i \in 1 .. Len(events) : events[i] < from <=> i <= lo
      /\ \A i \in 1 .. Len(events) : events[i] < to <=> i <= hi
  BY BelowFacts
<1>2. Len(events) \in Nat /\ ledger \in Nat /\ \A i \in 1 .. Len(events) : events[i] \in Nat
  BY DEF FeedInv
<1>3. resp = PageOf(first, last, scanned)
  BY DEF Answer, FirstPage, NextPage, FirstOf
<1> HIDE DEF lo, hi
<1>4. lo <= hi
  <2>1. CASE lo = 0
    BY <1>1, <2>1
  <2>2. CASE lo # 0
    <3>1. lo \in 1 .. Len(events)
      BY <1>1, <1>2, <2>2
    <3>2. events[lo] < from /\ events[lo] \in Nat
      BY <3>1, <1>1, <1>2
    <3>3. events[lo] < to
      BY <3>2
    <3> QED BY <1>1, <3>1, <3>3
  <2> QED BY <2>1, <2>2
<1>5. /\ first \in Nat /\ last \in Nat /\ scanned \in Nat /\ 1 <= first
      /\ lo + 1 <= first /\ first <= last + 1 /\ last <= Len(events)
  BY <1>1, <1>2, <1>4 DEF CursorOK, Cursors, FirstOf, lo
<1> HIDE DEF last, scanned
<1>6. /\ resp.cursor \in Cursors /\ first <= stop + 1 /\ stop <= last
      /\ resp.ids \in Seq(Nat) /\ Len(resp.ids) = (stop + 1) - first
      /\ \A i \in 1 .. Len(resp.ids) : resp.ids[i] = first + i - 1
      /\ Len(resp.ids) <= PageLimit
      /\ Len(resp.ids) < PageLimit => stop = last
      /\ resp.cursor.event <=> Len(resp.ids) = PageLimit
      /\ resp.cursor.ledger = IF resp.cursor.event THEN events[stop] ELSE scanned
  <2>1. PageOK(resp, first, last, scanned)
    BY <1>3, <1>5, PageFacts
  <2> QED BY <2>1 DEF PageOK
<1>7. stop \in Nat /\ Len(resp.ids) \in Nat
  BY <1>6 DEF Cursors
<1>8. stop <= Len(events) /\ first + Len(resp.ids) <= Len(events) + 1
  BY <1>2, <1>5, <1>6, <1>7, SMTT(30)
<1>9. /\ n \in Nat /\ n <= Len(resp.ids)
      /\ \A i \in 1 .. Len(resp.ids) : events[first + i - 1] <= to <=> i <= n
  <2> DEFINE ids == resp.ids
  <2>1. /\ ids \in Seq(Nat) /\ first \in Nat /\ 1 <= first
        /\ first + Len(ids) <= Len(events) + 1
        /\ \A i \in 1 .. Len(ids) : ids[i] = first + i - 1
    BY <1>5, <1>6, <1>8
  <2> HIDE DEF ids
  <2> DEFINE k == Cardinality(InWindow(ids, to))
  <2>2. /\ k \in Nat /\ k <= Len(ids)
        /\ \A i \in 1 .. Len(ids) : events[first + i - 1] <= to <=> i <= k
    BY <2>1, WindowFacts, Zenon
  <2>3. n = k
    BY DEF ids
  <2> QED BY <2>2, <2>3 DEF ids
<1>10. ~resp.cursor.event => stop = last /\ resp.cursor.ledger = scanned
  <2>1. PageLimit \in Nat
    BY FeedAssumption
  <2> QED BY <1>6, <1>7, <2>1
<1> QED BY <1>4, <1>5, <1>1, <1>6, <1>7, <1>8, <1>9, <1>10 DEF AnswerOK, last, scanned, lo, hi

\* Ledgers close: nothing that was read changes.
LEMMA FeedGrows ==
  ASSUME FeedInv, CloseLedger
  PROVE  /\ FeedInv' /\ ledger' = ledger + 1 /\ inclusive' = inclusive
         /\ Len(events) \in Nat /\ Len(events') \in Nat /\ Len(events) <= Len(events')
         /\ \A i \in 1 .. Len(events) : events'[i] = events[i]
         /\ \A i \in 1 .. Len(events') : i > Len(events) => events'[i] = ledger + 1
<1>1. PICK n \in 0 .. MaxEvents - Len(events) :
        events' = events \o [i \in 1 .. n |-> ledger + 1]
  BY DEF CloseLedger
<1>2. ledger' = ledger + 1 /\ inclusive' = inclusive /\ ledger \in Nat
  BY DEF CloseLedger, FeedInv
<1> DEFINE new == [i \in 1 .. n |-> ledger + 1]
<1>3. MaxEvents \in Nat /\ MinLedger \in Nat /\ Len(events) \in Nat /\ n \in Nat
      /\ Len(events) <= MaxEvents
  BY FeedAssumption DEF FeedInv
<1>4. new \in Seq(Nat) /\ Len(new) = n /\ \A i \in 1 .. n : new[i] = ledger + 1
  BY <1>2, <1>3
<1> HIDE DEF new
<1>5. events \in Seq(Nat) /\ events' = events \o new
  BY <1>1 DEF FeedInv, new
<1>6. /\ events' \in Seq(Nat) /\ Len(events') = Len(events) + n
      /\ \A i \in 1 .. Len(events) : events'[i] = events[i]
      /\ \A i \in 1 .. Len(events') : i > Len(events) => events'[i] = ledger + 1
  <2>1. events' \in Seq(Nat) /\ Len(events') = Len(events) + n
    <3>1. events \o new \in Seq(Nat) /\ Len(events \o new) = Len(events) + Len(new)
      BY <1>4, <1>5, ConcatProperties
    <3> QED BY <1>4, <1>5, <3>1
  <2>2. \A i \in 1 .. Len(events) : events'[i] = events[i]
    BY <1>3, <1>4, <1>5
  <2>3. ASSUME NEW i \in 1 .. Len(events'), i > Len(events)
        PROVE  events'[i] = ledger + 1
    <3>1. events'[i] = new[i - Len(events)] /\ i - Len(events) \in 1 .. n
      BY <1>3, <1>4, <1>5, <2>1, <2>3
    <3> QED BY <1>4, <3>1
  <2> QED BY <2>1, <2>2, <2>3
<1>7. \A i \in 1 .. Len(events') : events'[i] <= ledger'
  <2> SUFFICES ASSUME NEW i \in 1 .. Len(events')
               PROVE  events'[i] <= ledger'
    OBVIOUS
  <2>1. CASE i > Len(events)
    BY <1>2, <1>6, <2>1
  <2>2. CASE i <= Len(events)
    <3>1. i \in 1 .. Len(events)
      BY <1>3, <2>2
    <3>2. events[i] <= ledger /\ events[i] \in Nat
      BY <3>1 DEF FeedInv
    <3> QED BY <1>2, <1>6, <3>1, <3>2
  <2> QED BY <1>3, <2>1, <2>2
<1>8. \A i, j \in 1 .. Len(events') : i <= j => events'[i] <= events'[j]
  <2> SUFFICES ASSUME NEW i \in 1 .. Len(events'), NEW j \in 1 .. Len(events'), i <= j
               PROVE  events'[i] <= events'[j]
    OBVIOUS
  <2>1. CASE j > Len(events)
    BY <1>2, <1>6, <1>7, <2>1
  <2>2. CASE j <= Len(events)
    BY <1>3, <1>6, <2>2 DEF FeedInv
  <2> QED BY <1>3, <2>1, <2>2
<1> QED BY <1>2, <1>3, <1>6, <1>7, <1>8 DEF FeedInv

LEMMA BelowKept ==
  ASSUME FeedInv, CloseLedger, NEW l \in Nat, l <= ledger + 1
  PROVE  EventsBelow(l)' = EventsBelow(l)
<1>1. /\ Len(events) \in Nat /\ Len(events') \in Nat /\ Len(events) <= Len(events')
      /\ \A i \in 1 .. Len(events) : events'[i] = events[i]
      /\ \A i \in 1 .. Len(events') : i > Len(events) => events'[i] = ledger + 1
      /\ FeedInv'
  BY FeedGrows
<1>2. ledger \in Nat /\ DOMAIN events = 1 .. Len(events) /\ DOMAIN events' = 1 .. Len(events')
  BY <1>1 DEF FeedInv
<1>3. {i \in DOMAIN events' : events'[i] < l} = {i \in DOMAIN events : events[i] < l}
  BY <1>1, <1>2
<1> QED BY <1>3 DEF EventsBelow

LEMMA CursorKept ==
  ASSUME FeedInv, CloseLedger, NEW c, NEW from \in Nat, from <= ledger, CursorOK(c, from)
  PROVE  CursorOK(c, from)'
<1>1. EventsBelow(from)' = EventsBelow(from)
  BY BelowKept DEF FeedInv
<1>2. Len(events) \in Nat /\ Len(events') \in Nat /\ Len(events) <= Len(events')
  BY FeedGrows
<1> QED BY <1>1, <1>2 DEF CursorOK, Cursors

LEMMA ScannedKept ==
  ASSUME FeedInv, CloseLedger, NEW c, NEW out, NEW from \in Nat, from <= ledger,
         Scanned(out, c, from)
  PROVE  Scanned(out, c, from)'
<1>1. EventsBelow(from)' = EventsBelow(from)
  BY BelowKept DEF FeedInv
<1> QED BY <1>1 DEF Scanned

-----------------------------------------------------------------------------
(* One page of a scan. out2 has what out has and the page's events in the    *)
(* window.                                                                   *)

LEMMA ScanStep ==
  ASSUME FeedInv, NEW from \in Nat, NEW to \in Nat, 1 <= from, from <= to, to <= ledger,
         NEW c, CursorOK(c, from), NEW resp, resp = Answer(c, from, to),
         NEW n, n = Cardinality(InWindow(resp.ids, to)),
         NEW out, NEW out2, Scanned(out, c, from),
         \A e \in Nat : Has(out, e) => Has(out2, e),
         \A i \in 1 .. n : Has(out2, resp.ids[i])
  PROVE  /\ n = Len(resp.ids) =>
              \A e \in EventsBelow(from) + 1 .. resp.cursor.pos : Has(out2, e)
         /\ n < Len(resp.ids) \/ ~resp.cursor.event =>
              \A e \in 1 .. Len(events) :
                from <= events[e] /\ events[e] < to => Has(out2, e)
<1> DEFINE first == FirstOf(c, from)
           stop == resp.cursor.pos
           ids == resp.ids
           lo == EventsBelow(from)
           hi == EventsBelow(to)
           now == resp.cursor.event
<1>1. /\ first \in Nat /\ lo + 1 <= first /\ first <= stop + 1
      /\ lo \in Nat /\ lo <= hi
      /\ resp.cursor \in Cursors /\ stop \in Nat /\ stop <= Len(events)
      /\ ids \in Seq(Nat) /\ Len(ids) = (stop + 1) - first
      /\ \A i \in 1 .. Len(ids) : ids[i] = first + i - 1
      /\ ~now => IF c = NoCursor THEN stop = hi ELSE stop = Len(events)
      /\ n \in Nat /\ n <= Len(ids)
      /\ \A i \in 1 .. Len(ids) : events[first + i - 1] <= to <=> i <= n
  <2>1. AnswerOK(c, from, to, resp, first, stop, n)
    BY AnswerFacts
  <2> HIDE DEF first
  <2> QED BY <2>1 DEF AnswerOK
<1>2. /\ Len(events) \in Nat /\ hi \in Nat /\ hi <= Len(events)
      /\ \A i \in 1 .. Len(events) : events[i] \in Nat
      /\ \A i \in 1 .. Len(events) : events[i] < from <=> i <= lo
      /\ \A i \in 1 .. Len(events) : events[i] < to <=> i <= hi
      /\ \A i, j \in 1 .. Len(events) : i <= j => events[i] <= events[j]
  <2>1. /\ Len(events) \in Nat /\ \A i \in 1 .. Len(events) : events[i] \in Nat
        /\ \A i, j \in 1 .. Len(events) : i <= j => events[i] <= events[j]
    BY DEF FeedInv
  <2>2. \A i \in 1 .. Len(events) : events[i] < from <=> i <= lo
    BY BelowFacts
  <2>3. /\ hi \in Nat /\ hi <= Len(events)
        /\ \A i \in 1 .. Len(events) : events[i] < to <=> i <= hi
    BY BelowFacts
  <2> HIDE DEF lo, hi
  <2> QED BY <2>1, <2>2, <2>3
<1>3. /\ c = NoCursor => first = lo + 1
      /\ c # NoCursor => \A e \in lo + 1 .. first - 1 : Has(out, e)
  BY <1>1 DEF FirstOf, Scanned, CursorOK, Cursors
<1> HIDE DEF first, stop, ids, lo, hi, now
<1>4. \A e \in lo + 1 .. first + n - 1 : Has(out2, e)
  <2> SUFFICES ASSUME NEW e \in lo + 1 .. first + n - 1
               PROVE  Has(out2, e)
    OBVIOUS
  <2>1. CASE e < first
    <3>1. e \in Nat /\ e \in lo + 1 .. first - 1 /\ c # NoCursor
      BY <1>1, <1>3, <2>1
    <3> QED BY <1>3, <3>1
  <2>2. CASE e >= first
    <3> DEFINE i == e + 1 - first
    <3>1. i \in 1 .. n /\ i \in 1 .. Len(ids) /\ first + i - 1 = e
      BY <1>1, <2>2, SMTT(30)
    <3> HIDE DEF i
    <3>2. ids[i] = e
      BY <1>1, <3>1
    <3> QED BY <3>1, <3>2 DEF ids
  <2> QED BY <1>1, <2>1, <2>2
<1>5. n = Len(ids) => \A e \in lo + 1 .. stop : Has(out2, e)
  BY <1>1, <1>4
<1>6. ASSUME n < Len(ids) \/ ~now, NEW e \in 1 .. Len(events),
             from <= events[e], events[e] < to
      PROVE  Has(out2, e)
  <2>1. lo + 1 <= e /\ e <= hi
    BY <1>1, <1>2, <1>6
  <2>2. CASE n < Len(ids)
    <3> DEFINE k == first + n
    <3>1. k \in 1 .. Len(events) /\ events[k] > to
      <4>1. n + 1 \in 1 .. Len(ids) /\ ~(n + 1 <= n) /\ first + (n + 1) - 1 = k
        BY <1>1, <2>2, SMTT(30)
      <4>2. k \in 1 .. Len(events)
        BY <1>1, <1>2, <2>2, SMTT(30)
      <4>3. ~(events[first + (n + 1) - 1] <= to)
        BY <1>1, <4>1
      <4> HIDE DEF k
      <4> QED BY <1>2, <4>1, <4>2, <4>3
    <3> HIDE DEF k
    <3>2. e < k
      BY <1>2, <1>6, <3>1
    <3>3. e \in lo + 1 .. first + n - 1
      BY <1>1, <2>1, <3>2 DEF k
    <3> QED BY <1>4, <3>3
  <2>3. CASE n = Len(ids)
    <3>0. ~now
      <4>1. ~(n < Len(ids))
        BY <1>1, <2>3
      <4> QED BY <1>6, <4>1
    <3>1. e <= stop
      BY <1>1, <1>2, <2>1, <3>0
    <3> QED BY <1>1, <1>5, <2>1, <2>3, <3>1
  <2>4. Len(ids) \in Nat /\ n \in Nat /\ n <= Len(ids)
    BY <1>1
  <2> QED BY <2>2, <2>3, <2>4
<1>7. n < Len(ids) \/ ~now => \A e \in 1 .. Len(events) :
                                from <= events[e] /\ events[e] < to => Has(out2, e)
  BY <1>6
<1> QED BY <1>5, <1>7 DEF stop, ids, lo, now

-----------------------------------------------------------------------------
(* The source reader.                                                        *)

\* out2 is out and then the first n of ids.
AppendOK(out, ids, n, out2) ==
  /\ out2 \in Seq(Nat) /\ Len(out2) \in Nat /\ Len(out2) = Len(out) + n
  /\ \A i \in 1 .. Len(out) : out2[i] = out[i]
  /\ \A i \in 1 .. Len(out2) : i > Len(out) => out2[i] = ids[i - Len(out)]
  /\ \A e \in Nat : Has(out, e) => Has(out2, e)
  /\ \A i \in 1 .. n : Has(out2, ids[i])

LEMMA Appended ==
  ASSUME NEW out \in Seq(Nat), NEW ids \in Seq(Nat), NEW n \in Nat, n <= Len(ids),
         NEW out2, out2 = out \o SubSeq(ids, 1, n)
  PROVE  AppendOK(out, ids, n, out2)
<1> DEFINE new == SubSeq(ids, 1, n)
<1>0. Len(out) \in Nat /\ Len(ids) \in Nat
  OBVIOUS
<1>1. new \in Seq(Nat) /\ Len(new) = n /\ \A i \in 1 .. n : new[i] = ids[i]
  BY <1>0
<1> HIDE DEF new
<1>2. /\ out2 \in Seq(Nat) /\ Len(out2) = Len(out) + n
      /\ \A i \in 1 .. Len(out) + n : out2[i] = IF i <= Len(out) THEN out[i] ELSE new[i - Len(out)]
  <2>1. out2 = out \o new
    BY DEF new
  <2> QED BY <1>1, <2>1, ConcatProperties
<1>3. \A i \in 1 .. Len(out) : out2[i] = out[i]
  BY <1>0, <1>2
<1>4. \A i \in 1 .. Len(out2) : i > Len(out) => out2[i] = ids[i - Len(out)]
  BY <1>0, <1>1, <1>2
<1>5. \A e \in Nat : Has(out, e) => Has(out2, e)
  BY <1>0, <1>2, <1>3 DEF Has
<1>6. ASSUME NEW i \in 1 .. n
      PROVE  Has(out2, ids[i])
  <2>1. Len(out) + i \in 1 .. Len(out2) /\ Len(out) + i > Len(out) /\ (Len(out) + i) - Len(out) = i
    BY <1>0, <1>2
  <2>2. out2[Len(out) + i] = ids[i]
    BY <1>4, <2>1
  <2> QED BY <2>1, <2>2 DEF Has
<1> QED BY <1>0, <1>2, <1>3, <1>4, <1>5, <1>6 DEF AppendOK

LEMMA FetchStartStep ==
  ASSUME FeedInv, ReaderInv, FetchStart, UNCHANGED feedVars
  PROVE  ReaderInv'
<1>1. PICK from \in Nat, to \in Nat :
        /\ 1 <= from /\ from <= to /\ to <= ledger
        /\ s' = [NoFetch EXCEPT !.pc = "page", !.from = from, !.to = to]
  <2>1. PICK fromBlock \in 0 .. ledger, toBlock \in 0 .. ledger :
          LET from == IF fromBlock < MinLedger THEN MinLedger ELSE fromBlock
              to   == IF toBlock = 0 THEN ledger ELSE toBlock
          IN  from <= to /\ s' = [NoFetch EXCEPT !.pc = "page", !.from = from, !.to = to]
    BY DEF FetchStart
  <2> DEFINE from == IF fromBlock < MinLedger THEN MinLedger ELSE fromBlock
             to   == IF toBlock = 0 THEN ledger ELSE toBlock
  <2>2. from \in Nat /\ to \in Nat /\ 1 <= from /\ to <= ledger
    BY FeedAssumption DEF FeedInv
  <2>3. from <= to /\ s' = [NoFetch EXCEPT !.pc = "page", !.from = from, !.to = to]
    BY <2>1
  <2> HIDE DEF from, to
  <2> QED BY <2>2, <2>3
<1>2. s' = [pc |-> "page", from |-> from, to |-> to, cursor |-> NoCursor, out |-> <<>>]
  BY <1>1 DEF NoFetch
<1>3. s' \in Fetches /\ s'.out = <<>> /\ Len(s'.out) = 0
  BY <1>2 DEF Fetches, Cursors, NoCursor
<1>4. CursorOK(s.cursor, s.from)' /\ Scanned(s.out, s.cursor, s.from)'
  BY <1>2 DEF CursorOK, Scanned, Cursors, NoCursor
<1> QED BY <1>1, <1>2, <1>3, <1>4 DEF ReaderInv, feedVars

LEMMA FetchErrorStep ==
  ASSUME FeedInv, ReaderInv, FetchError, UNCHANGED feedVars
  PROVE  ReaderInv'
<1>1. s' = NoFetch /\ MinLedger \in Nat /\ 1 <= MinLedger
  BY FeedAssumption DEF FetchError
<1>2. s' \in Fetches /\ s'.pc = "idle" /\ s'.out = <<>> /\ s'.from = MinLedger /\ Len(s'.out) = 0
  BY <1>1 DEF NoFetch, NoCursor, Fetches, Cursors
<1> QED BY <1>1, <1>2 DEF ReaderInv

LEMMA FetchPageStep ==
  ASSUME FeedInv, ReaderInv, FetchPage, UNCHANGED feedVars
  PROVE  ReaderInv'
<1> DEFINE from == s.from
           to   == s.to
           c    == s.cursor
           resp == Answer(c, from, to)
           first == FirstOf(c, from)
           stop == resp.cursor.pos
           n    == Cardinality(InWindow(resp.ids, to))
           ends == n < Len(resp.ids) \/ resp.ids = <<>> \/ resp.cursor = c
                     \/ resp.cursor.ledger > to
           out2 == s.out \o SubSeq(resp.ids, 1, n)
           lo   == EventsBelow(from)
<1>1. s' = [s EXCEPT !.pc = IF ends THEN "done" ELSE "page", !.cursor = resp.cursor,
                     !.out = out2]
  BY DEF FetchPage, Answer
<1>2. /\ s \in Fetches /\ s.pc = "page" /\ from \in Nat /\ to \in Nat /\ c \in Cursors
      /\ s.out \in Seq(Nat) /\ 1 <= from /\ from <= to /\ to <= ledger
      /\ CursorOK(c, from) /\ Scanned(s.out, c, from)
      /\ \A i \in 1 .. Len(s.out) : s.out[i] <= c.pos
  BY DEF FetchPage, ReaderInv, Fetches
<1>3. AnswerOK(c, from, to, resp, first, stop, n)
  <2> HIDE DEF from, to, c
  <2> QED BY <1>2, AnswerFacts
<1>4. /\ first \in Nat /\ lo + 1 <= first /\ first <= stop + 1 /\ lo \in Nat
      /\ resp.cursor \in Cursors /\ stop \in Nat /\ stop <= Len(events)
      /\ resp.ids \in Seq(Nat) /\ Len(resp.ids) = (stop + 1) - first
      /\ \A i \in 1 .. Len(resp.ids) : resp.ids[i] = first + i - 1
      /\ resp.cursor.event <=> Len(resp.ids) = PageLimit
      /\ resp.cursor.event => resp.cursor.ledger = events[stop]
      /\ n \in Nat /\ n <= Len(resp.ids)
      /\ \A i \in 1 .. Len(resp.ids) : events[first + i - 1] <= to <=> i <= n
  <2> HIDE DEF from, to, c, resp, first, stop, n
  <2> QED BY <1>3 DEF AnswerOK, lo
<1>5. /\ out2 \in Seq(Nat) /\ Len(out2) \in Nat /\ Len(out2) = Len(s.out) + n
      /\ \A i \in 1 .. Len(s.out) : out2[i] = s.out[i]
      /\ \A i \in 1 .. Len(out2) : i > Len(s.out) => out2[i] = resp.ids[i - Len(s.out)]
      /\ \A e \in Nat : Has(s.out, e) => Has(out2, e)
      /\ \A i \in 1 .. n : Has(out2, resp.ids[i])
  <2> DEFINE out == s.out
             ids == resp.ids
  <2>1. out \in Seq(Nat) /\ ids \in Seq(Nat) /\ n \in Nat /\ n <= Len(ids)
        /\ out2 = out \o SubSeq(ids, 1, n)
    BY <1>2, <1>4
  <2> HIDE DEF resp, n, out, ids, out2
  <2>2. AppendOK(out, ids, n, out2)
    BY <2>1, Appended
  <2> QED BY <2>2 DEF AppendOK, out, ids
<1>6. /\ n = Len(resp.ids) => \A e \in lo + 1 .. stop : Has(out2, e)
      /\ n < Len(resp.ids) \/ ~resp.cursor.event =>
           \A e \in 1 .. Len(events) : from <= events[e] /\ events[e] < to => Has(out2, e)
  <2> HIDE DEF from, to, c, resp, n, out2
  <2> QED BY <1>2, <1>4, <1>5, ScanStep DEF resp, n, lo, stop
<1>7. /\ PageLimit \in Nat /\ PageLimit >= 2 /\ Len(events) \in Nat
      /\ \A i \in 1 .. Len(events) : events[i] \in Nat
      /\ \A i \in 1 .. Len(events) : events[i] < from <=> i <= lo
  <2> HIDE DEF from
  <2>1. \A i \in 1 .. Len(events) : events[i] < from <=> i <= EventsBelow(from)
    BY <1>2, BelowFacts
  <2> QED BY <2>1, FeedAssumption DEF FeedInv, lo
<1>8. /\ c = NoCursor => s.out = <<>> /\ first = lo + 1
      /\ c # NoCursor => first = IF inclusive /\ c.event THEN c.pos ELSE c.pos + 1
      /\ c.pos \in Nat
  BY <1>2 DEF Scanned, FirstOf, Cursors
<1> HIDE DEF from, to, c, resp, first, stop, n, out2, lo
<1>9. \A i \in 1 .. Len(out2) : i > Len(s.out) =>
        /\ out2[i] = first + (i - Len(s.out)) - 1 /\ i - Len(s.out) \in 1 .. n
        /\ out2[i] \in 1 .. Len(events) /\ from <= events[out2[i]] /\ events[out2[i]] <= to
  <2> SUFFICES ASSUME NEW i \in 1 .. Len(out2), i > Len(s.out)
               PROVE  /\ out2[i] = first + (i - Len(s.out)) - 1 /\ i - Len(s.out) \in 1 .. n
                      /\ out2[i] \in 1 .. Len(events)
                      /\ from <= events[out2[i]] /\ events[out2[i]] <= to
    OBVIOUS
  <2> DEFINE k == i - Len(s.out)
             e == first + k - 1
  <2>0. Len(s.out) \in Nat /\ Len(resp.ids) \in Nat
    BY <1>2, <1>4
  <2>1. k \in 1 .. n /\ k \in 1 .. Len(resp.ids) /\ k <= n /\ Len(s.out) \in Nat
    <3>1. n \in Nat /\ n <= Len(resp.ids) /\ Len(out2) = Len(s.out) + n
      BY <1>4, <1>5
    <3> QED BY <2>0, <3>1
  <2>2. out2[i] = resp.ids[k]
    BY <1>5
  <2> HIDE DEF k
  <2>3. out2[i] = e /\ events[e] <= to
    BY <1>4, <2>1, <2>2
  <2>4. e \in 1 .. Len(events) /\ lo + 1 <= e
    BY <1>4, <1>7, <2>1
  <2>5. from <= events[e]
    <3> HIDE DEF e
    <3> QED BY <1>2, <1>4, <1>7, <2>4, SMTT(30)
  <2> QED BY <2>1, <2>3, <2>4, <2>5 DEF k
<1>10. /\ s' \in Fetches /\ s'.from = from /\ s'.to = to /\ s'.cursor = resp.cursor
       /\ s'.out = out2 /\ s'.pc = IF ends THEN "done" ELSE "page"
  <2> HIDE DEF ends
  <2> QED BY <1>1, <1>2, <1>4, <1>5 DEF Fetches, from, to
<1>11. UNCHANGED feedVars /\ events' = events /\ ledger' = ledger /\ inclusive' = inclusive
  BY DEF feedVars
<1>12. \A i \in 1 .. Len(out2) : /\ out2[i] \in 1 .. Len(events)
                                 /\ from <= events[out2[i]] /\ events[out2[i]] <= to
  <2> SUFFICES ASSUME NEW i \in 1 .. Len(out2)
               PROVE  /\ out2[i] \in 1 .. Len(events)
                      /\ from <= events[out2[i]] /\ events[out2[i]] <= to
    OBVIOUS
  <2>1. CASE i <= Len(s.out)
    <3>1. i \in 1 .. Len(s.out) /\ out2[i] = s.out[i]
      BY <1>2, <1>5, <2>1
    <3> QED BY <3>1 DEF ReaderInv, from, to
  <2>2. CASE i > Len(s.out)
    BY <1>9, <2>2
  <2> QED BY <1>2, <2>1, <2>2
<1>13. \A i, j \in 1 .. Len(out2) :
         i < j => out2[i] < out2[j] \/ (inclusive /\ out2[i] = out2[j])
  <2> SUFFICES ASSUME NEW i \in 1 .. Len(out2), NEW j \in 1 .. Len(out2), i < j
               PROVE  out2[i] < out2[j] \/ (inclusive /\ out2[i] = out2[j])
    OBVIOUS
  <2>0. Len(s.out) \in Nat /\ Len(out2) \in Nat /\ inclusive \in BOOLEAN
    BY <1>2, <1>5 DEF FeedInv
  <2>1. CASE j <= Len(s.out)
    <3>1. i \in 1 .. Len(s.out) /\ j \in 1 .. Len(s.out) /\ out2[i] = s.out[i] /\ out2[j] = s.out[j]
      BY <1>5, <2>0, <2>1
    <3> QED BY <3>1 DEF ReaderInv
  <2>2. CASE i > Len(s.out)
    <3>1. j > Len(s.out)
      BY <2>0, <2>2
    <3>2. out2[i] = first + (i - Len(s.out)) - 1 /\ out2[j] = first + (j - Len(s.out)) - 1
      BY <1>9, <2>2, <3>1
    <3>3. first \in Nat
      BY <1>4
    <3>4. out2[i] < out2[j]
      <4> DEFINE m == Len(s.out)
                 x == out2[i]
                 y == out2[j]
      <4>1. m \in Nat /\ x = first + (i - m) - 1 /\ y = first + (j - m) - 1
        BY <2>0, <3>2
      <4>2. i \in Int /\ j \in Int
        BY <2>0
      <4> HIDE DEF m, x, y
      <4>3. x < y
        BY <3>3, <4>1, <4>2
      <4> QED BY <4>3 DEF x, y
    <3> QED BY <3>4
  <2>3. CASE i <= Len(s.out) /\ j > Len(s.out)
    <3>1. i \in 1 .. Len(s.out) /\ out2[i] = s.out[i] /\ s.out[i] <= c.pos
      BY <1>2, <1>5, <2>0, <2>3, SMTT(30)
    <3>2. out2[j] >= first /\ out2[j] \in Nat /\ out2[i] \in Nat
      <4>1. out2[j] = first + (j - Len(s.out)) - 1 /\ j - Len(s.out) \in 1 .. n
        BY <1>9, <2>3
      <4>2. first \in Nat /\ n \in Nat
        BY <1>4
      <4>3. out2[i] \in Nat
        BY <1>12
      <4> DEFINE k == j - Len(s.out)
      <4> HIDE DEF k
      <4>4. out2[j] = first + k - 1 /\ k \in 1 .. n
        BY <4>1 DEF k
      <4>5. out2[j] >= first /\ out2[j] \in Nat
        BY <4>2, <4>4
      <4> QED BY <4>3, <4>5
    <3>3. c # NoCursor
      <4> SUFFICES ASSUME c = NoCursor
                   PROVE  FALSE
        OBVIOUS
      <4>1. s.out = <<>>
        BY <1>8
      <4> QED BY <3>1, <4>1
    <3>4. CASE inclusive
      BY <1>8, <3>1, <3>2, <3>3, <3>4
    <3>5. CASE ~inclusive
      <4>1. first = c.pos + 1
        BY <1>8, <3>3, <3>5
      <4> QED BY <1>8, <3>1, <3>2, <4>1
    <3> QED BY <2>0, <3>4, <3>5
  <2> QED BY <2>0, <2>1, <2>2, <2>3
<1>14. ASSUME ends
       PROVE  n < Len(resp.ids) \/ ~resp.cursor.event
  <2> SUFFICES ASSUME resp.cursor.event, ~(n < Len(resp.ids))
               PROVE  FALSE
    OBVIOUS
  <2>1. Len(resp.ids) = PageLimit /\ n = Len(resp.ids) /\ first + 1 <= stop /\ resp.ids # <<>>
    BY <1>4, <1>7
  <2>2. CASE resp.cursor = c
    <3>1. c.pos = stop /\ c # NoCursor
      BY <2>2 DEF stop, NoCursor
    <3> QED BY <1>4, <1>8, <2>1, <3>1
  <2>3. CASE resp.cursor.ledger > to
    <3>1. Len(resp.ids) \in 1 .. Len(resp.ids) /\ first + Len(resp.ids) - 1 = stop
      BY <1>4, <1>7, <2>1
    <3>2. events[first + Len(resp.ids) - 1] <= to
      BY <1>4, <2>1, <3>1
    <3>3. events[stop] > to /\ stop \in 1 .. Len(events)
      BY <1>4, <1>7, <2>1, <2>3, SMTT(30)
    <3> QED BY <1>2, <1>7, <3>1, <3>2, <3>3
  <2> QED BY <1>14, <2>1, <2>2, <2>3
<1>15. ASSUME ends
       PROVE  /\ s'.pc = "done"
              /\ \A e \in 1 .. Len(events) : from <= events[e] /\ events[e] < to => Has(out2, e)
  <2>1. s'.pc = "done"
    <3> HIDE DEF ends
    <3> QED BY <1>10, <1>15
  <2> QED BY <1>6, <1>14, <1>15, <2>1
<1>16. ASSUME ~ends
       PROVE  /\ s'.pc = "page" /\ CursorOK(resp.cursor, from) /\ Scanned(out2, resp.cursor, from)
              /\ \A i \in 1 .. Len(out2) : out2[i] <= stop
  <2>1. s'.pc = "page"
    <3> HIDE DEF ends
    <3> QED BY <1>10, <1>16
  <2>2. n = Len(resp.ids) /\ Len(resp.ids) # 0 /\ first <= stop /\ lo < stop /\ 1 <= stop
    BY <1>4, <1>16
  <2>3. resp.cursor # NoCursor
    BY <2>2 DEF NoCursor, stop
  <2>4. CursorOK(resp.cursor, from)
    BY <1>4, <2>2 DEF CursorOK, stop, lo
  <2>5. Scanned(out2, resp.cursor, from)
    BY <1>6, <2>2, <2>3 DEF Scanned, stop, lo
  <2>6. ASSUME NEW i \in 1 .. Len(out2)
        PROVE  out2[i] <= stop
    <3>0. Len(s.out) \in Nat
      BY <1>2
    <3>1. CASE i <= Len(s.out)
      <4>1. i \in 1 .. Len(s.out) /\ out2[i] = s.out[i] /\ s.out[i] <= c.pos /\ s.out[i] \in Nat
        BY <1>2, <1>5, <3>0, <3>1, SMTT(30)
      <4>2. c # NoCursor
        <5> SUFFICES ASSUME c = NoCursor
                     PROVE  FALSE
          OBVIOUS
        <5>1. s.out = <<>>
          BY <1>8
        <5> QED BY <4>1, <5>1
      <4>3. c.pos <= first
        BY <1>4, <1>8, <4>2
      <4> QED BY <1>4, <1>8, <2>2, <4>1, <4>3, SMTT(30)
    <3>2. CASE i > Len(s.out)
      <4>1. out2[i] = first + (i - Len(s.out)) - 1 /\ i - Len(s.out) \in 1 .. n
        BY <1>9, <3>2
      <4>2. first \in Nat /\ n \in Nat /\ stop \in Nat /\ n = (stop + 1) - first
        BY <1>4, <2>2
      <4> DEFINE d == i - Len(s.out)
      <4>3. out2[i] = first + d - 1 /\ d \in 1 .. n
        BY <4>1
      <4> HIDE DEF d
      <4> QED BY <4>2, <4>3
    <3> QED BY <3>0, <3>1, <3>2
  <2> QED BY <2>1, <2>4, <2>5, <2>6
<1> HIDE DEF ends
<1>17. ReaderInv!1' /\ ReaderInv!2' /\ ReaderInv!3' /\ ReaderInv!4'
  BY <1>2, <1>10, <1>11
<1>18. ReaderInv!5' /\ ReaderInv!6'
  BY <1>10, <1>11, <1>12, <1>13
<1>19. ReaderInv!7'
  BY <1>10, <1>11, <1>15, <1>16 DEF CursorOK, Scanned, EventsBelow, stop
<1>20. ReaderInv!8'
  BY <1>10, <1>11, <1>15, <1>16
<1> QED BY <1>17, <1>18, <1>19, <1>20 DEF ReaderInv

LEMMA ReaderFeedStep ==
  ASSUME FeedInv, ReaderInv, CloseLedger, UNCHANGED s
  PROVE  ReaderInv'
<1>1. /\ ledger' = ledger + 1 /\ inclusive' = inclusive
      /\ Len(events) \in Nat /\ Len(events') \in Nat /\ Len(events) <= Len(events')
      /\ \A i \in 1 .. Len(events) : events'[i] = events[i]
      /\ \A i \in 1 .. Len(events') : i > Len(events) => events'[i] = ledger + 1
  BY FeedGrows
<1>2. s' = s /\ s \in Fetches /\ s.from \in Nat /\ s.to \in Nat /\ ledger \in Nat
  BY DEF ReaderInv, Fetches, FeedInv
<1>3. ReaderInv!1' /\ ReaderInv!2' /\ ReaderInv!3' /\ ReaderInv!4'
  BY <1>1, <1>2 DEF ReaderInv
<1>4. ReaderInv!5' /\ ReaderInv!6'
  <2>1. \A i \in 1 .. Len(s.out) : /\ s.out[i] \in 1 .. Len(events)
                                   /\ s.from <= events[s.out[i]] /\ events[s.out[i]] <= s.to
    BY DEF ReaderInv
  <2>2. \A i \in 1 .. Len(s.out) :
          s.out[i] \in 1 .. Len(events') /\ events'[s.out[i]] = events[s.out[i]]
    BY <1>1, <2>1
  <2>3. ReaderInv!6
    BY DEF ReaderInv
  <2> QED BY <1>1, <1>2, <2>1, <2>2, <2>3
<1>5. ReaderInv!7'
  <2>1. CASE s.pc = "page"
    <3>1. s.from <= ledger /\ CursorOK(s.cursor, s.from) /\ Scanned(s.out, s.cursor, s.from)
          /\ \A i \in 1 .. Len(s.out) : s.out[i] <= s.cursor.pos
      BY <1>2, <2>1 DEF ReaderInv
    <3> DEFINE c == s.cursor
               from == s.from
               out == s.out
    <3>2. c' = c /\ from' = from /\ out' = out /\ from \in Nat
      BY <1>2
    <3> HIDE DEF c, from, out
    <3>3. CursorOK(c, from)' /\ Scanned(out, c, from)'
      BY <3>1, <3>2, CursorKept, ScannedKept DEF c, from, out
    <3> QED BY <1>2, <3>1, <3>3 DEF c, from, out
  <2>2. CASE s.pc # "page"
    BY <1>2, <2>2
  <2> QED BY <2>1, <2>2
<1>6. ReaderInv!8'
  <2> SUFFICES ASSUME s.pc = "done", NEW e \in 1 .. Len(events'),
                      s.from <= events'[e], events'[e] < s.to
               PROVE  Has(s.out, e)
    BY <1>2
  <2>1. s.to <= ledger /\ ReaderInv!8
    BY DEF ReaderInv
  <2>2. e <= Len(events)
    BY <1>1, <1>2, <2>1
  <2>3. e \in 1 .. Len(events) /\ events'[e] = events[e]
    BY <1>1, <2>2
  <2> QED BY <2>1, <2>3
<1> QED BY <1>3, <1>4, <1>5, <1>6 DEF ReaderInv

LEMMA FeedInitInv ==
  ASSUME FeedInit
  PROVE  FeedInv
<1>1. events = <<>> /\ Len(events) = 0 /\ ledger = MinLedger /\ inclusive \in BOOLEAN
  BY DEF FeedInit
<1> QED BY <1>1, FeedAssumption DEF FeedInv

LEMMA ReaderInitInv ==
  ASSUME ReaderInit
  PROVE  ReaderInv
<1>1. s = NoFetch /\ MinLedger \in Nat /\ 1 <= MinLedger
  BY FeedAssumption DEF ReaderInit
<1>2. s \in Fetches /\ s.pc = "idle" /\ s.out = <<>> /\ s.from = MinLedger /\ Len(s.out) = 0
  BY <1>1 DEF NoFetch, NoCursor, Fetches, Cursors
<1> QED BY <1>1, <1>2 DEF ReaderInv

LEMMA FeedKept ==
  ASSUME FeedInv, UNCHANGED feedVars
  PROVE  FeedInv'
<1>1. ledger' = ledger /\ events' = events /\ inclusive' = inclusive
  BY DEF feedVars
<1> QED BY <1>1 DEF FeedInv

LEMMA ReaderKept ==
  ASSUME ReaderInv, UNCHANGED <<feedVars, s>>
  PROVE  ReaderInv'
<1>1. ledger' = ledger /\ events' = events /\ inclusive' = inclusive /\ s' = s
  BY DEF feedVars
<1> QED BY <1>1 DEF ReaderInv, CursorOK, Scanned, EventsBelow

LEMMA FeedReaderNext ==
  ASSUME FeedInv, ReaderInv, [Next]_vars
  PROVE  FeedInv' /\ ReaderInv'
<1>1. CASE Feed
  BY <1>1, FeedGrows, ReaderFeedStep DEF Feed
<1>2. CASE Poller
  BY <1>2, FeedKept, ReaderKept DEF Poller
<1>3. CASE Reader
  <2>1. UNCHANGED feedVars
    BY <1>3 DEF Reader
  <2>2. ReaderInv'
    BY <1>3, <2>1, FetchStartStep, FetchPageStep, FetchErrorStep DEF Reader, ReaderNext
  <2> QED BY <2>1, <2>2, FeedKept
<1>4. CASE UNCHANGED vars
  BY <1>4, FeedKept, ReaderKept DEF vars
<1> QED BY <1>1, <1>2, <1>3, <1>4 DEF Next

LEMMA AnswerInRange ==
  ASSUME FeedInv, ReaderInv
  PROVE  FetchedRange
<1>1. DOMAIN events = 1 .. Len(events) /\ DOMAIN s.out = 1 .. Len(s.out)
  BY DEF FeedInv, ReaderInv, Fetches
<1>2. \A i \in 1 .. Len(events) : events[i] \in Nat
  BY DEF FeedInv
<1> QED BY <1>1, <1>2 DEF FetchedRange, ReaderInv, Has, Fetches

\* FetchMessageSentEvents, for any range, page limit and kind of cursor, while
\* ledgers close under it: an answer has every event of the range up to the
\* ledger before its last, none outside it, and in order.
THEOREM FetchesAreComplete == Spec => []FetchedRange
<1>1. Init => FeedInv /\ ReaderInv
  BY FeedInitInv, ReaderInitInv DEF Init
<1>2. (FeedInv /\ ReaderInv) /\ [Next]_vars => (FeedInv /\ ReaderInv)'
  BY FeedReaderNext
<1>3. FeedInv /\ ReaderInv => FetchedRange
  BY AnswerInRange
<1> QED BY <1>1, <1>2, <1>3, PTL DEF Spec

-----------------------------------------------------------------------------
(* The polling loop.                                                         *)

\* The events of ids that out does not have, each once.
FreshOK(ids, out, fresh) ==
  /\ fresh \in Seq(Nat)
  /\ \A i \in 1 .. Len(fresh) : Has(ids, fresh[i]) /\ ~Has(out, fresh[i])
  /\ \A j \in 1 .. Len(ids) : Has(out, ids[j]) \/ Has(fresh, ids[j])
  /\ \A i, j \in 1 .. Len(fresh) : fresh[i] = fresh[j] => i = j

LEMMA FreshFacts ==
  ASSUME NEW ids \in Seq(Nat), \A i, j \in 1 .. Len(ids) : ids[i] = ids[j] => i = j
  PROVE  FreshOK(ids, p.out, Fresh(ids))
<1> DEFINE out == p.out
           k == Len(ids)
           Next1(f, n) == IF n = 0 THEN <<>>
                          ELSE IF Contains(out, ids[n]) THEN f[n - 1]
                               ELSE Append(f[n - 1], ids[n])
           S == {m \in Nat : \E f : f = [n \in 0 .. m |-> Next1(f, n)]}
           u == CHOOSE f : f = [n \in 0 .. k |-> Next1(f, n)]
<1>1. Nat \subseteq S
  <2>1. 0 \in S
    <3> DEFINE f == [n \in 0 .. 0 |-> <<>>]
    <3>1. f = [n \in 0 .. 0 |-> Next1(f, n)]
      OBVIOUS
    <3> QED BY <3>1
  <2>2. ASSUME NEW m \in Nat, m \in S
        PROVE  m + 1 \in S
    <3>1. PICK f : f = [n \in 0 .. m |-> Next1(f, n)]
      BY <2>2
    <3> DEFINE g == [n \in 0 .. m + 1 |-> IF n <= m THEN f[n] ELSE Next1(f, n)]
    <3>2. ASSUME NEW n \in 0 .. m + 1
          PROVE  g[n] = Next1(g, n)
      <4>1. n # 0 => n - 1 \in 0 .. m /\ n - 1 \in 0 .. m + 1 /\ n - 1 <= m
        OBVIOUS
      <4>2. n # 0 => g[n - 1] = f[n - 1]
        BY <4>1
      <4>3. g[n] = Next1(f, n)
        <5>1. CASE n <= m
          <6>1. n \in 0 .. m
            BY <5>1
          <6>2. f[n] = Next1(f, n)
            BY <3>1, <6>1
          <6> QED BY <5>1, <6>2
        <5>2. CASE ~(n <= m)
          BY <5>2
        <5> QED BY <5>1, <5>2
      <4> HIDE DEF g
      <4> QED BY <4>2, <4>3
    <3>3. g = [n \in 0 .. m + 1 |-> Next1(g, n)]
      <4>1. g = [n \in 0 .. m + 1 |-> g[n]]
        OBVIOUS
      <4> HIDE DEF g, Next1
      <4> QED BY <3>2, <4>1
    <3> HIDE DEF g, Next1
    <3>4. \E h : h = [n \in 0 .. m + 1 |-> Next1(h, n)]
      BY <3>3
    <3> QED BY <3>4
  <2> HIDE DEF S
  <2> QED BY <2>1, <2>2, NatSetInduction
<1>2. Fresh(ids) = u[k]
  BY DEF Fresh
<1>3. k \in Nat
  OBVIOUS
<1>4. u = [n \in 0 .. k |-> Next1(u, n)]
  <2>1. k \in S
    BY <1>1, <1>3
  <2>2. \E f : f = [n \in 0 .. k |-> Next1(f, n)]
    BY <2>1
  <2> QED BY <2>2
<1> HIDE DEF u
<1>5. /\ u[0] = <<>>
      /\ \A n \in 1 .. k : u[n] = IF Has(out, ids[n]) THEN u[n - 1] ELSE Append(u[n - 1], ids[n])
  <2>1. \A n \in 0 .. k : u[n] = Next1(u, n)
    <3> HIDE DEF Next1
    <3> QED BY <1>4
  <2>2. u[0] = <<>>
    BY <1>3, <2>1
  <2>3. ASSUME NEW n \in 1 .. k
        PROVE  u[n] = IF Contains(out, ids[n]) THEN u[n - 1] ELSE Append(u[n - 1], ids[n])
    <3>1. n \in 0 .. k /\ n # 0
      BY <1>3
    <3> QED BY <2>1, <3>1
  <2> QED BY <2>2, <2>3 DEF Contains, Has
<1> DEFINE P(n) == /\ u[n] \in Seq(Nat)
                   /\ \A i \in 1 .. Len(u[n]) : ~Has(out, u[n][i])
                   /\ \A i \in 1 .. Len(u[n]) : \E j \in 1 .. n : u[n][i] = ids[j]
                   /\ \A j \in 1 .. n : Has(out, ids[j]) \/ Has(u[n], ids[j])
                   /\ \A i, j \in 1 .. Len(u[n]) : u[n][i] = u[n][j] => i = j
           T == {n \in Nat : n <= k => P(n)}
<1>6. 0 \in T
  <2>1. u[0] = <<>> /\ Len(u[0]) = 0
    BY <1>5
  <2>2. P(0)
    <3> HIDE DEF out
    <3> QED BY <2>1
  <2> HIDE DEF P
  <2> QED BY <2>2
<1>7. ASSUME NEW n \in Nat, n \in T
      PROVE  n + 1 \in T
  <2> SUFFICES ASSUME n + 1 <= k
               PROVE  P(n + 1)
    OBVIOUS
  <2>1. P(n) /\ n + 1 \in 1 .. k /\ (n + 1) - 1 = n /\ ids[n + 1] \in Nat
    BY <1>3, <1>7
  <2> DEFINE a == u[n]
             b == u[n + 1]
             x == ids[n + 1]
  <2>2. b = IF Has(out, x) THEN a ELSE Append(a, x)
    BY <1>5, <2>1
  <2>3. /\ a \in Seq(Nat) /\ x \in Nat
        /\ \A i \in 1 .. Len(a) : ~Has(out, a[i])
        /\ \A i \in 1 .. Len(a) : \E j \in 1 .. n : a[i] = ids[j]
        /\ \A j \in 1 .. n : Has(out, ids[j]) \/ Has(a, ids[j])
        /\ \A i, j \in 1 .. Len(a) : a[i] = a[j] => i = j
    BY <2>1
  <2>4. \A i \in 1 .. Len(a) : a[i] # x
    BY <1>3, <2>1, <2>3
  <2> HIDE DEF a, b, P
  <2>5. CASE Has(out, x)
    <3>1. b = a
      BY <2>2, <2>5
    <3>2. \A j \in 1 .. n + 1 : Has(out, ids[j]) \/ Has(b, ids[j])
      <4>1. \A j \in 1 .. n + 1 : j \in 1 .. n \/ j = n + 1
        OBVIOUS
      <4> QED BY <2>3, <2>5, <3>1, <4>1
    <3>3. \A i \in 1 .. Len(b) : \E j \in 1 .. n + 1 : b[i] = ids[j]
      BY <2>3, <3>1
    <3> QED BY <2>3, <3>1, <3>2, <3>3 DEF P, b
  <2>6. CASE ~Has(out, x)
    <3>0. Len(a) \in Nat
      BY <2>3
    <3>1. /\ b = Append(a, x) /\ b \in Seq(Nat) /\ Len(b) = Len(a) + 1 /\ b[Len(a) + 1] = x
          /\ \A i \in 1 .. Len(a) : b[i] = a[i]
      BY <2>2, <2>3, <2>6
    <3>2. \A i \in 1 .. Len(b) : i \in 1 .. Len(a) \/ i = Len(a) + 1
      BY <3>0, <3>1, SMTT(30)
    <3>3. \A i \in 1 .. Len(b) : ~Has(out, b[i])
      BY <2>3, <2>6, <3>1, <3>2
    <3>4. \A i \in 1 .. Len(b) : \E j \in 1 .. n + 1 : b[i] = ids[j]
      BY <2>3, <3>1, <3>2
    <3>5. \A j \in 1 .. n + 1 : Has(out, ids[j]) \/ Has(b, ids[j])
      <4>1. \A j \in 1 .. n + 1 : j \in 1 .. n \/ j = n + 1
        OBVIOUS
      <4>2. \A e : Has(a, e) => Has(b, e)
        BY <3>0, <3>1 DEF Has
      <4>3. Has(b, x)
        <5>1. Len(a) + 1 \in 1 .. Len(b)
          BY <3>0, <3>1
        <5> QED BY <3>1, <5>1 DEF Has
      <4> QED BY <2>3, <4>1, <4>2, <4>3
    <3>6. ASSUME NEW i \in 1 .. Len(b), NEW j \in 1 .. Len(b), b[i] = b[j]
          PROVE  i = j
      <4>1. CASE i \in 1 .. Len(a) /\ j \in 1 .. Len(a)
        BY <2>3, <3>1, <3>6, <4>1
      <4>2. CASE i \in 1 .. Len(a) /\ j = Len(a) + 1
        BY <2>4, <3>1, <3>6, <4>2
      <4>3. CASE i = Len(a) + 1 /\ j \in 1 .. Len(a)
        BY <2>4, <3>1, <3>6, <4>3
      <4> QED BY <3>2, <4>1, <4>2, <4>3
    <3> QED BY <3>1, <3>3, <3>4, <3>5, <3>6 DEF P, b
  <2> QED BY <2>5, <2>6
<1>8. P(k)
  <2> HIDE DEF P
  <2>1. Nat \subseteq T
    <3> HIDE DEF T
    <3> QED BY <1>6, <1>7, NatSetInduction
  <2> QED BY <1>3, <2>1
<1> DEFINE fresh == u[k]
<1>9. /\ fresh \in Seq(Nat)
      /\ \A i \in 1 .. Len(fresh) : ~Has(out, fresh[i])
      /\ \A i \in 1 .. Len(fresh) : \E j \in 1 .. k : fresh[i] = ids[j]
      /\ \A j \in 1 .. k : Has(out, ids[j]) \/ Has(fresh, ids[j])
      /\ \A i, j \in 1 .. Len(fresh) : fresh[i] = fresh[j] => i = j
  BY <1>8
<1>10. Fresh(ids) = fresh
  BY <1>2
<1> HIDE DEF fresh, P
<1>11. \A i \in 1 .. Len(fresh) : Has(ids, fresh[i])
  BY <1>9 DEF Has
<1> QED BY <1>9, <1>10, <1>11 DEF FreshOK

LEMMA PollTypes ==
  ASSUME FeedInv, PollInv
  PROVE  /\ p.start \in Nat /\ p.last \in Nat /\ p.to \in Nat /\ p.i \in Nat
         /\ p.out \in Seq(Nat) /\ Len(p.out) \in Nat /\ ledger \in Nat /\ Len(events) \in Nat
         /\ Idle \in Polls /\ Down \in Polls
         /\ Idle = [p EXCEPT !.pc = "idle", !.started = TRUE, !.to = 0, !.cursor = NoCursor,
                             !.out = <<>>, !.i = 1]
         /\ Idle.pc = "idle" /\ Idle.out = <<>> /\ Idle.start = p.start /\ Idle.last = p.last
         /\ Idle.i = 1 /\ Idle.cursor = NoCursor
<1>1. p \in Polls /\ NoCursor \in Cursors /\ MinLedger \in Nat
  BY FeedAssumption DEF PollInv, NoCursor, Cursors
<1>2. /\ Idle \in Polls
      /\ Idle.pc = "idle" /\ Idle.out = <<>> /\ Idle.start = p.start /\ Idle.last = p.last
      /\ Idle.i = 1 /\ Idle.cursor = NoCursor
  <2>1. <<>> \in Seq(Nat) /\ 1 \in Nat /\ 0 \in Nat
    OBVIOUS
  <2>2. Idle \in Polls
    BY <1>1, <2>1 DEF Idle, Polls
  <2> QED BY <1>1, <2>2 DEF Idle, Polls
<1>3. Down \in Polls
  BY <1>1 DEF Down, Polls
<1>4. /\ p.start \in Nat /\ p.last \in Nat /\ p.to \in Nat /\ p.i \in Nat /\ p.out \in Seq(Nat)
  BY <1>1 DEF Polls
<1> QED BY <1>2, <1>3, <1>4 DEF FeedInv, Idle

\* Between two polls.
LEMMA RestInv ==
  ASSUME FeedInv', p' \in Polls, p'.pc \notin {"page", "process"}, p'.out = <<>>,
         p'.cursor = NoCursor, p'.i = 1, p'.pc = "down" => p'.last = MinLedger,
         1 <= p'.start, p'.start <= p'.last, p'.last <= ledger'
  PROVE  PollInv'
<1>1. Len(p'.out) = 0
  OBVIOUS
<1> QED BY <1>1 DEF PollInv

LEMMA StartStep ==
  ASSUME FeedInv, PollInv, Start, UNCHANGED feedVars
  PROVE  /\ PollInv' /\ p'.start = p'.last /\ p'.out = <<>> /\ p'.i = 1 /\ p'.last \in Nat
         /\ p.out = <<>> /\ MinLedger <= p'.last
<1> DEFINE start == IF Lookback >= ledger \/ ledger - Lookback < MinLedger
                      THEN MinLedger ELSE ledger - Lookback
<1>1. p' = [Down EXCEPT !.pc = "backfill", !.start = start, !.last = start] /\ p.pc = "down"
  BY DEF Start
<1>2. start \in Nat /\ 1 <= start /\ start <= ledger /\ MinLedger <= start
  BY FeedAssumption, PollerAssumption DEF FeedInv
<1> HIDE DEF start
<1>3. /\ p' \in Polls /\ p'.pc = "backfill" /\ p'.out = <<>> /\ p'.cursor = NoCursor /\ p'.i = 1
      /\ p'.start = start /\ p'.last = start
  <2>1. NoCursor \in Cursors /\ <<>> \in Seq(Nat)
    BY DEF NoCursor, Cursors
  <2>2. p' = [pc |-> "backfill", started |-> FALSE, start |-> start, last |-> start,
              to |-> 0, cursor |-> NoCursor, out |-> <<>>, i |-> 1]
    BY <1>1 DEF Down
  <2> QED BY <1>2, <2>1, <2>2 DEF Polls
<1>4. FeedInv' /\ ledger' = ledger
  BY FeedKept DEF feedVars
<1>5. PollInv'
  BY <1>2, <1>3, <1>4, RestInv
<1>6. p.out = <<>>
  BY <1>1 DEF PollInv
<1> QED BY <1>2, <1>3, <1>5, <1>6

LEMMA IdleStep ==
  ASSUME FeedInv, PollInv, p' = Idle, UNCHANGED feedVars
  PROVE  PollInv'
<1>1. FeedInv' /\ ledger' = ledger
  BY FeedKept DEF feedVars
<1> QED BY <1>1, PollTypes, RestInv DEF PollInv

LEMMA StopStep ==
  ASSUME FeedInv, PollInv, Stop, UNCHANGED feedVars
  PROVE  PollInv'
<1>1. FeedInv' /\ ledger' = ledger /\ MinLedger \in Nat /\ 1 <= MinLedger /\ MinLedger <= ledger
  BY FeedKept, FeedAssumption DEF feedVars, FeedInv
<1>2. p' = Down /\ Down \in Polls
  BY PollTypes DEF Stop
<1>3. /\ Down.pc = "down" /\ Down.out = <<>> /\ Down.cursor = NoCursor /\ Down.i = 1
      /\ Down.start = MinLedger /\ Down.last = MinLedger
  BY DEF Down
<1> QED BY <1>1, <1>2, <1>3, RestInv

LEMMA PollDoneStep ==
  ASSUME FeedInv, PollInv, PollDone, UNCHANGED feedVars
  PROVE  PollInv' /\ p'.start = p.start /\ p'.last = p.to /\ p'.out = <<>> /\ p'.i = 1
<1>1. FeedInv' /\ ledger' = ledger
  BY FeedKept DEF feedVars
<1>2. p' = [Idle EXCEPT !.last = p.to] /\ p.pc = "process"
  BY DEF PollDone
<1>3. /\ p' \in Polls /\ p'.pc = "idle" /\ p'.out = <<>> /\ p'.cursor = NoCursor /\ p'.i = 1
      /\ p'.start = p.start /\ p'.last = p.to
  BY <1>2, PollTypes DEF Polls
<1>4. 1 <= p.start /\ p.start <= p.to /\ p.to <= ledger
  BY <1>2, PollTypes DEF PollInv
<1>5. PollInv'
  BY <1>1, <1>3, <1>4, RestInv
<1> QED BY <1>3, <1>5

LEMMA PollStartStep ==
  ASSUME FeedInv, PollInv, PollStart, UNCHANGED feedVars
  PROVE  /\ PollInv' /\ p'.start = p.start /\ p'.last = p.last /\ p'.out = <<>> /\ p.out = <<>>
<1>1. /\ ledger' = ledger /\ events' = events /\ p.pc \in {"idle", "backfill"}
  BY DEF feedVars, PollStart
<1>2. p.out = <<>> /\ p.cursor = NoCursor
  BY <1>1 DEF PollInv
<1>3. CASE ledger <= p.last
  <2>1. p' = Idle
    BY <1>3 DEF PollStart
  <2> QED BY <1>2, <2>1, IdleStep, PollTypes
<1>4. CASE ~(ledger <= p.last)
  <2>1. p' = [p EXCEPT !.pc = "page", !.to = ledger]
    BY <1>4 DEF PollStart
  <2>2. /\ p' \in Polls /\ p'.pc = "page" /\ p'.to = ledger /\ p'.out = <<>> /\ Len(p'.out) = 0
        /\ p'.cursor = NoCursor /\ p'.start = p.start /\ p'.last = p.last /\ p'.i = p.i
    BY <1>2, <2>1, PollTypes DEF Polls, PollInv
  <2>3. 1 <= p.start /\ p.start <= p.last /\ p.last < ledger /\ p.i = 1
    <3>1. Len(p.out) = 0
      BY <1>2
    <3> QED BY <1>4, <3>1, PollTypes DEF PollInv
  <2>4. CursorOK(p.cursor, p.last)' /\ Scanned(p.out, p.cursor, p.last)'
    BY <2>2 DEF CursorOK, Scanned, NoCursor, Cursors
  <2> QED BY <1>1, <1>2, <2>2, <2>3, <2>4, PollTypes DEF PollInv
<1> QED BY <1>3, <1>4

LEMMA PageStep ==
  ASSUME FeedInv, PollInv, Page, UNCHANGED feedVars
  PROVE  PollInv' /\ p'.start = p.start /\ p'.last = p.last /\ p'.i = 1 /\ p.i = 1
<1> DEFINE from == p.last
           to   == p.to
           c    == p.cursor
           resp == Answer(c, from, to)
           first == FirstOf(c, from)
           stop == resp.cursor.pos
           n    == Cardinality(InWindow(resp.ids, to))
           part == SubSeq(resp.ids, 1, n)
           ids  == Fresh(part)
           all  == p.out \o ids
           last == n < Len(resp.ids) \/ Len(resp.ids) < PageLimit
           stuck == c # NoCursor /\ resp.cursor.pos <= c.pos
           lo   == EventsBelow(from)
<1>1. p' = IF last THEN [p EXCEPT !.pc = "process", !.out = all]
           ELSE IF stuck THEN Idle
           ELSE [p EXCEPT !.out = all, !.cursor = resp.cursor]
  BY DEF Page, Response, Answer
<1>2. /\ p \in Polls /\ p.pc = "page" /\ from \in Nat /\ to \in Nat /\ p.i = 1
      /\ p.out \in Seq(Nat) /\ Len(p.out) \in Nat /\ 1 <= from /\ from < to /\ to <= ledger
      /\ 1 <= p.start /\ p.start <= from /\ from <= ledger /\ ledger \in Nat
      /\ CursorOK(c, from) /\ Scanned(p.out, c, from)
  <2>1. p.pc = "page"
    BY DEF Page
  <2> QED BY <2>1, PollTypes DEF PollInv
<1>3. AnswerOK(c, from, to, resp, first, stop, n)
  <2>1. from <= to
    BY <1>2
  <2> HIDE DEF from, to, c
  <2> QED BY <1>2, <2>1, AnswerFacts
<1>4. /\ first \in Nat /\ lo + 1 <= first /\ first <= stop + 1 /\ lo \in Nat
      /\ resp.cursor \in Cursors /\ stop \in Nat /\ stop <= Len(events)
      /\ resp.ids \in Seq(Nat) /\ Len(resp.ids) = (stop + 1) - first
      /\ \A i \in 1 .. Len(resp.ids) : resp.ids[i] = first + i - 1
      /\ resp.cursor.event <=> Len(resp.ids) = PageLimit
      /\ Len(resp.ids) <= PageLimit /\ Len(resp.ids) \in Nat
      /\ n \in Nat /\ n <= Len(resp.ids)
      /\ \A i \in 1 .. Len(resp.ids) : events[first + i - 1] <= to <=> i <= n
  <2> HIDE DEF from, to, c, resp, first, stop, n
  <2> QED BY <1>3 DEF AnswerOK, lo
<1>7. /\ PageLimit \in Nat /\ PageLimit >= 2 /\ Len(events) \in Nat
      /\ \A i \in 1 .. Len(events) : events[i] \in Nat
      /\ \A i \in 1 .. Len(events) : events[i] < from <=> i <= lo
  <2> HIDE DEF from
  <2>1. \A i \in 1 .. Len(events) : events[i] < from <=> i <= EventsBelow(from)
    BY <1>2, BelowFacts
  <2> QED BY <2>1, FeedAssumption DEF FeedInv, lo
<1> HIDE DEF from, to, c, resp, first, stop, n, lo
<1>8. /\ part \in Seq(Nat) /\ Len(part) = n
      /\ \A i \in 1 .. n : part[i] = resp.ids[i] /\ part[i] = first + i - 1
  BY <1>4, SMTT(30)
<1>9. FreshOK(part, p.out, ids)
  <2>1. \A i, j \in 1 .. Len(part) : part[i] = part[j] => i = j
    BY <1>4, <1>8
  <2> HIDE DEF part
  <2> QED BY <1>8, <2>1, FreshFacts
<1> HIDE DEF part, ids
<1>10. /\ ids \in Seq(Nat) /\ Len(ids) \in Nat
       /\ \A i \in 1 .. Len(ids) : Has(part, ids[i]) /\ ~Has(p.out, ids[i])
       /\ \A j \in 1 .. n : Has(p.out, resp.ids[j]) \/ Has(ids, resp.ids[j])
       /\ \A i, j \in 1 .. Len(ids) : ids[i] = ids[j] => i = j
  BY <1>8, <1>9 DEF FreshOK
<1>11. /\ all \in Seq(Nat) /\ Len(all) \in Nat /\ Len(all) = Len(p.out) + Len(ids)
       /\ \A i \in 1 .. Len(p.out) : all[i] = p.out[i]
       /\ \A i \in 1 .. Len(all) : i > Len(p.out) =>
            all[i] = ids[i - Len(p.out)] /\ i - Len(p.out) \in 1 .. Len(ids)
  <2>1. /\ all \in Seq(Nat) /\ Len(all) = Len(p.out) + Len(ids)
        /\ \A i \in 1 .. Len(p.out) + Len(ids) :
             all[i] = IF i <= Len(p.out) THEN p.out[i] ELSE ids[i - Len(p.out)]
    BY <1>2, <1>10, ConcatProperties
  <2> HIDE DEF all
  <2>2. Len(p.out) \in Nat /\ Len(ids) \in Nat /\ Len(all) \in Nat
    BY <1>2, <1>10, <2>1
  <2>3. \A i \in 1 .. Len(p.out) : all[i] = p.out[i]
    BY <2>1, <2>2, SMTT(30)
  <2>4. ASSUME NEW i \in 1 .. Len(all), i > Len(p.out)
        PROVE  all[i] = ids[i - Len(p.out)] /\ i - Len(p.out) \in 1 .. Len(ids)
    BY <2>1, <2>2, <2>4
  <2> QED BY <2>1, <2>2, <2>3, <2>4
<1> HIDE DEF all
<1>12. \A e \in Nat : Has(p.out, e) => Has(all, e)
  <2>1. \A i \in 1 .. Len(p.out) : i \in 1 .. Len(all) /\ all[i] = p.out[i]
    <3>1. Len(all) >= Len(p.out) /\ Len(all) \in Nat /\ Len(p.out) \in Nat
      BY <1>2, <1>10, <1>11
    <3> QED BY <1>11, <3>1
  <2> QED BY <2>1 DEF Has
<1>13. \A e \in Nat : Has(ids, e) => Has(all, e)
  <2> SUFFICES ASSUME NEW e \in Nat, NEW i \in 1 .. Len(ids), ids[i] = e
               PROVE  Has(all, e)
    BY DEF Has
  <2> DEFINE k == Len(p.out) + i
  <2>1. k \in 1 .. Len(all) /\ k > Len(p.out) /\ k - Len(p.out) = i
    BY <1>2, <1>10, <1>11, SMTT(30)
  <2> HIDE DEF k
  <2>2. all[k] = e
    BY <1>11, <2>1
  <2> QED BY <2>1, <2>2 DEF Has
<1>14. \A i \in 1 .. n : Has(all, resp.ids[i])
  <2>1. \A i \in 1 .. n : resp.ids[i] \in Nat
    BY <1>4, SMTT(30)
  <2> QED BY <1>10, <1>12, <1>13, <2>1
<1>15. /\ n = Len(resp.ids) => \A e \in lo + 1 .. stop : Has(all, e)
       /\ n < Len(resp.ids) \/ ~resp.cursor.event =>
            \A e \in 1 .. Len(events) : from <= events[e] /\ events[e] < to => Has(all, e)
  <2>1. from <= to
    BY <1>2
  <2> QED BY <1>2, <1>4, <1>12, <1>14, <2>1, ScanStep DEF resp, n, lo, stop
<1>16. \A i \in 1 .. Len(ids) : /\ ids[i] \in 1 .. Len(events)
                                /\ from <= events[ids[i]] /\ events[ids[i]] <= to
  <2> SUFFICES ASSUME NEW i \in 1 .. Len(ids)
               PROVE  /\ ids[i] \in 1 .. Len(events)
                      /\ from <= events[ids[i]] /\ events[ids[i]] <= to
    OBVIOUS
  <2>1. PICK k \in 1 .. n : part[k] = ids[i]
    BY <1>8, <1>10 DEF Has
  <2> DEFINE e == first + k - 1
  <2>2. ids[i] = e /\ k \in 1 .. Len(resp.ids) /\ k <= n
    BY <1>4, <1>8, <2>1
  <2>3. events[e] <= to
    BY <1>4, <2>2
  <2>4. e \in 1 .. Len(events) /\ lo + 1 <= e
    BY <1>4, <1>7, <2>2
  <2> HIDE DEF e
  <2>5. from <= events[e]
    BY <1>2, <1>4, <1>7, <2>4
  <2> QED BY <2>2, <2>3, <2>4, <2>5
<1>17. \A i \in 1 .. Len(all) : /\ all[i] \in 1 .. Len(events)
                                /\ from <= events[all[i]] /\ events[all[i]] <= to
  <2> SUFFICES ASSUME NEW i \in 1 .. Len(all)
               PROVE  /\ all[i] \in 1 .. Len(events)
                      /\ from <= events[all[i]] /\ events[all[i]] <= to
    OBVIOUS
  <2>1. CASE i <= Len(p.out)
    <3>1. i \in 1 .. Len(p.out) /\ all[i] = p.out[i]
      BY <1>2, <1>11, <2>1
    <3> QED BY <3>1 DEF PollInv, from, to
  <2>2. CASE i > Len(p.out)
    BY <1>11, <1>16, <2>2
  <2> QED BY <1>2, <1>11, <2>1, <2>2
<1>18. \A i, j \in 1 .. Len(all) : all[i] = all[j] => i = j
  <2>1. ASSUME NEW i \in 1 .. Len(all), NEW j \in 1 .. Len(all), i <= Len(p.out), j > Len(p.out)
        PROVE  all[i] # all[j]
    <3>1. i \in 1 .. Len(p.out) /\ all[i] = p.out[i]
      BY <1>2, <1>11, <2>1
    <3>2. ~Has(p.out, all[j])
      BY <1>10, <1>11, <2>1
    <3> QED BY <3>1, <3>2 DEF Has
  <2>2. ASSUME NEW i \in 1 .. Len(all), NEW j \in 1 .. Len(all), i > Len(p.out), j > Len(p.out),
               all[i] = all[j]
        PROVE  i = j
    <3>1. i - Len(p.out) = j - Len(p.out)
      BY <1>10, <1>11, <2>2
    <3> QED BY <1>2, <1>11, <3>1
  <2>3. ASSUME NEW i \in 1 .. Len(all), NEW j \in 1 .. Len(all), i <= Len(p.out), j <= Len(p.out),
               all[i] = all[j]
        PROVE  i = j
    <3>1. i \in 1 .. Len(p.out) /\ all[i] = p.out[i] /\ j \in 1 .. Len(p.out) /\ all[j] = p.out[j]
      BY <1>2, <1>11, <2>3
    <3> QED BY <2>3, <3>1 DEF PollInv
  <2>4. \A i \in 1 .. Len(all) : i <= Len(p.out) \/ i > Len(p.out)
    BY <1>2, <1>11
  <2> QED BY <2>1, <2>2, <2>3, <2>4
<1>19. events' = events /\ ledger' = ledger
  BY DEF feedVars
<1>20. CASE last
  <2>1. p' = [p EXCEPT !.pc = "process", !.out = all]
    BY <1>1, <1>20
  <2>2. /\ p' \in Polls /\ p'.pc = "process" /\ p'.out = all /\ p'.start = p.start
        /\ p'.last = from /\ p'.to = to /\ p'.i = 1
    BY <1>2, <1>11, <2>1 DEF Polls, from, to
  <2>3. \A e \in 1 .. Len(events) : from <= events[e] /\ events[e] < to => Has(all, e)
    <3>1. n < Len(resp.ids) \/ ~resp.cursor.event
      BY <1>4, <1>7, <1>20
    <3> QED BY <1>15, <3>1
  <2>4. 1 <= p'.i /\ p'.i <= Len(p'.out) + 1
    BY <1>11, <2>2
  <2>5. PollInv'
    BY <1>2, <1>17, <1>18, <1>19, <2>2, <2>3, <2>4 DEF PollInv
  <2> QED BY <1>2, <2>2, <2>5 DEF from
<1>21. CASE ~last /\ stuck
  <2>1. p' = Idle
    BY <1>1, <1>21
  <2> QED BY <1>2, <2>1, IdleStep, PollTypes
<1>22. CASE ~last /\ ~stuck
  <2>1. p' = [p EXCEPT !.out = all, !.cursor = resp.cursor]
    <3> HIDE DEF last, stuck
    <3> QED BY <1>1, <1>22
  <2>2. /\ p' \in Polls /\ p'.pc = "page" /\ p'.out = all /\ p'.start = p.start
        /\ p'.last = from /\ p'.to = to /\ p'.i = 1 /\ p'.cursor = resp.cursor
    BY <1>2, <1>4, <1>11, <2>1 DEF Polls, from, to
  <2>3. n = Len(resp.ids) /\ first <= stop /\ lo < stop /\ 1 <= stop
    BY <1>4, <1>7, <1>22
  <2>4. resp.cursor # NoCursor
    BY <2>3 DEF NoCursor, stop
  <2>5. CursorOK(resp.cursor, from)
    BY <1>4, <2>3 DEF CursorOK, stop, lo
  <2>6. Scanned(all, resp.cursor, from)
    BY <1>15, <2>3, <2>4 DEF Scanned, stop, lo
  <2>7. CursorOK(p.cursor, p.last)' /\ Scanned(p.out, p.cursor, p.last)'
    BY <1>19, <2>2, <2>5, <2>6 DEF CursorOK, Scanned, EventsBelow
  <2>8. 1 <= p'.i /\ p'.i <= Len(p'.out) + 1
    BY <1>11, <2>2
  <2>9. PollInv'
    BY <1>2, <1>17, <1>18, <1>19, <2>2, <2>7, <2>8 DEF PollInv
  <2> QED BY <1>2, <2>2, <2>9 DEF from
<1> QED BY <1>20, <1>21, <1>22

LEMMA ProcessKeepsPoll ==
  ASSUME FeedInv, PollInv, UNCHANGED feedVars,
         p.pc = "process", p.i <= Len(p.out), p' = [p EXCEPT !.i = @ + 1]
  PROVE  PollInv'
<1>1. events' = events /\ ledger' = ledger
  BY DEF feedVars
<1>2. /\ p' \in Polls /\ p'.pc = "process" /\ p'.out = p.out /\ p'.start = p.start
      /\ p'.last = p.last /\ p'.to = p.to /\ p'.i = p.i + 1
  <2>1. p \in Polls /\ p.i \in Nat
    BY PollTypes DEF PollInv
  <2> QED BY <2>1 DEF Polls
<1>3. 1 <= p'.i /\ p'.i <= Len(p'.out) + 1
  BY <1>2, PollTypes
<1> QED BY <1>1, <1>2, <1>3 DEF PollInv

LEMMA PollFeedStep ==
  ASSUME FeedInv, PollInv, CloseLedger, UNCHANGED p
  PROVE  PollInv'
<1>1. /\ ledger' = ledger + 1
      /\ Len(events) \in Nat /\ Len(events') \in Nat /\ Len(events) <= Len(events')
      /\ \A i \in 1 .. Len(events) : events'[i] = events[i]
      /\ \A i \in 1 .. Len(events') : i > Len(events) => events'[i] = ledger + 1
  BY FeedGrows
<1>2. p' = p /\ p.last \in Nat /\ p.to \in Nat /\ ledger \in Nat /\ p.last <= ledger
  BY PollTypes DEF PollInv
<1>3. \A i \in 1 .. Len(p.out) : /\ p.out[i] \in 1 .. Len(events')
                                 /\ p.last <= events'[p.out[i]] /\ events'[p.out[i]] <= p.to
  <2>1. \A i \in 1 .. Len(p.out) : /\ p.out[i] \in 1 .. Len(events)
                                   /\ p.last <= events[p.out[i]] /\ events[p.out[i]] <= p.to
    BY DEF PollInv
  <2>2. \A i \in 1 .. Len(p.out) :
          p.out[i] \in 1 .. Len(events') /\ events'[p.out[i]] = events[p.out[i]]
    BY <1>1, <2>1
  <2> QED BY <2>1, <2>2
<1>4. PollInv!1' /\ PollInv!2' /\ PollInv!3' /\ PollInv!4' /\ PollInv!5' /\ PollInv!7' /\ PollInv!10'
  BY <1>1, <1>2 DEF PollInv
<1>5. PollInv!6'
  BY <1>2, <1>3
<1>6. PollInv!8'
  <2>1. CASE p.pc = "page"
    <3>1. p.i = 1 /\ CursorOK(p.cursor, p.last) /\ Scanned(p.out, p.cursor, p.last)
      BY <2>1 DEF PollInv
    <3> DEFINE c == p.cursor
               from == p.last
               out == p.out
    <3>2. c' = c /\ from' = from /\ out' = out /\ from \in Nat /\ from <= ledger
      BY <1>2
    <3> HIDE DEF c, from, out
    <3>3. CursorOK(c, from)' /\ Scanned(out, c, from)'
      BY <3>1, <3>2, CursorKept, ScannedKept DEF c, from, out
    <3> QED BY <1>2, <3>1, <3>3 DEF c, from, out
  <2>2. CASE p.pc # "page"
    BY <1>2, <2>2
  <2> QED BY <2>1, <2>2
<1>7. PollInv!9'
  <2> SUFFICES ASSUME p.pc = "process", NEW e \in 1 .. Len(events'),
                      p.last <= events'[e], events'[e] < p.to
               PROVE  Has(p.out, e)
    BY <1>2
  <2>1. p.to <= ledger /\ PollInv!9
    BY DEF PollInv
  <2>2. e <= Len(events)
    BY <1>1, <1>2, <2>1
  <2>3. e \in 1 .. Len(events) /\ events'[e] = events[e]
    BY <1>1, <2>2
  <2> QED BY <2>1, <2>3
<1> QED BY <1>4, <1>5, <1>6, <1>7 DEF PollInv

LEMMA PollKept ==
  ASSUME PollInv, UNCHANGED <<feedVars, p>>
  PROVE  PollInv'
<1>1. ledger' = ledger /\ events' = events /\ p' = p
  BY DEF feedVars
<1> QED BY <1>1 DEF PollInv, CursorOK, Scanned, EventsBelow

-----------------------------------------------------------------------------
(* The retry queue.                                                          *)

Keyed(q) == /\ q \in Seq(Tasks)
            /\ \A i, j \in 1 .. Len(q) : q[i].e = q[j].e => i = j

\* q is the queue without the task of e.
WithoutOK(e, q) ==
  /\ Keyed(q) /\ Len(q) <= Len(queue)
  /\ \A i \in 1 .. Len(q) : q[i].e # e /\ \E j \in 1 .. Len(queue) : q[i] = queue[j]
  /\ \A j \in 1 .. Len(queue) : queue[j].e # e => \E i \in 1 .. Len(q) : q[i] = queue[j]

LEMMA WithoutFacts ==
  ASSUME Keyed(queue), NEW e
  PROVE  WithoutOK(e, Without(e))
<1>0. queue \in Seq(Tasks) /\ Len(queue) \in Nat /\ DOMAIN queue = 1 .. Len(queue)
  BY DEF Keyed
<1>1. CASE ~Queued(e)
  <2>1. Without(e) = queue /\ \A i \in 1 .. Len(queue) : queue[i].e # e
    BY <1>0, <1>1 DEF Without, Queued
  <2> QED BY <1>0, <2>1 DEF WithoutOK
<1>2. CASE Queued(e)
  <2> DEFINE k == PlaceOf(e)
             n == Len(queue)
             a == SubSeq(queue, 1, k - 1)
             b == SubSeq(queue, k + 1, n)
             q == Without(e)
  <2>1. k \in 1 .. n /\ queue[k].e = e
    BY <1>0, <1>2 DEF Queued, PlaceOf
  <2>2. q = a \o b
    BY <1>2 DEF Without, RemoveAt
  <2> HIDE DEF k
  <2>3. /\ a \in Seq(Tasks) /\ Len(a) = k - 1 /\ \A i \in 1 .. k - 1 : a[i] = queue[i]
        /\ b \in Seq(Tasks) /\ Len(b) = n - k /\ \A i \in 1 .. n - k : b[i] = queue[k + i]
    <3>1. a \in Seq(Tasks) /\ Len(a) = k - 1 /\ \A i \in 1 .. k - 1 : a[i] = queue[i]
      BY <1>0, <2>1
    <3>2. b \in Seq(Tasks) /\ Len(b) = n - k /\ \A i \in 1 .. n - k : b[i] = queue[k + i]
      <4>1. k + 1 \in 1 .. n + 1 /\ n \in (k + 1) - 1 .. n
        BY <1>0, <2>1
      <4>2. /\ b \in Seq(Tasks) /\ Len(b) = n - (k + 1) + 1
            /\ \A i \in 1 .. n - (k + 1) + 1 : b[i] = queue[(k + 1) + i - 1]
        BY <1>0, <4>1, SubSeqProperties
      <4>3. n - (k + 1) + 1 = n - k /\ \A i \in 1 .. n - k : (k + 1) + i - 1 = k + i
        BY <1>0, <2>1
      <4> HIDE DEF b
      <4> QED BY <4>2, <4>3
    <3> QED BY <3>1, <3>2
  <2> HIDE DEF a, b, q
  <2>4. /\ q \in Seq(Tasks) /\ Len(q) = n - 1
        /\ \A i \in 1 .. n - 1 : q[i] = IF i < k THEN queue[i] ELSE queue[i + 1]
    <3>1. /\ q \in Seq(Tasks) /\ Len(q) = Len(a) + Len(b)
          /\ \A i \in 1 .. Len(a) + Len(b) : q[i] = IF i <= Len(a) THEN a[i] ELSE b[i - Len(a)]
      BY <2>2, <2>3, ConcatProperties
    <3>2. Len(q) = n - 1
      BY <1>0, <2>1, <2>3, <3>1
    <3>3. ASSUME NEW i \in 1 .. n - 1
          PROVE  q[i] = IF i < k THEN queue[i] ELSE queue[i + 1]
      <4>1. i \in 1 .. Len(a) + Len(b) /\ n \in Nat /\ k \in Nat
        BY <1>0, <2>1, <2>3
      <4>2. CASE i < k
        <5>1. i <= Len(a) /\ i \in 1 .. k - 1
          BY <2>1, <2>3, <4>1, <4>2
        <5> QED BY <2>3, <3>1, <4>1, <4>2, <5>1
      <4>3. CASE ~(i < k)
        <5>1. ~(i <= Len(a)) /\ i - Len(a) \in 1 .. n - k /\ k + (i - Len(a)) = i + 1
          BY <2>1, <2>3, <4>1, <4>3
        <5>2. q[i] = b[i - Len(a)]
          BY <3>1, <4>1, <5>1
        <5>3. b[i - Len(a)] = queue[i + 1]
          BY <2>3, <5>1
        <5> QED BY <4>3, <5>2, <5>3
      <4> QED BY <4>2, <4>3
    <3> QED BY <3>1, <3>2, <3>3
  <2>5. \A i \in 1 .. n - 1 : \E j \in 1 .. n : j # k /\ q[i] = queue[j] /\ (j = i \/ j = i + 1)
    <3> SUFFICES ASSUME NEW i \in 1 .. n - 1
                 PROVE  \E j \in 1 .. n : j # k /\ q[i] = queue[j] /\ (j = i \/ j = i + 1)
      OBVIOUS
    <3>1. CASE i < k
      <4>1. i \in 1 .. n /\ i # k /\ q[i] = queue[i]
        BY <1>0, <2>1, <2>4, <3>1
      <4> QED BY <4>1
    <3>2. CASE ~(i < k)
      <4>1. i + 1 \in 1 .. n /\ i + 1 # k /\ q[i] = queue[i + 1]
        BY <1>0, <2>1, <2>4, <3>2
      <4> QED BY <4>1
    <3> QED BY <3>1, <3>2
  <2>6. \A i \in 1 .. Len(q) : q[i].e # e /\ \E j \in 1 .. n : q[i] = queue[j]
    BY <2>1, <2>4, <2>5 DEF Keyed
  <2>7. ASSUME NEW j \in 1 .. n, queue[j].e # e
        PROVE  \E i \in 1 .. Len(q) : q[i] = queue[j]
    <3>1. CASE j < k
      <4>1. j \in 1 .. n - 1 /\ q[j] = queue[j]
        BY <1>0, <2>1, <2>4, <3>1
      <4> QED BY <2>4, <4>1
    <3>2. CASE j > k
      <4>1. j - 1 \in 1 .. n - 1 /\ ~(j - 1 < k) /\ (j - 1) + 1 = j
        BY <1>0, <2>1, <3>2
      <4>2. q[j - 1] = queue[j]
        BY <2>4, <4>1
      <4> QED BY <2>4, <4>1, <4>2
    <3> QED BY <1>0, <2>1, <2>7, <3>1, <3>2
  <2>8. ASSUME NEW i \in 1 .. Len(q), NEW j \in 1 .. Len(q), q[i].e = q[j].e
        PROVE  i = j
    <3>1. i \in 1 .. n - 1 /\ j \in 1 .. n - 1
      BY <2>4
    <3> DEFINE x == IF i < k THEN i ELSE i + 1
               y == IF j < k THEN j ELSE j + 1
    <3>2. x \in 1 .. n /\ y \in 1 .. n /\ q[i] = queue[x] /\ q[j] = queue[y]
      BY <1>0, <2>1, <2>4, <3>1
    <3>3. x = y
      <4> HIDE DEF x, y
      <4> QED BY <2>8, <3>2 DEF Keyed
    <3> QED BY <1>0, <2>1, <3>1, <3>3
  <2>9. Len(q) <= Len(queue)
    BY <1>0, <2>4
  <2> QED BY <2>4, <2>6, <2>7, <2>8, <2>9 DEF WithoutOK, Keyed, q
<1> QED BY <1>1, <1>2

HasTask(q, e) == \E i \in 1 .. Len(q) : q[i].e = e

\* What adding a task does: at most the oldest other task goes, and it is lost.
EnqueueOK(task) ==
  /\ Keyed(queue') /\ HasTask(queue', task.e)
  /\ \A i \in 1 .. Len(queue') :
       queue'[i] = task \/ \E j \in 1 .. Len(queue) : queue'[i] = queue[j]
  /\ \A e : HasTask(queue, e) => HasTask(queue', e) \/ e \in lost'
  /\ lost \subseteq lost'
  /\ \A e \in lost' : e \in lost \/ HasTask(queue, e)

LEMMA EnqueueFacts ==
  ASSUME Keyed(queue), NEW task \in Tasks, EnqueueRetry(task)
  PROVE  EnqueueOK(task)
<1> DEFINE w == Without(task.e)
           q == Append(w, task)
           full == Len(q) > RetryQueueLimit
<1>1. /\ queue' = IF full THEN Tail(q) ELSE q
      /\ lost' = IF full THEN lost \union {Head(q).e} ELSE lost
  BY DEF EnqueueRetry
<1>2. WithoutOK(task.e, w)
  BY WithoutFacts
<1> HIDE DEF w
<1>3. /\ Keyed(w) /\ w \in Seq(Tasks) /\ Len(w) \in Nat
      /\ \A i \in 1 .. Len(w) : w[i].e # task.e /\ \E j \in 1 .. Len(queue) : w[i] = queue[j]
      /\ \A j \in 1 .. Len(queue) : queue[j].e # task.e => \E i \in 1 .. Len(w) : w[i] = queue[j]
  BY <1>2 DEF WithoutOK, Keyed
<1>4. /\ q \in Seq(Tasks) /\ Len(q) = Len(w) + 1 /\ q[Len(w) + 1] = task
      /\ \A i \in 1 .. Len(w) : q[i] = w[i]
  BY <1>3
<1>5. RetryQueueLimit \in Nat /\ RetryQueueLimit >= 1
  BY PollerAssumption
<1> DEFINE k == Len(w) + 1
<1> HIDE DEF q
<1>6. Len(q) = k /\ \A i \in 1 .. k : i \in 1 .. Len(w) \/ i = k
  BY <1>3, <1>4
<1>7. \A i, j \in 1 .. Len(q) : q[i].e = q[j].e => i = j
  <2>1. \A i, j \in 1 .. Len(w) : q[i].e = q[j].e => i = j
    BY <1>3, <1>4 DEF Keyed
  <2>2. \A i \in 1 .. Len(w) : q[i].e # task.e
    BY <1>3, <1>4
  <2>3. q[k].e = task.e /\ \A i \in 1 .. Len(q) : i \in 1 .. Len(w) \/ i = k
    BY <1>4, <1>6
  <2> HIDE DEF k
  <2> QED BY <2>1, <2>2, <2>3
<1>8. \A i \in 1 .. Len(q) : q[i] = task \/ \E j \in 1 .. Len(queue) : q[i] = queue[j]
  BY <1>3, <1>4, <1>6
<1>9. HasTask(q, task.e) /\ \A e : HasTask(queue, e) => HasTask(q, e)
  <2>1. k \in 1 .. Len(q) /\ \A i \in 1 .. Len(w) : i \in 1 .. Len(q)
    BY <1>3, <1>6
  <2>2. HasTask(q, task.e)
    BY <1>4, <2>1 DEF HasTask
  <2>3. ASSUME NEW e, HasTask(queue, e), e # task.e
        PROVE  HasTask(q, e)
    <3>1. PICK j \in 1 .. Len(queue) : queue[j].e = e
      BY <2>3 DEF HasTask
    <3>2. PICK i \in 1 .. Len(w) : w[i] = queue[j]
      BY <1>3, <2>3, <3>1
    <3> QED BY <1>4, <2>1, <3>1, <3>2 DEF HasTask
  <2> QED BY <2>2, <2>3
<1>10. CASE ~full
  <2>1. queue' = q /\ lost' = lost
    BY <1>1, <1>10
  <2> QED BY <1>4, <1>7, <1>8, <1>9, <2>1 DEF EnqueueOK, Keyed
<1>11. CASE full
  <2>1. queue' = Tail(q) /\ lost' = lost \union {q[1].e} /\ Len(q) >= 2
    <3>1. Len(q) >= 2 /\ q # <<>>
      BY <1>3, <1>4, <1>5, <1>11
    <3>2. Head(q) = q[1]
      BY <1>4, <3>1
    <3> QED BY <1>1, <1>11, <3>1, <3>2
  <2>2. /\ queue' \in Seq(Tasks) /\ Len(queue') = k - 1
        /\ \A i \in 1 .. Len(queue') : queue'[i] = q[i + 1] /\ i + 1 \in 1 .. Len(q)
    <3>1. /\ Tail(q) \in Seq(Tasks) /\ Len(Tail(q)) = Len(q) - 1
          /\ \A i \in 1 .. Len(Tail(q)) : Tail(q)[i] = q[i + 1]
      <4>1. q # <<>>
        BY <2>1
      <4> QED BY <1>4, <4>1, HeadTailProperties
    <3> QED BY <1>3, <1>6, <2>1, <3>1
  <2>3. \A i \in 2 .. Len(q) : i - 1 \in 1 .. Len(queue') /\ queue'[i - 1] = q[i]
    <3>1. \A i \in 2 .. Len(q) : i - 1 \in 1 .. Len(queue') /\ (i - 1) + 1 = i
      BY <1>3, <1>6, <2>2
    <3> QED BY <2>2, <3>1
  <2>4. HasTask(queue', task.e)
    <3>1. k \in 2 .. Len(q) /\ q[k] = task
      BY <1>3, <1>4, <1>6, <2>1
    <3> QED BY <2>3, <3>1 DEF HasTask
  <2>5. \A e : HasTask(q, e) => HasTask(queue', e) \/ e = q[1].e
    <3> SUFFICES ASSUME NEW e, NEW i \in 1 .. Len(q), q[i].e = e, i # 1
                 PROVE  HasTask(queue', e)
      BY DEF HasTask
    <3>1. i \in 2 .. Len(q)
      BY <1>3, <1>6
    <3> QED BY <2>3, <3>1 DEF HasTask
  <2>6. HasTask(queue, q[1].e)
    <3>1. 1 \in 1 .. Len(w) /\ q[1] = w[1]
      BY <1>3, <1>4, <2>1
    <3> QED BY <1>3, <3>1 DEF HasTask
  <2>7. \A i, j \in 1 .. Len(queue') : queue'[i].e = queue'[j].e => i = j
    <3> SUFFICES ASSUME NEW i \in 1 .. Len(queue'), NEW j \in 1 .. Len(queue'),
                        queue'[i].e = queue'[j].e
                 PROVE  i = j
      OBVIOUS
    <3>1. i + 1 = j + 1
      BY <1>7, <2>2, SMTT(30)
    <3>2. i \in Int /\ j \in Int
      BY <1>3, <2>2
    <3> QED BY <3>1, <3>2
  <2>8. Keyed(queue')
    BY <2>2, <2>7 DEF Keyed
  <2>9. \A i \in 1 .. Len(queue') :
          queue'[i] = task \/ \E j \in 1 .. Len(queue) : queue'[i] = queue[j]
    BY <1>8, <2>2
  <2> QED BY <1>9, <2>1, <2>4, <2>5, <2>6, <2>8, <2>9 DEF EnqueueOK
<1> QED BY <1>10, <1>11

-----------------------------------------------------------------------------
(* Steps of the polling loop that leave the queue and the cache alone.       *)

PollerInv ==
  FeedInv /\ PollInv /\ QueueInv /\ CoverInv /\ CacheInv /\ GivenUpAfterRetries

LEMMA QueueTypes ==
  ASSUME FeedInv, QueueInv
  PROVE  /\ Keyed(queue) /\ \A e : Queued(e) <=> HasTask(queue, e)
         /\ MaxEventProcessRetries \in Nat /\ MaxEventProcessRetries >= 1
         /\ MaxEvents \in Nat /\ Len(events) \in Nat
         /\ \A e \in 1 .. Len(events) : e \in Ids
         /\ \A e \in Ids : e \in Nat /\ e >= 1
         /\ \A e \in Ids : cache[e] \in Nat
         /\ \A e \in Ids : fails[e] \in Nat /\ fails[e] <= MaxEventProcessRetries + 1
         /\ rt.task \in Tasks /\ rt.task.e \in Nat
<1>1. queue \in Seq(Tasks) /\ Keyed(queue) /\ DOMAIN queue = 1 .. Len(queue)
  BY DEF QueueInv, Keyed
<1>2. \A e : Queued(e) <=> HasTask(queue, e)
  BY <1>1 DEF Queued, HasTask
<1>3. MaxEventProcessRetries \in Nat /\ MaxEventProcessRetries >= 1
  BY PollerAssumption
<1>4. MaxEvents \in Nat /\ Len(events) \in Nat /\ Len(events) <= MaxEvents
  BY FeedAssumption DEF FeedInv
<1>5. \A e \in 1 .. Len(events) : e \in Ids
  BY <1>4 DEF Ids
<1>6. \A e \in Ids : e \in Nat /\ e >= 1
  BY <1>4 DEF Ids
<1>7. rt.task \in Tasks /\ rt.task.e \in Nat
  BY DEF QueueInv, RetryStates, Tasks
<1>8. \A e \in Ids : fails[e] \in Nat /\ fails[e] <= MaxEventProcessRetries + 1
  BY <1>3 DEF QueueInv
<1>9. \A e \in Ids : cache[e] \in Nat
  BY DEF QueueInv
<1> QED BY <1>1, <1>2, <1>3, <1>4, <1>5, <1>6, <1>7, <1>8, <1>9

LEMMA QueueKept ==
  ASSUME QueueInv, GivenUpAfterRetries, UNCHANGED retryVars, UNCHANGED events
  PROVE  /\ QueueInv' /\ GivenUpAfterRetries'
         /\ \A e : Covered(e)' <=> Covered(e)
         /\ \A e : Chances(e)' = Chances(e)
<1>1. /\ queue' = queue /\ rt' = rt /\ cache' = cache /\ lost' = lost
      /\ exhausted' = exhausted /\ fails' = fails /\ events' = events
  BY DEF retryVars
<1>2. QueueInv'
  BY <1>1 DEF QueueInv, TaskOK
<1>3. \A e : Queued(e)' <=> Queued(e)
  BY <1>1 DEF Queued
<1>4. \A e : Covered(e)' <=> Covered(e)
  BY <1>1, <1>3 DEF Covered
<1>5. \A e : Chances(e)' = Chances(e)
  BY <1>1, <1>3 DEF Chances, InHand
<1> QED BY <1>1, <1>2, <1>4, <1>5 DEF GivenUpAfterRetries

\* A new range begins with the last ledger of the one before.
LEMMA AllowedGrows ==
  ASSUME FeedInv, PollInv, UNCHANGED events, p'.out \in Seq(Nat), p'.i = 1,
         p'.last \in Nat, p.last <= p'.last,
         \A i \in 1 .. Len(p.out) : i < p.i => events[p.out[i]] <= p'.last /\ p.last < p'.last,
         NEW e \in Nat, 1 <= e
  PROVE  Allowed(e) <= Allowed(e)' /\ Allowed(e) \in Nat
<1>1. p.last \in Nat /\ Len(events) \in Nat /\ events' = events
  BY PollTypes
<1>2. Polled(e)' = 0
  <2>1. Len(p'.out) \in Nat
    OBVIOUS
  <2>2. ~\E i \in 1 .. Len(p'.out) : i < p'.i /\ p'.out[i] = e
    BY <2>1
  <2> QED BY <2>2 DEF Polled
<1>3. Polled(e) \in {0, 1} /\ (Polled(e) = 1 => events[e] <= p'.last /\ p.last < p'.last)
  BY DEF Polled
<1>4. CASE e > Len(events)
  BY <1>1, <1>4 DEF Allowed
<1>5. CASE e <= Len(events)
  <2>1. events[e] \in Nat
    BY <1>1, <1>5 DEF FeedInv
  <2> QED BY <1>1, <1>2, <1>3, <1>5, <2>1 DEF Allowed
<1> QED BY <1>1, <1>4, <1>5

LEMMA NewRange ==
  ASSUME PollerInv, UNCHANGED feedVars, UNCHANGED retryVars, PollInv',
         p'.i = 1, p'.last \in Nat, p.last <= p'.last,
         \A i \in 1 .. Len(p.out) : i < p.i => events[p.out[i]] <= p'.last /\ p.last < p'.last,
         \A e \in 1 .. Len(events) : p'.start <= events[e] /\ events[e] < p'.last => Covered(e)
  PROVE  PollerInv'
<1>1. events' = events /\ FeedInv' /\ FeedInv /\ PollInv /\ QueueInv
  BY FeedKept DEF feedVars, PollerInv
<1>2. /\ QueueInv' /\ GivenUpAfterRetries'
      /\ \A e : Covered(e)' <=> Covered(e)
      /\ \A e : Chances(e)' = Chances(e)
  BY <1>1, QueueKept DEF PollerInv
<1>3. p'.out \in Seq(Nat) /\ Len(p'.out) \in Nat
  BY DEF PollInv, Polls
<1>4. CoverInv'
  BY <1>1, <1>2, <1>3 DEF CoverInv
<1>5. CacheInv'
  <2> SUFFICES ASSUME NEW e \in Ids
               PROVE  Chances(e)' <= Allowed(e)'
    BY DEF CacheInv, Ids
  <2>1. e \in Nat /\ 1 <= e /\ Chances(e) \in Nat
    BY <1>1, QueueTypes DEF Chances, InHand
  <2>2. Allowed(e) <= Allowed(e)' /\ Allowed(e) \in Nat
    BY <1>1, <1>3, <2>1, AllowedGrows
  <2>3. Chances(e) <= Allowed(e)
    BY DEF PollerInv, CacheInv
  <2>4. Allowed(e)' \in Nat
    <3>1. Len(events) \in Nat /\ Polled(e)' \in {0, 1}
      BY <1>1, QueueTypes DEF Polled
    <3> QED BY <1>1, <3>1 DEF Allowed
  <2> QED BY <1>2, <2>1, <2>2, <2>3, <2>4
<1> QED BY <1>1, <1>2, <1>4, <1>5 DEF PollerInv

LEMMA StartKeeps ==
  ASSUME PollerInv, Start, UNCHANGED feedVars
  PROVE  PollerInv'
<1>1. FeedInv /\ PollInv /\ UNCHANGED retryVars
  BY DEF PollerInv, Start
<1>2. /\ PollInv' /\ p'.start = p'.last /\ p'.out = <<>> /\ p'.i = 1 /\ p'.last \in Nat
      /\ p.out = <<>> /\ MinLedger <= p'.last
  BY <1>1, StartStep
<1>3. p.last <= p'.last
  <2>1. p.pc = "down"
    BY DEF Start
  <2> QED BY <1>1, <1>2, <2>1 DEF PollInv
<1>4. Len(p.out) = 0 /\ \A e \in 1 .. Len(events) : events[e] \in Nat
  BY <1>1, <1>2 DEF FeedInv
<1> QED BY <1>1, <1>2, <1>3, <1>4, NewRange

LEMMA WaitKeeps ==
  ASSUME PollerInv, UNCHANGED feedVars, PollStart \/ Page
  PROVE  PollerInv'
<1>1. FeedInv /\ PollInv /\ CoverInv /\ UNCHANGED retryVars
  BY DEF PollerInv, PollStart, Page
<1>2. /\ PollInv' /\ p'.start = p.start /\ p'.last = p.last /\ p.last \in Nat
      /\ p'.i = 1 /\ p.i = 1
  <2>1. p.last \in Nat
    BY <1>1, PollTypes
  <2>2. CASE Page
    BY <1>1, <2>1, <2>2, PageStep
  <2>3. CASE PollStart
    <3>1. /\ PollInv' /\ p'.start = p.start /\ p'.last = p.last /\ p'.out = <<>> /\ p.out = <<>>
      BY <1>1, <2>3, PollStartStep
    <3>2. Len(p.out) = 0 /\ Len(p'.out) = 0
      BY <3>1
    <3>3. p.i \in Nat /\ p'.i \in Nat
      BY <1>1, <3>1 DEF PollInv, Polls
    <3>4. p.i = 1 /\ p'.i = 1
      BY <1>1, <3>1, <3>2, <3>3 DEF PollInv
    <3> QED BY <2>1, <3>1, <3>4
  <2> QED BY <2>2, <2>3
<1>3. \A i \in 1 .. Len(p.out) : ~(i < p.i)
  BY <1>1, <1>2, PollTypes
<1>4. \A e \in 1 .. Len(events) : p'.start <= events[e] /\ events[e] < p'.last => Covered(e)
  BY <1>1, <1>2 DEF CoverInv
<1> QED BY <1>1, <1>2, <1>3, <1>4, NewRange

\* What was being polled when the RPC failed is polled again.
LEMMA PollErrorKeeps ==
  ASSUME PollerInv, UNCHANGED feedVars, PollError
  PROVE  PollerInv'
<1>1. FeedInv /\ PollInv /\ CoverInv /\ UNCHANGED retryVars /\ p' = Idle
      /\ p.pc \in {"backfill", "page"}
  BY DEF PollerInv, PollError
<1>2. /\ PollInv' /\ p'.start = p.start /\ p'.last = p.last /\ p'.i = 1 /\ p.last \in Nat
  BY <1>1, IdleStep, PollTypes
<1>3. \A i \in 1 .. Len(p.out) : ~(i < p.i)
  <2>1. CASE p.pc = "page"
    <3>1. p.i = 1 /\ Len(p.out) \in Nat
      BY <1>1, <2>1, PollTypes DEF PollInv
    <3> QED BY <3>1
  <2>2. CASE p.pc = "backfill"
    <3>1. Len(p.out) = 0
      BY <1>1, <2>2 DEF PollInv
    <3> QED BY <3>1
  <2> QED BY <1>1, <2>1, <2>2
<1>4. \A e \in 1 .. Len(events) : p'.start <= events[e] /\ events[e] < p'.last => Covered(e)
  BY <1>1, <1>2 DEF CoverInv
<1> QED BY <1>1, <1>2, <1>3, <1>4, NewRange

LEMMA PollDoneKeeps ==
  ASSUME PollerInv, UNCHANGED feedVars, PollDone
  PROVE  PollerInv'
<1>1. FeedInv /\ PollInv /\ CoverInv /\ UNCHANGED retryVars
  BY DEF PollerInv, PollDone
<1>2. p.pc = "process" /\ p.i > Len(p.out) /\ p.i \in Nat /\ Len(p.out) \in Nat
  BY <1>1, PollTypes DEF PollDone
<1>3. PollInv' /\ p'.start = p.start /\ p'.last = p.to /\ p'.out = <<>> /\ p'.i = 1
  BY <1>1, PollDoneStep
<1>4. p.to \in Nat /\ p.last \in Nat /\ p.last < p.to
  BY <1>1, <1>2, PollTypes DEF PollInv
<1>5. \A i \in 1 .. Len(p.out) : events[p.out[i]] <= p.to
  BY <1>1 DEF PollInv
<1>6. ASSUME NEW e \in 1 .. Len(events), p.start <= events[e], events[e] < p.to
      PROVE  Covered(e)
  <2>1. CASE events[e] < p.last
    BY <1>1, <1>6, <2>1 DEF CoverInv
  <2>2. CASE ~(events[e] < p.last)
    <3>1. events[e] \in Nat
      BY <1>1 DEF FeedInv
    <3>2. Has(p.out, e)
      BY <1>1, <1>2, <1>4, <1>6, <2>2, <3>1 DEF PollInv
    <3>3. PICK i \in 1 .. Len(p.out) : p.out[i] = e
      BY <3>2 DEF Has
    <3>4. i < p.i
      BY <1>2
    <3> QED BY <1>1, <3>3, <3>4 DEF CoverInv
  <2> QED BY <2>1, <2>2
<1>7. /\ p'.last \in Nat /\ p.last <= p'.last
      /\ \A i \in 1 .. Len(p.out) : i < p.i => events[p.out[i]] <= p'.last /\ p.last < p'.last
      /\ \A e \in 1 .. Len(events) : p'.start <= events[e] /\ events[e] < p'.last => Covered(e)
  BY <1>3, <1>4, <1>5, <1>6
<1> QED BY <1>1, <1>3, <1>7, NewRange

-----------------------------------------------------------------------------
(* Steps that change the queue and the cache.                                *)

LEMMA MissedFacts ==
  ASSUME FeedInv, QueueInv, NEW e \in Ids, Missed(e)
  PROVE  /\ fails' \in [Ids -> 0 .. MaxEventProcessRetries + 1] /\ cache' = cache
         /\ \A x \in Ids : fails[x] <= fails'[x] /\ fails'[x] \in Nat
         /\ fails'[e] = fails[e] + 1 \/ fails'[e] = MaxEventProcessRetries + 1
<1> DEFINE m == MaxEventProcessRetries
           v == Smaller(fails[e] + 1, m + 1)
<1>1. fails' = [fails EXCEPT ![e] = v] /\ cache' = cache
  BY DEF Missed
<1>2. m \in Nat /\ m >= 1 /\ \A x \in Ids : fails[x] \in Nat /\ fails[x] <= m + 1
  BY QueueTypes
<1>3. v \in 0 .. m + 1 /\ fails[e] <= v /\ (v = fails[e] + 1 \/ v = m + 1)
  BY <1>2 DEF Smaller
<1>4. fails \in [Ids -> 0 .. m + 1]
  BY DEF QueueInv
<1> HIDE DEF v
<1>5. fails'[e] = v /\ \A x \in Ids : x # e => fails'[x] = fails[x]
  BY <1>1, <1>4
<1>6. fails' \in [Ids -> 0 .. m + 1]
  BY <1>1, <1>3, <1>4
<1>7. ASSUME NEW x \in Ids
      PROVE  fails[x] <= fails'[x] /\ fails'[x] \in Nat
  BY <1>2, <1>3, <1>5
<1> QED BY <1>1, <1>3, <1>5, <1>6, <1>7

LEMMA TaskKept ==
  ASSUME FeedInv, QueueInv, UNCHANGED events, NEW t, TaskOK(t),
         \A x \in Ids : fails[x] <= fails'[x] /\ fails'[x] \in Nat
  PROVE  TaskOK(t)'
<1>1. t \in Tasks /\ t.e \in 1 .. Len(events) /\ t.retries \in Nat /\ t.e \in Ids
  BY QueueTypes DEF TaskOK, Tasks
<1>2. t.retries < MaxEventProcessRetries /\ t.retries < fails[t.e] /\ fails[t.e] \in Nat
  BY <1>1, QueueTypes DEF TaskOK
<1>3. t.retries < fails'[t.e]
  BY <1>1, <1>2
<1> QED BY <1>1, <1>2, <1>3 DEF TaskOK

\* No retry loop's or polling loop's failure makes a given up event look early.
LEMMA GivenUpKept ==
  ASSUME FeedInv, QueueInv, GivenUpAfterRetries, UNCHANGED exhausted,
         fails' \in [Ids -> 0 .. MaxEventProcessRetries + 1],
         \A x \in Ids : fails[x] <= fails'[x] /\ fails'[x] \in Nat
  PROVE  GivenUpAfterRetries'
<1> SUFFICES ASSUME NEW x \in exhausted
             PROVE  fails'[x] = MaxEventProcessRetries + 1
  BY DEF GivenUpAfterRetries
<1>1. x \in Ids /\ fails[x] = MaxEventProcessRetries + 1 /\ MaxEventProcessRetries \in Nat
  BY QueueTypes DEF QueueInv, GivenUpAfterRetries
<1>2. fails'[x] \in 0 .. MaxEventProcessRetries + 1 /\ fails[x] <= fails'[x]
  BY <1>1
<1> QED BY <1>1, <1>2

LEMMA EnqueueKeepsQueue ==
  ASSUME FeedInv, QueueInv, UNCHANGED events, NEW task, task \in Tasks, EnqueueRetry(task),
         TaskOK(task)', fails' \in [Ids -> 0 .. MaxEventProcessRetries + 1], cache' = cache,
         \A x \in Ids : fails[x] <= fails'[x] /\ fails'[x] \in Nat,
         rt' \in RetryStates, rt'.task \in {rt.task, NoTask}, rt'.peeked => rt'.task # NoTask,
         exhausted' \subseteq Ids
  PROVE  /\ QueueInv'
         /\ Queued(task.e)'
         /\ \A e : Queued(e) => Queued(e)' \/ e \in lost'
         /\ \A e : Queued(e)' => Queued(e) \/ e = task.e
         /\ lost \subseteq lost'
<1>1. Keyed(queue) /\ \A e : Queued(e) <=> HasTask(queue, e)
  BY QueueTypes
<1>2. EnqueueOK(task)
  BY <1>1, EnqueueFacts
<1>3. /\ Keyed(queue') /\ HasTask(queue', task.e)
      /\ \A i \in 1 .. Len(queue') :
           queue'[i] = task \/ \E j \in 1 .. Len(queue) : queue'[i] = queue[j]
      /\ \A e : HasTask(queue, e) => HasTask(queue', e) \/ e \in lost'
      /\ lost \subseteq lost'
      /\ \A e \in lost' : e \in lost \/ HasTask(queue, e)
  BY <1>2 DEF EnqueueOK
<1>4. queue' \in Seq(Tasks) /\ \A e : Queued(e)' <=> HasTask(queue', e)
  <2>1. queue' \in Seq(Tasks) /\ DOMAIN queue' = 1 .. Len(queue')
    BY <1>3 DEF Keyed
  <2> QED BY <2>1 DEF Queued, HasTask
<1>5. \A e : HasTask(queue', e) => HasTask(queue, e) \/ e = task.e
  BY <1>3 DEF HasTask
<1> DEFINE NewOK(t) == /\ t \in Tasks /\ t.e \in 1 .. Len(events')
                       /\ t.retries < MaxEventProcessRetries /\ t.retries < fails'[t.e]
<1>6. NewOK(task) /\ \A t : TaskOK(t) => NewOK(t)
  <2>1. \A t : TaskOK(t) => TaskOK(t)'
    BY TaskKept
  <2> QED BY <2>1 DEF TaskOK
<1> HIDE DEF NewOK
<1>7. \A i \in 1 .. Len(queue) : TaskOK(queue[i])
  BY DEF QueueInv
<1>8. \A i \in 1 .. Len(queue') : TaskOK(queue[i])'
  <2>1. \A i \in 1 .. Len(queue') : NewOK(queue'[i])
    BY <1>3, <1>6, <1>7
  <2> QED BY <2>1 DEF TaskOK, NewOK
<1>9. \A e : HasTask(queue, e) => e \in Ids
  <2> SUFFICES ASSUME NEW j \in 1 .. Len(queue)
               PROVE  queue[j].e \in Ids
    BY DEF HasTask
  <2>1. queue[j].e \in 1 .. Len(events)
    BY <1>7 DEF TaskOK
  <2> QED BY <2>1, QueueTypes
<1>10. lost' \subseteq Ids
  BY <1>3, <1>9 DEF QueueInv
<1>11. rt'.task # NoTask => TaskOK(rt.task)'
  <2>1. rt'.task # NoTask => NewOK(rt'.task)
    BY <1>6 DEF QueueInv
  <2> QED BY <2>1 DEF TaskOK, NewOK
<1>12. cache' \in [Ids -> Nat]
  BY DEF QueueInv
<1>13. QueueInv'
  BY <1>3, <1>4, <1>8, <1>10, <1>11, <1>12 DEF QueueInv, Keyed
<1> QED BY <1>1, <1>3, <1>4, <1>5, <1>13

LEMMA ChancesType ==
  ASSUME FeedInv, QueueInv, NEW e \in Ids
  PROVE  Chances(e) \in Nat
BY QueueTypes DEF Chances, InHand

LEMMA AllowedType ==
  ASSUME NEW e
  PROVE  Allowed(e) \in Nat /\ Allowed(e)' \in Nat
BY DEF Allowed, Polled

\* The queue and the cache after a fetched transaction.
LEMMA FetchedFacts ==
  ASSUME FeedInv, QueueInv, UNCHANGED <<events, queue, lost, exhausted>>,
         NEW e \in Ids, Fetched(e),
         rt' \in RetryStates, rt'.task \in {rt.task, NoTask}, rt'.peeked => rt'.task # NoTask
  PROVE  /\ QueueInv' /\ fails' = fails
         /\ cache'[e] = cache[e] + 1 /\ \A x \in Ids : x # e => cache'[x] = cache[x]
         /\ \A x : Queued(x)' <=> Queued(x)
<1>1. /\ cache' = [cache EXCEPT ![e] = @ + 1] /\ fails' = fails /\ queue' = queue
      /\ events' = events /\ lost' = lost /\ exhausted' = exhausted
  BY DEF Fetched
<1>2. cache \in [Ids -> Nat]
  BY DEF QueueInv
<1>3. cache' \in [Ids -> Nat] /\ cache'[e] = cache[e] + 1
      /\ \A x \in Ids : x # e => cache'[x] = cache[x]
  BY <1>1, <1>2
<1>4. QueueInv'
  BY <1>1, <1>3 DEF QueueInv, TaskOK
<1> QED BY <1>1, <1>3, <1>4 DEF Queued

LEMMA ProcessKeeps ==
  ASSUME PollerInv, UNCHANGED feedVars, Process
  PROVE  PollerInv'
<1>0. PICK e : e = p.out[p.i]
  OBVIOUS
<1>1. /\ FeedInv /\ PollInv /\ QueueInv /\ CoverInv /\ CacheInv /\ GivenUpAfterRetries
      /\ p.pc = "process" /\ p.i <= Len(p.out) /\ p' = [p EXCEPT !.i = @ + 1]
      /\ rt' = rt /\ exhausted' = exhausted /\ events' = events
  BY DEF PollerInv, Process, feedVars
<1>2. /\ p.i \in Nat /\ 1 <= p.i /\ Len(p.out) \in Nat /\ p.i \in 1 .. Len(p.out)
      /\ p.last \in Nat /\ p \in Polls
  BY <1>1, PollTypes DEF PollInv
<1>3. /\ e \in 1 .. Len(events) /\ e \in Ids /\ p.last <= events[e] /\ events[e] \in Nat
      /\ e \in Nat /\ 1 <= e /\ e <= Len(events) /\ Len(events) \in Nat
  <2>1. e \in 1 .. Len(events) /\ p.last <= events[e]
    BY <1>0, <1>1, <1>2 DEF PollInv
  <2>2. events[e] \in Nat
    BY <1>1, <2>1 DEF FeedInv
  <2> QED BY <1>1, <2>1, <2>2, QueueTypes
<1>4. PollInv' /\ FeedInv'
  BY <1>1, ProcessKeepsPoll, FeedKept
<1>5. p'.out = p.out /\ p'.i = p.i + 1 /\ p'.last = p.last /\ p'.start = p.start
  BY <1>1, <1>2 DEF Polls
<1>6. /\ QueueInv' /\ GivenUpAfterRetries'
      /\ \A x \in Ids : Covered(x) => Covered(x)'
      /\ Covered(e)' /\ Chances(e)' <= Chances(e) + 1
      /\ \A x \in Ids : x # e => Chances(x)' <= Chances(x)
  <2>1. CASE Fetched(e) /\ UNCHANGED <<queue, lost>>
    <3>1. /\ QueueInv' /\ fails' = fails
          /\ cache'[e] = cache[e] + 1 /\ \A x \in Ids : x # e => cache'[x] = cache[x]
          /\ \A x : Queued(x)' <=> Queued(x)
      <4>1. /\ rt' \in RetryStates /\ rt'.task \in {rt.task, NoTask}
            /\ rt'.peeked => rt'.task # NoTask
        BY <1>1 DEF QueueInv
      <4> QED BY <1>1, <1>3, <2>1, <4>1, FetchedFacts
    <3>2. \A x \in Ids : cache[x] \in Nat /\ cache'[x] \in Nat
      BY <1>1, <3>1 DEF QueueInv
    <3>3. GivenUpAfterRetries'
      BY <1>1, <3>1 DEF GivenUpAfterRetries
    <3>4. \A x \in Ids : Covered(x) => Covered(x)'
      BY <1>1, <2>1, <3>1, <3>2 DEF Covered
    <3>5. Covered(e)'
      BY <1>3, <3>1, <3>2 DEF Covered
    <3>6. Chances(e)' <= Chances(e) + 1
      BY <1>1, <1>3, <3>1, <3>2 DEF Chances, InHand
    <3>7. \A x \in Ids : x # e => Chances(x)' <= Chances(x)
      BY <1>1, <3>1, <3>2 DEF Chances, InHand
    <3> QED BY <3>1, <3>3, <3>4, <3>5, <3>6, <3>7
  <2>2. CASE Missed(e) /\ EnqueueRetry([e |-> e, retries |-> 0])
    <3>0. PICK task : task = [e |-> e, retries |-> 0]
      OBVIOUS
    <3>1. task \in Tasks /\ task.e = e /\ task.retries = 0
      BY <1>3, <3>0 DEF Tasks
    <3>2. /\ fails' \in [Ids -> 0 .. MaxEventProcessRetries + 1] /\ cache' = cache
          /\ \A x \in Ids : fails[x] <= fails'[x] /\ fails'[x] \in Nat
          /\ fails'[e] = fails[e] + 1 \/ fails'[e] = MaxEventProcessRetries + 1
      BY <1>1, <1>3, <2>2, MissedFacts
    <3>3. TaskOK(task)'
      <4>1. MaxEventProcessRetries \in Nat /\ MaxEventProcessRetries >= 1 /\ fails[e] \in Nat
        BY <1>1, <1>3, QueueTypes
      <4>2. 0 < fails'[e]
        BY <3>2, <4>1
      <4> QED BY <1>1, <1>3, <3>1, <4>1, <4>2 DEF TaskOK
    <3>4. /\ QueueInv' /\ Queued(task.e)'
          /\ \A x : Queued(x) => Queued(x)' \/ x \in lost'
          /\ \A x : Queued(x)' => Queued(x) \/ x = task.e
          /\ lost \subseteq lost'
      <4>1. /\ rt' \in RetryStates /\ rt'.task \in {rt.task, NoTask}
            /\ (rt'.peeked => rt'.task # NoTask) /\ exhausted' \subseteq Ids
        BY <1>1 DEF QueueInv
      <4>2. EnqueueRetry(task)
        BY <2>2, <3>0
      <4> QED BY <1>1, <3>1, <3>2, <3>3, <4>1, <4>2, EnqueueKeepsQueue
    <3>5. GivenUpAfterRetries'
      BY <1>1, <3>2, GivenUpKept
    <3>6. \A x \in Ids : Covered(x) => Covered(x)'
      BY <1>1, <3>2, <3>4 DEF Covered
    <3>7. Covered(e)'
      BY <3>1, <3>4 DEF Covered
    <3>8. \A x \in Ids : cache[x] \in Nat
      BY <1>1, QueueTypes
    <3>9. Chances(e)' <= Chances(e) + 1
      BY <1>1, <1>3, <3>2, <3>8 DEF Chances, InHand
    <3>10. \A x \in Ids : x # e => Chances(x)' <= Chances(x)
      BY <1>1, <3>1, <3>2, <3>4, <3>8 DEF Chances, InHand
    <3> QED BY <3>4, <3>5, <3>6, <3>7, <3>9, <3>10
  <2> QED BY <1>0, <2>1, <2>2 DEF Process
<1>7. CoverInv'
  <2>1. \A x \in 1 .. Len(events) : x \in Ids
    BY <1>1, QueueTypes
  <2>2. \A x \in 1 .. Len(events) : p.start <= events[x] /\ events[x] < p.last => Covered(x)'
    BY <1>1, <1>6, <2>1 DEF CoverInv
  <2>3. ASSUME NEW i \in 1 .. Len(p.out), i < p.i + 1
        PROVE  Covered(p.out[i])'
    <3>1. CASE i = p.i
      BY <1>0, <1>5, <1>6, <3>1 DEF Covered, Queued
    <3>2. CASE i < p.i
      <4>1. Covered(p.out[i]) /\ p.out[i] \in Ids
        BY <1>1, <2>1, <3>2 DEF CoverInv, PollInv
      <4>2. PICK x : x = p.out[i]
        OBVIOUS
      <4>3. Covered(x)'
        BY <1>6, <4>1, <4>2
      <4> QED BY <1>5, <4>2, <4>3 DEF Covered, Queued
    <3> QED BY <1>2, <2>3, <3>1, <3>2
  <2> QED BY <1>1, <1>5, <2>2, <2>3 DEF CoverInv
<1>8. CacheInv'
  <2> SUFFICES ASSUME NEW x \in Ids
               PROVE  Chances(x)' <= Allowed(x)'
    BY DEF CacheInv, Ids
  <2>1. Chances(x) \in Nat /\ Chances(x) <= Allowed(x) /\ Allowed(x) \in Nat /\ Allowed(x)' \in Nat
        /\ Chances(x)' \in Nat
    <3>1. Chances(x) <= Allowed(x)
      BY <1>1 DEF CacheInv
    <3>2. \A y \in Ids : cache'[y] \in Nat
      BY <1>6 DEF QueueInv
    <3>3. Chances(x)' \in Nat
      BY <3>2 DEF Chances, InHand
    <3> QED BY <1>1, <3>1, <3>3, ChancesType, AllowedType
  <2>2. CASE x # e
    <3>1. Polled(x)' = Polled(x)
      <4>1. \A i \in 1 .. Len(p.out) : i < p.i + 1 => i < p.i \/ i = p.i
        BY <1>2
      <4>2. \A i \in 1 .. Len(p.out) : i < p.i => i < p.i + 1
        BY <1>2
      <4> QED BY <1>0, <1>5, <2>2, <4>1, <4>2 DEF Polled
    <3>2. Allowed(x)' = Allowed(x)
      BY <1>1, <1>5, <3>1 DEF Allowed
    <3> QED BY <1>6, <2>1, <2>2, <3>2
  <2>3. CASE x = e
    <3>1. Polled(e) = 0
      <4>1. \A i \in 1 .. Len(p.out) : p.out[i] = e => i = p.i
        BY <1>0, <1>1, <1>2 DEF PollInv
      <4>2. ~(p.i < p.i)
        BY <1>2
      <4> QED BY <4>1, <4>2 DEF Polled
    <3>2. \E i \in 1 .. Len(p'.out) : i < p'.i /\ p'.out[i] = x
      BY <1>0, <1>2, <1>5, <2>3
    <3>3. Polled(x)' = 1
      BY <3>2 DEF Polled
    <3>4. Allowed(x)' = Allowed(x) + 1
      BY <1>1, <1>2, <1>3, <1>5, <2>3, <3>1, <3>3 DEF Allowed
    <3>5. Chances(x)' <= Chances(x) + 1
      BY <1>6, <2>3
    <3> QED BY <2>1, <3>4, <3>5
  <2> QED BY <2>2, <2>3
<1> QED BY <1>4, <1>6, <1>7, <1>8 DEF PollerInv

\* The retry loop leaves the polling loop alone.
LEMMA RetryStep ==
  ASSUME PollerInv, UNCHANGED feedVars, UNCHANGED p, QueueInv', GivenUpAfterRetries',
         \A x \in Ids : Covered(x) => Covered(x)',
         \A x \in Ids : Chances(x)' <= Chances(x)
  PROVE  PollerInv'
<1>1. events' = events /\ p' = p /\ FeedInv /\ PollInv /\ QueueInv /\ CoverInv /\ CacheInv
  BY DEF feedVars, PollerInv
<1>2. FeedInv' /\ PollInv'
  BY <1>1, FeedKept, PollKept
<1>3. \A x \in 1 .. Len(events) : x \in Ids
  BY <1>1, QueueTypes
<1>4. CoverInv'
  <2>1. \A x \in 1 .. Len(events) : p.start <= events[x] /\ events[x] < p.last => Covered(x)'
    BY <1>1, <1>3 DEF CoverInv
  <2>2. ASSUME NEW i \in 1 .. Len(p.out), i < p.i
        PROVE  Covered(p.out[i])'
    <3>1. PICK x : x = p.out[i]
      OBVIOUS
    <3>2. Covered(x) /\ x \in Ids
      BY <1>1, <1>3, <2>2, <3>1 DEF CoverInv, PollInv
    <3>3. Covered(x)'
      BY <3>2
    <3> QED BY <1>1, <3>1, <3>3 DEF Covered, Queued
  <2> QED BY <1>1, <2>1, <2>2 DEF CoverInv
<1>5. CacheInv'
  <2> SUFFICES ASSUME NEW x \in Ids
               PROVE  Chances(x)' <= Allowed(x)'
    BY DEF CacheInv, Ids
  <2>1. Chances(x) <= Allowed(x) /\ Allowed(x)' = Allowed(x)
    BY <1>1 DEF CacheInv, Allowed, Polled
  <2>2. Chances(x) \in Nat /\ Chances(x)' \in Nat /\ Allowed(x) \in Nat
    <3>1. Chances(x) \in Nat /\ Allowed(x) \in Nat
      BY <1>1, ChancesType, AllowedType
    <3>2. cache'[x] \in Nat
      BY DEF QueueInv
    <3> QED BY <3>1, <3>2 DEF Chances, InHand
  <2> QED BY <2>1, <2>2
<1> QED BY <1>2, <1>4, <1>5 DEF PollerInv

LEMMA RetryTickKeeps ==
  ASSUME PollerInv, UNCHANGED feedVars, RetryTick
  PROVE  PollerInv'
<1> DEFINE keys == [i \in DOMAIN queue |-> queue[i].e]
<1>1. /\ rt' = [rt EXCEPT !.keys = keys] /\ queue' = queue /\ cache' = cache /\ lost' = lost
      /\ exhausted' = exhausted /\ fails' = fails /\ events' = events /\ p' = p
      /\ QueueInv /\ FeedInv /\ GivenUpAfterRetries
  BY DEF RetryTick, feedVars, PollerInv
<1>2. keys \in Seq(Nat)
  <2>1. queue \in Seq(Tasks)
    BY <1>1 DEF QueueInv
  <2>2. \A i \in 1 .. Len(queue) : queue[i].e \in Nat
    <3>1. \A i \in 1 .. Len(queue) : queue[i] \in Tasks
      BY <2>1
    <3>2. \A u \in Tasks : u.e \in Nat
      BY DEF Tasks
    <3> QED BY <3>1, <3>2
  <2> QED BY <2>1, <2>2
<1>3. rt' \in RetryStates /\ rt'.task = rt.task /\ rt'.peeked = rt.peeked
  <2> HIDE DEF keys
  <2> QED BY <1>1, <1>2 DEF QueueInv, RetryStates
<1>4. QueueInv'
  BY <1>1, <1>3 DEF QueueInv, TaskOK
<1>5. \A x : Queued(x)' <=> Queued(x)
  BY <1>1 DEF Queued
<1>6. \A x \in Ids : Covered(x) => Covered(x)'
  BY <1>1, <1>3, <1>5 DEF Covered
<1>7. \A x \in Ids : Chances(x)' <= Chances(x)
  <2>1. \A x \in Ids : Chances(x)' = Chances(x)
    BY <1>1, <1>3, <1>5 DEF Chances, InHand
  <2> QED BY <1>1, <2>1, ChancesType
<1>8. GivenUpAfterRetries'
  BY <1>1 DEF GivenUpAfterRetries
<1> QED BY <1>1, <1>4, <1>6, <1>7, <1>8, RetryStep

\* A key may have left the queue since the tick read the keys.
LEMMA RetryPeekKeeps ==
  ASSUME PollerInv, UNCHANGED feedVars, RetryPeek
  PROVE  PollerInv'
<1>0. PICK e : e = Head(rt.keys)
  OBVIOUS
<1>1. /\ rt' = [keys |-> Tail(rt.keys), peeked |-> Queued(e),
                task |-> IF Queued(e) THEN TaskOf(e) ELSE NoTask]
      /\ queue' = queue /\ rt.task = NoTask /\ rt.keys # <<>>
      /\ cache' = cache /\ lost' = lost
      /\ exhausted' = exhausted /\ fails' = fails /\ events' = events /\ p' = p
      /\ QueueInv /\ FeedInv /\ GivenUpAfterRetries
  BY <1>0 DEF RetryPeek, feedVars, PollerInv
<1>2. /\ Tail(rt.keys) \in Seq(Nat) /\ NoTask \in Tasks /\ NoTask.e = 0
      /\ Queued(e) \in BOOLEAN
  <2>1. rt.keys \in Seq(Nat)
    BY <1>1 DEF QueueInv, RetryStates
  <2> QED BY <1>1, <2>1 DEF NoTask, Tasks, Queued
<1>3. Queued(e) => TaskOf(e) \in Tasks /\ TaskOf(e).e = e /\ TaskOK(TaskOf(e))
  <2> SUFFICES ASSUME Queued(e)
               PROVE  TaskOf(e) \in Tasks /\ TaskOf(e).e = e /\ TaskOK(TaskOf(e))
    OBVIOUS
  <2>1. DOMAIN queue = 1 .. Len(queue) /\ \A i \in 1 .. Len(queue) : TaskOK(queue[i])
    BY <1>1 DEF QueueInv
  <2>2. PlaceOf(e) \in 1 .. Len(queue) /\ queue[PlaceOf(e)].e = e
    BY <2>1 DEF Queued, PlaceOf
  <2> QED BY <2>1, <2>2 DEF TaskOf, TaskOK
<1>4. \A x : Queued(x)' <=> Queued(x)
  BY <1>1 DEF Queued
<1>5. /\ rt' \in RetryStates /\ rt'.peeked = Queued(e)
      /\ Queued(e) => rt'.task = TaskOf(e) /\ rt'.task.e = e
      /\ ~Queued(e) => rt'.task = NoTask /\ rt'.task.e = 0
  BY <1>1, <1>2, <1>3 DEF RetryStates
<1>6. QueueInv'
  <2>1. rt'.task # NoTask => TaskOK(rt.task)'
    BY <1>1, <1>3, <1>5 DEF TaskOK
  <2>2. rt'.peeked => rt'.task # NoTask
    <3>1. TaskOK(NoTask) => NoTask.e \in 1 .. Len(events)
      BY DEF TaskOK
    <3>2. ~TaskOK(NoTask)
      BY <1>1, <1>2, <3>1, QueueTypes
    <3> QED BY <1>3, <1>5, <3>2
  <2> QED BY <1>1, <1>5, <2>1, <2>2 DEF QueueInv, TaskOK
<1>7. rt.task.e = 0 /\ \A x \in Ids : x # 0 /\ cache[x] \in Nat
  BY <1>1, <1>2, QueueTypes
<1>8. \A x \in Ids : Covered(x) => Covered(x)'
  BY <1>1, <1>4, <1>7 DEF Covered
<1>9. ASSUME NEW x \in Ids
      PROVE  Chances(x)' <= Chances(x)
  <2>1. ~InHand(x)'
    BY <1>4, <1>5, <1>7 DEF InHand
  <2> QED BY <1>1, <1>4, <1>7, <2>1 DEF Chances, InHand
<1>10. GivenUpAfterRetries'
  BY <1>1 DEF GivenUpAfterRetries
<1> QED BY <1>1, <1>6, <1>8, <1>9, <1>10, RetryStep

\* Whatever the queue holds under the key by then, the task is in hand.
LEMMA RetryRemoveKeeps ==
  ASSUME PollerInv, UNCHANGED feedVars, RetryRemove
  PROVE  PollerInv'
<1>0. PICK e : e = rt.task.e
  OBVIOUS
<1>1. /\ rt' = [rt EXCEPT !.peeked = FALSE] /\ rt.peeked /\ queue' = Without(e)
      /\ cache' = cache /\ lost' = lost
      /\ exhausted' = exhausted /\ fails' = fails /\ events' = events /\ p' = p
      /\ QueueInv /\ FeedInv /\ GivenUpAfterRetries
  BY <1>0 DEF RetryRemove, feedVars, PollerInv
<1>2. rt' \in RetryStates /\ rt'.task = rt.task /\ rt'.peeked = FALSE
  BY <1>1 DEF QueueInv, RetryStates
<1>3. Keyed(queue) /\ queue \in Seq(Tasks) /\ (\A x : Queued(x) <=> HasTask(queue, x))
      /\ \A i \in 1 .. Len(queue) : TaskOK(queue[i])
  BY <1>1, QueueTypes DEF QueueInv
<1>4. /\ Keyed(queue')
      /\ \A i \in 1 .. Len(queue') : queue'[i].e # e /\ \E j \in 1 .. Len(queue) : queue'[i] = queue[j]
      /\ \A j \in 1 .. Len(queue) : queue[j].e # e => \E i \in 1 .. Len(queue') : queue'[i] = queue[j]
  BY <1>1, <1>3, WithoutFacts, SMTT(30) DEF WithoutOK
<1>5. \A x : Queued(x)' <=> Queued(x) /\ x # e
  <2>1. queue' \in Seq(Tasks) /\ DOMAIN queue' = 1 .. Len(queue')
    BY <1>4 DEF Keyed
  <2>2. \A x : HasTask(queue', x) <=> HasTask(queue, x) /\ x # e
    BY <1>4 DEF HasTask
  <2> QED BY <1>3, <2>1, <2>2 DEF Queued, HasTask
<1>6. QueueInv'
  <2>1. \A i \in 1 .. Len(queue') : TaskOK(queue[i])'
    BY <1>1, <1>3, <1>4 DEF TaskOK
  <2>2. rt'.task # NoTask => TaskOK(rt.task)'
    BY <1>1, <1>2 DEF QueueInv, TaskOK
  <2> QED BY <1>1, <1>2, <1>4, <2>1, <2>2 DEF QueueInv, Keyed
<1>7. \A x \in Ids : cache[x] \in Nat
  BY <1>1, QueueTypes
<1>8. \A x \in Ids : Covered(x) => Covered(x)'
  BY <1>0, <1>1, <1>2, <1>5 DEF Covered
<1>9. ASSUME NEW x \in Ids
      PROVE  Chances(x)' <= Chances(x)
  <2>1. CASE x = e
    BY <1>0, <1>1, <1>2, <1>5, <1>7, <2>1 DEF Chances, InHand
  <2>2. CASE x # e
    BY <1>0, <1>1, <1>2, <1>5, <1>7, <2>2 DEF Chances, InHand
  <2> QED BY <2>1, <2>2
<1>10. GivenUpAfterRetries'
  BY <1>1 DEF GivenUpAfterRetries
<1> QED BY <1>1, <1>6, <1>8, <1>9, <1>10, RetryStep

LEMMA RetryFetchedKeeps ==
  ASSUME PollerInv, UNCHANGED feedVars, RetryFetched
  PROVE  PollerInv'
<1>0. PICK e : e = rt.task.e
  OBVIOUS
<1>1. /\ rt' = [rt EXCEPT !.task = NoTask] /\ rt.task # NoTask /\ ~rt.peeked /\ Fetched(e)
      /\ UNCHANGED <<events, queue, lost, exhausted>> /\ p' = p
      /\ QueueInv /\ FeedInv /\ GivenUpAfterRetries
  BY <1>0 DEF RetryFetched, feedVars, PollerInv
<1>2. rt' \in RetryStates /\ rt'.task = NoTask /\ NoTask.e = 0 /\ ~rt'.peeked
  BY <1>1 DEF QueueInv, RetryStates, NoTask, Tasks
<1>3. e \in Ids
  <2>1. e \in 1 .. Len(events)
    BY <1>0, <1>1 DEF QueueInv, TaskOK
  <2> QED BY <1>1, <2>1, QueueTypes
<1>4. /\ QueueInv' /\ fails' = fails
      /\ cache'[e] = cache[e] + 1 /\ \A x \in Ids : x # e => cache'[x] = cache[x]
      /\ \A x : Queued(x)' <=> Queued(x)
  BY <1>1, <1>2, <1>3, FetchedFacts
<1>5. \A x \in Ids : cache[x] \in Nat /\ x # 0
  BY <1>1, QueueTypes
<1>6. \A x \in Ids : Covered(x) => Covered(x)'
  BY <1>0, <1>1, <1>4, <1>5 DEF Covered
<1>7. \A x \in Ids : Chances(x)' <= Chances(x)
  BY <1>0, <1>1, <1>2, <1>4, <1>5 DEF Chances, InHand
<1>8. GivenUpAfterRetries'
  BY <1>1, <1>4 DEF GivenUpAfterRetries
<1> QED BY <1>1, <1>4, <1>6, <1>7, <1>8, RetryStep

LEMMA RetryFailsKeeps ==
  ASSUME PollerInv, UNCHANGED feedVars, RetryFails
  PROVE  PollerInv'
<1>0. PICK t, e : t = rt.task /\ e = t.e
  OBVIOUS
<1> DEFINE m == MaxEventProcessRetries
<1>1. /\ rt' = [rt EXCEPT !.task = NoTask] /\ t # NoTask /\ ~rt.peeked /\ Missed(e)
      /\ IF t.retries + 1 >= m THEN GiveUp(e)
         ELSE EnqueueRetry([t EXCEPT !.retries = t.retries + 1]) /\ UNCHANGED exhausted
      /\ events' = events /\ p' = p
      /\ QueueInv /\ FeedInv /\ GivenUpAfterRetries
  BY <1>0 DEF RetryFails, feedVars, PollerInv
<1>2. rt' \in RetryStates /\ rt'.task = NoTask /\ NoTask.e = 0 /\ ~rt'.peeked
  BY <1>1 DEF QueueInv, RetryStates, NoTask, Tasks
<1>3. /\ t \in Tasks /\ t.retries \in Nat /\ t.retries < m /\ t.retries < fails[e] /\ e \in Ids
      /\ e \in 1 .. Len(events)
  <2>1. TaskOK(t)
    BY <1>0, <1>1 DEF QueueInv
  <2> QED BY <1>0, <1>1, <2>1, QueueTypes DEF TaskOK, Tasks
<1>4. /\ fails' \in [Ids -> 0 .. m + 1] /\ cache' = cache
      /\ \A x \in Ids : fails[x] <= fails'[x] /\ fails'[x] \in Nat
      /\ fails'[e] = fails[e] + 1 \/ fails'[e] = m + 1
  BY <1>1, <1>3, MissedFacts
<1>5. m \in Nat /\ m >= 1 /\ \A x \in Ids : /\ cache[x] \in Nat /\ x # 0
                                            /\ fails[x] \in Nat /\ fails[x] <= m + 1
  BY <1>1, QueueTypes
<1> HIDE DEF m
<1>6. CASE t.retries + 1 >= m
  <2>1. lost' = lost \union {e} /\ exhausted' = exhausted \union {e} /\ queue' = queue
    BY <1>1, <1>6 DEF GiveUp
  <2>2. fails'[e] = m + 1
    <3>1. fails'[e] \in 0 .. m + 1 /\ fails[e] \in Nat
      BY <1>3, <1>4, <1>5
    <3> QED BY <1>3, <1>4, <1>5, <1>6, <3>1
  <2>3. \A x : Queued(x)' <=> Queued(x)
    BY <2>1 DEF Queued
  <2>4. QueueInv'
    <3>1. \A i \in 1 .. Len(queue') : TaskOK(queue[i])'
      <4> SUFFICES ASSUME NEW i \in 1 .. Len(queue)
                   PROVE  TaskOK(queue[i])'
        BY <2>1
      <4>1. PICK u : u = queue[i]
        OBVIOUS
      <4>2. TaskOK(u)
        BY <1>1, <4>1 DEF QueueInv
      <4>3. TaskOK(u)'
        BY <1>1, <1>4, <4>2, TaskKept
      <4> QED BY <2>1, <4>1, <4>3 DEF TaskOK
    <3> QED BY <1>1, <1>2, <1>3, <1>4, <2>1, <3>1 DEF QueueInv, m
  <2>5. GivenUpAfterRetries'
    <3> SUFFICES ASSUME NEW x \in exhausted
                 PROVE  fails'[x] = m + 1
      BY <2>1, <2>2 DEF GivenUpAfterRetries, m
    <3>1. x \in Ids /\ fails[x] = m + 1
      BY <1>1 DEF QueueInv, GivenUpAfterRetries, m
    <3>2. fails'[x] \in 0 .. m + 1 /\ fails[x] <= fails'[x]
      BY <1>4, <3>1
    <3> QED BY <1>5, <3>1, <3>2
  <2>6. \A x \in Ids : Covered(x) => Covered(x)'
    BY <1>0, <1>4, <2>1, <2>3 DEF Covered
  <2>7. \A x \in Ids : Chances(x)' <= Chances(x)
    BY <1>2, <1>4, <1>5, <2>3 DEF Chances, InHand
  <2> QED BY <1>1, <2>4, <2>5, <2>6, <2>7, RetryStep
<1>7. CASE ~(t.retries + 1 >= m)
  <2>0. PICK u : u = [t EXCEPT !.retries = t.retries + 1]
    OBVIOUS
  <2>1. u \in Tasks /\ u.e = e /\ u.retries = t.retries + 1
    BY <1>0, <1>3, <2>0 DEF Tasks
  <2>2. EnqueueRetry(u) /\ exhausted' = exhausted
    BY <1>1, <1>7, <2>0
  <2>3. TaskOK(u)'
    <3>1. u.retries < m /\ u.retries < fails'[e]
      BY <1>3, <1>4, <1>5, <1>7, <2>1
    <3> QED BY <1>1, <1>3, <2>1, <3>1 DEF TaskOK, m
  <2>4. exhausted' \subseteq Ids
    BY <1>1, <2>2 DEF QueueInv
  <2>5. /\ QueueInv' /\ Queued(u.e)'
        /\ \A x : Queued(x) => Queued(x)' \/ x \in lost'
        /\ \A x : Queued(x)' => Queued(x) \/ x = u.e
        /\ lost \subseteq lost'
    BY <1>1, <1>2, <1>4, <2>1, <2>2, <2>3, <2>4, EnqueueKeepsQueue DEF m
  <2>6. GivenUpAfterRetries'
    BY <1>1, <1>4, <2>2, GivenUpKept DEF m
  <2>7. \A x \in Ids : Covered(x) => Covered(x)'
    BY <1>0, <1>4, <2>1, <2>5 DEF Covered
  <2>8. \A x \in Ids : Chances(x)' <= Chances(x)
    BY <1>0, <1>2, <1>4, <1>5, <2>1, <2>5 DEF Chances, InHand
  <2> QED BY <1>1, <2>5, <2>6, <2>7, <2>8, RetryStep
<1> QED BY <1>6, <1>7

\* Nothing is in memory: at the start, and after a stop.
Empty ==
  /\ queue = <<>> /\ rt = NoRetry
  /\ cache = [e \in Ids |-> 0] /\ fails = [e \in Ids |-> 0]
  /\ lost = {} /\ exhausted = {} /\ p = Down

LEMMA EmptyInv == FeedInv /\ Empty => QueueInv /\ CoverInv /\ CacheInv /\ GivenUpAfterRetries
<1> SUFFICES ASSUME FeedInv, Empty
             PROVE  QueueInv /\ CoverInv /\ CacheInv /\ GivenUpAfterRetries
  OBVIOUS
<1> USE DEF Empty
<1>1. /\ Len(queue) = 0 /\ queue \in Seq(Tasks) /\ \A x : ~Queued(x)
  BY DEF Queued
<1>2. rt \in RetryStates /\ rt.task = NoTask /\ rt.task.e = 0 /\ ~rt.peeked
  BY DEF NoRetry, RetryStates, NoTask, Tasks
<1>3. MaxEvents \in Nat /\ MaxEventProcessRetries \in Nat
  BY FeedAssumption, PollerAssumption
<1>4. cache \in [Ids -> Nat] /\ fails \in [Ids -> 0 .. MaxEventProcessRetries + 1]
  BY <1>3
<1>5. QueueInv
  BY <1>1, <1>2, <1>4 DEF QueueInv
<1>6. p.out = <<>> /\ Len(p.out) = 0 /\ p.start = p.last /\ p.last = MinLedger /\ MinLedger \in Nat
  BY FeedAssumption DEF Down
<1>7. CacheInv
  <2> SUFFICES ASSUME NEW e \in Ids
               PROVE  Chances(e) <= Allowed(e)
    BY DEF CacheInv
  <2>1. e \in Nat /\ e # 0
    BY <1>3 DEF Ids
  <2>2. Chances(e) = 0
    BY <1>1, <1>2, <2>1 DEF Chances, InHand
  <2> QED BY <2>2, AllowedType
<1>8. GivenUpAfterRetries
  BY DEF GivenUpAfterRetries
<1>9. CoverInv
  <2>1. \A x \in 1 .. Len(events) : events[x] \in Nat
    BY DEF FeedInv
  <2> QED BY <1>6, <2>1 DEF CoverInv
<1> QED BY <1>5, <1>7, <1>8, <1>9

LEMMA StopKeeps ==
  ASSUME PollerInv, UNCHANGED feedVars, Stop
  PROVE  PollerInv'
<1>1. FeedInv' /\ PollInv'
  BY FeedKept, StopStep DEF PollerInv
<1>2. Empty'
  BY DEF Stop, Empty, Ids, NoTask, Down, NoCursor
<1>3. FeedInv' /\ Empty' => QueueInv' /\ CoverInv' /\ CacheInv' /\ GivenUpAfterRetries'
  BY EmptyInv, PTL
<1> QED BY <1>1, <1>2, <1>3 DEF PollerInv

LEMMA FeedKeeps ==
  ASSUME PollerInv, CloseLedger, UNCHANGED pollerVars
  PROVE  PollerInv'
<1>1. FeedInv /\ PollInv /\ QueueInv /\ CoverInv /\ CacheInv /\ GivenUpAfterRetries
  BY DEF PollerInv
<1>2. /\ p' = p /\ queue' = queue /\ rt' = rt /\ cache' = cache /\ lost' = lost
      /\ exhausted' = exhausted /\ fails' = fails
  BY DEF pollerVars, retryVars
<1>3. FeedInv' /\ PollInv'
  BY <1>1, <1>2, FeedGrows, PollFeedStep
<1>4. /\ Len(events) \in Nat /\ Len(events') \in Nat /\ Len(events) <= Len(events')
      /\ \A i \in 1 .. Len(events) : events'[i] = events[i]
      /\ \A i \in 1 .. Len(events') : i > Len(events) => events'[i] = ledger + 1
      /\ p.last \in Nat /\ p.last <= ledger /\ ledger \in Nat
  <2>1. p.last \in Nat /\ p.last <= ledger /\ ledger \in Nat
    BY <1>1, PollTypes DEF PollInv
  <2> QED BY <1>1, <2>1, FeedGrows
<1>5. \A x \in 1 .. Len(events) : x \in 1 .. Len(events')
  BY <1>4
<1>6. QueueInv' /\ GivenUpAfterRetries'
  BY <1>1, <1>2, <1>5 DEF QueueInv, TaskOK, GivenUpAfterRetries
<1>7. (\A x : Queued(x)' <=> Queued(x)) /\ (\A x : Covered(x)' <=> Covered(x))
      /\ \A x : Chances(x)' = Chances(x)
  BY <1>2 DEF Queued, Covered, Chances, InHand
<1>8. CoverInv'
  <2>1. ASSUME NEW x \in 1 .. Len(events'), p.start <= events'[x], events'[x] < p.last
        PROVE  Covered(x)'
    <3>1. x \in 1 .. Len(events)
      BY <1>4, <2>1
    <3> QED BY <1>1, <1>4, <1>7, <2>1, <3>1 DEF CoverInv
  <2>2. ASSUME NEW i \in 1 .. Len(p.out), i < p.i
        PROVE  Covered(p.out[i])'
    <3>1. Covered(p.out[i])
      BY <1>1, <2>2 DEF CoverInv
    <3> QED BY <1>2, <3>1 DEF Covered, Queued
  <2> QED BY <1>2, <2>1, <2>2 DEF CoverInv
<1>9. CacheInv'
  <2> SUFFICES ASSUME NEW x \in Ids
               PROVE  Chances(x)' <= Allowed(x)'
    BY DEF CacheInv, Ids
  <2>1. Chances(x) <= Allowed(x) /\ x \in Nat /\ 1 <= x /\ Chances(x) \in Nat
    BY <1>1, QueueTypes, ChancesType DEF CacheInv
  <2>2. Polled(x)' = Polled(x)
    BY <1>2 DEF Polled
  <2>3. CASE x <= Len(events)
    <3>1. x \in 1 .. Len(events) /\ ~(x > Len(events)) /\ ~(x > Len(events'))
      BY <1>4, <2>1, <2>3
    <3>2. Allowed(x)' = Allowed(x)
      BY <1>2, <1>4, <2>2, <3>1 DEF Allowed
    <3> QED BY <1>7, <2>1, <3>2
  <2>4. CASE x > Len(events)
    <3>1. Allowed(x) = 0
      BY <2>4 DEF Allowed
    <3>2. Chances(x)' = 0
      BY <1>7, <2>1, <3>1
    <3> QED BY <3>2, AllowedType
  <2> QED BY <1>4, <2>1, <2>3, <2>4
<1> QED BY <1>3, <1>6, <1>8, <1>9 DEF PollerInv

LEMMA PollerNextKeeps == PollerInv /\ [Next]_vars => PollerInv'
<1> SUFFICES ASSUME PollerInv, [Next]_vars
             PROVE  PollerInv'
  OBVIOUS
<1>1. CASE Feed
  BY <1>1, FeedKeeps DEF Feed
<1>2. CASE Poller
  <2>1. UNCHANGED feedVars /\ PollerNext
    BY <1>2 DEF Poller
  <2> QED BY <2>1, StartKeeps, WaitKeeps, ProcessKeeps, PollDoneKeeps, PollErrorKeeps,
             RetryTickKeeps, RetryPeekKeeps, RetryRemoveKeeps, RetryFetchedKeeps, RetryFailsKeeps, StopKeeps
          DEF PollerNext, Polling, Retrying
<1>3. CASE UNCHANGED <<feedVars, pollerVars>>
  <2>1. /\ UNCHANGED feedVars /\ UNCHANGED retryVars /\ UNCHANGED p /\ QueueInv /\ FeedInv
        /\ GivenUpAfterRetries /\ UNCHANGED events
    BY <1>3 DEF pollerVars, feedVars, PollerInv
  <2>2. /\ QueueInv' /\ GivenUpAfterRetries'
        /\ \A e : Covered(e)' <=> Covered(e)
        /\ \A e : Chances(e)' = Chances(e)
    BY <2>1, QueueKept
  <2>3. \A x \in Ids : Chances(x)' <= Chances(x)
    BY <2>1, <2>2, ChancesType
  <2> QED BY <2>1, <2>2, <2>3, RetryStep
<1> QED BY <1>1, <1>2, <1>3 DEF Next, Reader, vars

LEMMA PollerInitInv == Init => PollerInv
<1> SUFFICES ASSUME Init
             PROVE  PollerInv
  OBVIOUS
<1>1. FeedInv /\ p = Down /\ ledger = MinLedger
  BY FeedInitInv DEF Init, FeedInit, PollerInit
<1>2. Empty
  BY DEF Init, PollerInit, Empty
<1>3. PollInv
  <2>1. MinLedger \in Nat /\ 1 <= MinLedger /\ NoCursor \in Cursors /\ <<>> \in Seq(Nat)
    BY FeedAssumption DEF NoCursor, Cursors
  <2>2. p \in Polls
    BY <1>1, <2>1 DEF Down, Polls
  <2>3. /\ p.pc = "down" /\ p.out = <<>> /\ p.cursor = NoCursor /\ p.i = 1 /\ Len(p.out) = 0
        /\ p.start = MinLedger /\ p.last = MinLedger
    BY <1>1 DEF Down
  <2> QED BY <1>1, <2>1, <2>2, <2>3 DEF PollInv
<1> QED BY <1>1, <1>2, <1>3, EmptyInv DEF PollerInv

LEMMA PollerAlways == Spec => []PollerInv
BY PollerInitInv, PollerNextKeeps, PTL DEF Spec

\* The polling loop: its cursor goes past an event only when the event's
\* attempt is cached, queued, being retried or knowingly given up.
THEOREM CursorAlwaysCovers == Spec => []CursorCovers
<1>1. PollerInv => CursorCovers
  BY DEF PollerInv, FeedInv, CoverInv, Covered, CursorCovers
<1> QED BY <1>1, PollerAlways, PTL

\* However polls, retries and evictions of an event interleave, its attempt is
\* cached at most twice in the life of a process.
THEOREM AttemptsCachedAtMostTwice == Spec => []CachedAtMostTwice
<1>1. ASSUME PollerInv
      PROVE  CachedAtMostTwice
  <2> SUFFICES ASSUME NEW e \in Ids
               PROVE  cache[e] <= 2
    BY DEF CachedAtMostTwice
  <2>1. Chances(e) <= Allowed(e) /\ cache[e] \in Nat
    BY <1>1, QueueTypes DEF PollerInv, CacheInv
  <2>2. Allowed(e) \in {0, 1, 2}
    BY DEF Allowed, Polled
  <2> QED BY <2>1, <2>2 DEF Chances, InHand
<1> QED BY <1>1, PollerAlways, PTL

\* The retry loop gives an event up only when the first fetch and every retry
\* of it have failed.
THEOREM GivenUpOnlyAfterRetries == Spec => []GivenUpAfterRetries
<1>1. PollerInv => GivenUpAfterRetries
  BY DEF PollerInv
<1> QED BY <1>1, PollerAlways, PTL
=============================================================================
