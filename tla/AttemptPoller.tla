---------------------------- MODULE AttemptPoller ----------------------------
(***************************************************************************)
(* StellarExecutionAttemptPoller: a polling loop that walks the ledger     *)
(* with GetEventsInRange and fetches the transaction behind each event,    *)
(* and a retry loop that shares the bounded retry queue and the attempt    *)
(* cache with it. Both live in memory; a restart backfills a window.       *)
(*                                                                         *)
(* One transaction executes one message, so an event stands for its        *)
(* transaction and its attempt. An event that does not parse is skipped by *)
(* the code and is no event here. Expiry of cache entries is left out.     *)
(***************************************************************************)
EXTENDS EventFeed, SequencesExt

CONSTANTS
  Lookback,               \* ledgers in the lookback window
  RetryQueueLimit,
  MaxEventProcessRetries,
  MaxRestarts             \* bound: restarts of the process

ASSUME PollerAssumption ==
  /\ {Lookback, MaxRestarts} \subseteq Nat
  /\ {RetryQueueLimit, MaxEventProcessRetries} \subseteq Nat \ {0}

VARIABLES
  p,          \* the polling loop: last is lastPolledLedger, start startLedger
  queue,      \* the retry queue, oldest first
  rt,         \* the retry loop: keys of this tick, the task in hand, and whether
              \* it is only peeked at so far
  cache,      \* [Ids -> copies of the attempt in the cache]
  lost,       \* ghost: events evicted from the queue or given up
  exhausted,  \* ghost: events given up after their retries
  fails,      \* ghost: [Ids -> failed fetches], up to the retry limit and one
  restarts

retryVars  == <<queue, rt, cache, lost, exhausted, fails, restarts>>
pollerVars == <<p, retryVars>>

NoTask == [e |-> 0, retries |-> 0]
NoRetry == [keys |-> <<>>, task |-> NoTask, peeked |-> FALSE]
Down   == [pc |-> "down", started |-> FALSE, start |-> MinLedger, last |-> MinLedger,
           to |-> 0, cursor |-> NoCursor, out |-> <<>>, i |-> 1]
Idle   == [p EXCEPT !.pc = "idle", !.started = TRUE, !.to = 0, !.cursor = NoCursor,
                    !.out = <<>>, !.i = 1]

\* --------------------------------------------------------------------------
\* The retry queue, an LRU keyed by the transaction: adding a key that is there
\* replaces its task and makes it the newest.

Queued(e)  == \E i \in DOMAIN queue : queue[i].e = e
PlaceOf(e) == CHOOSE i \in DOMAIN queue : queue[i].e = e
TaskOf(e)  == queue[PlaceOf(e)]
Without(e) == IF Queued(e) THEN RemoveAt(queue, PlaceOf(e)) ELSE queue

EnqueueRetry(task) ==
  LET q == Append(Without(task.e), task)
      full == Len(q) > RetryQueueLimit
  IN  /\ queue' = IF full THEN Tail(q) ELSE q
      /\ lost' = IF full THEN lost \union {Head(q).e} ELSE lost

Fetched(e) == cache' = [cache EXCEPT ![e] = @ + 1] /\ UNCHANGED fails
Missed(e)  ==
  /\ fails' = [fails EXCEPT ![e] = Smaller(@ + 1, MaxEventProcessRetries + 1)]
  /\ UNCHANGED cache

\* --------------------------------------------------------------------------
\* Start, and the polling loop

\* getStartLedger, then the backfill, which is a poll from there. (When the
\* latest ledger cannot be read the poller does not start.)
Start ==
  /\ p.pc = "down"
  /\ LET start == IF Lookback >= ledger \/ ledger - Lookback < MinLedger
                    THEN MinLedger ELSE ledger - Lookback
     IN  p' = [Down EXCEPT !.pc = "backfill", !.start = start, !.last = start]
  /\ UNCHANGED retryVars

PollStart ==
  /\ p.pc \in {"idle", "backfill"}
  /\ p' = IF ledger <= p.last THEN Idle ELSE [p EXCEPT !.pc = "page", !.to = ledger]
  /\ UNCHANGED retryVars

\* An RPC error ends the poll; the cursor stays. A failed backfill is the same.
PollError ==
  /\ p.pc \in {"backfill", "page"}
  /\ p' = Idle
  /\ UNCHANGED retryVars

Response == IF p.cursor = NoCursor THEN FirstPage(p.last, p.to) ELSE NextPage(p.cursor)

\* GetEventsInRange: one page of it, with repeated events left out.
FreshAll(ids) == ids      \* mutant: no dedupe by event id

Fresh(ids) ==
  LET upTo[n \in 0 .. Len(ids)] ==
        IF n = 0 THEN <<>>
        ELSE IF Contains(p.out, ids[n]) THEN upTo[n - 1] ELSE Append(upTo[n - 1], ids[n])
  IN  upTo[Len(ids)]

Page ==
  /\ p.pc = "page"
  /\ LET resp == Response
         ids  == Fresh(SubSeq(resp.ids, 1, Cardinality(InWindow(resp.ids, p.to))))
         all  == p.out \o ids
         last == Cardinality(InWindow(resp.ids, p.to)) < Len(resp.ids)
                   \/ Len(resp.ids) < PageLimit
         stuck == p.cursor # NoCursor /\ resp.cursor.pos <= p.cursor.pos
     IN  p' = IF last THEN [p EXCEPT !.pc = "process", !.out = all]
              ELSE IF stuck THEN Idle
              ELSE [p EXCEPT !.out = all, !.cursor = resp.cursor]
  /\ UNCHANGED retryVars

\* The transaction of the next event is fetched and its attempt cached, or the
\* fetch fails and the event is queued.
Process ==
  /\ p.pc = "process" /\ p.i <= Len(p.out)
  /\ LET e == p.out[p.i] IN
       \/ Fetched(e) /\ UNCHANGED <<queue, lost>>
       \/ Missed(e) /\ EnqueueRetry([e |-> e, retries |-> 0])
  /\ p' = [p EXCEPT !.i = @ + 1]
  /\ UNCHANGED <<rt, exhausted, restarts>>

PollDonePast ==          \* mutant: the next range starts after the last one
  /\ p.pc = "process" /\ p.i > Len(p.out)
  /\ p' = [Idle EXCEPT !.last = p.to + 1]
  /\ UNCHANGED retryVars

\* The cursor moves to the end of the range, whatever failed on the way.
PollDone ==
  /\ p.pc = "process" /\ p.i > Len(p.out)
  /\ p' = [Idle EXCEPT !.last = p.to]
  /\ UNCHANGED retryVars

\* --------------------------------------------------------------------------
\* The retry loop

RetryTick ==
  /\ p.started /\ rt.keys = <<>> /\ rt.task = NoTask /\ queue # <<>>
  /\ rt' = [rt EXCEPT !.keys = [i \in DOMAIN queue |-> queue[i].e]]
  /\ UNCHANGED <<p, queue, cache, lost, exhausted, fails, restarts>>

\* A key may have been evicted since the tick read the keys.
RetryPeek ==
  /\ rt.keys # <<>> /\ rt.task = NoTask
  /\ LET e == Head(rt.keys) IN
       rt' = [keys |-> Tail(rt.keys), peeked |-> Queued(e),
              task |-> IF Queued(e) THEN TaskOf(e) ELSE NoTask]
  /\ UNCHANGED <<p, queue, cache, lost, exhausted, fails, restarts>>

\* What the queue holds under the key by now is dropped: the polling loop may have
\* put a new task there, or have evicted the one peeked at.
RetryRemove ==
  /\ rt.peeked
  /\ queue' = Without(rt.task.e) /\ rt' = [rt EXCEPT !.peeked = FALSE]
  /\ UNCHANGED <<p, cache, lost, exhausted, fails, restarts>>

RetryFetched ==
  /\ rt.task # NoTask /\ ~rt.peeked
  /\ Fetched(rt.task.e) /\ rt' = [rt EXCEPT !.task = NoTask]
  /\ UNCHANGED <<p, queue, lost, exhausted, restarts>>

GiveUp(e) ==
  lost' = lost \union {e} /\ exhausted' = exhausted \union {e} /\ UNCHANGED queue

RetryFailsEarly ==           \* mutant: the first failure counts as a retry
  /\ rt.task # NoTask /\ ~rt.peeked
  /\ LET n == rt.task.retries + 1 IN
       IF n + 1 >= MaxEventProcessRetries
         THEN GiveUp(rt.task.e)
         ELSE EnqueueRetry([rt.task EXCEPT !.retries = n]) /\ UNCHANGED exhausted
  /\ Missed(rt.task.e) /\ rt' = [rt EXCEPT !.task = NoTask]
  /\ UNCHANGED <<p, restarts>>

RetryFailsForever ==         \* mutant: the retries are not counted
  /\ rt.task # NoTask /\ ~rt.peeked
  /\ EnqueueRetry(rt.task)
  /\ Missed(rt.task.e) /\ rt' = [rt EXCEPT !.task = NoTask]
  /\ UNCHANGED <<p, exhausted, restarts>>

RetryFails ==
  /\ rt.task # NoTask /\ ~rt.peeked
  /\ LET n == rt.task.retries + 1 IN
       IF n >= MaxEventProcessRetries
         THEN GiveUp(rt.task.e)
         ELSE EnqueueRetry([rt.task EXCEPT !.retries = n]) /\ UNCHANGED exhausted
  /\ Missed(rt.task.e) /\ rt' = [rt EXCEPT !.task = NoTask]
  /\ UNCHANGED <<p, restarts>>

\* The process stops, by Close or by a crash, and keeps nothing.
Stop ==
  /\ p.pc # "down" /\ restarts < MaxRestarts
  /\ p' = Down /\ queue' = <<>> /\ rt' = NoRetry
  /\ cache' = [e \in Ids |-> 0] /\ fails' = [e \in Ids |-> 0]
  /\ lost' = {} /\ exhausted' = {} /\ restarts' = restarts + 1

PollerInit ==
  /\ p = Down /\ queue = <<>> /\ rt = NoRetry
  /\ cache = [e \in Ids |-> 0] /\ fails = [e \in Ids |-> 0]
  /\ lost = {} /\ exhausted = {} /\ restarts = 0

Polling  == PollStart \/ Page \/ Process \/ PollDone
Retrying == RetryTick \/ RetryPeek \/ RetryRemove \/ RetryFetched \/ RetryFails
PollerNext == Start \/ Polling \/ PollError \/ Retrying \/ Stop

\* --------------------------------------------------------------------------
\* Properties

\* The cursor never passes an event that is neither cached, nor waiting for its
\* retry, nor in the retry loop's hands, nor knowingly given up.
CursorCovers ==
  \A e \in DOMAIN events : events[e] >= p.start /\ events[e] < p.last =>
    cache[e] > 0 \/ Queued(e) \/ rt.task.e = e \/ e \in lost

\* An attempt is cached at most twice in the life of a process: an event at the
\* end of one range may be read again at the start of the next, never more.
CachedAtMostTwice == \A e \in Ids : cache[e] <= 2

\* An event is given up only after its first fetch and every retry failed,
\* however polls and retries of the same event interleave.
GivenUpAfterRetries ==
  \A e \in exhausted : fails[e] = MaxEventProcessRetries + 1
=============================================================================
