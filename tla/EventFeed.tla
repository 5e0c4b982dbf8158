------------------------------ MODULE EventFeed ------------------------------
(***************************************************************************)
(* The Stellar RPC as the CCV readers use it (external): ledgers close,    *)
(* each with some events of the watched contract, and getEvents answers    *)
(* one page at a time. A first request names a ledger range whose end is   *)
(* exclusive (tests/staging/helpers_test.go:240); a continuation carries   *)
(* only a cursor and is open-ended.                                        *)
(***************************************************************************)
EXTENDS Naturals, Sequences, FiniteSets

CONSTANTS
  PageLimit,    \* events in one page
  MinLedger,    \* first ledger that may be asked for
  MaxLedger,    \* bound: ledgers that close
  MaxEvents     \* bound: events emitted

ASSUME FeedAssumption ==
  /\ {PageLimit, MinLedger, MaxLedger, MaxEvents} \subseteq Nat
  /\ PageLimit >= 2 /\ MinLedger >= 1

VARIABLES
  ledger,       \* latest closed ledger
  events,       \* ledger of each event, in order of emission
  inclusive     \* does a cursor's own event come again after it?

feedVars == <<ledger, events, inclusive>>

Ids == 1 .. MaxEvents

NoCursor == [pos |-> 0, ledger |-> 0, event |-> FALSE]

Smaller(a, b) == IF a < b THEN a ELSE b

\* Ledger l closes with n events; the bound leaves the last ledger without any.
CloseLedger ==
  /\ ledger < MaxLedger
  /\ \E n \in 0 .. MaxEvents - Len(events) :
       /\ n > 0 => ledger + 1 < MaxLedger
       /\ events' = events \o [i \in 1 .. n |-> ledger + 1]
  /\ ledger' = ledger + 1
  /\ UNCHANGED inclusive

\* The page of the events first .. last: at most PageLimit of them, and a cursor
\* at the last one, or at the end of what was scanned when there are no more.
PageOf(first, last, scanned) ==
  LET full == last >= first + PageLimit - 1
      stop == IF full THEN first + PageLimit - 1 ELSE last
  IN  [ids |-> [i \in 1 .. (stop + 1) - first |-> first + i - 1],
       cursor |-> [pos |-> stop, event |-> full,
                   ledger |-> IF full THEN events[stop] ELSE scanned]]

EventsBelow(l) == Cardinality({i \in DOMAIN events : events[i] < l})

FirstPage(from, to) == PageOf(EventsBelow(from) + 1, EventsBelow(to), to - 1)

NextPage(c) ==
  PageOf(IF inclusive /\ c.event THEN c.pos ELSE c.pos + 1, Len(events), ledger)

InWindow(ids, to) == {i \in DOMAIN ids : events[ids[i]] <= to}

FeedInit ==
  /\ ledger \in {MinLedger} /\ events = <<>> /\ inclusive \in BOOLEAN
=============================================================================
