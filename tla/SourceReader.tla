---------------------------- MODULE SourceReader -----------------------------
(***************************************************************************)
(* FetchMessageSentEvents of ccv/source_reader: one call reads a ledger    *)
(* range page by page while the chain goes on. The reader keeps nothing    *)
(* between calls.                                                          *)
(***************************************************************************)
EXTENDS EventFeed

VARIABLE s    \* the call in progress, or the answer of the last one

NoFetch == [pc |-> "idle", from |-> MinLedger, to |-> 0, cursor |-> NoCursor, out |-> <<>>]

\* A caller asks for a range; toBlock 0 stands for the latest ledger.
FetchStart ==
  /\ s.pc \in {"idle", "done"}
  /\ \E fromBlock \in 0 .. ledger, toBlock \in 0 .. ledger :
       LET from == IF fromBlock < MinLedger THEN MinLedger ELSE fromBlock
           to   == IF toBlock = 0 THEN ledger ELSE toBlock
       IN  from <= to /\ s' = [NoFetch EXCEPT !.pc = "page", !.from = from, !.to = to]

FetchOnePage ==              \* mutant: the first page is the answer
  /\ s.pc = "page"
  /\ LET ids == FirstPage(s.from, s.to).ids IN
       s' = [s EXCEPT !.pc = "done", !.out = ids]

\* fetchAllEvents: one page. The first event past the range, an empty page, a
\* cursor that stays or that is past the range end the scan.
FetchPage ==
  /\ s.pc = "page"
  /\ LET resp == IF s.cursor = NoCursor THEN FirstPage(s.from, s.to) ELSE NextPage(s.cursor)
         n    == Cardinality(InWindow(resp.ids, s.to))
         ends == n < Len(resp.ids) \/ resp.ids = <<>> \/ resp.cursor = s.cursor
                   \/ resp.cursor.ledger > s.to
     IN  s' = [s EXCEPT !.pc = IF ends THEN "done" ELSE "page", !.cursor = resp.cursor,
                        !.out = @ \o SubSeq(resp.ids, 1, n)]

\* Any failure on the way drops the partial result.
FetchError == s.pc = "page" /\ s' = NoFetch

ReaderInit == s = NoFetch
ReaderNext == FetchStart \/ FetchPage \/ FetchError

\* --------------------------------------------------------------------------

\* An answer holds every event of the ledgers from .. to - 1, none outside
\* from .. to, in order; and each once, if cursors exclude their event. (Whether
\* events of ledger `to` are in it depends on the pages.)
FetchedRange ==
  s.pc = "done" =>
    /\ \A e \in DOMAIN events : events[e] >= s.from /\ events[e] < s.to =>
         \E i \in DOMAIN s.out : s.out[i] = e
    /\ \A i \in DOMAIN s.out : events[s.out[i]] >= s.from /\ events[s.out[i]] <= s.to
    /\ \A i, j \in DOMAIN s.out : i < j =>
         s.out[i] < s.out[j] \/ (inclusive /\ s.out[i] = s.out[j])
=============================================================================
