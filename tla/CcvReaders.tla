------------------------------ MODULE CcvReaders -----------------------------
(***************************************************************************)
(* The two readers of the CCV services over the Stellar RPC. They watch    *)
(* different contracts and share nothing, so a behaviour has one of them:  *)
(* client says which.                                                      *)
(***************************************************************************)
EXTENDS AttemptPoller, SourceReader

VARIABLE client

vars == <<feedVars, pollerVars, s, client>>

Feed   == CloseLedger /\ UNCHANGED <<pollerVars, s, client>>
Poller == client = "poller" /\ PollerNext /\ UNCHANGED <<feedVars, s, client>>
Reader == client = "reader" /\ ReaderNext /\ UNCHANGED <<feedVars, pollerVars, client>>

Init == FeedInit /\ PollerInit /\ ReaderInit /\ client \in {"poller", "reader"}
Next == Feed \/ Poller \/ Reader

\* Ledgers close; the tickers of both loops fire and their calls return; and a
\* page that is asked for again and again is answered again and again.
Fairness ==
  /\ WF_vars(Feed)
  /\ WF_vars(Poller /\ Start)
  /\ WF_vars(Poller /\ PollStart)
  /\ \A n \in 0 .. MaxEvents : SF_vars(Poller /\ Page /\ p.cursor.pos = n)
  /\ WF_vars(Poller /\ (Process \/ PollDone))
  /\ WF_vars(Poller /\ Retrying)

Spec == Init /\ [][Next]_vars /\ Fairness

\* Every event of the poller's window is eventually cached or given up, and
\* stays so: failed polls, full queues and restarts only delay it.
EventsResolve ==
  client = "poller" =>
    <>[](\A e \in DOMAIN events : events[e] >= p.start => cache[e] > 0 \/ e \in lost)
=============================================================================
