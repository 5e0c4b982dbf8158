-------------------------------- MODULE Txm --------------------------------
(***************************************************************************)
(* The Stellar transaction manager (relayer/txm): callers of               *)
(* EnqueueAndWait, the bounded broadcast channel, the broadcast loop, the  *)
(* confirm loop and the pruner, over a Stellar network seen through an RPC *)
(* that may lag, fail and lose answers.                                    *)
(*                                                                         *)
(* Time is counted in ledgers: the wall clock, and the close time of the   *)
(* ledger closing next, are head, and an RPC answers as of some ledger in  *)
(* RpcViews. A call of Enqueue is named by its Timestamp, which orders the *)
(* batches of the broadcast loop, so calls start in the order of their     *)
(* numbers. The inclusion fee is abstracted away.                          *)
(***************************************************************************)
EXTENDS TxStore, Sequences, FiniteSets

CONSTANTS
  NumCalls,               \* Enqueue calls 1..NumCalls, numbered by Timestamp
  Ids, Payloads, Accounts,
  IdOf, PayloadOf, FromOf, \* the request of each call
  Waiters,                \* the calls that are EnqueueAndWait, not Enqueue
  BroadcastChanSize, MaxSubmitRetryAttempts, MaxTxRetryAttempts,
  MaxGetClientRetryAttempts, MaxRestoreAttempts,
  LedgerBoundsOffset, TxTimeout, StatusUnknownMargin,
  PruneEnabled,           \* PruneInterval > 0
  MaxLag,                 \* ledgers an RPC answer may be behind the network
  MaxLedgers,             \* bound: ledgers that close in a behaviour
  Faults                  \* what the environment of this instance may do

Calls  == 1 .. NumCalls
NoCall == 0

FaultKinds ==
  {"client", "sequence", "simulation", "restore", "reject", "fatal", "lossy",
   "rpcError", "zeroLedger", "onchainFailure", "leftover", "stop"}

ASSUME TxmAssumption ==
  /\ NumCalls \in Nat \ {0}
  /\ IdOf \in [Calls -> Ids] /\ PayloadOf \in [Calls -> Payloads]
  /\ FromOf \in [Calls -> Accounts] /\ Waiters \subseteq Calls
  /\ {BroadcastChanSize, MaxSubmitRetryAttempts, LedgerBoundsOffset, TxTimeout}
       \subseteq Nat \ {0}
  /\ {MaxTxRetryAttempts, MaxGetClientRetryAttempts, MaxRestoreAttempts,
      StatusUnknownMargin, MaxLag, MaxLedgers} \subseteq Nat
  /\ PruneEnabled \in BOOLEAN /\ Faults \subseteq FaultKinds

VARIABLES
  transactions, \* [Ids -> Calls or NoCall]: the id map
  caller,       \* [Calls -> [pc, waitOn]]: the goroutine inside EnqueueAndWait
  tx,           \* [Calls -> StellarTx record]
  queue,        \* broadcastChan
  batch,        \* drained and not processed yet
  b,            \* the broadcast loop's locals
  store,        \* [Accounts -> TxStore]
  todo, cur,    \* the confirm loop's snapshot; the one waiting for a ledger
  stopped,      \* s.stop is closed
  halted,       \* loops that have returned
  head,         \* last closed ledger
  acctSeq,      \* [Accounts -> last used sequence]
  pool,         \* envelopes the network holds and may still include
  landed,       \* [env, ledger, result] of the envelopes included
  lossy         \* ghost: calls with a landed envelope the manager lost track of

reqVars   == <<transactions, caller>>
chainVars == <<head, acctSeq, pool, landed>>
confVars  == <<todo, cur>>
vars == <<transactions, caller, tx, queue, batch, b, store, todo, cur, stopped,
          halted, head, acctSeq, pool, landed, lossy>>

Terminal == {"Finalized", "Failed"}
Loops    == {"broadcast", "confirm"}
Results  == {"success", "failed", "exhausted"}   \* exhausted: retryable

Envelope == [kind : {"invoke", "restore", "foreign"}, tx : Calls \union {NoCall},
             acct : Accounts, seq : Nat, maxLedger : Nat, maxTime : Nat]
NoEnvelope == [kind |-> "none"]

\* --------------------------------------------------------------------------
\* The network, and what an RPC says about it

\* No LedgerBounds (a restore) is maxLedger = 0; MaxLedger is exclusive and
\* MaxTime inclusive.
Includable(e, ledger) ==
  /\ e.maxLedger = 0 \/ ledger < e.maxLedger
  /\ ledger <= e.maxTime

InitHead == MaxLag + 1

RpcViews == {v \in 1 .. head : head - MaxLag <= v}

\* Account sequences an RPC may report: the last one used as of some view.
SeqViews(a) ==
  {s \in 0 .. acctSeq[a] :
     \E v \in RpcViews :
        LET upTo == {l \in landed : l.env.acct = a /\ l.ledger <= v}
        IN  /\ s = 0 \/ \E l \in upTo : l.env.seq = s
            /\ \A l \in upTo : l.env.seq <= s}

\* A later ledger can still change what some envelope may do. When none can,
\* closing ledgers only shifts time, and the clock stops.
Outstanding ==
  pool \union UNION {store[a].unconf : a \in Accounts}
       \union (IF b.pc \in {"send", "restore", "poll"} THEN {b.env} ELSE {})
LedgerMatters ==
  \E e \in Outstanding : head <= e.maxTime + StatusUnknownMargin + MaxLag

\* Each ledger takes at most one envelope of an account, the next in sequence.
CloseLedger ==
  /\ LedgerMatters /\ head < InitHead + MaxLedgers
  /\ head' = head + 1
  /\ \E inc \in SUBSET {e \in pool : Includable(e, head + 1)
                                      /\ e.seq = acctSeq[e.acct] + 1} :
       /\ \A e, f \in inc : e.acct = f.acct => e = f
       /\ \E res \in [inc -> IF "onchainFailure" \in Faults
                              THEN Results ELSE {"success"}] :
            landed' = landed \union
              {[env |-> e, ledger |-> head + 1, result |-> res[e]] : e \in inc}
       /\ acctSeq' = [a \in Accounts |->
            acctSeq[a] + IF \E e \in inc : e.acct = a THEN 1 ELSE 0]
       /\ pool' = {e \in pool : Includable(e, head + 2)
                                /\ e.seq > acctSeq'[e.acct]}
  /\ UNCHANGED <<reqVars, tx, queue, batch, b, store, confVars, stopped,
                 halted, lossy>>

\* --------------------------------------------------------------------------
\* Transaction records

NewTx == [status |-> "Pending", attempt |-> 0, infra |-> 0, terminal |-> "none"]

\* t.terminal is the first outcome, the one that set TerminalTime and closed
\* Done; the status itself is overwritten whatever it was. "Unknown" is Failed
\* with the result code status_unknown.
Outcomes == Terminal \union {"Unknown"}
DoneOnSuccess(t, s) ==       \* mutant: Done is closed for Finalized only
  [t EXCEPT !.status = IF s = "Unknown" THEN "Failed" ELSE s,
            !.terminal = IF s = "Finalized" /\ @ = "none" THEN s ELSE @]

WithStatus(t, s) ==
  [t EXCEPT !.status = IF s = "Unknown" THEN "Failed" ELSE s,
            !.terminal = IF s \in Outcomes /\ @ = "none" THEN s ELSE @]

\* maybeEvictTerminalTx: with the prune loop off, terminal txs leave the map.
Evict(c) ==
  IF ~PruneEnabled /\ transactions[IdOf[c]] = c
    THEN [transactions EXCEPT ![IdOf[c]] = NoCall] ELSE transactions

UpdateStatus(c, t, s) ==
  /\ tx' = [tx EXCEPT ![c] = WithStatus(t, s)]
  /\ transactions' = IF s \in Outcomes THEN Evict(c) ELSE transactions

Done(c) == tx[c].terminal # "none"
Full    == Len(queue) >= BroadcastChanSize

\* --------------------------------------------------------------------------
\* Enqueue and EnqueueAndWait

SetPc(c, pc) == caller' = [caller EXCEPT ![c].pc = pc]
Return(c, pc) == SetPc(c, pc)

\* Enqueue returns the id with a nil error.
Accept(c) == SetPc(c, IF c \in Waiters THEN "lookup" ELSE "accepted")

Registered(c) == transactions[IdOf[c]]

\* The stop check, then the id map under its lock.
EnqueueStopped(c) ==
  /\ caller[c].pc = "new" /\ stopped
  /\ Return(c, "stopped")
  /\ UNCHANGED <<transactions, tx, queue, batch, b, store, confVars, stopped,
                 halted, chainVars, lossy>>

Enqueue(c) ==
  /\ caller[c].pc = "new" /\ ~stopped
  /\ \A d \in Calls : d < c => caller[d].pc # "new"
  /\ IF Registered(c) = NoCall
       THEN /\ transactions' = [transactions EXCEPT ![IdOf[c]] = c]
            /\ tx' = [tx EXCEPT ![c] = NewTx]
            /\ SetPc(c, "send")
       ELSE /\ IF PayloadOf[Registered(c)] = PayloadOf[c]
                    /\ FromOf[Registered(c)] = FromOf[c]
                 THEN Accept(c) ELSE Return(c, "mismatch")
            /\ UNCHANGED <<transactions, tx>>
  /\ UNCHANGED <<queue, batch, b, store, confVars, stopped, halted, chainVars,
                 lossy>>

\* A non-blocking send: the fast path, and the one after an eviction.
EnqueueSend(c) ==
  /\ caller[c].pc \in {"send", "resend"} /\ ~Full
  /\ queue' = Append(queue, c)
  /\ Accept(c)
  /\ UNCHANGED <<transactions, tx, batch, b, store, confVars, stopped, halted,
                 chainVars, lossy>>

EnqueueFull(c) ==
  /\ caller[c].pc = "send" /\ Full
  /\ SetPc(c, "evict")
  /\ UNCHANGED <<transactions, tx, queue, batch, b, store, confVars, stopped,
                 halted, chainVars, lossy>>

\* Drain the oldest queued tx, if one is still there, and drop it unless its
\* map entry was replaced or removed.
EvictSilently(c) ==          \* mutant: the evicted tx is not marked Failed
  /\ caller[c].pc = "evict"
  /\ SetPc(c, "resend")
  /\ queue' = IF queue = <<>> THEN queue ELSE Tail(queue)
  /\ UNCHANGED <<tx, transactions, batch, b, store, confVars, stopped, halted,
                 chainVars, lossy>>

EnqueueEvict(c) ==
  /\ caller[c].pc = "evict"
  /\ SetPc(c, "resend")
  /\ IF queue = <<>>
       THEN UNCHANGED <<queue, tx, transactions>>
       ELSE LET d == Head(queue) IN
            /\ queue' = Tail(queue)
            /\ IF Registered(d) = d THEN UpdateStatus(d, tx[d], "Failed")
                 ELSE UNCHANGED <<tx, transactions>>
  /\ UNCHANGED <<batch, b, store, confVars, stopped, halted, chainVars, lossy>>

\* Concurrent enqueues refilled the slot: drop the new tx. Done stays open.
EnqueueReject(c) ==
  /\ caller[c].pc = "resend" /\ Full
  /\ transactions' = [transactions EXCEPT ![IdOf[c]] = NoCall]
  /\ Return(c, "full")
  /\ UNCHANGED <<tx, queue, batch, b, store, confVars, stopped, halted,
                 chainVars, lossy>>

\* EnqueueAndWait looks the id up again after Enqueue returned it.
LookupToWait(c) ==
  /\ caller[c].pc = "lookup"
  /\ caller' = [caller EXCEPT ![c] =
       IF Registered(c) = NoCall THEN [@ EXCEPT !.pc = "notFound"]
         ELSE [pc |-> "wait", waitOn |-> Registered(c)]]
  /\ UNCHANGED <<transactions, tx, queue, batch, b, store, confVars, stopped,
                 halted, chainVars, lossy>>

WaitReturn(c) ==
  /\ caller[c].pc = "wait"
  /\ \/ Done(caller[c].waitOn) /\ Return(c, "result")
     \/ stopped /\ Return(c, "stopped")
  /\ UNCHANGED <<transactions, tx, queue, batch, b, store, confVars, stopped,
                 halted, chainVars, lossy>>

Caller(c) ==
  \/ EnqueueStopped(c) \/ Enqueue(c) \/ EnqueueSend(c) \/ EnqueueFull(c)
  \/ EnqueueEvict(c) \/ EnqueueReject(c) \/ LookupToWait(c) \/ WaitReturn(c)

\* Close; and pruneTerminal, whose retention window may have passed.
Stop ==
  /\ "stop" \in Faults /\ ~stopped
  /\ stopped' = TRUE
  /\ UNCHANGED <<reqVars, tx, queue, batch, b, store, confVars, halted,
                 chainVars, lossy>>

PruneAny ==                  \* mutant: in-flight txs are pruned too
  /\ PruneEnabled /\ ~stopped
  /\ \E id \in Ids : transactions[id] # NoCall
                     /\ transactions' = [transactions EXCEPT ![id] = NoCall]
  /\ UNCHANGED <<caller, tx, queue, batch, b, store, confVars, stopped, halted,
                 chainVars, lossy>>

PruneTerminal ==
  /\ PruneEnabled /\ ~stopped
  /\ \E id \in Ids :
       /\ transactions[id] # NoCall
       /\ tx[transactions[id]].status \in Terminal
       /\ transactions' = [transactions EXCEPT ![id] = NoCall]
  /\ UNCHANGED <<caller, tx, queue, batch, b, store, confVars, stopped, halted,
                 chainVars, lossy>>

\* --------------------------------------------------------------------------
\* The broadcast loop

Idle == [pc |-> "idle", tx |-> NoCall, seq |-> 0, sub |-> 0, late |-> 0,
         floor |-> 0, restored |-> FALSE, rtry |-> 0, env |-> NoEnvelope]

BFrame == UNCHANGED <<caller, confVars, stopped, halted>>
Acct   == FromOf[b.tx]
St     == store[Acct]
SetStore(st) == store' = [store EXCEPT ![Acct] = st]

\* The loop moves on to the next tx of its batch.
NextTx == b' = [Idle EXCEPT !.pc = "next"]

MarkFailed == UpdateStatus(b.tx, tx[b.tx], "Failed") /\ NextTx

\* releaseSeqAndFailTx
ReleaseAndFail(st, seq) == SetStore(Release(st, seq)) /\ MarkFailed

BRecv ==
  /\ b.pc = "idle" /\ "broadcast" \notin halted /\ queue # <<>>
  /\ batch' = {Head(queue)} /\ queue' = Tail(queue)
  /\ b' = [b EXCEPT !.pc = "drain"]
  /\ UNCHANGED <<transactions, tx, store, chainVars, lossy>> /\ BFrame

BDrain ==
  /\ b.pc = "drain"
  /\ IF queue = <<>>
       THEN b' = [b EXCEPT !.pc = "next"] /\ UNCHANGED <<batch, queue>>
       ELSE /\ batch' = batch \union {Head(queue)} /\ queue' = Tail(queue)
            /\ UNCHANGED b
  /\ UNCHANGED <<transactions, tx, store, chainVars, lossy>> /\ BFrame

\* The batch is processed in the order of Timestamp.
BPick ==
  /\ b.pc = "next"
  /\ IF batch = {} THEN b' = Idle /\ UNCHANGED batch
       ELSE \E c \in batch :
              /\ \A d \in batch : c <= d
              /\ batch' = batch \ {c}
              /\ b' = [Idle EXCEPT !.pc = "begin", !.tx = c]
  /\ UNCHANGED <<transactions, tx, queue, store, chainVars, lossy>> /\ BFrame

\* retryGetClientOrFail
BGetClientFail ==
  /\ b.pc = "begin" /\ ("client" \in Faults \/ stopped)
  /\ LET t == [tx[b.tx] EXCEPT !.infra = @ + 1] IN
     IF t.infra < MaxGetClientRetryAttempts
       THEN /\ tx' = [tx EXCEPT ![b.tx] = t] /\ UNCHANGED transactions
            /\ b' = [b EXCEPT !.pc = "infra"]
       ELSE UpdateStatus(b.tx, t, "Failed") /\ NextTx
  /\ UNCHANGED <<queue, batch, store, chainVars, lossy>> /\ BFrame

\* After the delay: push it back, or lose it when the channel is full; a stop
\* during the delay returns at once.
BInfraRequeue ==
  /\ b.pc = "infra"
  /\ \/ queue' = IF Full THEN queue ELSE Append(queue, b.tx)
     \/ stopped /\ UNCHANGED queue
  /\ NextTx
  /\ UNCHANGED <<transactions, tx, batch, store, chainVars, lossy>> /\ BFrame

\* getSequenceNumber fails while the account has no store yet.
BSequenceFail ==
  /\ b.pc = "begin" /\ St = NoStore /\ ("sequence" \in Faults \/ stopped)
  /\ MarkFailed
  /\ UNCHANGED <<queue, batch, store, chainVars, lossy>> /\ BFrame

\* resyncSequence, or the unchanged store when its RPC fails.
Resynced(st)  == {ResyncNonce(st, s + 1) : s \in SeqViews(Acct)}
BestEffort(st) == Resynced(st) \union
                  (IF "sequence" \in Faults \/ stopped THEN {st} ELSE {})

\* Create the store from the chain, or resync it before a rebroadcast, and read
\* the sequence to use.
BBegin ==
  /\ b.pc = "begin"
  /\ \E st0 \in IF St = NoStore THEN {NewTxStore(s + 1) : s \in SeqViews(Acct)}
                                ELSE {St} :
     \E st \in IF tx[b.tx].attempt > 0 THEN BestEffort(st0) ELSE {st0} :
     \E seq \in GetNextSequence(st) :
       /\ SetStore(st)
       /\ b' = [b EXCEPT !.pc = "simulate", !.seq = seq]
  /\ UNCHANGED <<transactions, tx, queue, batch, chainVars, lossy>> /\ BFrame

\* Simulation, assembly or signing fails, or a second restore is asked for.
BSimulateFail ==
  /\ b.pc = "simulate"
  /\ "simulation" \in Faults \/ stopped \/ ("restore" \in Faults /\ b.restored)
  /\ ReleaseAndFail(St, b.seq)
  /\ UNCHANGED <<queue, batch, chainVars, lossy>> /\ BFrame

Larger(x, y) == IF x >= y THEN x ELSE y

\* The bounds of the envelope come from the RPC's latest ledger or from the
\* ledger tx_too_late proved, and from the clock.
BSimulate ==
  /\ b.pc = "simulate"
  /\ \E v \in RpcViews :
       b' = [b EXCEPT !.pc = "send", !.env =
              [kind |-> "invoke", tx |-> b.tx, acct |-> Acct, seq |-> b.seq,
               maxLedger |-> Larger(v, b.floor) + LedgerBoundsOffset,
               maxTime |-> head + TxTimeout]]
  /\ UNCHANGED <<transactions, tx, queue, batch, store, chainVars, lossy>>
  /\ BFrame

\* --- SendTransaction and its result ---

\* The node takes an envelope that is within its bounds and whose sequence it
\* has not seen used; it may be behind itself. DUPLICATE answers a resend.
NetworkTakes(e) ==
  /\ \E v \in RpcViews : Includable(e, v + 1)
  /\ \E s \in SeqViews(e.acct) : e.seq > s

Deliver(e) ==
  pool' = IF Includable(e, head + 1) /\ e.seq > acctSeq[e.acct]
            THEN pool \union {e} ELSE pool

BSendAccepted ==
  /\ b.pc = "send" /\ NetworkTakes(b.env) /\ Deliver(b.env)
  /\ IF CanAddUnconfirmed(St, b.seq)
       THEN /\ SetStore(AddUnconfirmed(St, b.env))
            /\ b' = [b EXCEPT !.pc = "publish"]
            /\ UNCHANGED <<tx, transactions>>
       ELSE MarkFailed /\ UNCHANGED store     \* ErrorReasonStoreAdd
  /\ UNCHANGED <<queue, batch, head, acctSeq, landed, lossy>> /\ BFrame

\* The rest of the accepted path runs after the store's lock is released.
BPublish ==
  /\ b.pc = "publish"
  /\ UpdateStatus(b.tx, tx[b.tx], "Unconfirmed") /\ NextTx
  /\ UNCHANGED <<queue, batch, store, chainVars, lossy>> /\ BFrame

ResubmitUncounted(st, nb, pc) ==   \* mutant: the attempt is not counted
  /\ SetStore(st) /\ UNCHANGED <<tx, transactions>>
  /\ b' = [nb EXCEPT !.pc = pc, !.env = NoEnvelope]

\* One more submit attempt from nb with the store st, after a delay or at once;
\* past the last one the sequence is released and the tx fails.
Resubmit(st, nb, pc) ==
  IF b.sub + 1 >= MaxSubmitRetryAttempts
    THEN ReleaseAndFail(st, nb.seq)
    ELSE /\ SetStore(st) /\ UNCHANGED <<tx, transactions>>
         /\ b' = [nb EXCEPT !.sub = @ + 1, !.pc = pc, !.env = NoEnvelope]

\* The call returns an error: the envelope was not delivered, or it was and
\* the answer was lost.
BSendError ==
  /\ b.pc = "send"
  /\ \/ /\ "rpcError" \in Faults \/ stopped
        /\ UNCHANGED <<pool, lossy>>
     \/ /\ "lossy" \in Faults /\ NetworkTakes(b.env) /\ Deliver(b.env)
        /\ lossy' = lossy \union {b.tx}
  /\ Resubmit(St, b, "delay")
  /\ UNCHANGED <<queue, batch, head, acctSeq, landed>> /\ BFrame

\* TRY_AGAIN_LATER, tx_internal_error, tx_insufficient_fee (bumps the fee).
BSendReject ==
  /\ b.pc = "send" /\ "reject" \in Faults
  /\ Resubmit(St, b, "delay")
  /\ UNCHANGED <<queue, batch, chainVars, lossy>> /\ BFrame

BSendFatal ==
  /\ b.pc = "send" /\ "fatal" \in Faults
  /\ ReleaseAndFail(St, b.seq)
  /\ UNCHANGED <<queue, batch, chainVars, lossy>> /\ BFrame

MaxImmediateTooLateRetries == 2

\* tx_too_late: a bound of the envelope, of either kind, has passed.
BSendTooLate ==
  /\ b.pc = "send" /\ ~Includable(b.env, head + 1)
  /\ LET nb == [b EXCEPT !.floor = Larger(@, b.env.maxLedger - 1)] IN
     IF b.late < MaxImmediateTooLateRetries
       THEN Resubmit(St, [nb EXCEPT !.late = @ + 1], "simulate")
       ELSE Resubmit(St, nb, "delay")
  /\ UNCHANGED <<queue, batch, chainVars, lossy>> /\ BFrame

\* tx_bad_seq: resync and read the sequence again. The account waits on an
\* earlier envelope, or the sequence is used.
BadSeqKeepsSeq ==            \* mutant: resyncs, and does not read the sequence again
  /\ b.pc = "send" /\ \E s \in SeqViews(Acct) : b.seq # s + 1
  /\ \E st \in BestEffort(St) : Resubmit(st, b, "delay")
  /\ UNCHANGED <<queue, batch, chainVars, lossy>> /\ BFrame

BSendBadSeq ==
  /\ b.pc = "send" /\ \E s \in SeqViews(Acct) : b.seq # s + 1
  /\ \E st \in BestEffort(St) : \E seq \in GetNextSequence(st) :
       Resubmit(st, [b EXCEPT !.seq = seq],
                IF seq = b.seq THEN "delay" ELSE "simulate")
  /\ UNCHANGED <<queue, batch, chainVars, lossy>> /\ BFrame

\* SubmitRetryDelay passes; on a stop the sequence is released and the tx is
\* left as it is.
BDelay ==
  /\ b.pc = "delay"
  /\ \/ b' = [b EXCEPT !.pc = "simulate"] /\ UNCHANGED store
     \/ stopped /\ SetStore(Release(St, b.seq)) /\ NextTx
  /\ UNCHANGED <<transactions, tx, queue, batch, chainVars, lossy>> /\ BFrame

\* --- handleRestore: a RestoreFootprint transaction takes the sequence first ---

\* The restore envelope has a time bound and no ledger bound.
BRestoreStart ==
  /\ b.pc = "simulate" /\ "restore" \in Faults /\ ~b.restored
  /\ b' = [b EXCEPT !.pc = "restore", !.rtry = 0, !.env =
             [kind |-> "restore", tx |-> b.tx, acct |-> Acct, seq |-> b.seq,
              maxLedger |-> 0, maxTime |-> head + TxTimeout]]
  /\ UNCHANGED <<transactions, tx, queue, batch, store, chainVars, lossy>>
  /\ BFrame

\* The same envelope is sent again until MaxRestoreAttempts.
BRestoreSend ==
  /\ b.pc = "restore" /\ b.rtry < MaxRestoreAttempts
  /\ NetworkTakes(b.env) /\ Deliver(b.env)
  /\ b' = [b EXCEPT !.pc = "poll"]
  /\ UNCHANGED <<transactions, tx, queue, batch, store, head, acctSeq, landed,
                 lossy>> /\ BFrame

\* A send error, delivered or not, or TRY_AGAIN_LATER.
BRestoreSendError ==
  /\ b.pc = "restore" /\ b.rtry < MaxRestoreAttempts
  /\ Faults \intersect {"reject", "rpcError", "lossy"} # {} \/ stopped
  /\ \/ UNCHANGED pool
     \/ "lossy" \in Faults /\ NetworkTakes(b.env) /\ Deliver(b.env)
  /\ b' = [b EXCEPT !.rtry = @ + 1]
  /\ UNCHANGED <<transactions, tx, queue, batch, store, head, acctSeq, landed,
                 lossy>> /\ BFrame

\* Attempts exhausted, an ERROR answer (the sequence is not the account's next,
\* the bound has passed, ...), or a stop during a delay: the sequence is released.
BRestoreFail ==
  /\ b.pc = "restore"
  /\ b.rtry >= MaxRestoreAttempts \/ ~Includable(b.env, head + 1)
       \/ (\E s \in SeqViews(Acct) : b.seq # s + 1)
       \/ "fatal" \in Faults \/ stopped
  /\ ReleaseAndFail(St, b.seq)
  /\ UNCHANGED <<queue, batch, chainVars, lossy>> /\ BFrame

\* pollRestoreTransaction finds SUCCESS: resync, and simulate again with the
\* sequence the store gives now. A failed resync fails the restore.
BRestoreSuccess ==
  /\ b.pc = "poll"
  /\ \E l \in landed : l.env = b.env /\ l.result = "success"
  /\ \/ \E st \in Resynced(St) : \E seq \in GetNextSequence(st) :
          /\ SetStore(st)
          /\ b' = [b EXCEPT !.pc = "simulate", !.seq = seq, !.restored = TRUE,
                            !.rtry = 0, !.env = NoEnvelope]
          /\ UNCHANGED <<tx, transactions>>
     \/ /\ "sequence" \in Faults \/ stopped
        /\ ReleaseAndFail(St, b.seq)
  /\ UNCHANGED <<queue, batch, chainVars, lossy>> /\ BFrame

BRestoreLandedFailed ==
  /\ b.pc = "poll"
  /\ \E l \in landed : l.env = b.env /\ l.result # "success"
  /\ ReleaseAndFail(St, b.seq)
  /\ UNCHANGED <<queue, batch, chainVars, lossy>> /\ BFrame

\* The poll gives up after TxTimeout, no earlier than the envelope's bound.
BRestorePollTimeout ==
  /\ b.pc = "poll" /\ (head >= b.env.maxTime \/ stopped)
  /\ b' = [b EXCEPT !.pc = "restore", !.rtry = @ + 1]
  /\ UNCHANGED <<transactions, tx, queue, batch, store, chainVars, lossy>>
  /\ BFrame

BHalt ==
  /\ b.pc = "idle" /\ stopped /\ "broadcast" \notin halted
  /\ halted' = halted \union {"broadcast"}
  /\ UNCHANGED <<reqVars, tx, queue, batch, b, store, confVars, stopped,
                 chainVars, lossy>>

BSend ==
  \/ BSendAccepted \/ BSendError \/ BSendReject \/ BSendFatal \/ BSendTooLate
  \/ BSendBadSeq
BRestore ==
  \/ BRestoreStart \/ BRestoreSend \/ BRestoreSendError \/ BRestoreFail
  \/ BRestoreSuccess \/ BRestoreLandedFailed \/ BRestorePollTimeout
Broadcast ==
  \/ BRecv \/ BDrain \/ BPick \/ BGetClientFail \/ BInfraRequeue
  \/ BSequenceFail \/ BBegin \/ BSimulateFail \/ BSimulate \/ BSend \/ BPublish
  \/ BDelay \/ BRestore \/ BHalt

\* --------------------------------------------------------------------------
\* The confirm loop

CFrame == UNCHANGED <<caller, batch, b, stopped, halted, chainVars, lossy>>

\* A tick of the confirm loop begins with getClient. Without a client it polls
\* nothing, whatever is tracked.
CGetClientFail ==
  /\ todo = {} /\ cur = NoEnvelope /\ "confirm" \notin halted
  /\ "client" \in Faults \/ stopped
  /\ UNCHANGED vars

\* With one, checkUnconfirmed takes a snapshot of every store.
CSnapshot ==
  /\ todo = {} /\ cur = NoEnvelope /\ "confirm" \notin halted
  /\ todo' = UNION {store[a].unconf : a \in Accounts}
  /\ todo' # {}
  /\ UNCHANGED <<cur, transactions, tx, queue, store>> /\ CFrame

\* The envelopes of an account are polled in the order of their sequences.
Polled(e) ==
  /\ e \in todo /\ cur = NoEnvelope
  /\ \A f \in todo : f.acct = e.acct => e.seq <= f.seq
NextPoll(e) == todo' = todo \ {e} /\ cur' = NoEnvelope

ConfirmForgotten(e, failed) == UNCHANGED store   \* mutant: retried while tracked

ConfirmStore(e, failed) ==
  store' = [store EXCEPT ![e.acct] = Confirm(@, e, failed)]

\* incrementTransactionAttempt and maybeRetry; no retry means Failed.
RetryOrFail(c) ==
  LET t == [tx[c] EXCEPT !.attempt = @ + 1] IN
  IF t.attempt < MaxTxRetryAttempts /\ ~Full
    THEN /\ queue' = Append(queue, c)
         /\ tx' = [tx EXCEPT ![c] = t] /\ UNCHANGED transactions
    ELSE UpdateStatus(c, t, "Failed") /\ UNCHANGED queue

\* GetTransaction answers SUCCESS or FAILED, as of a view that has the ledger.
LandedIsFinalized(e) ==      \* mutant: FAILED is taken for SUCCESS
  /\ Polled(e) /\ NextPoll(e)
  /\ \E l \in landed : l.env = e /\ (\E v \in RpcViews : l.ledger <= v)
  /\ ConfirmStore(e, FALSE) /\ UpdateStatus(e.tx, tx[e.tx], "Finalized")
  /\ UNCHANGED queue /\ CFrame

CLanded(e) ==
  /\ Polled(e) /\ NextPoll(e)
  /\ \E l \in landed : l.env = e /\ (\E v \in RpcViews : l.ledger <= v) /\
       IF ~CanConfirm(store[e.acct], e)
         THEN UNCHANGED <<store, queue, tx, transactions>>
         ELSE /\ ConfirmStore(e, FALSE)
              /\ CASE l.result = "success" ->
                        UpdateStatus(e.tx, tx[e.tx], "Finalized")
                          /\ UNCHANGED queue
                   [] l.result = "failed" ->
                        UpdateStatus(e.tx, tx[e.tx], "Failed")
                          /\ UNCHANGED queue
                   [] l.result = "exhausted" -> RetryOrFail(e.tx)
  /\ CFrame

\* No status: pending, until the time bound is long past by the node's clock;
\* then the tx fails without a retry and its sequence is recycled.
NeverLongPassed(e) == FALSE  \* mutant: an unknown status stays pending
AlwaysLongPassed(e) == TRUE  \* mutant: any RPC error fails the tx

TimeBoundLongPassed(e) == head > e.maxTime + StatusUnknownMargin

CStatusError(e) ==
  /\ Polled(e) /\ NextPoll(e) /\ ("rpcError" \in Faults \/ stopped)
  /\ UNCHANGED queue
  /\ IF TimeBoundLongPassed(e)
       THEN /\ IF CanConfirm(store[e.acct], e)
                 THEN ConfirmStore(e, TRUE) ELSE UNCHANGED store
            /\ UpdateStatus(e.tx, tx[e.tx], "Unknown")
       ELSE UNCHANGED <<store, tx, transactions>>
  /\ CFrame

\* NOT_FOUND as of ledger v: the row was read before the ledger range, at v or
\* one ledger earlier.
NotFoundAt(e, v) ==
  \E row \in {v - 1, v} : \A l \in landed : l.env = e => l.ledger > row

NoLedgerMargin(latestLedger, latestCloseTime, e) ==   \* mutant: dead, no margin
  /\ latestLedger # 0
  /\ \/ e.maxLedger > 0 /\ latestLedger >= e.maxLedger - 1
     \/ e.maxTime > 0 /\ latestCloseTime > e.maxTime
NotFoundIsDead(latestLedger, latestCloseTime, e) ==   \* mutant: bounds ignored
  latestLedger # 0

CannotBeIncluded(latestLedger, latestCloseTime, e) ==
  /\ latestLedger # 0
  /\ \/ e.maxLedger > 0 /\ latestLedger >= e.maxLedger
     \/ e.maxTime > 0 /\ latestCloseTime > e.maxTime

\* The envelope is pending, or expired: recycle its sequence and retry the tx.
ExpireOrPend(e, latest) ==
  IF ~CannotBeIncluded(latest, latest, e)
    THEN UNCHANGED <<store, queue, tx, transactions>>
    ELSE IF CanConfirm(store[e.acct], e)
           THEN ConfirmStore(e, TRUE) /\ RetryOrFail(e.tx)
           ELSE UpdateStatus(e.tx, tx[e.tx], "Failed") /\ UNCHANGED <<store, queue>>

CNotFound(e) ==
  /\ Polled(e) /\ NextPoll(e)
  /\ \E v \in RpcViews : NotFoundAt(e, v) /\ ExpireOrPend(e, v)
  /\ CFrame

\* NOT_FOUND with LatestLedger = 0, and the GetLatestLedger that follows.
CNotFoundZero(e) ==
  /\ Polled(e) /\ "zeroLedger" \in Faults
  /\ \E v \in RpcViews : NotFoundAt(e, v)
  /\ cur' = e /\ UNCHANGED <<todo, store, queue, tx, transactions>>
  /\ CFrame

LatestLedgerKeepsPolling ==  \* mutant: polled a second time after the fallback
  /\ cur # NoEnvelope /\ cur' = NoEnvelope /\ UNCHANGED todo
  /\ \E v \in RpcViews : ExpireOrPend(cur, v)
  /\ CFrame

\* The ledger is read after the status: an envelope that landed in between is
\* taken for expired (ghost lossy).

CLatestLedger ==
  /\ cur # NoEnvelope /\ NextPoll(cur)
  /\ \/ \E v \in RpcViews : ExpireOrPend(cur, v)
     \/ /\ "rpcError" \in Faults \/ stopped
        /\ UNCHANGED <<store, queue, tx, transactions>>
  /\ lossy' = IF \E l \in landed : l.env = cur THEN lossy \union {cur.tx}
                ELSE lossy
  /\ UNCHANGED <<caller, batch, b, stopped, halted, chainVars>>

CHalt ==
  /\ todo = {} /\ stopped /\ "confirm" \notin halted
  /\ halted' = halted \union {"confirm"}
  /\ UNCHANGED <<reqVars, tx, queue, batch, b, store, confVars, stopped,
                 chainVars, lossy>>

ConfirmPoll(e) == CLanded(e) \/ CStatusError(e) \/ CNotFound(e) \/ CNotFoundZero(e)
ConfirmTick == (\E e \in todo : ConfirmPoll(e)) \/ CLatestLedger
ConfirmLoop == CGetClientFail \/ CSnapshot \/ ConfirmTick \/ CHalt

\* --------------------------------------------------------------------------

\* A restart keeps no state, and an envelope of the previous run of the node
\* may still be in the network's queue.
Leftover(a) ==
  [kind |-> "foreign", tx |-> NoCall, acct |-> a, seq |-> 1,
   maxLedger |-> InitHead + LedgerBoundsOffset, maxTime |-> InitHead + TxTimeout]

Init ==
  /\ transactions = [id \in Ids |-> NoCall]
  /\ caller = [c \in Calls |-> [pc |-> "new", waitOn |-> NoCall]]
  /\ tx = [c \in Calls |-> NewTx]
  /\ queue = <<>> /\ batch = {} /\ b = Idle
  /\ store = [a \in Accounts |-> NoStore]
  /\ todo = {} /\ cur = NoEnvelope
  /\ stopped = FALSE /\ halted = {}
  /\ head = InitHead /\ acctSeq = [a \in Accounts |-> 0]
  /\ pool \in SUBSET (IF "leftover" \in Faults
                        THEN {Leftover(a) : a \in Accounts} ELSE {})
  /\ landed = {} /\ lossy = {}

Next ==
  \/ \E c \in Calls : Caller(c)
  \/ Broadcast \/ ConfirmLoop \/ PruneTerminal \/ Stop \/ CloseLedger

Spec == Init /\ [][Next]_vars

\* --------------------------------------------------------------------------
\* Properties

TxRecord == [status : {"Pending", "Unconfirmed"} \union Terminal,
             attempt : Nat, infra : Nat, terminal : {"none"} \union Outcomes]
StoreRecord == [next : Nat, unconf : SUBSET Envelope, failed : SUBSET Nat,
                onchain : Nat]
CallerPc == {"new", "send", "evict", "resend", "lookup", "accepted", "wait", "stopped",
             "mismatch", "full", "notFound", "result"}
BroadcastPc == {"idle", "drain", "next", "begin", "infra", "simulate", "send",
                "delay", "publish", "restore", "poll"}
BRecord == [pc : BroadcastPc, tx : Calls \union {NoCall}, seq : Nat, sub : Nat,
            late : Nat, floor : Nat, restored : BOOLEAN, rtry : Nat,
            env : Envelope \union {NoEnvelope}]

\* Type correctness of every variable.
TypeOK ==
  /\ transactions \in [Ids -> Calls \union {NoCall}]
  /\ caller \in [Calls -> [pc : CallerPc, waitOn : Calls \union {NoCall}]]
  /\ tx \in [Calls -> TxRecord]
  /\ queue \in Seq(Calls) /\ batch \subseteq Calls /\ b \in BRecord
  /\ store \in [Accounts -> StoreRecord]
  /\ todo \subseteq Envelope /\ cur \in Envelope \union {NoEnvelope}
  /\ stopped \in BOOLEAN /\ halted \subseteq Loops
  /\ head \in Nat \ {0} /\ acctSeq \in [Accounts -> Nat]
  /\ pool \subseteq Envelope
  /\ landed \subseteq [env : Envelope, ledger : Nat, result : Results]
  /\ lossy \subseteq Calls

\* One sequence is never in two states: at most one envelope is tracked under
\* it, it is not recycled while tracked, and neither set is ahead of the head.
StoreConsistent ==
  \A a \in Accounts :
    StoreOK(store[a]) /\ \A e \in store[a].unconf : e.acct = a

\* AddUnconfirmed never reports "sequence used", an old or a future sequence:
\* the sequence read by GetNextSequence is still free when the send succeeds,
\* whatever the confirm loop did in between.
AllocatedSequenceUsable ==
  b.pc \in {"simulate", "send", "delay"} => CanAddUnconfirmed(St, b.seq)

\* Confirm never fails: what the confirm loop's snapshot still has to poll is
\* tracked by the store, although the broadcast loop changes the store meanwhile.
SnapshotTracked == \A e \in todo : CanConfirm(store[e.acct], e)

\* Gaps are plugged: each sequence between the account's on-chain sequence and
\* the head of the store is tracked or waiting to be used again.
NoSequenceGap ==
  \A a \in Accounts : \A s \in acctSeq[a] + 1 .. store[a].next - 1 :
    s \in UnconfSeqs(store[a]) \union store[a].failed

\* A recycled sequence is not carried by an envelope the network may still
\* include, unless a send lost its answer (or a stop left a restore behind).
RecycledSequenceDead ==
  \A e \in pool : e.kind = "invoke" /\ e.tx \notin lossy
     => e.seq \notin store[e.acct].failed

Tracked == UNION {store[a].unconf : a \in Accounts}

\* A tx is in one place: queued once, in the batch, being broadcast, or tracked
\* by one envelope. Two places would broadcast its payload twice.
OnePlace ==
  \A c \in Calls :
    Cardinality({i \in DOMAIN queue : queue[i] = c})
      + (IF c \in batch THEN 1 ELSE 0)
      + (IF b.tx = c /\ b.pc # "publish" THEN 1 ELSE 0)
      + Cardinality({e \in Tracked : e.tx = c})
    <= 1

Pipeline ==
  {queue[i] : i \in DOMAIN queue} \union batch \union ({b.tx} \ {NoCall})
    \union {e.tx : e \in Tracked}

\* No orphan: a request Enqueue accepted and the map shows as open is still on
\* its way to a terminal status. (A full channel after a getClient failure, and
\* a stop, lose it.)
NoOrphan ==
  \A c \in Calls :
    Registered(c) = c /\ ~Done(c) /\ ~stopped
      /\ caller[c].pc \notin {"send", "evict", "resend"} => c \in Pipeline

\* A caller blocked in EnqueueAndWait, on its own request or on the one another
\* caller registered under the id, is served: the request is closed, or the map
\* still leads to it and it is being enqueued or on its way. Only a rejection by
\* a full channel, after the id was given out, leaves it waiting for nothing.
WaitersServed ==
  \A c \in Calls : caller[c].pc = "wait" /\ ~stopped =>
    LET d == caller[c].waitOn IN
    \/ Done(d)
    \/ /\ Registered(d) = d
       /\ caller[d].pc \in {"send", "evict", "resend"} \/ d \in Pipeline
    \/ caller[d].pc = "full"

\* Idempotency: two requests with one id are never both on their way, although
\* ids leave the map by eviction, rejection and pruning.
OneInFlightPerId ==
  \A c, d \in Pipeline : IdOf[c] = IdOf[d] /\ ~Done(c) /\ ~Done(d) => c = d

LandedOk(c) == {l \in landed : l.env.kind = "invoke" /\ l.env.tx = c
                                /\ l.result = "success"}

\* The terminal status is the truth about the chain.
TruthfulStatus ==
  \A c \in Calls \ lossy :
    /\ tx[c].terminal = "Finalized" => LandedOk(c) # {}
    /\ tx[c].terminal = "Failed" => LandedOk(c) = {}

\* EnqueueAndWait returns a terminal status: nothing overwrites it after Done.
WaiterSeesTerminal ==
  \A c \in Calls : caller[c].pc = "wait" /\ Done(caller[c].waitOn)
     => tx[caller[c].waitOn].status \in Terminal

\* Without the lost answers excluded: a payload takes effect at most once.
EffectAtMostOnce == \A c \in Calls : Cardinality(LandedOk(c)) <= 1

\* Txm implements TxDelivery as long as no send loses its answer.
Delivery == INSTANCE TxDelivery WITH
  Requests <- Calls,
  effects  <- [c \in Calls |-> Cardinality(LandedOk(c))],
  outcome  <- [c \in Calls |-> tx[c].terminal]

\* The detailed specification implements the abstract one: a payload takes
\* effect once, never after the request was closed, and the closing status is
\* what the chain says.
ImplementsDelivery == Delivery!Spec

\* --------------------------------------------------------------------------
\* Liveness. The Go scheduler runs every goroutine that can run, the network
\* keeps closing ledgers, and a blocked RPC call returns an error at its
\* deadline: weak fairness of each caller, of the broadcast loop, of a tick of
\* the confirm loop that has its snapshot, and of the ledger. A select picks
\* among its ready cases at random, so a loop that keeps coming back to one
\* takes the stop case in the end. Nothing is said of getClient: the confirm
\* loop may never get one.
Fairness ==
  /\ \A c \in Calls : WF_vars(Caller(c))
  /\ WF_vars(Broadcast) /\ WF_vars(ConfirmTick) /\ WF_vars(CloseLedger)
  /\ SF_vars(BHalt) /\ SF_vars(CHalt)
FairSpec == Spec /\ Fairness

\* The confirm loop's getClient, tried at every tick, does not fail for ever
\* while something is tracked. What is called through the client may.
ClientServes == WF_vars(CSnapshot)

Accepted(c) ==
  Registered(c) = c /\ caller[c].pc \in {"accepted", "lookup", "wait"}

\* A request that is registered and queued reaches a terminal status, or the
\* service is stopped, and the EnqueueAndWait that made it returns, as long as
\* the confirm loop gets a client again and again.
AcceptedResolves ==
  ClientServes =>
    \A c \in Calls :
      Accepted(c) ~> (Done(c) \/ stopped) /\ caller[c].pc \notin {"lookup", "wait"}

\* Close returns: both loops end after the stop, whatever they were doing, and
\* even if the confirm loop never gets a client.
StopHalts == stopped ~> halted = Loops
=============================================================================
