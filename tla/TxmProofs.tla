----------------------------- MODULE TxmProofs -----------------------------
(***************************************************************************)
(* Proofs about Txm: type correctness and the consistency of the sequence  *)
(* stores, for every number of calls, accounts, faults and limits.         *)
(***************************************************************************)
EXTENDS Txm, TLAPS

\* --------------------------------------------------------------------------
\* The operators of TxStore keep a store a store, and consistent.

LEMMA NewTxStoreOK ==
  ASSUME NEW n \in Nat
  PROVE  NewTxStore(n) \in StoreRecord /\ StoreOK(NewTxStore(n))
BY DEF NewTxStore, StoreRecord, StoreOK

LEMMA ResyncOK ==
  ASSUME NEW st \in StoreRecord, NEW n \in Nat
  PROVE  /\ ResyncNonce(st, n) \in StoreRecord
         /\ StoreOK(st) => StoreOK(ResyncNonce(st, n))
         /\ ResyncNonce(st, n).unconf = st.unconf
<1> DEFINE r == ResyncNonce(st, n)
<1>1. r \in StoreRecord
  BY DEF ResyncNonce, StoreRecord
<1>2. /\ r.unconf = st.unconf
      /\ r.failed = {s \in st.failed : s >= n}
      /\ r.next = IF st.next < n THEN n ELSE st.next
  BY DEF ResyncNonce, StoreRecord
<1>3. StoreOK(st) => StoreOK(r)
  <2> HIDE DEF r
  <2> QED BY <1>1, <1>2 DEF StoreOK, StoreRecord, Envelope
<1> QED BY <1>1, <1>2, <1>3

LEMMA GetNextOK ==
  ASSUME NEW st \in StoreRecord, NEW s \in GetNextSequence(st), StoreOK(st)
  PROVE  s \in Nat /\ CanAddUnconfirmed(st, s)
BY DEF GetNextSequence, CanAddUnconfirmed, StoreRecord, StoreOK, UnconfSeqs,
       Envelope

LEMMA AddOK ==
  ASSUME NEW st \in StoreRecord, NEW e \in Envelope,
         StoreOK(st), CanAddUnconfirmed(st, e.seq)
  PROVE  /\ AddUnconfirmed(st, e) \in StoreRecord
         /\ StoreOK(AddUnconfirmed(st, e))
         /\ AddUnconfirmed(st, e).unconf = st.unconf \union {e}
<1> DEFINE r == AddUnconfirmed(st, e)
<1>1. r \in StoreRecord
  <2> DEFINE un == st.unconf \union {e}
             nx == IF e.seq >= st.next THEN e.seq + 1 ELSE st.next
             fa == st.failed \ {e.seq}
  <2>1. e.seq \in Nat
    BY DEF Envelope
  <2>2. un \in SUBSET Envelope /\ nx \in Nat /\ fa \in SUBSET Nat
    BY <2>1 DEF StoreRecord
  <2>3. r = [st EXCEPT !.unconf = un, !.failed = fa, !.next = nx]
    BY DEF AddUnconfirmed
  <2> HIDE DEF un, nx, fa, r
  <2> QED BY <2>2, <2>3 DEF StoreRecord
<1>2. /\ r.unconf = st.unconf \union {e}
      /\ r.failed = st.failed \ {e.seq}
      /\ r.next = IF e.seq >= st.next THEN e.seq + 1 ELSE st.next
  BY DEF AddUnconfirmed, StoreRecord
<1>3. StoreOK(r)
  <2> HIDE DEF r
  <2>1. /\ st.next \in Nat /\ e.seq \in Nat /\ st.failed \subseteq Nat
        /\ \A f \in st.unconf : f.seq \in Nat
    BY DEF StoreRecord, Envelope
  <2>2. /\ \A f \in st.unconf : f.seq # e.seq
        /\ e.seq <= st.next
    BY <2>1 DEF CanAddUnconfirmed, UnconfSeqs, StoreOK
  <2> QED BY <1>2, <2>1, <2>2 DEF StoreOK
<1> QED BY <1>1, <1>2, <1>3

LEMMA ConfirmOK ==
  ASSUME NEW st \in StoreRecord, NEW e \in Envelope, NEW failed \in BOOLEAN,
         StoreOK(st), CanConfirm(st, e)
  PROVE  /\ Confirm(st, e, failed) \in StoreRecord
         /\ StoreOK(Confirm(st, e, failed))
         /\ Confirm(st, e, failed).unconf = st.unconf \ {e}
<1> DEFINE r == Confirm(st, e, failed)
<1>1. r \in StoreRecord
  BY DEF Confirm, StoreRecord, Envelope
<1>2. /\ r.unconf = {u \in st.unconf : u.seq # e.seq}
      /\ r.failed \subseteq st.failed \union {e.seq}
      /\ r.next = st.next
  BY DEF Confirm, StoreRecord
<1>3. r.unconf = st.unconf \ {e}
  BY <1>2 DEF StoreOK, CanConfirm
<1>4. StoreOK(r)
  <2> HIDE DEF r
  <2>1. /\ st.next \in Nat /\ e.seq \in Nat /\ st.failed \subseteq Nat
        /\ \A f \in st.unconf : f.seq \in Nat
    BY DEF StoreRecord, Envelope
  <2> QED BY <1>2, <2>1 DEF StoreOK, CanConfirm
<1> QED BY <1>1, <1>3, <1>4

LEMMA ReleaseOK ==
  ASSUME NEW st \in StoreRecord, NEW seq \in Nat,
         StoreOK(st), CanAddUnconfirmed(st, seq)
  PROVE  /\ Release(st, seq) \in StoreRecord
         /\ StoreOK(Release(st, seq))
         /\ Release(st, seq).unconf = st.unconf
<1> DEFINE r == Release(st, seq)
<1>1. r \in StoreRecord
  BY DEF Release, StoreRecord
<1>2. /\ r.unconf = {u \in st.unconf : u.seq # seq}
      /\ r.failed \subseteq st.failed \union {seq}
      /\ r.next = st.next
  BY DEF Release, StoreRecord
<1>3. r.unconf = st.unconf
  BY <1>2 DEF CanAddUnconfirmed, UnconfSeqs
<1>4. StoreOK(r)
  <2> HIDE DEF r
  <2>1. /\ st.next \in Nat /\ st.failed \subseteq Nat
        /\ \A f \in st.unconf : f.seq \in Nat
    BY DEF StoreRecord, Envelope
  <2>2. seq <= st.next /\ \A f \in st.unconf : f.seq # seq
    BY <2>1 DEF CanAddUnconfirmed, UnconfSeqs, StoreOK
  <2> QED BY <1>2, <1>3, <2>1, <2>2 DEF StoreOK
<1> QED BY <1>1, <1>3, <1>4

\* --------------------------------------------------------------------------
\* The inductive invariant, one part per group of variables.

ReqOK ==
  /\ transactions \in [Ids -> Calls \union {NoCall}]
  /\ caller \in [Calls -> [pc : CallerPc, waitOn : Calls \union {NoCall}]]
  /\ tx \in [Calls -> TxRecord]

QueueOK == queue \in Seq(Calls) /\ batch \subseteq Calls

\* Every store is consistent and tracks envelopes of its own account that carry
\* a request.
StoresOK ==
  /\ store \in [Accounts -> StoreRecord]
  /\ \A a \in Accounts : /\ StoreOK(store[a])
                         /\ \A e \in store[a].unconf : e.acct = a /\ e.tx \in Calls

\* The broadcast loop works on a request, the sequence it holds is free, and the
\* envelope it sends carries that sequence.
Working == {"begin", "infra", "simulate", "send", "delay", "publish", "restore", "poll"}
Holding == {"simulate", "send", "delay", "restore", "poll"}
Sending == {"send", "restore", "poll"}
LoopOK ==
  /\ b \in BRecord
  /\ b.pc \in Working => b.tx \in Calls
  /\ b.pc \in Holding => CanAddUnconfirmed(St, b.seq)
  /\ b.pc \in Sending => /\ b.env \in Envelope /\ b.env.seq = b.seq
                         /\ b.env.acct = Acct /\ b.env.tx = b.tx

\* What the confirm loop has still to poll is tracked.
SnapOK ==
  /\ todo \subseteq Envelope /\ cur \in Envelope \union {NoEnvelope}
  /\ \A e \in todo : e \in store[e.acct].unconf
  /\ cur # NoEnvelope => cur \in todo

ChainOK ==
  /\ stopped \in BOOLEAN /\ halted \subseteq Loops
  /\ head \in Nat \ {0} /\ acctSeq \in [Accounts -> Nat]
  /\ pool \subseteq Envelope
  /\ landed \subseteq [env : Envelope, ledger : Nat, result : Results]
  /\ lossy \subseteq Calls

Inv == ReqOK /\ QueueOK /\ StoresOK /\ LoopOK /\ SnapOK /\ ChainOK

\* --------------------------------------------------------------------------
\* Steps that several actions share.

\* updateTransactionStatus keeps the requests well-formed.
LEMMA UpdateStatusOK ==
  ASSUME TxmAssumption, ReqOK, NEW c \in Calls, NEW t \in TxRecord,
         NEW s \in {"Unconfirmed", "Finalized", "Failed", "Unknown"},
         UpdateStatus(c, t, s)
  PROVE  /\ tx' \in [Calls -> TxRecord]
         /\ transactions' \in [Ids -> Calls \union {NoCall}]
<1>1. WithStatus(t, s) \in TxRecord
  BY DEF WithStatus, TxRecord, Terminal, Outcomes
<1>2. tx' \in [Calls -> TxRecord]
  BY <1>1 DEF UpdateStatus, ReqOK
<1>3. transactions' \in [Ids -> Calls \union {NoCall}]
  BY DEF UpdateStatus, Evict, ReqOK, TxmAssumption
<1> QED BY <1>2, <1>3

\* A store of one account is replaced by one that tracks at least as much.
LEMMA SetStoreOK ==
  ASSUME StoresOK, SnapOK, NEW a \in Accounts, NEW st \in StoreRecord,
         StoreOK(st), store[a].unconf \subseteq st.unconf,
         \A e \in st.unconf : e.acct = a /\ e.tx \in Calls,
         store' = [store EXCEPT ![a] = st], UNCHANGED confVars
  PROVE  StoresOK' /\ SnapOK'
<1>1. StoresOK'
  BY DEF StoresOK
<1>2. \A e \in todo : e \in store'[e.acct].unconf
  BY DEF StoresOK, SnapOK, Envelope
<1> QED BY <1>1, <1>2 DEF SnapOK, confVars

\* The caller's program counter.
LEMMA SetPcOK ==
  ASSUME ReqOK, NEW c \in Calls, NEW pc \in CallerPc, SetPc(c, pc),
         transactions' = transactions, tx' = tx
  PROVE  ReqOK'
BY DEF ReqOK, SetPc

\* --------------------------------------------------------------------------
\* The initial states.

LEMMA InitInv == ASSUME TxmAssumption PROVE Init => Inv
<1> SUFFICES ASSUME Init PROVE Inv
  OBVIOUS
<1>1. NewTxStore(0) \in StoreRecord /\ StoreOK(NewTxStore(0))
  BY NewTxStoreOK
<1>2. NoStore.unconf = {}
  BY DEF NoStore, NewTxStore
<1>3. ReqOK
  BY DEF Init, ReqOK, NewTx, TxRecord, CallerPc, Terminal, Outcomes
<1>4. QueueOK
  BY DEF Init, QueueOK
<1>5. StoresOK
  BY <1>1, <1>2 DEF Init, StoresOK, NoStore
<1>6. LoopOK
  BY DEF Init, LoopOK, Idle, BRecord, BroadcastPc, Working, Holding, Sending
<1>7. SnapOK
  BY DEF Init, SnapOK
<1>8. ChainOK
  <2>1. InitHead \in Nat \ {0}
    BY DEF InitHead, TxmAssumption
  <2>2. \A a \in Accounts : Leftover(a) \in Envelope
    BY <2>1 DEF Leftover, Envelope, TxmAssumption
  <2> QED BY <2>1, <2>2 DEF Init, ChainOK
<1> QED BY <1>3, <1>4, <1>5, <1>6, <1>7, <1>8 DEF Inv

\* --------------------------------------------------------------------------
\* The callers, the pruner, the stop and the ledger leave the loops alone.

LEMMA LoopsFrame ==
  ASSUME StoresOK, LoopOK, SnapOK, UNCHANGED <<b, store, todo, cur>>
  PROVE  StoresOK' /\ LoopOK' /\ SnapOK'
BY DEF StoresOK, LoopOK, SnapOK, St, Acct

LEMMA CallerInv ==
  ASSUME TxmAssumption, Inv, NEW c \in Calls, Caller(c)
  PROVE  Inv'
<1> USE DEF Inv
<1>1. UNCHANGED <<b, store, todo, cur, batch, stopped, halted, head, acctSeq,
                  pool, landed, lossy>>
  BY DEF Caller, EnqueueStopped, Enqueue, EnqueueSend, EnqueueFull,
         EnqueueEvict, EnqueueReject, LookupToWait, WaitReturn, confVars,
         chainVars
<1>2. StoresOK' /\ LoopOK' /\ SnapOK'
  BY <1>1, LoopsFrame
<1>3. ChainOK'
  BY <1>1 DEF ChainOK
<1>4. ReqOK' /\ QueueOK'
  <2>1. CASE EnqueueStopped(c)
    <3>1. SetPc(c, "stopped") /\ "stopped" \in CallerPc
      BY <2>1 DEF EnqueueStopped, Return, CallerPc
    <3> QED BY <1>1, <2>1, <3>1, SetPcOK DEF EnqueueStopped, QueueOK
  <2>2. CASE Enqueue(c)
    <3>1. \A pc \in CallerPc : SetPc(c, pc) =>
             caller' \in [Calls -> [pc : CallerPc, waitOn : Calls \union {NoCall}]]
      BY DEF SetPc, ReqOK
    <3>2. SetPc(c, "send") \/ SetPc(c, "lookup") \/ SetPc(c, "accepted")
            \/ SetPc(c, "mismatch")
      BY <2>2 DEF Enqueue, Accept, Return
    <3>3. caller' \in [Calls -> [pc : CallerPc, waitOn : Calls \union {NoCall}]]
      BY <3>1, <3>2 DEF CallerPc
    <3>4. transactions' \in [Ids -> Calls \union {NoCall}]
      BY <2>2 DEF Enqueue, ReqOK, TxmAssumption
    <3>5. tx' \in [Calls -> TxRecord]
      <4>1. NewTx \in TxRecord
        BY DEF NewTx, TxRecord, Terminal, Outcomes
      <4> QED BY <2>2, <4>1 DEF Enqueue, ReqOK
    <3> QED BY <1>1, <2>2, <3>3, <3>4, <3>5 DEF Enqueue, ReqOK, QueueOK
  <2>3. CASE EnqueueSend(c)
    <3>1. SetPc(c, "lookup") \/ SetPc(c, "accepted")
      BY <2>3 DEF EnqueueSend, Accept
    <3>2. ReqOK'
      <4>1. "lookup" \in CallerPc /\ "accepted" \in CallerPc
        BY DEF CallerPc
      <4> QED BY <2>3, <3>1, <4>1, SetPcOK DEF EnqueueSend
    <3> QED BY <1>1, <2>3, <3>2 DEF EnqueueSend, QueueOK
  <2>4. CASE EnqueueFull(c)
    <3>1. "evict" \in CallerPc
      BY DEF CallerPc
    <3> QED BY <1>1, <2>4, <3>1, SetPcOK DEF EnqueueFull, QueueOK
  <2>5. CASE EnqueueEvict(c)
    <3>1. caller' \in [Calls -> [pc : CallerPc, waitOn : Calls \union {NoCall}]]
      BY <2>5, SMTT(30) DEF EnqueueEvict, SetPc, ReqOK, CallerPc
    <3>2. CASE queue = <<>>
      BY <1>1, <2>5, <3>1, <3>2 DEF EnqueueEvict, ReqOK, QueueOK
    <3>3. CASE queue # <<>>
      <4>1. Head(queue) \in Calls /\ queue' = Tail(queue)
        BY <2>5, <3>3 DEF EnqueueEvict, QueueOK
      <4>2. QueueOK'
        BY <1>1, <3>3, <4>1 DEF QueueOK
      <4>3. /\ tx' \in [Calls -> TxRecord]
            /\ transactions' \in [Ids -> Calls \union {NoCall}]
        <5> DEFINE d == Head(queue)
        <5>1. CASE UpdateStatus(d, tx[d], "Failed")
          <6>1. d \in Calls /\ tx[d] \in TxRecord
            BY <4>1 DEF ReqOK
          <6> QED BY <5>1, <6>1, UpdateStatusOK
        <5>2. CASE UNCHANGED <<tx, transactions>>
          BY <5>2 DEF ReqOK
        <5> QED BY <2>5, <3>3, <5>1, <5>2 DEF EnqueueEvict
      <4> QED BY <3>1, <4>2, <4>3 DEF ReqOK
    <3> QED BY <3>2, <3>3
  <2>6. CASE EnqueueReject(c)
    <3>1. caller' \in [Calls -> [pc : CallerPc, waitOn : Calls \union {NoCall}]]
      BY <2>6 DEF EnqueueReject, Return, SetPc, ReqOK, CallerPc
    <3> QED BY <1>1, <2>6, <3>1 DEF EnqueueReject, ReqOK, QueueOK, TxmAssumption
  <2>7. CASE LookupToWait(c)
    <3>1. Registered(c) \in Calls \union {NoCall}
      BY DEF Registered, ReqOK, TxmAssumption
    <3>2. caller' \in [Calls -> [pc : CallerPc, waitOn : Calls \union {NoCall}]]
      BY <2>7, <3>1 DEF LookupToWait, ReqOK, CallerPc
    <3> QED BY <1>1, <2>7, <3>2 DEF LookupToWait, ReqOK, QueueOK
  <2>8. CASE WaitReturn(c)
    <3>1. SetPc(c, "result") \/ SetPc(c, "stopped")
      BY <2>8 DEF WaitReturn, Return
    <3>2. "result" \in CallerPc /\ "stopped" \in CallerPc
      BY DEF CallerPc
    <3> QED BY <1>1, <2>8, <3>1, <3>2, SetPcOK DEF WaitReturn, QueueOK
  <2> QED BY <2>1, <2>2, <2>3, <2>4, <2>5, <2>6, <2>7, <2>8 DEF Caller
<1> QED BY <1>2, <1>3, <1>4

LEMMA EnvironmentInv ==
  ASSUME TxmAssumption, Inv, PruneTerminal \/ Stop \/ CloseLedger
  PROVE  Inv'
<1> USE DEF Inv
<1>1. UNCHANGED <<b, store, todo, cur, batch, queue, caller, tx>>
  BY DEF PruneTerminal, Stop, CloseLedger, confVars, reqVars
<1>2. StoresOK' /\ LoopOK' /\ SnapOK'
  BY <1>1, LoopsFrame
<1>3. QueueOK'
  BY <1>1 DEF QueueOK
<1>4. ReqOK'
  BY <1>1 DEF PruneTerminal, Stop, CloseLedger, reqVars, ReqOK
<1>5. ChainOK'
  <2>1. CASE PruneTerminal
    BY <2>1 DEF PruneTerminal, chainVars, ChainOK
  <2>2. CASE Stop
    BY <2>2 DEF Stop, chainVars, ChainOK
  <2>3. CASE CloseLedger
    <3>1. head' \in Nat \ {0} /\ UNCHANGED <<stopped, halted, lossy>>
      BY <2>3 DEF CloseLedger, ChainOK
    <3>2. PICK inc \in SUBSET pool :
            /\ \E res \in [inc -> IF "onchainFailure" \in Faults
                                   THEN Results ELSE {"success"}] :
                 landed' = landed \union
                   {[env |-> e, ledger |-> head + 1, result |-> res[e]] : e \in inc}
            /\ acctSeq' = [a \in Accounts |->
                 acctSeq[a] + IF \E e \in inc : e.acct = a THEN 1 ELSE 0]
            /\ pool' \subseteq pool
      BY <2>3 DEF CloseLedger
    <3>3. pool' \subseteq Envelope
      BY <3>2 DEF ChainOK
    <3>4. acctSeq' \in [Accounts -> Nat]
      BY <3>2 DEF ChainOK
    <3>5. landed' \subseteq [env : Envelope, ledger : Nat, result : Results]
      <4>1. PICK res \in [inc -> IF "onchainFailure" \in Faults
                                   THEN Results ELSE {"success"}] :
                 landed' = landed \union
                   {[env |-> e, ledger |-> head + 1, result |-> res[e]] : e \in inc}
        BY <3>2
      <4>2. \A e \in inc : res[e] \in Results
        BY <4>1 DEF Results
      <4>3. \A e \in inc : e \in Envelope
        BY <3>2 DEF ChainOK
      <4>4. head + 1 \in Nat
        BY DEF ChainOK
      <4> QED BY <4>1, <4>2, <4>3, <4>4 DEF ChainOK
    <3> QED BY <3>1, <3>3, <3>4, <3>5 DEF ChainOK
  <2> QED BY <2>1, <2>2, <2>3
<1> QED BY <1>2, <1>3, <1>4, <1>5

\* --------------------------------------------------------------------------
\* The broadcast loop.

LEMMA NextTxOK == ASSUME NextTx PROVE LoopOK'
BY DEF NextTx, LoopOK, Idle, BRecord, BroadcastPc, Working, Holding, Sending

LEMMA MarkFailedOK ==
  ASSUME TxmAssumption, ReqOK, b.tx \in Calls, MarkFailed, UNCHANGED caller
  PROVE  ReqOK' /\ LoopOK'
<1>1. tx[b.tx] \in TxRecord
  BY DEF ReqOK
<1>2. /\ tx' \in [Calls -> TxRecord]
      /\ transactions' \in [Ids -> Calls \union {NoCall}]
  BY <1>1, UpdateStatusOK DEF MarkFailed
<1> QED BY <1>2, NextTxOK DEF MarkFailed, ReqOK

\* A sequence that is free in st is given back, and the request fails.
LEMMA ReleaseAndFailOK ==
  ASSUME TxmAssumption, ReqOK, StoresOK, SnapOK, b.tx \in Calls,
         NEW st \in StoreRecord, NEW seq \in Nat, StoreOK(st),
         st.unconf = St.unconf, CanAddUnconfirmed(st, seq),
         ReleaseAndFail(st, seq), UNCHANGED <<caller, confVars>>
  PROVE  ReqOK' /\ StoresOK' /\ SnapOK' /\ LoopOK'
<1>1. ReqOK' /\ LoopOK'
  BY MarkFailedOK DEF ReleaseAndFail
<1>2. Acct \in Accounts
  BY DEF Acct, TxmAssumption
<1> DEFINE r == Release(st, seq)
<1>3. r \in StoreRecord /\ StoreOK(r) /\ r.unconf = store[Acct].unconf
  BY ReleaseOK DEF St
<1>4. store' = [store EXCEPT ![Acct] = r]
  BY DEF ReleaseAndFail, SetStore
<1>5. \A e \in r.unconf : e.acct = Acct /\ e.tx \in Calls
  BY <1>2, <1>3 DEF StoresOK
<1> HIDE DEF r
<1> QED BY <1>1, <1>2, <1>3, <1>4, <1>5, SetStoreOK

\* One more attempt with a sequence that is free in st.
LEMMA ResubmitOK ==
  ASSUME TxmAssumption, ReqOK, StoresOK, SnapOK, b \in BRecord, b.tx \in Calls,
         NEW st \in StoreRecord, NEW nb \in BRecord, NEW pc \in {"delay", "simulate"},
         StoreOK(st), st.unconf = St.unconf, nb.tx = b.tx,
         CanAddUnconfirmed(st, nb.seq),
         Resubmit(st, nb, pc), UNCHANGED <<caller, confVars>>
  PROVE  ReqOK' /\ StoresOK' /\ SnapOK' /\ LoopOK'
<1>1. nb.seq \in Nat
  BY DEF BRecord
<1>2. CASE b.sub + 1 >= MaxSubmitRetryAttempts
  BY <1>1, <1>2, ReleaseAndFailOK DEF Resubmit
<1>3. CASE ~(b.sub + 1 >= MaxSubmitRetryAttempts)
  <2>1. /\ SetStore(st) /\ UNCHANGED <<tx, transactions>>
        /\ b' = [nb EXCEPT !.sub = @ + 1, !.pc = pc, !.env = NoEnvelope]
    BY <1>3 DEF Resubmit
  <2>2. Acct \in Accounts
    BY DEF Acct, TxmAssumption
  <2>3. \A e \in st.unconf : e.acct = Acct /\ e.tx \in Calls
    BY <2>2 DEF StoresOK, St
  <2>4. StoresOK' /\ SnapOK'
    <3>1. store[Acct].unconf \subseteq st.unconf /\ store' = [store EXCEPT ![Acct] = st]
      BY <2>1 DEF SetStore, St
    <3> QED BY <2>2, <2>3, <3>1, SetStoreOK
  <2>5. /\ b' \in BRecord /\ b'.tx = b.tx /\ b'.pc = pc /\ b'.seq = nb.seq
    <3>1. pc \in BroadcastPc /\ nb.sub + 1 \in Nat
      BY DEF BRecord, BroadcastPc
    <3> QED BY <2>1, <3>1 DEF BRecord
  <2>6. store'[Acct] = st
    BY <2>1, <2>2 DEF SetStore, StoresOK
  <2>7. LoopOK'
    BY <2>5, <2>6 DEF LoopOK, Working, Holding, Sending, St, Acct
  <2> QED BY <2>1, <2>4, <2>7 DEF ReqOK
<1> QED BY <1>2, <1>3

LEMMA BestEffortOK ==
  ASSUME TxmAssumption, ChainOK, b.tx \in Calls, NEW st \in StoreRecord, StoreOK(st),
         NEW r \in BestEffort(st) \union Resynced(st)
  PROVE  r \in StoreRecord /\ StoreOK(r) /\ r.unconf = st.unconf
<1>1. CASE r = st
  BY <1>1
<1>2. CASE r \in Resynced(st)
  <2>1. PICK s \in SeqViews(Acct) : r = ResyncNonce(st, s + 1)
    BY <1>2 DEF Resynced
  <2>2. Acct \in Accounts
    BY DEF Acct, TxmAssumption
  <2>3. s + 1 \in Nat
    BY <2>2 DEF SeqViews, ChainOK
  <2> QED BY <2>1, <2>3, ResyncOK
<1> QED BY <1>1, <1>2 DEF BestEffort

\* The store of the account whose request is being broadcast.
LEMMA AcctStore ==
  ASSUME TxmAssumption, StoresOK, b.tx \in Calls
  PROVE  Acct \in Accounts /\ St \in StoreRecord /\ StoreOK(St)
BY DEF Acct, St, StoresOK, TxmAssumption

LEMMA StoresFrame ==
  ASSUME StoresOK, SnapOK, UNCHANGED <<store, todo, cur>>
  PROVE  StoresOK' /\ SnapOK'
BY DEF StoresOK, SnapOK

LEMMA ChainFrame ==
  ASSUME ChainOK, UNCHANGED <<stopped, halted, chainVars, lossy>>
  PROVE  ChainOK'
BY DEF ChainOK, chainVars

\* Taking requests from the channel and picking the next one.
LEMMA BatchInv ==
  ASSUME TxmAssumption, Inv, BRecv \/ BDrain \/ BPick \/ BInfraRequeue \/ BHalt
  PROVE  Inv'
<1> USE DEF Inv
<1>1. UNCHANGED <<caller, tx, transactions, store, todo, cur, stopped, head,
                  acctSeq, pool, landed, lossy>>
  BY DEF BRecv, BDrain, BPick, BInfraRequeue, BHalt, BFrame, confVars, chainVars,
         reqVars
<1>2. ReqOK'
  BY <1>1 DEF ReqOK
<1>3. StoresOK' /\ SnapOK'
  BY <1>1, StoresFrame
<1>4. ChainOK'
  BY <1>1 DEF BRecv, BDrain, BPick, BInfraRequeue, BHalt, BFrame, ChainOK, Loops
<1>5. QueueOK'
  <2>1. CASE BRecv
    BY <2>1 DEF BRecv, QueueOK
  <2>2. CASE BDrain
    <3>1. CASE queue = <<>>
      BY <2>2, <3>1 DEF BDrain, QueueOK
    <3>2. CASE queue # <<>>
      <4>1. batch' = batch \union {Head(queue)} /\ queue' = Tail(queue)
        BY <2>2, <3>2 DEF BDrain
      <4>2. Head(queue) \in Calls /\ Tail(queue) \in Seq(Calls)
        BY <3>2 DEF QueueOK
      <4> QED BY <4>1, <4>2 DEF QueueOK
    <3> QED BY <3>1, <3>2
  <2>3. CASE BPick
    BY <2>3 DEF BPick, QueueOK
  <2>4. CASE BInfraRequeue
    <3>1. b.tx \in Calls
      BY <2>4 DEF BInfraRequeue, LoopOK, Working
    <3>2. queue' = queue \/ queue' = Append(queue, b.tx)
      BY <2>4 DEF BInfraRequeue
    <3>3. batch' = batch
      BY <2>4 DEF BInfraRequeue
    <3>4. Append(queue, b.tx) \in Seq(Calls)
      BY <3>1 DEF QueueOK
    <3>5. queue' \in Seq(Calls)
      BY <3>2, <3>4 DEF QueueOK
    <3> QED BY <3>3, <3>5 DEF QueueOK
  <2>5. CASE BHalt
    BY <2>5 DEF BHalt, QueueOK
  <2> QED BY <2>1, <2>2, <2>3, <2>4, <2>5
<1>6. LoopOK'
  <2>1. CASE BRecv
    BY <2>1 DEF BRecv, LoopOK, BRecord, BroadcastPc, Working, Holding, Sending
  <2>2. CASE BDrain
    <3>1. b.pc = "drain" /\ (b' = b \/ b' = [b EXCEPT !.pc = "next"])
      BY <2>2 DEF BDrain
    <3>2. b' \in BRecord /\ b'.pc \in {"drain", "next"}
      BY <3>1 DEF LoopOK, BRecord, BroadcastPc
    <3> QED BY <3>2 DEF LoopOK, Working, Holding, Sending
  <2>3. CASE BPick
    <3>1. CASE b' = Idle
      BY <3>1 DEF LoopOK, Idle, BRecord, BroadcastPc, Working, Holding, Sending
    <3>2. CASE \E c \in batch : b' = [Idle EXCEPT !.pc = "begin", !.tx = c]
      <4>1. PICK c \in Calls : b' = [Idle EXCEPT !.pc = "begin", !.tx = c]
        BY <3>2 DEF QueueOK
      <4>2. b' \in BRecord /\ b'.pc = "begin" /\ b'.tx = c
        BY <4>1 DEF Idle, BRecord, BroadcastPc
      <4> QED BY <4>2 DEF LoopOK, Working, Holding, Sending
    <3> QED BY <2>3, <3>1, <3>2 DEF BPick
  <2>4. CASE BInfraRequeue
    BY <2>4, NextTxOK DEF BInfraRequeue
  <2>5. CASE BHalt
    BY <1>1, <2>5 DEF BHalt, LoopOK, St, Acct
  <2> QED BY <2>1, <2>2, <2>3, <2>4, <2>5
<1> QED BY <1>2, <1>3, <1>4, <1>5, <1>6

\* The start of a broadcast, up to the sequence it will use.
LEMMA BeginInv ==
  ASSUME TxmAssumption, Inv,
         BGetClientFail \/ BSequenceFail \/ BBegin \/ BPublish
  PROVE  Inv'
<1> USE DEF Inv
<1>1. UNCHANGED <<caller, queue, batch, todo, cur, stopped, halted, chainVars, lossy>>
  BY DEF BGetClientFail, BSequenceFail, BBegin, BPublish, BFrame, confVars
<1>2. ChainOK' /\ QueueOK'
  BY <1>1, ChainFrame DEF QueueOK
<1>3. b.tx \in Calls /\ b \in BRecord /\ tx[b.tx] \in TxRecord
  BY DEF BGetClientFail, BSequenceFail, BBegin, BPublish, LoopOK, Working, ReqOK
<1>4. CASE BGetClientFail
  <2>1. StoresOK' /\ SnapOK'
    BY <1>1, <1>4, StoresFrame DEF BGetClientFail
  <2> DEFINE t == [tx[b.tx] EXCEPT !.infra = @ + 1]
  <2>2. t \in TxRecord
    BY <1>3 DEF TxRecord
  <2>3. CASE /\ tx' = [tx EXCEPT ![b.tx] = t] /\ UNCHANGED transactions
             /\ b' = [b EXCEPT !.pc = "infra"]
    <3>1. ReqOK'
      BY <1>1, <1>3, <2>2, <2>3 DEF ReqOK
    <3>2. LoopOK'
      BY <1>3, <2>3 DEF LoopOK, BRecord, BroadcastPc, Working, Holding, Sending
    <3> QED BY <1>2, <2>1, <3>1, <3>2
  <2>4. CASE UpdateStatus(b.tx, t, "Failed") /\ NextTx
    <3>1. ReqOK'
      BY <1>1, <1>3, <2>2, <2>4, UpdateStatusOK DEF ReqOK
    <3> QED BY <1>2, <2>1, <2>4, <3>1, NextTxOK
  <2> QED BY <1>4, <2>3, <2>4 DEF BGetClientFail
<1>5. CASE BSequenceFail
  BY <1>1, <1>2, <1>3, <1>5, MarkFailedOK, StoresFrame DEF BSequenceFail
<1>6. CASE BBegin
  <2>1. PICK st0, st, seq :
          /\ st0 \in IF St = NoStore THEN {NewTxStore(s + 1) : s \in SeqViews(Acct)}
                                     ELSE {St}
          /\ st \in IF tx[b.tx].attempt > 0 THEN BestEffort(st0) ELSE {st0}
          /\ seq \in GetNextSequence(st)
          /\ SetStore(st) /\ b' = [b EXCEPT !.pc = "simulate", !.seq = seq]
    BY <1>6 DEF BBegin
  <2>2. Acct \in Accounts /\ St \in StoreRecord /\ StoreOK(St)
    BY <1>3, AcctStore
  <2>3. st0 \in StoreRecord /\ StoreOK(st0) /\ st0.unconf = St.unconf
    <3>1. CASE St = NoStore
      <4>1. PICK s \in SeqViews(Acct) : st0 = NewTxStore(s + 1)
        BY <2>1, <3>1
      <4>2. s + 1 \in Nat
        BY <2>2 DEF SeqViews, ChainOK
      <4>3. st0.unconf = {} /\ NoStore.unconf = {}
        BY <4>1 DEF NewTxStore, NoStore
      <4> QED BY <3>1, <4>1, <4>2, <4>3, NewTxStoreOK
    <3> QED BY <2>1, <2>2, <3>1
  <2>4. st \in StoreRecord /\ StoreOK(st) /\ st.unconf = St.unconf
    BY <1>3, <2>1, <2>3, BestEffortOK
  <2>5. seq \in Nat /\ CanAddUnconfirmed(st, seq)
    BY <2>1, <2>4, GetNextOK
  <2>6. StoresOK' /\ SnapOK'
    <3>1. \A e \in st.unconf : e.acct = Acct /\ e.tx \in Calls
      BY <2>2, <2>4 DEF StoresOK, St
    <3>2. store[Acct].unconf \subseteq st.unconf /\ store' = [store EXCEPT ![Acct] = st]
      BY <2>1, <2>4 DEF SetStore, St
    <3> QED BY <1>1, <2>2, <2>4, <3>1, <3>2, SetStoreOK DEF confVars
  <2>7. LoopOK'
    <3>1. b' \in BRecord /\ b'.pc = "simulate" /\ b'.tx = b.tx /\ b'.seq = seq
      BY <1>3, <2>1, <2>5 DEF BRecord, BroadcastPc
    <3>2. store'[Acct] = st
      BY <2>1, <2>2 DEF SetStore, StoresOK
    <3> QED BY <1>3, <2>5, <3>1, <3>2 DEF LoopOK, Working, Holding, Sending, St, Acct
  <2>8. ReqOK'
    BY <1>1, <1>6 DEF BBegin, ReqOK
  <2> QED BY <1>2, <2>6, <2>7, <2>8
<1>7. CASE BPublish
  <2>1. ReqOK'
    BY <1>1, <1>3, <1>7, UpdateStatusOK DEF BPublish, ReqOK
  <2> QED BY <1>1, <1>2, <1>7, <2>1, NextTxOK, StoresFrame DEF BPublish
<1> QED BY <1>4, <1>5, <1>6, <1>7

\* Building the envelope: simulation, and the delay before the next attempt.
LEMMA SimulateInv ==
  ASSUME TxmAssumption, Inv, BSimulateFail \/ BSimulate \/ BDelay
  PROVE  Inv'
<1> USE DEF Inv
<1>1. UNCHANGED <<caller, queue, batch, todo, cur, stopped, halted, chainVars, lossy>>
  BY DEF BSimulateFail, BSimulate, BDelay, BFrame, confVars
<1>2. ChainOK' /\ QueueOK'
  BY <1>1, ChainFrame DEF QueueOK
<1>3. /\ b \in BRecord /\ b.tx \in Calls /\ b.seq \in Nat
      /\ CanAddUnconfirmed(St, b.seq)
  BY DEF BSimulateFail, BSimulate, BDelay, LoopOK, Working, Holding, BRecord
<1>4. Acct \in Accounts /\ St \in StoreRecord /\ StoreOK(St)
  BY <1>3, AcctStore
<1>5. CASE BSimulateFail
  BY <1>1, <1>2, <1>3, <1>4, <1>5, ReleaseAndFailOK DEF BSimulateFail, confVars
<1>6. CASE BSimulate
  <2>1. PICK v \in RpcViews :
       b' = [b EXCEPT !.pc = "send", !.env =
              [kind |-> "invoke", tx |-> b.tx, acct |-> Acct, seq |-> b.seq,
               maxLedger |-> Larger(v, b.floor) + LedgerBoundsOffset,
               maxTime |-> head + TxTimeout]]
    BY <1>6 DEF BSimulate
  <2> DEFINE ml == Larger(v, b.floor) + LedgerBoundsOffset
             mt == head + TxTimeout
             e == [kind |-> "invoke", tx |-> b.tx, acct |-> Acct, seq |-> b.seq,
                   maxLedger |-> ml, maxTime |-> mt]
  <2>2. ml \in Nat /\ mt \in Nat
    <3>1. v \in Nat /\ b.floor \in Nat /\ head \in Nat
      BY <1>3 DEF RpcViews, ChainOK, BRecord
    <3>2. Larger(v, b.floor) \in Nat
      BY <3>1 DEF Larger
    <3> QED BY <3>1, <3>2 DEF TxmAssumption
  <2> HIDE DEF ml, mt
  <2>3. e \in Envelope /\ e.seq = b.seq /\ e.acct = Acct /\ e.tx = b.tx
    BY <1>3, <1>4, <2>2 DEF Envelope
  <2>4. b' = [b EXCEPT !.pc = "send", !.env = e]
    BY <2>1 DEF ml, mt
  <2> HIDE DEF e
  <2>5. /\ b' \in BRecord /\ b'.pc = "send" /\ b'.tx = b.tx /\ b'.seq = b.seq
        /\ b'.env = e
    BY <1>3, <2>3, <2>4 DEF BRecord, BroadcastPc
  <2>6. UNCHANGED <<store, tx, transactions>>
    BY <1>6 DEF BSimulate
  <2>7. LoopOK'
    BY <1>3, <2>3, <2>5, <2>6 DEF LoopOK, Working, Holding, Sending, St, Acct
  <2>8. ReqOK'
    BY <1>1, <2>6 DEF ReqOK
  <2> QED BY <1>1, <1>2, <2>6, <2>7, <2>8, StoresFrame
<1>7. CASE BDelay
  <2>1. UNCHANGED <<tx, transactions>>
    BY <1>7 DEF BDelay
  <2>2. ReqOK'
    BY <1>1, <2>1 DEF ReqOK
  <2>3. CASE b' = [b EXCEPT !.pc = "simulate"] /\ UNCHANGED store
    <3>1. /\ b' \in BRecord /\ b'.pc = "simulate" /\ b'.tx = b.tx /\ b'.seq = b.seq
      BY <1>3, <2>3 DEF BRecord, BroadcastPc
    <3>2. LoopOK'
      BY <1>3, <2>3, <3>1 DEF LoopOK, Working, Holding, Sending, St, Acct
    <3> QED BY <1>1, <1>2, <2>2, <2>3, <3>2, StoresFrame
  <2>4. CASE SetStore(Release(St, b.seq)) /\ NextTx
    <3> DEFINE r == Release(St, b.seq)
    <3>1. r \in StoreRecord /\ StoreOK(r) /\ r.unconf = St.unconf
      BY <1>3, <1>4, ReleaseOK
    <3>2. store' = [store EXCEPT ![Acct] = r]
      BY <2>4 DEF SetStore
    <3> HIDE DEF r
    <3>3. \A e \in r.unconf : e.acct = Acct /\ e.tx \in Calls
      BY <1>4, <3>1 DEF StoresOK, St
    <3>4. store[Acct].unconf \subseteq r.unconf
      BY <3>1 DEF St
    <3>5. StoresOK' /\ SnapOK'
      BY <1>1, <1>4, <3>1, <3>2, <3>3, <3>4, SetStoreOK DEF confVars
    <3> QED BY <1>2, <2>2, <2>4, <3>5, NextTxOK
  <2> QED BY <1>7, <2>3, <2>4 DEF BDelay
<1> QED BY <1>5, <1>6, <1>7

\* SendTransaction and every answer to it.
LEMMA SendInv == ASSUME TxmAssumption, Inv, BSend PROVE Inv'
<1> USE DEF Inv
<1>1. UNCHANGED <<caller, queue, batch, todo, cur, stopped, halted, head, acctSeq, landed>>
  BY DEF BSend, BSendAccepted, BSendError, BSendReject, BSendFatal, BSendTooLate,
         BSendBadSeq, BFrame, confVars, chainVars
<1>2. /\ b \in BRecord /\ b.tx \in Calls /\ b.seq \in Nat
      /\ CanAddUnconfirmed(St, b.seq)
      /\ b.env \in Envelope /\ b.env.seq = b.seq /\ b.env.acct = Acct
      /\ b.env.tx = b.tx
  BY DEF BSend, BSendAccepted, BSendError, BSendReject, BSendFatal, BSendTooLate,
         BSendBadSeq, LoopOK, Working, Holding, Sending, BRecord
<1>3. Acct \in Accounts /\ St \in StoreRecord /\ StoreOK(St)
  BY <1>2, AcctStore
<1>4. QueueOK'
  BY <1>1 DEF QueueOK
<1>5. ChainOK'
  <2>1. pool' = pool \/ pool' = pool \union {b.env}
    BY DEF BSend, BSendAccepted, BSendError, BSendReject, BSendFatal, BSendTooLate,
           BSendBadSeq, Deliver, chainVars
  <2>2. lossy' = lossy \/ lossy' = lossy \union {b.tx}
    BY DEF BSend, BSendAccepted, BSendError, BSendReject, BSendFatal, BSendTooLate,
           BSendBadSeq
  <2> QED BY <1>1, <1>2, <2>1, <2>2 DEF ChainOK
<1>6. UNCHANGED <<caller, confVars>>
  BY <1>1 DEF confVars
<1>7. CASE BSendAccepted
  <2> DEFINE r == AddUnconfirmed(St, b.env)
  <2>1. /\ SetStore(r) /\ b' = [b EXCEPT !.pc = "publish"]
        /\ UNCHANGED <<tx, transactions>>
    BY <1>2, <1>7 DEF BSendAccepted
  <2>2. r \in StoreRecord /\ StoreOK(r) /\ r.unconf = St.unconf \union {b.env}
    BY <1>2, <1>3, AddOK
  <2>3. store' = [store EXCEPT ![Acct] = r]
    BY <2>1 DEF SetStore
  <2> HIDE DEF r
  <2>4. \A e \in r.unconf : e.acct = Acct /\ e.tx \in Calls
    BY <1>2, <1>3, <2>2 DEF StoresOK, St
  <2>5. store[Acct].unconf \subseteq r.unconf
    BY <2>2 DEF St
  <2>6. StoresOK' /\ SnapOK'
    BY <1>3, <1>6, <2>2, <2>3, <2>4, <2>5, SetStoreOK
  <2>7. b' \in BRecord /\ b'.pc = "publish" /\ b'.tx = b.tx
    BY <1>2, <2>1 DEF BRecord, BroadcastPc
  <2>8. LoopOK'
    BY <1>2, <2>7 DEF LoopOK, Working, Holding, Sending
  <2>9. ReqOK'
    BY <1>1, <2>1 DEF ReqOK
  <2> QED BY <1>4, <1>5, <2>6, <2>8, <2>9
<1>8. CASE BSendError \/ BSendReject
  <2>1. Resubmit(St, b, "delay")
    BY <1>8 DEF BSendError, BSendReject
  <2> QED BY <1>2, <1>3, <1>4, <1>5, <1>6, <2>1, ResubmitOK
<1>9. CASE BSendFatal
  BY <1>2, <1>3, <1>4, <1>5, <1>6, <1>9, ReleaseAndFailOK DEF BSendFatal
<1>10. CASE BSendTooLate
  <2> DEFINE fl == Larger(b.floor, b.env.maxLedger - 1)
             nb == [b EXCEPT !.floor = fl]
             nl == [nb EXCEPT !.late = @ + 1]
  <2>1. fl \in Nat
    <3>1. b.floor \in Nat /\ b.env.maxLedger \in Nat
      BY <1>2 DEF BRecord, Envelope
    <3> QED BY <3>1 DEF Larger
  <2>2. Resubmit(St, nl, "simulate") \/ Resubmit(St, nb, "delay")
    BY <1>10 DEF BSendTooLate
  <2> HIDE DEF fl
  <2>3. nb \in BRecord /\ nb.tx = b.tx /\ nb.seq = b.seq
    BY <1>2, <2>1 DEF BRecord
  <2> HIDE DEF nb
  <2>4. nl \in BRecord /\ nl.tx = b.tx /\ nl.seq = b.seq
    BY <2>3 DEF BRecord
  <2> HIDE DEF nl
  <2>5. CASE Resubmit(St, nl, "simulate")
    BY <1>2, <1>3, <1>4, <1>5, <1>6, <2>4, <2>5, ResubmitOK
  <2>6. CASE Resubmit(St, nb, "delay")
    BY <1>2, <1>3, <1>4, <1>5, <1>6, <2>3, <2>6, ResubmitOK
  <2> QED BY <2>2, <2>5, <2>6
<1>11. CASE BSendBadSeq
  <2>1. PICK st, seq :
          /\ st \in BestEffort(St) /\ seq \in GetNextSequence(st)
          /\ Resubmit(st, [b EXCEPT !.seq = seq],
                      IF seq = b.seq THEN "delay" ELSE "simulate")
    BY <1>11 DEF BSendBadSeq
  <2>2. st \in StoreRecord /\ StoreOK(st) /\ st.unconf = St.unconf
    BY <1>2, <1>3, <2>1, BestEffortOK
  <2>3. seq \in Nat /\ CanAddUnconfirmed(st, seq)
    BY <2>1, <2>2, GetNextOK
  <2> DEFINE nb == [b EXCEPT !.seq = seq]
             pc == IF seq = b.seq THEN "delay" ELSE "simulate"
  <2>4. nb \in BRecord /\ nb.tx = b.tx /\ nb.seq = seq
    BY <1>2, <2>3 DEF BRecord
  <2>5. pc \in {"delay", "simulate"} /\ Resubmit(st, nb, pc)
    BY <2>1
  <2> HIDE DEF nb, pc
  <2> QED BY <1>2, <1>4, <1>5, <1>6, <2>2, <2>3, <2>4, <2>5, ResubmitOK
<1> QED BY <1>7, <1>8, <1>9, <1>10, <1>11 DEF BSend

\* Restoring an archived footprint.
LEMMA RestoreInv == ASSUME TxmAssumption, Inv, BRestore PROVE Inv'
<1> USE DEF Inv
<1>1. UNCHANGED <<caller, queue, batch, todo, cur, stopped, halted, head, acctSeq,
                  landed, lossy>>
  BY DEF BRestore, BRestoreStart, BRestoreSend, BRestoreSendError, BRestoreFail,
         BRestoreSuccess, BRestoreLandedFailed, BRestorePollTimeout, BFrame,
         confVars, chainVars
<1>2. /\ b \in BRecord /\ b.tx \in Calls /\ b.seq \in Nat
      /\ CanAddUnconfirmed(St, b.seq)
  BY DEF BRestore, BRestoreStart, BRestoreSend, BRestoreSendError, BRestoreFail,
         BRestoreSuccess, BRestoreLandedFailed, BRestorePollTimeout, LoopOK,
         Working, Holding, BRecord
<1>3. ~BRestoreStart => /\ b.env \in Envelope /\ b.env.seq = b.seq
                        /\ b.env.acct = Acct /\ b.env.tx = b.tx
  BY DEF BRestore, BRestoreSend, BRestoreSendError, BRestoreFail,
         BRestoreSuccess, BRestoreLandedFailed, BRestorePollTimeout, LoopOK, Sending
<1>4. Acct \in Accounts /\ St \in StoreRecord /\ StoreOK(St)
  BY <1>2, AcctStore
<1>5. QueueOK'
  BY <1>1 DEF QueueOK
<1>6. ChainOK'
  <2>1. pool' = pool \/ (~BRestoreStart /\ pool' = pool \union {b.env})
    BY DEF BRestore, BRestoreStart, BRestoreSend, BRestoreSendError, BRestoreFail,
           BRestoreSuccess, BRestoreLandedFailed, BRestorePollTimeout, Deliver,
           chainVars
  <2> QED BY <1>1, <1>3, <2>1 DEF ChainOK
<1>7. UNCHANGED <<caller, confVars>>
  BY <1>1 DEF confVars
<1>8. ASSUME UNCHANGED <<store, tx, transactions>>, LoopOK' PROVE Inv'
  <2>1. ReqOK'
    BY <1>1, <1>8 DEF ReqOK
  <2> QED BY <1>1, <1>5, <1>6, <1>8, <2>1, StoresFrame
<1>9. CASE BRestoreStart
  <2> DEFINE mt == head + TxTimeout
             e == [kind |-> "restore", tx |-> b.tx, acct |-> Acct, seq |-> b.seq,
                   maxLedger |-> 0, maxTime |-> mt]
  <2>1. mt \in Nat
    BY DEF ChainOK, TxmAssumption
  <2>2. b' = [b EXCEPT !.pc = "restore", !.rtry = 0, !.env = e]
    BY <1>9 DEF BRestoreStart
  <2> HIDE DEF mt
  <2>3. e \in Envelope /\ e.seq = b.seq /\ e.acct = Acct /\ e.tx = b.tx
    BY <1>2, <1>4, <2>1 DEF Envelope
  <2> HIDE DEF e
  <2>4. /\ b' \in BRecord /\ b'.pc = "restore" /\ b'.tx = b.tx /\ b'.seq = b.seq
        /\ b'.env = e
    BY <1>2, <2>2, <2>3 DEF BRecord, BroadcastPc
  <2>5. UNCHANGED <<store, tx, transactions>>
    BY <1>9 DEF BRestoreStart
  <2>6. LoopOK'
    BY <1>2, <2>3, <2>4, <2>5 DEF LoopOK, Working, Holding, Sending, St, Acct
  <2> QED BY <1>8, <2>5, <2>6
<1>10. CASE BRestoreSend \/ BRestoreSendError \/ BRestorePollTimeout
  <2>1. UNCHANGED <<store, tx, transactions>>
    BY <1>10 DEF BRestoreSend, BRestoreSendError, BRestorePollTimeout
  <2>2. /\ b.pc \in {"restore", "poll"}
        /\ \/ b' = [b EXCEPT !.pc = "poll"]
           \/ b' = [b EXCEPT !.rtry = @ + 1]
           \/ b' = [b EXCEPT !.pc = "restore", !.rtry = @ + 1]
    BY <1>10 DEF BRestoreSend, BRestoreSendError, BRestorePollTimeout
  <2>3. /\ b' \in BRecord /\ b'.pc \in {"restore", "poll"} /\ b'.tx = b.tx
        /\ b'.seq = b.seq /\ b'.env = b.env
    <3>1. CASE b' = [b EXCEPT !.pc = "poll"]
      BY <1>2, <3>1 DEF BRecord, BroadcastPc
    <3> DEFINE rt == b.rtry + 1
    <3>2. rt \in Nat
      BY <1>2 DEF BRecord
    <3>3. CASE b' = [b EXCEPT !.rtry = @ + 1]
      <4>1. b' = [b EXCEPT !.rtry = rt]
        BY <3>3
      <4> HIDE DEF rt
      <4> QED BY <1>2, <2>2, <3>2, <4>1 DEF BRecord
    <3>4. CASE b' = [b EXCEPT !.pc = "restore", !.rtry = @ + 1]
      <4>1. b' = [b EXCEPT !.pc = "restore", !.rtry = rt]
        BY <3>4
      <4> HIDE DEF rt
      <4> QED BY <1>2, <3>2, <4>1 DEF BRecord, BroadcastPc
    <3> QED BY <2>2, <3>1, <3>3, <3>4
  <2>4. ~BRestoreStart
    BY <2>2 DEF BRestoreStart
  <2>5. LoopOK'
    BY <1>2, <1>3, <2>1, <2>3, <2>4 DEF LoopOK, Working, Holding, Sending, St, Acct
  <2> QED BY <1>8, <2>1, <2>5
<1>11. ASSUME ReleaseAndFail(St, b.seq) PROVE Inv'
  BY <1>2, <1>4, <1>5, <1>6, <1>7, <1>11, ReleaseAndFailOK
<1>12. CASE BRestoreFail \/ BRestoreLandedFailed
  BY <1>11, <1>12 DEF BRestoreFail, BRestoreLandedFailed
<1>13. CASE BRestoreSuccess
  <2>1. CASE ReleaseAndFail(St, b.seq)
    BY <1>11, <2>1
  <2>2. CASE \E st \in Resynced(St) : \E seq \in GetNextSequence(st) :
               /\ SetStore(st)
               /\ b' = [b EXCEPT !.pc = "simulate", !.seq = seq, !.restored = TRUE,
                                 !.rtry = 0, !.env = NoEnvelope]
               /\ UNCHANGED <<tx, transactions>>
    <3>1. PICK st, seq :
               /\ st \in Resynced(St) /\ seq \in GetNextSequence(st)
               /\ SetStore(st)
               /\ b' = [b EXCEPT !.pc = "simulate", !.seq = seq, !.restored = TRUE,
                                 !.rtry = 0, !.env = NoEnvelope]
               /\ UNCHANGED <<tx, transactions>>
      BY <2>2
    <3>2. st \in StoreRecord /\ StoreOK(st) /\ st.unconf = St.unconf
      BY <1>2, <1>4, <3>1, BestEffortOK
    <3>3. seq \in Nat /\ CanAddUnconfirmed(st, seq)
      BY <3>1, <3>2, GetNextOK
    <3>4. StoresOK' /\ SnapOK'
      <4>1. \A e \in st.unconf : e.acct = Acct /\ e.tx \in Calls
        BY <1>4, <3>2 DEF StoresOK, St
      <4>2. store[Acct].unconf \subseteq st.unconf /\ store' = [store EXCEPT ![Acct] = st]
        BY <3>1, <3>2 DEF SetStore, St
      <4> QED BY <1>4, <1>7, <3>2, <4>1, <4>2, SetStoreOK
    <3>5. b' \in BRecord /\ b'.pc = "simulate" /\ b'.tx = b.tx /\ b'.seq = seq
      BY <1>2, <3>1, <3>3 DEF BRecord, BroadcastPc
    <3>6. store'[Acct] = st
      BY <1>4, <3>1 DEF SetStore, StoresOK
    <3>7. LoopOK'
      BY <1>2, <3>3, <3>5, <3>6 DEF LoopOK, Working, Holding, Sending, St, Acct
    <3>8. ReqOK'
      BY <1>1, <3>1 DEF ReqOK
    <3> QED BY <1>5, <1>6, <3>4, <3>7, <3>8
  <2> QED BY <1>13, <2>1, <2>2 DEF BRestoreSuccess
<1> QED BY <1>9, <1>10, <1>12, <1>13 DEF BRestore

\* --------------------------------------------------------------------------
\* The confirm loop.

\* The sequence the broadcast loop holds stays free when an envelope leaves the
\* store of its account.
LEMMA ConfirmStoreOK ==
  ASSUME TxmAssumption, StoresOK, SnapOK, LoopOK, NEW e \in todo,
         NEW failed \in BOOLEAN, ConfirmStore(e, failed), NextPoll(e), b' = b
  PROVE  StoresOK' /\ SnapOK' /\ LoopOK'
<1>1. e \in Envelope /\ e.acct \in Accounts /\ e \in store[e.acct].unconf
  BY DEF SnapOK, Envelope
<1> DEFINE a == e.acct
           st == store[a]
           r == Confirm(st, e, failed)
<1>2. st \in StoreRecord /\ StoreOK(st)
  BY <1>1 DEF StoresOK
<1>3. r \in StoreRecord /\ StoreOK(r) /\ r.unconf = st.unconf \ {e}
  BY <1>1, <1>2, ConfirmOK DEF CanConfirm
<1>4. st.failed \subseteq r.failed /\ r.next = st.next
  BY <1>2 DEF Confirm, StoreRecord
<1>5. store' = [store EXCEPT ![a] = r]
  BY DEF ConfirmStore
<1> HIDE DEF r
<1>6. StoresOK'
  BY <1>1, <1>3, <1>5 DEF StoresOK
<1>7. SnapOK'
  <2>1. \A f \in todo \ {e} : f \in store'[f.acct].unconf
    BY <1>1, <1>3, <1>5 DEF StoresOK, SnapOK, Envelope
  <2> QED BY <2>1 DEF SnapOK, NextPoll
<1>8. LoopOK'
  <2>1. ASSUME b.pc \in Holding, b.tx \in Calls
        PROVE  CanAddUnconfirmed(store'[Acct], b.seq)
    <3>1. Acct \in Accounts
      BY <2>1 DEF Acct, TxmAssumption
    <3>2. CanAddUnconfirmed(store[Acct], b.seq)
      BY <2>1 DEF LoopOK, St
    <3>3. CASE Acct = a
      <4>1. store'[Acct] = r
        BY <1>1, <1>5, <3>3 DEF StoresOK
      <4> QED BY <1>3, <1>4, <3>2, <3>3, <4>1 DEF CanAddUnconfirmed, UnconfSeqs
    <3>4. CASE Acct # a
      <4>1. store'[Acct] = store[Acct]
        BY <1>5, <3>1, <3>4 DEF StoresOK
      <4> QED BY <3>2, <4>1
    <3> QED BY <3>3, <3>4
  <2> QED BY <2>1 DEF LoopOK, Working, Holding, Sending, St, Acct
<1> QED BY <1>6, <1>7, <1>8

\* maybeRetry queues the request again or closes it.
LEMMA RetryOrFailOK ==
  ASSUME TxmAssumption, ReqOK, QueueOK, NEW c \in Calls, RetryOrFail(c),
         UNCHANGED <<caller, batch>>
  PROVE  ReqOK' /\ QueueOK'
<1> DEFINE at == tx[c].attempt + 1
           t == [tx[c] EXCEPT !.attempt = at]
<1>1. t \in TxRecord
  <2>1. tx[c] \in TxRecord /\ at \in Nat
    BY DEF ReqOK, TxRecord
  <2> HIDE DEF at
  <2> QED BY <2>1 DEF TxRecord
<1>2. CASE /\ queue' = Append(queue, c) /\ tx' = [tx EXCEPT ![c] = t]
           /\ UNCHANGED transactions
  <2> HIDE DEF t
  <2>1. Append(queue, c) \in Seq(Calls)
    BY DEF QueueOK
  <2>2. ReqOK'
    BY <1>1, <1>2 DEF ReqOK
  <2> QED BY <1>2, <2>1, <2>2 DEF QueueOK
<1>3. CASE UpdateStatus(c, t, "Failed") /\ UNCHANGED queue
  <2> HIDE DEF t
  <2>1. ReqOK'
    BY <1>1, <1>3, UpdateStatusOK DEF ReqOK
  <2> QED BY <1>3, <2>1 DEF QueueOK
<1> QED BY <1>2, <1>3 DEF RetryOrFail

\* What the snapshot holds carries a request and is tracked.
LEMMA PolledOK ==
  ASSUME StoresOK, SnapOK, ReqOK, NEW e \in todo
  PROVE  /\ e.tx \in Calls /\ tx[e.tx] \in TxRecord /\ e.acct \in Accounts
         /\ CanConfirm(store[e.acct], e)
BY DEF StoresOK, SnapOK, ReqOK, Envelope, CanConfirm

LEMMA PollFrame ==
  ASSUME StoresOK, SnapOK, LoopOK, NEW e \in todo, NextPoll(e), UNCHANGED <<store, b>>
  PROVE  StoresOK' /\ SnapOK' /\ LoopOK'
<1>1. StoresOK' /\ LoopOK'
  BY DEF StoresOK, LoopOK, St, Acct
<1>2. SnapOK'
  BY DEF SnapOK, NextPoll
<1> QED BY <1>1, <1>2

LEMMA ExpireOrPendOK ==
  ASSUME TxmAssumption, ReqOK, QueueOK, StoresOK, SnapOK, LoopOK, NEW e \in todo,
         NEW v, NextPoll(e), ExpireOrPend(e, v), UNCHANGED <<caller, batch, b>>
  PROVE  ReqOK' /\ QueueOK' /\ StoresOK' /\ SnapOK' /\ LoopOK'
<1>1. e.tx \in Calls /\ CanConfirm(store[e.acct], e)
  BY PolledOK
<1>2. CASE UNCHANGED <<store, queue, tx, transactions>>
  BY <1>2, PollFrame DEF ReqOK, QueueOK
<1>3. CASE ConfirmStore(e, TRUE) /\ RetryOrFail(e.tx)
  BY <1>1, <1>3, ConfirmStoreOK, RetryOrFailOK
<1> QED BY <1>1, <1>2, <1>3 DEF ExpireOrPend

LEMMA ConfirmInv == ASSUME TxmAssumption, Inv, ConfirmLoop PROVE Inv'
<1> USE DEF Inv
<1>1. UNCHANGED <<caller, batch, b, stopped, chainVars>>
  BY DEF ConfirmLoop, ConfirmTick, CGetClientFail, vars, CSnapshot, ConfirmPoll, CLanded, CStatusError, CNotFound,
         CNotFoundZero, CLatestLedger, CHalt, CFrame, reqVars, chainVars
<1>2. ChainOK'
  <2>1. halted' = halted \/ halted' = halted \union {"confirm"}
    BY DEF ConfirmLoop, ConfirmTick, CGetClientFail, vars, CSnapshot, ConfirmPoll, CLanded, CStatusError, CNotFound,
           CNotFoundZero, CLatestLedger, CHalt, CFrame
  <2>2. CASE CLatestLedger
    <3>1. cur \in todo /\ lossy' \in {lossy, lossy \union {cur.tx}}
      BY <2>2 DEF CLatestLedger, SnapOK
    <3>2. cur.tx \in Calls
      BY <3>1, PolledOK
    <3>3. lossy' \subseteq Calls
      BY <3>1, <3>2 DEF ChainOK
    <3> QED BY <1>1, <2>1, <3>3 DEF ChainOK, chainVars, Loops
  <2>3. CASE ~CLatestLedger
    <3>1. lossy' = lossy
      BY <2>3 DEF ConfirmLoop, ConfirmTick, CGetClientFail, vars, CSnapshot, ConfirmPoll, CLanded, CStatusError,
                  CNotFound, CNotFoundZero, CHalt, CFrame
    <3> QED BY <1>1, <2>1, <3>1 DEF ChainOK, chainVars, Loops
  <2> QED BY <2>2, <2>3
<1>3. CASE CSnapshot
  <2>1. UNCHANGED <<cur, transactions, tx, queue, store>>
        /\ todo' = UNION {store[a].unconf : a \in Accounts} /\ cur = NoEnvelope
    BY <1>3 DEF CSnapshot
  <2>2. ReqOK' /\ QueueOK'
    BY <1>1, <2>1 DEF ReqOK, QueueOK
  <2>3. StoresOK' /\ LoopOK'
    BY <1>1, <2>1 DEF StoresOK, LoopOK, St, Acct
  <2>4. \A e \in todo' : e \in Envelope /\ e \in store[e.acct].unconf
    <3>1. SUFFICES ASSUME NEW a \in Accounts, NEW e \in store[a].unconf
                   PROVE  e \in Envelope /\ e \in store[e.acct].unconf
      BY <2>1
    <3> QED BY DEF StoresOK, StoreRecord
  <2>5. SnapOK'
    BY <2>1, <2>4 DEF SnapOK
  <2> QED BY <1>2, <2>2, <2>3, <2>5
<1>4. ASSUME NEW e \in todo, CLanded(e) PROVE Inv'
  <2>1. e.tx \in Calls /\ tx[e.tx] \in TxRecord /\ CanConfirm(store[e.acct], e)
    BY PolledOK
  <2>2. PICK l \in landed :
          /\ ConfirmStore(e, FALSE)
          /\ CASE l.result = "success" ->
                    UpdateStatus(e.tx, tx[e.tx], "Finalized") /\ UNCHANGED queue
               [] l.result = "failed" ->
                    UpdateStatus(e.tx, tx[e.tx], "Failed") /\ UNCHANGED queue
               [] l.result = "exhausted" -> RetryOrFail(e.tx)
    BY <1>4, <2>1 DEF CLanded
  <2>3. l.result \in {"success", "failed", "exhausted"}
    BY <2>2 DEF ChainOK, Results
  <2>4. StoresOK' /\ SnapOK' /\ LoopOK'
    BY <1>1, <1>4, <2>2, ConfirmStoreOK DEF CLanded
  <2>5. CASE UpdateStatus(e.tx, tx[e.tx], "Finalized") /\ UNCHANGED queue
    BY <1>1, <1>2, <2>1, <2>4, <2>5, UpdateStatusOK DEF ReqOK, QueueOK
  <2>6. CASE UpdateStatus(e.tx, tx[e.tx], "Failed") /\ UNCHANGED queue
    BY <1>1, <1>2, <2>1, <2>4, <2>6, UpdateStatusOK DEF ReqOK, QueueOK
  <2>7. CASE RetryOrFail(e.tx)
    BY <1>1, <1>2, <2>1, <2>4, <2>7, RetryOrFailOK
  <2> QED BY <2>2, <2>3, <2>5, <2>6, <2>7
<1>5. ASSUME NEW e \in todo, CStatusError(e) PROVE Inv'
  <2>1. e.tx \in Calls /\ tx[e.tx] \in TxRecord /\ CanConfirm(store[e.acct], e)
    BY PolledOK
  <2>2. UNCHANGED queue /\ NextPoll(e)
    BY <1>5 DEF CStatusError
  <2>3. QueueOK'
    BY <1>1, <2>2 DEF QueueOK
  <2>4. CASE UNCHANGED <<store, tx, transactions>>
    BY <1>1, <1>2, <2>2, <2>3, <2>4, PollFrame DEF ReqOK
  <2>5. CASE ConfirmStore(e, TRUE) /\ UpdateStatus(e.tx, tx[e.tx], "Unknown")
    <3>1. ReqOK'
      BY <1>1, <2>1, <2>5, UpdateStatusOK DEF ReqOK
    <3> QED BY <1>1, <1>2, <2>2, <2>3, <2>5, <3>1, ConfirmStoreOK
  <2> QED BY <1>5, <2>1, <2>4, <2>5 DEF CStatusError
<1>6. ASSUME NEW e \in todo, CNotFound(e) PROVE Inv'
  <2>1. PICK v \in RpcViews : ExpireOrPend(e, v)
    BY <1>6 DEF CNotFound
  <2> QED BY <1>1, <1>2, <1>6, <2>1, ExpireOrPendOK DEF CNotFound
<1>7. ASSUME NEW e \in todo, CNotFoundZero(e) PROVE Inv'
  <2>1. cur' = e /\ UNCHANGED <<todo, store, queue, tx, transactions>>
    BY <1>7 DEF CNotFoundZero
  <2>2. ReqOK' /\ QueueOK' /\ StoresOK'
    BY <1>1, <2>1 DEF ReqOK, QueueOK, StoresOK
  <2>3. LoopOK'
    BY <1>1, <2>1 DEF LoopOK, St, Acct
  <2>4. SnapOK'
    BY <1>7, <2>1 DEF SnapOK
  <2> QED BY <1>2, <2>2, <2>3, <2>4
<1>8. CASE CLatestLedger
  <2>1. cur \in todo /\ NextPoll(cur)
    BY <1>8 DEF CLatestLedger, SnapOK
  <2>2. CASE \E v \in RpcViews : ExpireOrPend(cur, v)
    <3>1. PICK v \in RpcViews : ExpireOrPend(cur, v)
      BY <2>2
    <3> QED BY <1>1, <1>2, <2>1, <3>1, ExpireOrPendOK
  <2>3. CASE UNCHANGED <<store, queue, tx, transactions>>
    BY <1>1, <1>2, <2>1, <2>3, PollFrame DEF ReqOK, QueueOK
  <2> QED BY <1>8, <2>2, <2>3 DEF CLatestLedger
<1>9. CASE CHalt \/ CGetClientFail
  <2>1. UNCHANGED <<transactions, caller, tx, queue, batch, b, store, todo, cur>>
    BY <1>9 DEF CHalt, CGetClientFail, reqVars, confVars, vars
  <2>2. ReqOK' /\ QueueOK'
    BY <2>1 DEF ReqOK, QueueOK
  <2> QED BY <1>2, <2>1, <2>2, LoopsFrame
<1> QED BY <1>3, <1>4, <1>5, <1>6, <1>7, <1>8, <1>9 DEF ConfirmLoop, ConfirmTick, ConfirmPoll

\* --------------------------------------------------------------------------

LEMMA NextInv == ASSUME TxmAssumption, Inv, [Next]_vars PROVE Inv'
<1>1. CASE \E c \in Calls : Caller(c)
  BY <1>1, CallerInv
<1>2. CASE Broadcast
  BY <1>2, BatchInv, BeginInv, SimulateInv, SendInv, RestoreInv DEF Broadcast
<1>3. CASE ConfirmLoop
  BY <1>3, ConfirmInv
<1>4. CASE PruneTerminal \/ Stop \/ CloseLedger
  BY <1>4, EnvironmentInv
<1>5. CASE UNCHANGED vars
  <2>1. ReqOK' /\ QueueOK' /\ ChainOK'
    BY <1>5 DEF vars, Inv, ReqOK, QueueOK, ChainOK
  <2>2. StoresOK' /\ LoopOK' /\ SnapOK'
    BY <1>5, LoopsFrame DEF vars, Inv
  <2> QED BY <2>1, <2>2 DEF Inv
<1> QED BY <1>1, <1>2, <1>3, <1>4, <1>5 DEF Next

\* The inductive invariant holds in every reachable state.
THEOREM Invariance == Spec => []Inv
<1>1. Init => Inv
  BY TxmAssumption, InitInv
<1>2. Inv /\ [Next]_vars => Inv'
  BY TxmAssumption, NextInv
<1> QED BY <1>1, <1>2, PTL DEF Spec

\* Every variable keeps its type: no action builds an ill-formed request,
\* envelope or store, whatever the answers of the RPC.
THEOREM TypeCorrect == Spec => []TypeOK
<1>1. Inv => TypeOK
  BY DEF Inv, ReqOK, QueueOK, StoresOK, LoopOK, SnapOK, ChainOK, TypeOK
<1> QED BY <1>1, Invariance, PTL

\* TxStore never holds one sequence in two states: it is tracked by at most one
\* envelope, it is not recycled while tracked, and it is not ahead of the head.
THEOREM StoreConsistency == Spec => []StoreConsistent
<1>1. Inv => StoreConsistent
  BY DEF Inv, StoresOK, StoreConsistent
<1> QED BY <1>1, Invariance, PTL

\* AddUnconfirmed never fails (ErrorReasonStoreAdd is dead code): the sequence
\* the broadcast loop read is free until the send is accepted, although the
\* confirm loop changes the same store in between.
THEOREM AllocatedUsable == Spec => []AllocatedSequenceUsable
<1>1. Inv => AllocatedSequenceUsable
  BY DEF Inv, LoopOK, Holding, AllocatedSequenceUsable
<1> QED BY <1>1, Invariance, PTL

\* TxStore.Confirm never fails for an envelope of checkUnconfirmed's snapshot,
\* although sends, resyncs and releases change the store after it was taken.
THEOREM SnapshotAlwaysTracked == Spec => []SnapshotTracked
<1>1. Inv => SnapshotTracked
  BY DEF Inv, SnapOK, SnapshotTracked, CanConfirm
<1> QED BY <1>1, Invariance, PTL
=============================================================================
