------------------------- MODULE TxmDeliveryProofs -------------------------
(***************************************************************************)
(* Proofs about Txm, on top of the inductive invariant of TxmProofs: what  *)
(* happens to a sequence and to a request between Enqueue and its terminal *)
(* status, and that the manager implements TxDelivery.                     *)
(***************************************************************************)
EXTENDS TxmProofs, FiniteSetTheorems, SequenceTheorems

\* --------------------------------------------------------------------------
\* Sequences. n is the last sequence the account has used: every sequence after
\* it and below the head of the store is tracked or recycled.

Gapless(st, n) ==
  /\ st.onchain <= n + 1
  /\ \A s \in n + 1 .. st.next - 1 : s \in UnconfSeqs(st) \union st.failed

Gaps == \A a \in Accounts : Gapless(store[a], acctSeq[a])

LEMMA NewGapless ==
  ASSUME NEW n \in Nat, NEW s \in 0 .. n
  PROVE  Gapless(NewTxStore(s + 1), n)
BY DEF Gapless, NewTxStore

LEMMA NoStoreGapless == ASSUME NEW n \in Nat PROVE Gapless(NoStore, n)
BY DEF Gapless, NoStore, NewTxStore

\* nextExpected is at most the account's next sequence, so a resync forgets only
\* sequences the chain has used.
LEMMA ResyncGapless ==
  ASSUME NEW st \in StoreRecord, NEW n \in Nat, NEW s \in 0 .. n, Gapless(st, n)
  PROVE  Gapless(ResyncNonce(st, s + 1), n)
<1> DEFINE r == ResyncNonce(st, s + 1)
<1>1. /\ r.unconf = st.unconf
      /\ r.failed = {q \in st.failed : q >= s + 1}
      /\ r.next = IF st.next < s + 1 THEN s + 1 ELSE st.next
      /\ r.onchain = s + 1
  BY DEF ResyncNonce, StoreRecord
<1>2. st.next \in Nat /\ s \in Nat /\ s <= n
  BY DEF StoreRecord
<1> SUFFICES Gapless(r, n)
  OBVIOUS
<1> HIDE DEF r
<1>3. ASSUME NEW q \in n + 1 .. r.next - 1
      PROVE  q \in UnconfSeqs(r) \union r.failed
  <2>1. q \in n + 1 .. st.next - 1 /\ q >= s + 1
    BY <1>1, <1>2
  <2>2. q \in UnconfSeqs(st) \union st.failed
    BY <2>1 DEF Gapless
  <2> QED BY <1>1, <2>1, <2>2 DEF UnconfSeqs
<1> QED BY <1>1, <1>2, <1>3 DEF Gapless

LEMMA ReleaseGapless ==
  ASSUME NEW st \in StoreRecord, NEW n \in Nat, NEW seq \in Nat, StoreOK(st),
         CanAddUnconfirmed(st, seq), Gapless(st, n)
  PROVE  Gapless(Release(st, seq), n)
<1> DEFINE r == Release(st, seq)
<1>1. r.unconf = st.unconf
  BY ReleaseOK
<1>2. st.failed \subseteq r.failed /\ r.next = st.next /\ r.onchain = st.onchain
  BY DEF Release, StoreRecord
<1> SUFFICES Gapless(r, n)
  OBVIOUS
<1> HIDE DEF r
<1> QED BY <1>1, <1>2 DEF Gapless, UnconfSeqs

LEMMA AddGapless ==
  ASSUME NEW st \in StoreRecord, NEW n \in Nat, NEW e \in Envelope, StoreOK(st),
         CanAddUnconfirmed(st, e.seq), Gapless(st, n)
  PROVE  Gapless(AddUnconfirmed(st, e), n)
<1> DEFINE r == AddUnconfirmed(st, e)
<1>1. /\ r.unconf = st.unconf \union {e}
      /\ r.failed = st.failed \ {e.seq}
      /\ r.next = IF e.seq >= st.next THEN e.seq + 1 ELSE st.next
      /\ r.onchain = st.onchain
  BY DEF AddUnconfirmed, StoreRecord
<1>2. st.next \in Nat /\ e.seq \in Nat /\ e.seq <= st.next
  BY DEF StoreRecord, Envelope, CanAddUnconfirmed, StoreOK
<1> SUFFICES Gapless(r, n)
  OBVIOUS
<1> HIDE DEF r
<1>3. ASSUME NEW q \in n + 1 .. r.next - 1
      PROVE  q \in UnconfSeqs(r) \union r.failed
  <2>1. CASE q = e.seq
    BY <1>1, <2>1 DEF UnconfSeqs
  <2>2. CASE q # e.seq
    <3>1. q \in n + 1 .. st.next - 1
      BY <1>1, <1>2, <2>2
    <3>2. q \in UnconfSeqs(st) \union st.failed
      BY <3>1 DEF Gapless
    <3> QED BY <1>1, <2>2, <3>2 DEF UnconfSeqs
  <2> QED BY <2>1, <2>2
<1> QED BY <1>1, <1>3 DEF Gapless

\* A confirmed sequence is recycled, or the chain has used it.
LEMMA ConfirmGapless ==
  ASSUME NEW st \in StoreRecord, NEW n \in Nat, NEW e \in Envelope,
         NEW failed \in BOOLEAN, StoreOK(st), CanConfirm(st, e), Gapless(st, n),
         failed \/ e.seq <= n
  PROVE  Gapless(Confirm(st, e, failed), n)
<1> DEFINE r == Confirm(st, e, failed)
<1>1. /\ r.unconf = {u \in st.unconf : u.seq # e.seq}
      /\ r.failed = IF failed /\ e.seq >= st.onchain THEN st.failed \union {e.seq}
                                                     ELSE st.failed
      /\ r.next = st.next /\ r.onchain = st.onchain
  BY DEF Confirm, StoreRecord
<1>2. st.onchain \in Nat /\ e.seq \in Nat /\ st.next \in Nat
  BY DEF StoreRecord, Envelope
<1> SUFFICES Gapless(r, n)
  OBVIOUS
<1> HIDE DEF r
<1>3. ASSUME NEW q \in n + 1 .. r.next - 1
      PROVE  q \in UnconfSeqs(r) \union r.failed
  <2>1. CASE q = e.seq
    <3>1. failed /\ e.seq >= st.onchain
      BY <1>2, <2>1 DEF Gapless
    <3> QED BY <1>1, <2>1, <3>1
  <2>2. CASE q # e.seq
    <3>1. q \in UnconfSeqs(st) \union st.failed
      BY <1>1 DEF Gapless
    <3> QED BY <1>1, <2>2, <3>1 DEF UnconfSeqs
  <2> QED BY <2>1, <2>2
<1> QED BY <1>1, <1>3 DEF Gapless

LEMMA GrowGapless ==
  ASSUME NEW st \in StoreRecord, NEW n \in Nat, NEW m \in Nat, n <= m, Gapless(st, n)
  PROVE  Gapless(st, m)
BY DEF Gapless, StoreRecord

\* --------------------------------------------------------------------------
\* What a step does to the requests: the actions, seen as moves of one request
\* between the places that hold one.

\* In the broadcast loop's hands, until the store tracks its envelope.
Active == Working \ {"publish"}

SameTracked == \A a \in Accounts : store'[a].unconf = store[a].unconf
SameOutcome ==
  \A c \in Calls : /\ tx'[c].terminal = tx[c].terminal
                   /\ tx'[c].status \in Terminal => tx[c].status \in Terminal

\* updateTransactionStatus with a terminal status: the first one stays.
Closed(c, o) ==
  /\ transactions' = Evict(c)
  /\ tx'[c].terminal = IF tx[c].terminal = "none" THEN o ELSE tx[c].terminal
  /\ \A d \in Calls \ {c} : tx'[d] = tx[d]

\* The moves of the broadcast loop.
Stays ==
  /\ UNCHANGED <<queue, batch, transactions>> /\ SameTracked /\ SameOutcome
  /\ b'.tx = b.tx
  /\ \/ b'.pc = b.pc
     \/ b.pc \in Active /\ b'.pc \in Active
     \/ b.pc = "drain" /\ b'.pc = "next"
  /\ b'.pc = "infra" => b.pc = "infra" \/ "client" \in Faults \/ stopped
Fails ==
  /\ UNCHANGED <<queue, batch>> /\ SameTracked /\ Closed(b.tx, "Failed")
  /\ b.pc \in Active /\ NextTx
Drops ==
  /\ UNCHANGED <<queue, batch, transactions>> /\ SameTracked /\ SameOutcome
  /\ b.pc \in Active /\ NextTx /\ (stopped \/ b.pc = "infra")
Requeues ==
  /\ queue' = Append(queue, b.tx)
  /\ UNCHANGED <<batch, transactions>> /\ SameTracked /\ SameOutcome
  /\ b.pc = "infra" /\ NextTx
Tracks ==
  /\ UNCHANGED <<queue, batch, transactions>> /\ SameOutcome
  /\ \A a \in Accounts : store'[a].unconf = store[a].unconf
                           \union (IF a = b.env.acct THEN {b.env} ELSE {})
  /\ b.pc = "send" /\ b'.pc = "publish" /\ b'.tx = b.tx
Publishes ==
  /\ UNCHANGED <<queue, batch, transactions>> /\ SameTracked /\ SameOutcome
  /\ b.pc = "publish" /\ NextTx
Takes ==
  /\ queue # <<>> /\ queue' = Tail(queue)
  /\ batch' = (IF b.pc = "idle" THEN {} ELSE batch) \union {Head(queue)}
  /\ UNCHANGED transactions /\ SameTracked /\ SameOutcome
  /\ b.pc \in {"idle", "drain"} /\ b'.pc = "drain" /\ b'.tx = b.tx
Picks ==
  /\ UNCHANGED <<queue, transactions>> /\ SameTracked /\ SameOutcome
  /\ b.pc = "next"
  /\ \/ batch = {} /\ batch' = {} /\ b' = Idle
     \/ \E c \in batch : /\ batch' = batch \ {c}
                         /\ b' = [Idle EXCEPT !.pc = "begin", !.tx = c]

BroadcastMove ==
  Stays \/ Fails \/ Drops \/ Requeues \/ Tracks \/ Publishes \/ Takes \/ Picks

LEMMA BroadcastFrame ==
  ASSUME Broadcast
  PROVE  UNCHANGED <<caller, stopped, todo, cur, head, acctSeq, landed>>
<1>1. CASE BSend
  BY <1>1 DEF BSend, BSendAccepted, BSendError, BSendReject, BSendFatal, BSendTooLate,
         BSendBadSeq, BFrame, confVars, chainVars
<1>2. CASE BRestore
  BY <1>2 DEF BRestore, BRestoreStart, BRestoreSend, BRestoreSendError, BRestoreFail,
         BRestoreSuccess, BRestoreLandedFailed, BRestorePollTimeout, BFrame,
         confVars, chainVars
<1> QED BY <1>1, <1>2 DEF Broadcast, BRecv, BDrain, BPick, BGetClientFail, BInfraRequeue,
         BSequenceFail, BBegin, BSimulateFail, BSimulate, BPublish, BDelay, BHalt,
         BFrame, confVars, chainVars, reqVars

LEMMA UpdateCloses ==
  ASSUME ReqOK, NEW c \in Calls, NEW t \in TxRecord, NEW o \in Outcomes,
         t.terminal = tx[c].terminal, UpdateStatus(c, t, o)
  PROVE  Closed(c, o)
<1>1. tx' = [tx EXCEPT ![c] = WithStatus(t, o)] /\ transactions' = Evict(c)
  BY DEF UpdateStatus
<1>2. WithStatus(t, o).terminal = IF tx[c].terminal = "none" THEN o ELSE tx[c].terminal
  BY DEF WithStatus, TxRecord
<1> HIDE DEF WithStatus
<1> QED BY <1>1, <1>2 DEF Closed, ReqOK

LEMMA SameOutcomeOK == ASSUME UNCHANGED tx PROVE SameOutcome
BY DEF SameOutcome

LEMMA SameTrackedOK == ASSUME UNCHANGED store PROVE SameTracked
BY DEF SameTracked

LEMMA GapsFrame ==
  ASSUME Gaps, UNCHANGED <<store, acctSeq>>
  PROVE  Gaps'
BY DEF Gaps

\* The broadcast loop replaces the store of its account by one without gaps.
LEMMA SetStoreMove ==
  ASSUME TxmAssumption, StoresOK, ChainOK, Gaps, b.tx \in Calls, NEW st \in StoreRecord,
         Gapless(st, acctSeq[Acct]), SetStore(st), UNCHANGED acctSeq
  PROVE  Gaps' /\ (st.unconf = St.unconf => SameTracked)
<1>1. Acct \in Accounts
  BY DEF Acct, TxmAssumption
<1>2. store' = [store EXCEPT ![Acct] = st]
  BY DEF SetStore
<1>3. \A a \in Accounts : store'[a] = IF a = Acct THEN st ELSE store[a]
  BY <1>1, <1>2 DEF StoresOK
<1>4. Gaps'
  BY <1>3 DEF Gaps
<1>5. st.unconf = St.unconf => SameTracked
  BY <1>3 DEF SameTracked, St
<1> QED BY <1>4, <1>5

LEMMA ReleaseMove ==
  ASSUME TxmAssumption, ReqOK, StoresOK, ChainOK, Gaps, b.tx \in Calls, b.pc \in Active,
         NEW st \in StoreRecord, NEW seq \in Nat, StoreOK(st), st.unconf = St.unconf,
         CanAddUnconfirmed(st, seq), Gapless(st, acctSeq[Acct]),
         ReleaseAndFail(st, seq), UNCHANGED <<queue, batch, acctSeq>>
  PROVE  Gaps' /\ Fails
<1> DEFINE r == Release(st, seq)
<1>0. acctSeq[Acct] \in Nat
  BY DEF Acct, TxmAssumption, ChainOK
<1>1. r \in StoreRecord /\ r.unconf = St.unconf
  BY ReleaseOK
<1>2. Gapless(r, acctSeq[Acct])
  BY <1>0, ReleaseGapless
<1>3. SetStore(r) /\ MarkFailed
  BY DEF ReleaseAndFail
<1> HIDE DEF r
<1>4. Gaps' /\ SameTracked
  BY <1>1, <1>2, <1>3, SetStoreMove
<1>5. Closed(b.tx, "Failed")
  <2>1. tx[b.tx] \in TxRecord /\ "Failed" \in Outcomes
    BY DEF ReqOK, Outcomes, Terminal
  <2>2. UpdateStatus(b.tx, tx[b.tx], "Failed")
    BY <1>3 DEF MarkFailed
  <2> QED BY <2>1, <2>2, UpdateCloses
<1> QED BY <1>3, <1>4, <1>5 DEF Fails, MarkFailed

LEMMA ResubmitMove ==
  ASSUME TxmAssumption, ReqOK, StoresOK, ChainOK, Gaps, b.tx \in Calls, b.pc \in Active,
         NEW st \in StoreRecord, NEW nb \in BRecord, NEW pc \in {"delay", "simulate"},
         StoreOK(st), st.unconf = St.unconf, nb.tx = b.tx,
         CanAddUnconfirmed(st, nb.seq), Gapless(st, acctSeq[Acct]),
         Resubmit(st, nb, pc), UNCHANGED <<queue, batch, acctSeq>>
  PROVE  Gaps' /\ (Fails \/ Stays)
<1>1. nb.seq \in Nat
  BY DEF BRecord
<1>2. CASE b.sub + 1 >= MaxSubmitRetryAttempts
  BY <1>1, <1>2, ReleaseMove DEF Resubmit
<1>3. CASE ~(b.sub + 1 >= MaxSubmitRetryAttempts)
  <2>1. /\ SetStore(st) /\ UNCHANGED <<tx, transactions>>
        /\ b' = [nb EXCEPT !.sub = @ + 1, !.pc = pc, !.env = NoEnvelope]
    BY <1>3 DEF Resubmit
  <2>2. Gaps' /\ SameTracked
    BY <2>1, SetStoreMove
  <2>3. b'.tx = b.tx /\ b'.pc = pc
    BY <2>1 DEF BRecord
  <2>4. pc \in Active /\ pc # "infra"
    BY DEF Active, Working
  <2>5. SameOutcome
    BY <2>1, SameOutcomeOK
  <2> QED BY <2>1, <2>2, <2>3, <2>4, <2>5 DEF Stays
<1> QED BY <1>2, <1>3

LEMMA BestEffortGapless ==
  ASSUME TxmAssumption, ChainOK, b.tx \in Calls, NEW st \in StoreRecord,
         Gapless(st, acctSeq[Acct]), NEW r \in BestEffort(st) \union Resynced(st)
  PROVE  Gapless(r, acctSeq[Acct])
<1>1. CASE r = st
  BY <1>1
<1>2. CASE r \in Resynced(st)
  <2>1. PICK s \in SeqViews(Acct) : r = ResyncNonce(st, s + 1)
    BY <1>2 DEF Resynced
  <2>2. acctSeq[Acct] \in Nat
    BY DEF Acct, TxmAssumption, ChainOK
  <2>3. s \in 0 .. acctSeq[Acct]
    BY DEF SeqViews
  <2> QED BY <2>1, <2>2, <2>3, ResyncGapless
<1> QED BY <1>1, <1>2 DEF BestEffort

LEMMA BatchMove ==
  ASSUME TxmAssumption, Inv, Gaps, BRecv \/ BDrain \/ BPick \/ BInfraRequeue \/ BHalt
  PROVE  Gaps' /\ BroadcastMove
<1>1. UNCHANGED <<tx, transactions, store, acctSeq>>
  BY DEF BRecv, BDrain, BPick, BInfraRequeue, BHalt, BFrame, chainVars, reqVars
<1>2. Gaps' /\ SameTracked /\ SameOutcome
  BY <1>1, GapsFrame, SameTrackedOK, SameOutcomeOK
<1>3. b \in BRecord
  BY DEF Inv, LoopOK
<1>4. CASE BRecv
  <2>1. b'.pc = "drain" /\ b'.tx = b.tx
    BY <1>3, <1>4 DEF BRecv, BRecord
  <2>2. Takes
    BY <1>1, <1>2, <1>4, <2>1 DEF BRecv, Takes
  <2> QED BY <1>2, <2>2 DEF BroadcastMove
<1>5. CASE BDrain
  <2>1. CASE queue = <<>>
    <3>1. b'.pc = "next" /\ b'.tx = b.tx
      BY <1>3, <1>5, <2>1 DEF BDrain, BRecord
    <3>2. Stays
      BY <1>1, <1>2, <1>5, <2>1, <3>1 DEF BDrain, Stays
    <3> QED BY <1>2, <3>2 DEF BroadcastMove
  <2>2. CASE queue # <<>>
    <3>1. Takes
      BY <1>1, <1>2, <1>5, <2>2 DEF BDrain, Takes
    <3> QED BY <1>2, <3>1 DEF BroadcastMove
  <2> QED BY <2>1, <2>2
<1>6. CASE BPick
  <2>1. Picks
    BY <1>1, <1>2, <1>6 DEF BPick, Picks
  <2> QED BY <1>2, <2>1 DEF BroadcastMove
<1>7. CASE BInfraRequeue
  <2>1. "infra" \in Active
    BY DEF Active, Working
  <2>2. Drops \/ Requeues
    BY <1>1, <1>2, <1>7, <2>1 DEF BInfraRequeue, Drops, Requeues
  <2> QED BY <1>2, <2>2 DEF BroadcastMove
<1>8. CASE BHalt
  <2>1. Stays
    BY <1>1, <1>2, <1>8 DEF BHalt, Stays
  <2> QED BY <1>2, <2>1 DEF BroadcastMove
<1> QED BY <1>4, <1>5, <1>6, <1>7, <1>8

LEMMA BeginMove ==
  ASSUME TxmAssumption, Inv, Gaps, BGetClientFail \/ BSequenceFail \/ BBegin \/ BPublish
  PROVE  Gaps' /\ BroadcastMove
<1>1. UNCHANGED <<queue, batch, acctSeq>>
  BY DEF BGetClientFail, BSequenceFail, BBegin, BPublish, chainVars
<1>2. b.tx \in Calls /\ b \in BRecord /\ tx[b.tx] \in TxRecord
  BY DEF BGetClientFail, BSequenceFail, BBegin, BPublish, Inv, LoopOK, Working, ReqOK
<1>3. ReqOK /\ StoresOK /\ ChainOK
  BY DEF Inv
<1>4. "begin" \in Active /\ "infra" \in Active /\ "simulate" \in Active
  BY DEF Active, Working
<1>5. "Failed" \in Outcomes
  BY DEF Outcomes, Terminal
<1>6. CASE BGetClientFail
  <2>1. Gaps' /\ SameTracked
    BY <1>1, <1>6, GapsFrame, SameTrackedOK DEF BGetClientFail
  <2> DEFINE t == [tx[b.tx] EXCEPT !.infra = @ + 1]
  <2>2. /\ t \in TxRecord /\ t.terminal = tx[b.tx].terminal
        /\ t.status = tx[b.tx].status
    BY <1>2 DEF TxRecord
  <2>3. CASE /\ tx' = [tx EXCEPT ![b.tx] = t] /\ UNCHANGED transactions
             /\ b' = [b EXCEPT !.pc = "infra"]
    <3>1. SameOutcome
      <4> HIDE DEF t
      <4> QED BY <1>3, <2>2, <2>3 DEF SameOutcome, ReqOK
    <3>2. b'.tx = b.tx /\ b'.pc = "infra"
      BY <1>2, <2>3 DEF BRecord
    <3>3. b.pc = "begin" /\ ("client" \in Faults \/ stopped)
      BY <1>6 DEF BGetClientFail
    <3>4. Stays
      BY <1>1, <1>4, <2>1, <2>3, <3>1, <3>2, <3>3 DEF Stays
    <3> QED BY <2>1, <3>4 DEF BroadcastMove
  <2>4. CASE UpdateStatus(b.tx, t, "Failed") /\ NextTx
    <3>1. Closed(b.tx, "Failed")
      BY <1>2, <1>3, <1>5, <2>2, <2>4, UpdateCloses
    <3>2. Fails
      BY <1>1, <1>4, <1>6, <2>1, <2>4, <3>1 DEF BGetClientFail, Fails
    <3> QED BY <2>1, <3>2 DEF BroadcastMove
  <2> QED BY <1>6, <2>3, <2>4 DEF BGetClientFail
<1>7. CASE BSequenceFail
  <2>1. Gaps' /\ SameTracked
    BY <1>1, <1>7, GapsFrame, SameTrackedOK DEF BSequenceFail
  <2>2. Closed(b.tx, "Failed")
    BY <1>2, <1>3, <1>5, <1>7, UpdateCloses DEF BSequenceFail, MarkFailed
  <2>3. Fails
    BY <1>1, <1>4, <1>7, <2>1, <2>2 DEF BSequenceFail, MarkFailed, Fails
  <2> QED BY <2>1, <2>3 DEF BroadcastMove
<1>8. CASE BBegin
  <2>1. PICK st0, st, seq :
          /\ st0 \in IF St = NoStore THEN {NewTxStore(s + 1) : s \in SeqViews(Acct)}
                                     ELSE {St}
          /\ st \in IF tx[b.tx].attempt > 0 THEN BestEffort(st0) ELSE {st0}
          /\ seq \in GetNextSequence(st)
          /\ SetStore(st) /\ b' = [b EXCEPT !.pc = "simulate", !.seq = seq]
    BY <1>8 DEF BBegin
  <2>2. Acct \in Accounts /\ St \in StoreRecord /\ StoreOK(St) /\ acctSeq[Acct] \in Nat
    BY <1>2, <1>3, AcctStore DEF ChainOK
  <2>3. /\ st0 \in StoreRecord /\ StoreOK(st0) /\ st0.unconf = St.unconf
        /\ Gapless(st0, acctSeq[Acct])
    <3>1. CASE St = NoStore
      <4>1. PICK s \in SeqViews(Acct) : st0 = NewTxStore(s + 1)
        BY <2>1, <3>1
      <4>2. s \in 0 .. acctSeq[Acct] /\ s + 1 \in Nat
        BY <2>2 DEF SeqViews
      <4>3. st0.unconf = {} /\ NoStore.unconf = {}
        BY <4>1 DEF NewTxStore, NoStore
      <4> QED BY <2>2, <3>1, <4>1, <4>2, <4>3, NewTxStoreOK, NewGapless
    <3>2. CASE St # NoStore
      BY <2>1, <2>2, <3>2 DEF Gaps, St
    <3> QED BY <3>1, <3>2
  <2>4. st \in StoreRecord /\ st.unconf = St.unconf /\ Gapless(st, acctSeq[Acct])
    BY <1>2, <1>3, <2>1, <2>3, BestEffortOK, BestEffortGapless
  <2>5. Gaps' /\ SameTracked
    BY <1>1, <1>2, <1>3, <2>1, <2>4, SetStoreMove
  <2>6. b'.tx = b.tx /\ b'.pc = "simulate"
    BY <1>2, <2>1 DEF BRecord
  <2>7. UNCHANGED <<tx, transactions>> /\ b.pc = "begin"
    BY <1>8 DEF BBegin
  <2>8. Stays
    BY <1>1, <1>4, <2>5, <2>6, <2>7, SameOutcomeOK DEF Stays
  <2> QED BY <2>5, <2>8 DEF BroadcastMove
<1>9. CASE BPublish
  <2>1. Gaps' /\ SameTracked
    BY <1>1, <1>9, GapsFrame, SameTrackedOK DEF BPublish
  <2>2. /\ tx' = [tx EXCEPT ![b.tx] = WithStatus(tx[b.tx], "Unconfirmed")]
        /\ UNCHANGED transactions
    BY <1>9 DEF BPublish, UpdateStatus, Outcomes, Terminal
  <2>3. /\ WithStatus(tx[b.tx], "Unconfirmed").terminal = tx[b.tx].terminal
        /\ WithStatus(tx[b.tx], "Unconfirmed").status = "Unconfirmed"
    BY <1>2 DEF WithStatus, TxRecord, Outcomes, Terminal
  <2>4. SameOutcome
    BY <1>2, <1>3, <2>2, <2>3 DEF SameOutcome, ReqOK, Terminal
  <2>5. Publishes
    BY <1>1, <1>9, <2>1, <2>2, <2>4 DEF BPublish, Publishes
  <2> QED BY <2>1, <2>5 DEF BroadcastMove
<1> QED BY <1>6, <1>7, <1>8, <1>9

LEMMA SimulateMove ==
  ASSUME TxmAssumption, Inv, Gaps, BSimulateFail \/ BSimulate \/ BDelay
  PROVE  Gaps' /\ BroadcastMove
<1>1. UNCHANGED <<queue, batch, acctSeq>>
  BY DEF BSimulateFail, BSimulate, BDelay, chainVars
<1>2. /\ b \in BRecord /\ b.tx \in Calls /\ b.seq \in Nat
      /\ CanAddUnconfirmed(St, b.seq)
  BY DEF BSimulateFail, BSimulate, BDelay, Inv, LoopOK, Working, Holding, BRecord
<1>3. ReqOK /\ StoresOK /\ ChainOK
  BY DEF Inv
<1>4. /\ Acct \in Accounts /\ St \in StoreRecord /\ StoreOK(St)
      /\ Gapless(St, acctSeq[Acct])
  BY <1>2, <1>3, AcctStore DEF Gaps, St
<1>5. "simulate" \in Active /\ "delay" \in Active /\ "send" \in Active
  BY DEF Active, Working
<1>6. CASE BSimulateFail
  BY <1>1, <1>2, <1>3, <1>4, <1>5, <1>6, ReleaseMove DEF BSimulateFail, BroadcastMove
<1>7. CASE BSimulate
  <2>1. UNCHANGED <<store, tx, transactions>> /\ b.pc = "simulate"
    BY <1>7 DEF BSimulate
  <2>2. b'.tx = b.tx /\ b'.pc = "send"
    BY <1>2, <1>7 DEF BSimulate, BRecord
  <2>3. Stays
    BY <1>1, <1>5, <2>1, <2>2, SameTrackedOK, SameOutcomeOK DEF Stays
  <2> QED BY <1>1, <2>1, <2>3, GapsFrame DEF BroadcastMove
<1>8. CASE BDelay
  <2>1. UNCHANGED <<tx, transactions>> /\ b.pc = "delay"
    BY <1>8 DEF BDelay
  <2>2. CASE b' = [b EXCEPT !.pc = "simulate"] /\ UNCHANGED store
    <3>1. b'.tx = b.tx /\ b'.pc = "simulate"
      BY <1>2, <2>2 DEF BRecord
    <3>2. Stays
      BY <1>1, <1>5, <2>1, <2>2, <3>1, SameTrackedOK, SameOutcomeOK DEF Stays
    <3> QED BY <1>1, <2>2, <3>2, GapsFrame DEF BroadcastMove
  <2>3. CASE stopped /\ SetStore(Release(St, b.seq)) /\ NextTx
    <3> DEFINE r == Release(St, b.seq)
    <3>1. acctSeq[Acct] \in Nat
      BY <1>3, <1>4 DEF ChainOK
    <3>2. r \in StoreRecord /\ r.unconf = St.unconf
      BY <1>2, <1>4, ReleaseOK
    <3>3. Gapless(r, acctSeq[Acct])
      BY <1>2, <1>4, <3>1, ReleaseGapless
    <3>4. Gaps' /\ SameTracked
      <4> HIDE DEF r
      <4>1. SetStore(r)
        BY <2>3 DEF r
      <4> QED BY <1>1, <1>2, <1>3, <3>2, <3>3, <4>1, SetStoreMove
    <3>5. Drops
      BY <1>1, <1>5, <2>1, <2>3, <3>4, SameOutcomeOK DEF Drops
    <3> QED BY <3>4, <3>5 DEF BroadcastMove
  <2> QED BY <1>8, <2>2, <2>3 DEF BDelay
<1> QED BY <1>6, <1>7, <1>8

LEMMA SendMove ==
  ASSUME TxmAssumption, Inv, Gaps, BSend
  PROVE  Gaps' /\ (Tracks \/ Fails \/ Stays) /\ (BSendAccepted => Tracks)
<1>1. UNCHANGED <<queue, batch, acctSeq>> /\ b.pc = "send"
  BY DEF BSend, BSendAccepted, BSendError, BSendReject, BSendFatal, BSendTooLate,
         BSendBadSeq, chainVars
<1>2. /\ b \in BRecord /\ b.tx \in Calls /\ b.seq \in Nat
      /\ CanAddUnconfirmed(St, b.seq)
      /\ b.env \in Envelope /\ b.env.seq = b.seq /\ b.env.acct = Acct
  BY <1>1 DEF Inv, LoopOK, Working, Holding, Sending, BRecord
<1>3. ReqOK /\ StoresOK /\ ChainOK
  BY DEF Inv
<1>4. /\ Acct \in Accounts /\ St \in StoreRecord /\ StoreOK(St)
      /\ Gapless(St, acctSeq[Acct]) /\ acctSeq[Acct] \in Nat
  BY <1>2, <1>3, AcctStore DEF Gaps, St, ChainOK
<1>5. b.pc \in Active
  BY <1>1 DEF Active, Working
<1>6. CASE BSendAccepted
  <2> DEFINE r == AddUnconfirmed(St, b.env)
  <2>1. /\ SetStore(r) /\ b' = [b EXCEPT !.pc = "publish"]
        /\ UNCHANGED <<tx, transactions>>
    BY <1>2, <1>6 DEF BSendAccepted
  <2>2. r \in StoreRecord /\ r.unconf = St.unconf \union {b.env}
    BY <1>2, <1>4, AddOK
  <2>3. Gapless(r, acctSeq[Acct])
    BY <1>2, <1>4, AddGapless
  <2>4. store' = [store EXCEPT ![Acct] = r]
    BY <2>1 DEF SetStore
  <2> HIDE DEF r
  <2>5. Gaps'
    BY <1>1, <1>2, <1>3, <2>1, <2>2, <2>3, SetStoreMove
  <2>6. \A a \in Accounts : store'[a].unconf = store[a].unconf
                           \union (IF a = b.env.acct THEN {b.env} ELSE {})
    BY <1>2, <1>3, <1>4, <2>2, <2>4 DEF StoresOK, St
  <2>7. b'.pc = "publish" /\ b'.tx = b.tx
    BY <1>2, <2>1 DEF BRecord
  <2>8. Tracks
    BY <1>1, <2>1, <2>6, <2>7, SameOutcomeOK DEF Tracks
  <2> QED BY <2>5, <2>8
<1>7. CASE BSendError \/ BSendReject
  <2>1. Resubmit(St, b, "delay") /\ ~BSendAccepted
    BY <1>2, <1>7 DEF BSendError, BSendReject, BSendAccepted, Resubmit, ReleaseAndFail,
       MarkFailed, NextTx, Idle, BRecord
  <2> QED BY <1>1, <1>2, <1>3, <1>4, <1>5, <2>1, ResubmitMove
<1>8. CASE BSendFatal /\ ~BSendAccepted
  BY <1>1, <1>2, <1>3, <1>4, <1>5, <1>8, ReleaseMove DEF BSendFatal
<1>9. CASE BSendTooLate /\ ~BSendAccepted
  <2> DEFINE fl == Larger(b.floor, b.env.maxLedger - 1)
             nb == [b EXCEPT !.floor = fl]
             nl == [nb EXCEPT !.late = @ + 1]
  <2>1. fl \in Nat
    <3>1. b.floor \in Nat /\ b.env.maxLedger \in Nat
      BY <1>2 DEF BRecord, Envelope
    <3> QED BY <3>1 DEF Larger
  <2>2. Resubmit(St, nl, "simulate") \/ Resubmit(St, nb, "delay")
    BY <1>9 DEF BSendTooLate
  <2> HIDE DEF fl
  <2>3. nb \in BRecord /\ nb.tx = b.tx /\ nb.seq = b.seq
    BY <1>2, <2>1 DEF BRecord
  <2> HIDE DEF nb
  <2>4. nl \in BRecord /\ nl.tx = b.tx /\ nl.seq = b.seq
    BY <2>3 DEF BRecord
  <2> HIDE DEF nl
  <2>5. CASE Resubmit(St, nl, "simulate")
    BY <1>1, <1>2, <1>3, <1>4, <1>5, <1>9, <2>4, <2>5, ResubmitMove
  <2>6. CASE Resubmit(St, nb, "delay")
    BY <1>1, <1>2, <1>3, <1>4, <1>5, <1>9, <2>3, <2>6, ResubmitMove
  <2> QED BY <2>2, <2>5, <2>6
<1>10. CASE BSendBadSeq /\ ~BSendAccepted
  <2>1. PICK st, seq :
          /\ st \in BestEffort(St) /\ seq \in GetNextSequence(st)
          /\ Resubmit(st, [b EXCEPT !.seq = seq],
                      IF seq = b.seq THEN "delay" ELSE "simulate")
    BY <1>10 DEF BSendBadSeq
  <2>2. st \in StoreRecord /\ StoreOK(st) /\ st.unconf = St.unconf
    BY <1>2, <1>3, <1>4, <2>1, BestEffortOK
  <2>3. Gapless(st, acctSeq[Acct])
    BY <1>2, <1>3, <1>4, <2>1, BestEffortGapless
  <2>4. seq \in Nat /\ CanAddUnconfirmed(st, seq)
    BY <2>1, <2>2, GetNextOK
  <2> DEFINE nb == [b EXCEPT !.seq = seq]
             pc == IF seq = b.seq THEN "delay" ELSE "simulate"
  <2>5. nb \in BRecord /\ nb.tx = b.tx /\ nb.seq = seq
    BY <1>2, <2>4 DEF BRecord
  <2>6. pc \in {"delay", "simulate"} /\ Resubmit(st, nb, pc)
    BY <2>1
  <2> HIDE DEF nb, pc
  <2> QED BY <1>1, <1>2, <1>3, <1>5, <1>10, <2>2, <2>3, <2>4, <2>5, <2>6, ResubmitMove
<1> QED BY <1>6, <1>7, <1>8, <1>9, <1>10 DEF BSend

LEMMA RestoreMove ==
  ASSUME TxmAssumption, Inv, Gaps, BRestore
  PROVE  Gaps' /\ (Fails \/ Stays)
<1>1. UNCHANGED <<queue, batch, acctSeq>> /\ b.pc \in {"simulate", "restore", "poll"}
  BY DEF BRestore, BRestoreStart, BRestoreSend, BRestoreSendError, BRestoreFail,
         BRestoreSuccess, BRestoreLandedFailed, BRestorePollTimeout, chainVars
<1>2. /\ b \in BRecord /\ b.tx \in Calls /\ b.seq \in Nat
      /\ CanAddUnconfirmed(St, b.seq)
  BY <1>1 DEF Inv, LoopOK, Working, Holding, BRecord
<1>3. ReqOK /\ StoresOK /\ ChainOK
  BY DEF Inv
<1>4. /\ Acct \in Accounts /\ St \in StoreRecord /\ StoreOK(St)
      /\ Gapless(St, acctSeq[Acct])
  BY <1>2, <1>3, AcctStore DEF Gaps, St
<1>5. b.pc \in Active /\ {"restore", "poll", "simulate"} \subseteq Active
  BY <1>1 DEF Active, Working
<1>6. CASE BRestoreStart \/ BRestoreSend \/ BRestoreSendError \/ BRestorePollTimeout
  <2>1. UNCHANGED <<store, tx, transactions>>
    BY <1>6 DEF BRestoreStart, BRestoreSend, BRestoreSendError, BRestorePollTimeout
  <2>2. b'.tx = b.tx /\ b'.pc \in {"restore", "poll"}
    BY <1>2, <1>6 DEF BRestoreStart, BRestoreSend, BRestoreSendError,
       BRestorePollTimeout, BRecord
  <2>3. Stays
    BY <1>1, <1>5, <2>1, <2>2, SameTrackedOK, SameOutcomeOK DEF Stays
  <2> QED BY <1>1, <2>1, <2>3, GapsFrame
<1>7. CASE ReleaseAndFail(St, b.seq)
  BY <1>1, <1>2, <1>3, <1>4, <1>5, <1>7, ReleaseMove
<1>8. CASE \E st \in Resynced(St) : \E seq \in GetNextSequence(st) :
             /\ SetStore(st)
             /\ b' = [b EXCEPT !.pc = "simulate", !.seq = seq, !.restored = TRUE,
                               !.rtry = 0, !.env = NoEnvelope]
             /\ UNCHANGED <<tx, transactions>>
  <2>1. PICK st, seq :
             /\ st \in Resynced(St) /\ seq \in GetNextSequence(st)
             /\ SetStore(st)
             /\ b' = [b EXCEPT !.pc = "simulate", !.seq = seq, !.restored = TRUE,
                               !.rtry = 0, !.env = NoEnvelope]
             /\ UNCHANGED <<tx, transactions>>
    BY <1>8
  <2>2. st \in StoreRecord /\ st.unconf = St.unconf /\ Gapless(st, acctSeq[Acct])
    BY <1>2, <1>3, <1>4, <2>1, BestEffortOK, BestEffortGapless
  <2>3. Gaps' /\ SameTracked
    BY <1>1, <1>2, <1>3, <2>1, <2>2, SetStoreMove
  <2>4. b'.tx = b.tx /\ b'.pc = "simulate"
    BY <1>2, <2>1 DEF BRecord
  <2>5. Stays
    BY <1>1, <1>5, <2>1, <2>3, <2>4, SameOutcomeOK DEF Stays
  <2> QED BY <2>3, <2>5
<1> QED BY <1>6, <1>7, <1>8 DEF BRestore, BRestoreFail, BRestoreLandedFailed, BRestoreSuccess

LEMMA BroadcastMoves ==
  ASSUME TxmAssumption, Inv, Gaps, Broadcast
  PROVE  Gaps' /\ BroadcastMove
BY BatchMove, BeginMove, SimulateMove, SendMove, RestoreMove DEF Broadcast, BroadcastMove

\* --------------------------------------------------------------------------
\* What the network holds, and what landed.

\* An envelope lands within its bounds, once, and uses the sequence.
LandedInv ==
  /\ \A l \in landed : l.env.seq <= acctSeq[l.env.acct] /\ Includable(l.env, l.ledger)
  /\ \A l, m \in landed : l.env = m.env => l = m

\* Only invocations are tracked; a restore is sent and polled in the loop.
KindInv ==
  /\ b.pc = "send" => b.env.kind = "invoke"
  /\ b.pc \in {"restore", "poll"} => b.env.kind = "restore"
  /\ \A a \in Accounts : \A e \in store[a].unconf : e.kind = "invoke"

\* What the network may still include is tracked, unless its answer was lost.
PoolInv ==
  \A e \in pool :
    /\ e.seq > acctSeq[e.acct]
    /\ e.kind = "invoke" => /\ Includable(e, head + 1)
                            /\ e.tx \in lossy \/ e \in store[e.acct].unconf

ChainInv == Gaps /\ LandedInv /\ KindInv /\ PoolInv

\* The broadcast loop delivers nothing but its own envelope.
Delivers ==
  /\ pool' = pool \union {b.env} /\ Includable(b.env, head + 1)
  /\ b.env.seq > acctSeq[b.env.acct]
  /\ \/ BSendAccepted
     \/ b.pc = "send" /\ b.tx \in lossy'
     \/ b.pc = "restore"

LEMMA DeliverMove ==
  ASSUME Broadcast
  PROVE  lossy \subseteq lossy' /\ (pool' = pool \/ Delivers)
<1>1. CASE BSendAccepted
  BY <1>1 DEF BSendAccepted, Deliver, Delivers
<1>2. CASE BSendError
  BY <1>2 DEF BSendError, Deliver, Delivers
<1>3. CASE BSendReject \/ BSendFatal \/ BSendTooLate \/ BSendBadSeq
  BY <1>3 DEF BSendReject, BSendFatal, BSendTooLate, BSendBadSeq, chainVars
<1>4. CASE BRestore
  BY <1>4 DEF BRestore, BRestoreStart, BRestoreSend, BRestoreSendError, BRestoreFail,
         BRestoreSuccess, BRestoreLandedFailed, BRestorePollTimeout, Deliver, Delivers,
         chainVars
<1> QED BY <1>1, <1>2, <1>3, <1>4 DEF Broadcast, BSend, BRecv, BDrain, BPick,
         BGetClientFail, BInfraRequeue, BSequenceFail, BBegin, BSimulateFail, BSimulate,
         BPublish, BDelay, BHalt, chainVars

\* The kind of the envelope in the loop's hands.
LoopKind ==
  /\ b.pc = "send" => b.env.kind = "invoke"
  /\ b.pc \in {"restore", "poll"} => b.env.kind = "restore"

LEMMA LoopKindKept ==
  ASSUME b \in BRecord, LoopKind, Broadcast
  PROVE  LoopKind'
<1>1. CASE BSimulate
  BY <1>1 DEF BSimulate, LoopKind, BRecord
<1>2. CASE BRestoreStart
  BY <1>2 DEF BRestoreStart, LoopKind, BRecord
<1>3. CASE BRestoreSend \/ BRestoreSendError \/ BRestorePollTimeout
  BY <1>3 DEF BRestoreSend, BRestoreSendError, BRestorePollTimeout, LoopKind, BRecord
<1>4. ASSUME NextTx PROVE LoopKind'
  BY <1>4 DEF NextTx, Idle, LoopKind
<1>5. ASSUME NEW st, NEW seq, ReleaseAndFail(st, seq) PROVE LoopKind'
  BY <1>4, <1>5 DEF ReleaseAndFail, MarkFailed
<1>6. CASE BRestoreFail \/ BRestoreLandedFailed
  BY <1>5, <1>6 DEF BRestoreFail, BRestoreLandedFailed
<1>7. CASE BRestoreSuccess
  <2>1. CASE ReleaseAndFail(St, b.seq)
    BY <1>5, <2>1
  <2>2. CASE \E seq : b' = [b EXCEPT !.pc = "simulate", !.seq = seq, !.restored = TRUE,
                                     !.rtry = 0, !.env = NoEnvelope]
    BY <2>2 DEF LoopKind, BRecord
  <2> QED BY <1>7, <2>1, <2>2 DEF BRestoreSuccess
<1>8. ASSUME NEW st, NEW nb, NEW pc \in {"delay", "simulate"}, "pc" \in DOMAIN nb,
             Resubmit(st, nb, pc)
      PROVE  LoopKind'
  <2>1. CASE ReleaseAndFail(st, nb.seq)
    BY <1>5, <2>1
  <2>2. CASE b' = [nb EXCEPT !.sub = @ + 1, !.pc = pc, !.env = NoEnvelope]
    <3>1. b'.pc = pc
      BY <1>8, <2>2
    <3> QED BY <3>1 DEF LoopKind
  <2> QED BY <1>8, <2>1, <2>2 DEF Resubmit
<1>9. CASE BSend
  <2>1. "pc" \in DOMAIN b
    BY DEF BRecord
  <2>2. CASE BSendAccepted
    <3>1. CASE b' = [b EXCEPT !.pc = "publish"]
      BY <3>1 DEF LoopKind, BRecord
    <3> QED BY <1>4, <2>2, <3>1 DEF BSendAccepted, MarkFailed
  <2>3. CASE BSendError \/ BSendReject
    BY <1>8, <2>1, <2>3 DEF BSendError, BSendReject
  <2>4. CASE BSendFatal
    BY <1>5, <2>4 DEF BSendFatal
  <2>5. CASE BSendTooLate
    <3> DEFINE nb == [b EXCEPT !.floor = Larger(@, b.env.maxLedger - 1)]
               nl == [nb EXCEPT !.late = @ + 1]
    <3>1. Resubmit(St, nl, "simulate") \/ Resubmit(St, nb, "delay")
      BY <2>5 DEF BSendTooLate
    <3>2. DOMAIN nb = DOMAIN b /\ DOMAIN nl = DOMAIN b
      OBVIOUS
    <3> HIDE DEF nb, nl
    <3> QED BY <1>8, <2>1, <3>1, <3>2
  <2>6. CASE BSendBadSeq
    <3>1. PICK st, seq : Resubmit(st, [b EXCEPT !.seq = seq],
                                  IF seq = b.seq THEN "delay" ELSE "simulate")
      BY <2>6 DEF BSendBadSeq
    <3> DEFINE nb == [b EXCEPT !.seq = seq]
               pc == IF seq = b.seq THEN "delay" ELSE "simulate"
    <3>2. Resubmit(st, nb, pc) /\ pc \in {"delay", "simulate"} /\ DOMAIN nb = DOMAIN b
      BY <3>1
    <3> HIDE DEF nb, pc
    <3> QED BY <1>8, <2>1, <3>2
  <2> QED BY <1>9, <2>2, <2>3, <2>4, <2>5, <2>6 DEF BSend
<1>10. CASE BRecv \/ BDrain \/ BPick \/ BInfraRequeue \/ BHalt
  <2>1. b'.pc \notin {"send", "restore", "poll"} \/ b' = b
    <3>1. CASE BPick
      <4>1. b' = Idle \/ \E c \in batch : b' = [Idle EXCEPT !.pc = "begin", !.tx = c]
        BY <3>1 DEF BPick
      <4>2. CASE b' = Idle
        BY <4>2 DEF Idle
      <4>3. ASSUME NEW c, b' = [Idle EXCEPT !.pc = "begin", !.tx = c]
            PROVE  b'.pc = "begin"
        BY <4>3 DEF Idle
      <4> QED BY <4>1, <4>2, <4>3
    <3>2. CASE BDrain
      BY <3>2 DEF BDrain, BRecord
    <3>3. CASE BRecv \/ BInfraRequeue \/ BHalt
      BY <3>3 DEF BRecv, BInfraRequeue, BHalt, NextTx, Idle, BRecord
    <3> QED BY <1>10, <3>1, <3>2, <3>3
  <2> QED BY <2>1 DEF LoopKind
<1>11. CASE BGetClientFail \/ BSequenceFail \/ BBegin \/ BPublish \/ BDelay
  <2>1. b'.pc \notin {"send", "restore", "poll"}
    BY <1>11 DEF BGetClientFail, BSequenceFail, BBegin, BPublish, BDelay, MarkFailed,
       NextTx, Idle, BRecord
  <2> QED BY <2>1 DEF LoopKind
<1>12. CASE BSimulateFail
  BY <1>5, <1>12 DEF BSimulateFail
<1> QED BY <1>1, <1>2, <1>3, <1>6, <1>7, <1>9, <1>10, <1>11, <1>12
        DEF Broadcast, BRestore

LEMMA BroadcastChain ==
  ASSUME TxmAssumption, Inv, ChainInv, Broadcast
  PROVE  ChainInv'
<1>1. UNCHANGED <<head, acctSeq, landed>>
  BY BroadcastFrame
<1>2. Gaps' /\ BroadcastMove
  BY BroadcastMoves DEF ChainInv
<1>3. LandedInv'
  BY <1>1 DEF ChainInv, LandedInv, Includable
<1>4. \A a \in Accounts : store[a].unconf \subseteq store'[a].unconf
  BY <1>2 DEF BroadcastMove, Stays, Fails, Drops, Requeues, Tracks, Publishes, Takes,
         Picks, SameTracked
<1>5. \A a \in Accounts : \A e \in store'[a].unconf \ store[a].unconf :
         b.pc = "send" /\ e = b.env
  <2>1. SameTracked \/ Tracks
    BY <1>2 DEF BroadcastMove, Stays, Fails, Drops, Requeues, Publishes, Takes, Picks
  <2>2. CASE SameTracked
    BY <2>2 DEF SameTracked
  <2>3. CASE Tracks
    BY <2>3 DEF Tracks
  <2> QED BY <2>1, <2>2, <2>3
<1>6. KindInv'
  <2>1. LoopKind'
    BY LoopKindKept DEF ChainInv, KindInv, LoopKind, Inv, LoopOK
  <2> QED BY <1>5, <2>1 DEF LoopKind, KindInv, ChainInv
<1>7. PoolInv'
  <2>1. lossy \subseteq lossy' /\ (pool' = pool \/ Delivers)
    BY DeliverMove
  <2>2. \A e \in pool : e \in Envelope /\ e.acct \in Accounts
    BY DEF Inv, ChainOK, Envelope
  <2>3. \A e \in pool :
          /\ e.seq > acctSeq[e.acct]
          /\ e.kind = "invoke" => /\ Includable(e, head + 1)
                                  /\ e.tx \in lossy' \/ e \in store'[e.acct].unconf
    BY <1>4, <2>1, <2>2 DEF ChainInv, PoolInv
  <2>4. ASSUME Delivers, b.env.kind = "invoke"
        PROVE  b.env.tx \in lossy' \/ b.env \in store'[b.env.acct].unconf
    <3>1. b.pc = "send"
      BY <2>4 DEF Delivers, BSendAccepted, ChainInv, KindInv
    <3>2. b.env.tx = b.tx /\ b.env \in Envelope /\ b.env.acct \in Accounts
      BY <3>1 DEF Inv, LoopOK, Sending, Envelope
    <3>3. CASE BSendAccepted
      <4>1. Tracks
        BY <3>3, SendMove DEF BSend, ChainInv
      <4> QED BY <3>2, <4>1 DEF Tracks
    <3> QED BY <2>4, <3>1, <3>2, <3>3 DEF Delivers
  <2>5. \A e \in pool' : e \in pool \/ (Delivers /\ e = b.env)
    BY <2>1 DEF Delivers
  <2>6. ASSUME NEW e \in pool'
        PROVE  /\ e.seq > acctSeq[e.acct]
               /\ e.kind = "invoke" => /\ Includable(e, head + 1)
                                       /\ e.tx \in lossy' \/ e \in store'[e.acct].unconf
    <3>1. CASE e \in pool
      BY <2>3, <3>1
    <3>2. CASE Delivers /\ e = b.env
      BY <2>4, <3>2 DEF Delivers
    <3> QED BY <2>5, <3>1, <3>2
  <2> QED BY <1>1, <2>6 DEF PoolInv, Includable
<1> QED BY <1>2, <1>3, <1>6, <1>7 DEF ChainInv

\* --------------------------------------------------------------------------
\* The moves of the confirm loop.

Untracks(e) == \A a \in Accounts : store'[a].unconf = store[a].unconf \ {e}

\* e did not take effect, as far as the manager may know.
Settled(e) == e.tx \in lossy' \/ \A l \in landed : l.env = e => l.result # "success"

Rests == UNCHANGED <<queue, transactions, tx, store>>
Retries(e) ==
  /\ Untracks(e) /\ e \notin pool /\ Settled(e)
  /\ queue' = Append(queue, e.tx) /\ UNCHANGED transactions /\ SameOutcome
Resolves(e, o) ==
  /\ Untracks(e) /\ e \notin pool
  /\ UNCHANGED queue /\ Closed(e.tx, o)
  /\ o = "Finalized" => \E l \in landed : l.env = e /\ l.result = "success"
  /\ o = "Failed" => Settled(e)
ConfirmMove ==
  \/ Rests
  \/ \E e \in Tracked : Retries(e) \/ \E o \in Outcomes : Resolves(e, o)

LEMMA ConfirmFrame ==
  ASSUME ConfirmLoop
  PROVE  /\ UNCHANGED <<caller, batch, b, stopped, head, acctSeq, pool, landed>>
         /\ lossy \subseteq lossy'
BY DEF ConfirmLoop, ConfirmTick, CGetClientFail, vars, CSnapshot, ConfirmPoll,
       CLanded, CStatusError, CNotFound, CNotFoundZero, CLatestLedger, CHalt, CFrame, reqVars, chainVars

LEMMA ConfirmUntracks ==
  ASSUME TxmAssumption, Inv, Gaps, NEW e \in todo, NEW failed \in BOOLEAN,
         ConfirmStore(e, failed), failed \/ e.seq <= acctSeq[e.acct], UNCHANGED acctSeq
  PROVE  Gaps' /\ Untracks(e)
<1>1. e \in Envelope /\ e.acct \in Accounts /\ e \in store[e.acct].unconf
  BY DEF Inv, SnapOK, Envelope
<1> DEFINE a == e.acct
           st == store[a]
           r == Confirm(st, e, failed)
<1>2. st \in StoreRecord /\ StoreOK(st) /\ acctSeq[a] \in Nat /\ Gapless(st, acctSeq[a])
  BY <1>1 DEF Inv, StoresOK, ChainOK, Gaps
<1>3. CanConfirm(st, e)
  BY <1>1 DEF CanConfirm
<1>4. r.unconf = st.unconf \ {e}
  BY <1>1, <1>2, <1>3, ConfirmOK
<1>5. Gapless(r, acctSeq[a])
  BY <1>1, <1>2, <1>3, ConfirmGapless
<1>6. store' = [store EXCEPT ![a] = r]
  BY DEF ConfirmStore
<1> HIDE DEF r
<1>7. \A d \in Accounts : store'[d] = IF d = a THEN r ELSE store[d]
  BY <1>1, <1>6 DEF Inv, StoresOK
<1>8. Gaps'
  BY <1>5, <1>7 DEF Gaps
<1>9. Untracks(e)
  BY <1>1, <1>4, <1>7 DEF Untracks, Inv, StoresOK
<1> QED BY <1>8, <1>9

LEMMA RetryMove ==
  ASSUME ReqOK, NEW c \in Calls, RetryOrFail(c)
  PROVE  \/ queue' = Append(queue, c) /\ UNCHANGED transactions /\ SameOutcome
         \/ UNCHANGED queue /\ Closed(c, "Failed")
<1> DEFINE at == tx[c].attempt + 1
           t == [tx[c] EXCEPT !.attempt = at]
<1>1. /\ t \in TxRecord /\ t.terminal = tx[c].terminal /\ t.status = tx[c].status
  <2>1. tx[c] \in TxRecord /\ at \in Nat
    BY DEF ReqOK, TxRecord
  <2> HIDE DEF at
  <2> QED BY <2>1 DEF TxRecord
<1>2. CASE /\ queue' = Append(queue, c) /\ tx' = [tx EXCEPT ![c] = t]
           /\ UNCHANGED transactions
  <2> HIDE DEF t
  <2> QED BY <1>1, <1>2 DEF SameOutcome, ReqOK
<1>3. CASE UpdateStatus(c, t, "Failed") /\ UNCHANGED queue
  <2> HIDE DEF t
  <2>1. "Failed" \in Outcomes
    BY DEF Outcomes, Terminal
  <2> QED BY <1>1, <1>3, <2>1, UpdateCloses
<1> QED BY <1>2, <1>3 DEF RetryOrFail

\* An envelope of the snapshot.
LEMMA SnapshotEnvelope ==
  ASSUME Inv, ChainInv, NEW e \in todo
  PROVE  /\ e \in Envelope /\ e.tx \in Calls /\ e.acct \in Accounts /\ e \in Tracked
         /\ e \in store[e.acct].unconf /\ e.kind = "invoke" /\ tx[e.tx] \in TxRecord
         /\ CanConfirm(store[e.acct], e)
         /\ e.seq \in Nat /\ e.maxLedger \in Nat /\ e.maxTime \in Nat
BY DEF Inv, SnapOK, StoresOK, ReqOK, Envelope, ChainInv, KindInv, Tracked, CanConfirm

\* cannotBeIncluded of a ledger the network has closed: the envelope is out of
\* the network's queue, and if it landed, then before that ledger.
LEMMA DeadEnvelope ==
  ASSUME TxmAssumption, Inv, ChainInv, NEW e \in todo, NEW v \in RpcViews,
         CannotBeIncluded(v, v, e)
  PROVE  /\ e \notin pool
         /\ \A l \in landed : l.env = e => l.ledger <= v - 1
<1>1. /\ e.maxLedger \in Nat /\ e.maxTime \in Nat /\ e.kind = "invoke"
  BY SnapshotEnvelope
<1>2. v \in Nat /\ v <= head /\ head \in Nat
  BY DEF RpcViews, Inv, ChainOK
<1>3. e \notin pool
  <2>1. ~Includable(e, head + 1)
    BY <1>1, <1>2 DEF CannotBeIncluded, Includable
  <2> QED BY <1>1, <2>1 DEF ChainInv, PoolInv
<1>4. ASSUME NEW l \in landed, l.env = e
      PROVE  l.ledger <= v - 1
  <2>1. l.ledger \in Nat /\ Includable(e, l.ledger)
    BY <1>4 DEF Inv, ChainOK, ChainInv, LandedInv
  <2> QED BY <1>1, <1>2, <2>1 DEF CannotBeIncluded, Includable
<1> QED BY <1>3, <1>4

LEMMA ExpireMove ==
  ASSUME TxmAssumption, Inv, ChainInv, NEW e \in todo, NEW v \in RpcViews,
         ExpireOrPend(e, v), CannotBeIncluded(v, v, e) => Settled(e), UNCHANGED acctSeq
  PROVE  Gaps' /\ (Rests \/ Retries(e) \/ Resolves(e, "Failed"))
<1>1. CASE ~CannotBeIncluded(v, v, e)
  <2>1. Rests
    BY <1>1 DEF ExpireOrPend, Rests
  <2> QED BY <2>1, GapsFrame DEF ChainInv, Rests
<1>2. CASE CannotBeIncluded(v, v, e)
  <2>1. ConfirmStore(e, TRUE) /\ RetryOrFail(e.tx)
    BY <1>2, SnapshotEnvelope DEF ExpireOrPend
  <2>2. Gaps' /\ Untracks(e)
    BY <2>1, ConfirmUntracks DEF ChainInv
  <2>3. e \notin pool
    BY <1>2, DeadEnvelope
  <2>4. \/ queue' = Append(queue, e.tx) /\ UNCHANGED transactions /\ SameOutcome
        \/ UNCHANGED queue /\ Closed(e.tx, "Failed")
    BY <2>1, RetryMove, SnapshotEnvelope DEF Inv
  <2> QED BY <1>2, <2>2, <2>3, <2>4 DEF Retries, Resolves
<1> QED BY <1>1, <1>2

LEMMA ConfirmMoves ==
  ASSUME TxmAssumption, Inv, ChainInv, ConfirmLoop
  PROVE  Gaps' /\ ConfirmMove
<1>1. UNCHANGED acctSeq /\ Gaps /\ ReqOK
  BY ConfirmFrame DEF ChainInv, Inv
<1>2. ASSUME Rests PROVE Gaps' /\ ConfirmMove
  BY <1>1, <1>2, GapsFrame DEF Rests, ConfirmMove
<1>3. CASE CSnapshot \/ CHalt \/ CGetClientFail
  BY <1>2, <1>3 DEF CSnapshot, CHalt, CGetClientFail, reqVars, vars, Rests
<1>4. ASSUME NEW e \in todo, CNotFoundZero(e) PROVE Gaps' /\ ConfirmMove
  BY <1>2, <1>4 DEF CNotFoundZero, Rests
<1>5. {"Finalized", "Failed", "Unknown"} \subseteq Outcomes
  BY DEF Outcomes, Terminal
<1>6. ASSUME NEW e \in todo, NEW v \in RpcViews, ExpireOrPend(e, v),
             CannotBeIncluded(v, v, e) => Settled(e)
      PROVE  Gaps' /\ ConfirmMove
  <2>1. Gaps' /\ (Rests \/ Retries(e) \/ Resolves(e, "Failed"))
    BY <1>1, <1>6, ExpireMove
  <2>2. e \in Tracked
    BY SnapshotEnvelope
  <2> QED BY <1>5, <2>1, <2>2 DEF ConfirmMove
<1>7. ASSUME NEW e \in todo, CLanded(e) PROVE Gaps' /\ ConfirmMove
  <2>1. PICK l \in landed :
          /\ l.env = e
          /\ ConfirmStore(e, FALSE)
          /\ CASE l.result = "success" ->
                    UpdateStatus(e.tx, tx[e.tx], "Finalized") /\ UNCHANGED queue
               [] l.result = "failed" ->
                    UpdateStatus(e.tx, tx[e.tx], "Failed") /\ UNCHANGED queue
               [] l.result = "exhausted" -> RetryOrFail(e.tx)
    BY <1>7, SnapshotEnvelope DEF CLanded
  <2>2. l.result \in {"success", "failed", "exhausted"}
    BY DEF Inv, ChainOK, Results
  <2>3. e \in Tracked /\ e.tx \in Calls /\ tx[e.tx] \in TxRecord /\ e.acct \in Accounts
    BY SnapshotEnvelope
  <2>4. e.seq <= acctSeq[e.acct] /\ e.seq \in Nat /\ acctSeq[e.acct] \in Nat
    BY <2>1, <2>3, SnapshotEnvelope DEF ChainInv, LandedInv, Inv, ChainOK
  <2>5. Gaps' /\ Untracks(e)
    BY <1>1, <2>1, <2>4, ConfirmUntracks
  <2>6. e \notin pool
    BY <2>4 DEF ChainInv, PoolInv
  <2>7. l.result # "success" => Settled(e)
    BY <2>1 DEF ChainInv, LandedInv, Settled
  <2>8. CASE l.result = "success"
    <3>1. Closed(e.tx, "Finalized") /\ UNCHANGED queue
      BY <1>1, <1>5, <2>1, <2>3, <2>8, UpdateCloses
    <3>2. Resolves(e, "Finalized")
      BY <2>1, <2>5, <2>6, <2>8, <3>1 DEF Resolves
    <3> QED BY <1>5, <2>3, <2>5, <3>2 DEF ConfirmMove
  <2>9. CASE l.result = "failed"
    <3>1. Closed(e.tx, "Failed") /\ UNCHANGED queue
      BY <1>1, <1>5, <2>1, <2>3, <2>9, UpdateCloses
    <3>2. Resolves(e, "Failed")
      BY <2>5, <2>6, <2>7, <2>9, <3>1 DEF Resolves
    <3> QED BY <1>5, <2>3, <2>5, <3>2 DEF ConfirmMove
  <2>10. CASE l.result = "exhausted"
    <3>1. RetryOrFail(e.tx)
      BY <2>1, <2>10
    <3>2. \/ queue' = Append(queue, e.tx) /\ UNCHANGED transactions /\ SameOutcome
          \/ UNCHANGED queue /\ Closed(e.tx, "Failed")
      BY <1>1, <2>3, <3>1, RetryMove
    <3>3. Retries(e) \/ Resolves(e, "Failed")
      BY <2>5, <2>6, <2>7, <2>10, <3>2 DEF Retries, Resolves
    <3> QED BY <1>5, <2>3, <2>5, <3>3 DEF ConfirmMove
  <2> QED BY <2>2, <2>8, <2>9, <2>10
<1>8. ASSUME NEW e \in todo, CStatusError(e) PROVE Gaps' /\ ConfirmMove
  <2>1. CASE ~TimeBoundLongPassed(e)
    BY <1>2, <1>8, <2>1 DEF CStatusError, Rests
  <2>2. CASE TimeBoundLongPassed(e)
    <3>1. /\ e \in Tracked /\ e.tx \in Calls /\ tx[e.tx] \in TxRecord
          /\ CanConfirm(store[e.acct], e) /\ e.kind = "invoke" /\ e.maxTime \in Nat
      BY SnapshotEnvelope
    <3>2. /\ ConfirmStore(e, TRUE) /\ UNCHANGED queue
          /\ UpdateStatus(e.tx, tx[e.tx], "Unknown")
      BY <1>8, <2>2, <3>1 DEF CStatusError
    <3>3. Gaps' /\ Untracks(e)
      BY <1>1, <3>2, ConfirmUntracks
    <3>4. e \notin pool
      <4>1. head \in Nat /\ StatusUnknownMargin \in Nat
        BY DEF Inv, ChainOK, TxmAssumption
      <4>2. ~Includable(e, head + 1)
        BY <2>2, <3>1, <4>1 DEF TimeBoundLongPassed, Includable
      <4> QED BY <3>1, <4>2 DEF ChainInv, PoolInv
    <3>5. Closed(e.tx, "Unknown")
      BY <1>1, <1>5, <3>1, <3>2, UpdateCloses
    <3>6. Resolves(e, "Unknown")
      BY <3>2, <3>3, <3>4, <3>5 DEF Resolves
    <3> QED BY <1>5, <3>1, <3>3, <3>6 DEF ConfirmMove
  <2> QED BY <2>1, <2>2
<1>9. ASSUME NEW e \in todo, CNotFound(e) PROVE Gaps' /\ ConfirmMove
  <2>1. PICK v \in RpcViews : NotFoundAt(e, v) /\ ExpireOrPend(e, v)
    BY <1>9 DEF CNotFound
  <2>2. ASSUME CannotBeIncluded(v, v, e) PROVE Settled(e)
    <3>1. \A l \in landed : l.env = e => l.ledger <= v - 1 /\ l.ledger \in Nat
      BY <2>2, DeadEnvelope DEF Inv, ChainOK
    <3>2. v \in Nat
      BY DEF RpcViews
    <3>3. \A l \in landed : l.env # e
      BY <2>1, <3>1, <3>2 DEF NotFoundAt
    <3> QED BY <3>3 DEF Settled
  <2> QED BY <1>6, <2>1, <2>2
<1>10. CASE CLatestLedger
  <2>1. cur \in todo
    BY <1>10 DEF CLatestLedger, Inv, SnapOK
  <2>2. Settled(cur)
    BY <1>10 DEF CLatestLedger, Settled
  <2>3. CASE \E v \in RpcViews : ExpireOrPend(cur, v)
    BY <1>6, <2>1, <2>2, <2>3
  <2>4. CASE UNCHANGED <<store, queue, tx, transactions>>
    BY <1>2, <2>4 DEF Rests
  <2> QED BY <1>10, <2>3, <2>4 DEF CLatestLedger
<1> QED BY <1>3, <1>4, <1>7, <1>8, <1>9, <1>10 DEF ConfirmLoop, ConfirmTick, ConfirmPoll

LEMMA ConfirmChain ==
  ASSUME TxmAssumption, Inv, ChainInv, ConfirmLoop
  PROVE  ChainInv'
<1>1. /\ UNCHANGED <<b, head, acctSeq, pool, landed>> /\ lossy \subseteq lossy'
  BY ConfirmFrame
<1>2. Gaps' /\ ConfirmMove
  BY ConfirmMoves
<1>3. LandedInv'
  BY <1>1 DEF ChainInv, LandedInv, Includable
<1>4. \A a \in Accounts : /\ store'[a].unconf \subseteq store[a].unconf
                          /\ \A e \in pool : e \in store[a].unconf => e \in store'[a].unconf
  <2>1. CASE Rests
    BY <2>1 DEF Rests
  <2>2. ASSUME NEW e, Untracks(e), e \notin pool
        PROVE  \A a \in Accounts :
                 /\ store'[a].unconf \subseteq store[a].unconf
                 /\ \A f \in pool : f \in store[a].unconf => f \in store'[a].unconf
    BY <2>2 DEF Untracks
  <2> QED BY <1>2, <2>1, <2>2 DEF ConfirmMove, Retries, Resolves
<1>5. KindInv'
  BY <1>1, <1>4 DEF ChainInv, KindInv
<1>6. PoolInv'
  <2>1. \A e \in pool : e.acct \in Accounts
    BY DEF Inv, ChainOK, Envelope
  <2> QED BY <1>1, <1>4, <2>1 DEF ChainInv, PoolInv, Includable
<1> QED BY <1>2, <1>3, <1>5, <1>6 DEF ChainInv

\* --------------------------------------------------------------------------
\* The ledger.

\* What one ledger includes.
Includes(inc, res) ==
  /\ inc \subseteq pool
  /\ \A e \in inc : Includable(e, head + 1) /\ e.seq = acctSeq[e.acct] + 1
  /\ landed' = landed \union
       {[env |-> e, ledger |-> head + 1, result |-> res[e]] : e \in inc}
  /\ acctSeq' = [a \in Accounts |->
       acctSeq[a] + IF \E e \in inc : e.acct = a THEN 1 ELSE 0]
  /\ pool' = {e \in pool : Includable(e, head + 2) /\ e.seq > acctSeq'[e.acct]}

LEMMA LedgerMove ==
  ASSUME CloseLedger
  PROVE  /\ \E inc, res : Includes(inc, res)
         /\ head' = head + 1
         /\ UNCHANGED <<transactions, caller, tx, queue, batch, b, store, stopped, lossy>>
<1>1. PICK inc \in SUBSET {e \in pool : Includable(e, head + 1)
                                      /\ e.seq = acctSeq[e.acct] + 1} :
       /\ \E res \in [inc -> IF "onchainFailure" \in Faults
                              THEN Results ELSE {"success"}] :
            landed' = landed \union
              {[env |-> e, ledger |-> head + 1, result |-> res[e]] : e \in inc}
       /\ acctSeq' = [a \in Accounts |->
            acctSeq[a] + IF \E e \in inc : e.acct = a THEN 1 ELSE 0]
       /\ pool' = {e \in pool : Includable(e, head + 2)
                                /\ e.seq > acctSeq'[e.acct]}
  BY DEF CloseLedger
<1>2. PICK res : landed' = landed \union
              {[env |-> e, ledger |-> head + 1, result |-> res[e]] : e \in inc}
  BY <1>1
<1>3. Includes(inc, res)
  BY <1>1, <1>2 DEF Includes
<1>4. /\ head' = head + 1
      /\ UNCHANGED <<transactions, caller, tx, queue, batch, b, store, stopped, lossy>>
  BY DEF CloseLedger, reqVars
<1> QED BY <1>3, <1>4

LEMMA LedgerChain ==
  ASSUME TxmAssumption, Inv, ChainInv, CloseLedger
  PROVE  ChainInv'
<1>1. PICK inc, res : Includes(inc, res)
  BY LedgerMove
<1>2. head' = head + 1 /\ UNCHANGED <<b, store, lossy>>
  BY LedgerMove
<1>3. /\ head \in Nat /\ \A a \in Accounts : acctSeq[a] \in Nat
      /\ \A e \in pool : e \in Envelope /\ e.acct \in Accounts /\ e.seq \in Nat
      /\ \A l \in landed : /\ l.env \in Envelope /\ l.env.acct \in Accounts
                           /\ l.env.seq \in Nat /\ l.ledger \in Nat
  BY DEF Inv, ChainOK, Envelope
<1>4. \A a \in Accounts : /\ acctSeq'[a] \in {acctSeq[a], acctSeq[a] + 1}
                          /\ (\E e \in inc : e.acct = a) => acctSeq'[a] = acctSeq[a] + 1
  BY <1>1, <1>3 DEF Includes
<1>5. Gaps'
  <2>1. \A a \in Accounts : store[a] \in StoreRecord
    BY DEF Inv, StoresOK
  <2>2. \A a \in Accounts : acctSeq'[a] \in Nat /\ acctSeq[a] <= acctSeq'[a]
    BY <1>3, <1>4
  <2>3. \A a \in Accounts : Gapless(store[a], acctSeq'[a])
    BY <1>3, <2>1, <2>2, GrowGapless DEF ChainInv, Gaps
  <2> QED BY <1>2, <2>3 DEF Gaps
<1>6. \A l \in landed' : l \in landed \/ \E e \in inc :
         l = [env |-> e, ledger |-> head + 1, result |-> res[e]]
  BY <1>1 DEF Includes
<1>7. LandedInv'
  <2>1. ASSUME NEW l \in landed'
        PROVE  l.env.seq <= acctSeq'[l.env.acct] /\ Includable(l.env, l.ledger)
    <3>1. CASE l \in landed
      <4>1. l.env.seq <= acctSeq[l.env.acct] /\ Includable(l.env, l.ledger)
        BY <3>1 DEF ChainInv, LandedInv
      <4> QED BY <1>3, <1>4, <3>1, <4>1
    <3>2. ASSUME NEW e \in inc, l = [env |-> e, ledger |-> head + 1, result |-> res[e]]
          PROVE  l.env.seq <= acctSeq'[l.env.acct] /\ Includable(l.env, l.ledger)
      <4>1. l.env = e /\ l.ledger = head + 1
        BY <3>2
      <4>2. e \in pool /\ Includable(e, head + 1) /\ e.seq = acctSeq[e.acct] + 1
        BY <1>1 DEF Includes
      <4>3. acctSeq'[e.acct] = acctSeq[e.acct] + 1
        BY <1>3, <1>4, <4>2
      <4> QED BY <1>3, <4>1, <4>2, <4>3
    <3> QED BY <1>6, <3>1, <3>2
  <2>2. ASSUME NEW l \in landed, NEW e \in inc PROVE l.env # e
    <3>1. l.env.seq <= acctSeq[l.env.acct]
      BY DEF ChainInv, LandedInv
    <3>2. e.seq = acctSeq[e.acct] + 1
      BY <1>1 DEF Includes
    <3> QED BY <1>3, <3>1, <3>2
  <2>3. ASSUME NEW l \in landed', NEW m \in landed', l.env = m.env
        PROVE  l = m
    <3>1. l \in landed /\ m \in landed => l = m
      BY <2>3 DEF ChainInv, LandedInv
    <3> QED BY <1>6, <2>2, <2>3, <3>1
  <2> QED BY <2>1, <2>3 DEF LandedInv, Includable
<1>8. KindInv'
  BY <1>2 DEF ChainInv, KindInv
<1>9. PoolInv'
  <2>1. ASSUME NEW e \in pool'
        PROVE  /\ e.seq > acctSeq'[e.acct] /\ Includable(e, head' + 1)
               /\ e.kind = "invoke" => e.tx \in lossy \/ e \in store[e.acct].unconf
    <3>1. e \in pool /\ Includable(e, head + 2) /\ e.seq > acctSeq'[e.acct]
      BY <1>1 DEF Includes
    <3>2. head' + 1 = head + 2
      BY <1>2, <1>3
    <3> QED BY <3>1, <3>2 DEF ChainInv, PoolInv
  <2> QED BY <1>2, <2>1 DEF PoolInv, Includable
<1> QED BY <1>5, <1>7, <1>8, <1>9 DEF ChainInv

LEMMA ChainInvFrame ==
  ASSUME ChainInv, UNCHANGED <<b, store, head, acctSeq, pool, landed, lossy>>
  PROVE  ChainInv'
BY DEF ChainInv, Gaps, LandedInv, KindInv, PoolInv, Includable

LEMMA CallerFrame ==
  ASSUME NEW c \in Calls, Caller(c)
  PROVE  UNCHANGED <<batch, b, store, stopped, head, acctSeq, pool, landed, lossy>>
BY DEF Caller, EnqueueStopped, Enqueue, EnqueueSend, EnqueueFull,
       EnqueueEvict, EnqueueReject, LookupToWait, WaitReturn, chainVars

LEMMA InitChain == ASSUME TxmAssumption, Init PROVE ChainInv
<1>1. Gaps
  BY NoStoreGapless DEF Init, Gaps
<1>2. LandedInv
  BY DEF Init, LandedInv
<1>3. KindInv
  BY DEF Init, KindInv, Idle, NoStore, NewTxStore
<1>4. PoolInv
  <2>1. \A a \in Accounts : Leftover(a).kind = "foreign" /\ Leftover(a).seq = 1
                            /\ Leftover(a).acct = a
    BY DEF Leftover
  <2>2. ASSUME NEW e \in pool PROVE \E a \in Accounts : e = Leftover(a)
    BY DEF Init
  <2>3. ASSUME NEW e \in pool PROVE e.seq > acctSeq[e.acct] /\ e.kind # "invoke"
    BY <2>1, <2>2 DEF Init
  <2> QED BY <2>3 DEF PoolInv
<1> QED BY <1>1, <1>2, <1>3, <1>4 DEF ChainInv

LEMMA NextChain == ASSUME TxmAssumption, Inv, ChainInv, [Next]_vars PROVE ChainInv'
<1>1. CASE \E c \in Calls : Caller(c)
  BY <1>1, CallerFrame, ChainInvFrame
<1>2. CASE Broadcast
  BY <1>2, BroadcastChain
<1>3. CASE ConfirmLoop
  BY <1>3, ConfirmChain
<1>4. CASE PruneTerminal \/ Stop \/ UNCHANGED vars
  BY <1>4, ChainInvFrame DEF PruneTerminal, Stop, vars, chainVars
<1>5. CASE CloseLedger
  BY <1>5, LedgerChain
<1> QED BY <1>1, <1>2, <1>3, <1>4, <1>5 DEF Next

\* What the chain holds agrees with what the stores track, in every reachable state.
THEOREM ChainInvariance == Spec => []ChainInv
<1>1. Init => ChainInv
  BY TxmAssumption, InitChain
<1>2. Inv /\ ChainInv /\ [Next]_vars => ChainInv'
  BY TxmAssumption, NextChain
<1> QED BY <1>1, <1>2, Invariance, PTL DEF Spec

\* ResyncNonce, Confirm and Release plug every gap: a sequence above the
\* account's and below nextSequence is tracked or recycled, whatever view the
\* RPC gave of the account and whichever envelopes landed or expired.
THEOREM NoGapEver == Spec => []NoSequenceGap
<1>1. ChainInv => NoSequenceGap
  BY DEF ChainInv, Gaps, Gapless, NoSequenceGap
<1> QED BY <1>1, ChainInvariance, PTL

\* cannotBeIncluded and the status_unknown timeout never recycle a sequence the
\* network may still use, although the RPC lags and the loops interleave.
THEOREM RecycledAreDead == Spec => []RecycledSequenceDead
<1>1. Inv /\ ChainInv => RecycledSequenceDead
  <2> SUFFICES ASSUME Inv, ChainInv, NEW e \in pool, e.kind = "invoke", e.tx \notin lossy
               PROVE  e.seq \notin store[e.acct].failed
    BY DEF RecycledSequenceDead
  <2>1. e.acct \in Accounts /\ e \in store[e.acct].unconf
    BY DEF Inv, ChainOK, Envelope, ChainInv, PoolInv
  <2> QED BY <2>1 DEF Inv, StoresOK, StoreOK
<1> QED BY <1>1, Invariance, ChainInvariance, PTL

\* --------------------------------------------------------------------------
\* The places of a request.

Has(q, c)   == \E i \in DOMAIN q : q[i] = c
Distinct(q) == \A i, j \in DOMAIN q : q[i] = q[j] => i = j

Queued(c)     == Has(queue, c)
Being(c)      == b.pc \in Active /\ b.tx = c
IsTracked(c)  == \E e \in Tracked : e.tx = c
InFlight(c)   == Queued(c) \/ c \in batch \/ Being(c) \/ IsTracked(c)
Submitting(c) == caller[c].pc \in {"send", "evict", "resend"}
Entering(c)   == caller[c].pc = "new" \/ Submitting(c)

\* A request is in one place.
Apart(c) ==
  /\ Queued(c) => c \notin batch /\ ~Being(c) /\ ~IsTracked(c) /\ ~Entering(c)
  /\ c \in batch => ~Being(c) /\ ~IsTracked(c) /\ ~Entering(c)
  /\ Being(c) => ~IsTracked(c) /\ ~Entering(c)
  /\ IsTracked(c) => ~Entering(c)

\* A closed request is in none.
OpenOK(c) ==
  /\ Done(c) => ~InFlight(c) /\ ~Entering(c)
  /\ tx[c].status \in Terminal => Done(c)

\* The id of a request on its way leads to it.
MapOK(c) == InFlight(c) \/ Submitting(c) => Registered(c) = c

\* A registered request that is open is on its way, unless the loop lost it to a
\* full channel after a getClient failure, or to a stop.
HomeOK(c) ==
  /\ "client" \notin Faults /\ ~stopped
  /\ Registered(c) = c /\ ~Done(c) /\ ~Submitting(c)
  => InFlight(c)

CallOK(c) == Apart(c) /\ OpenOK(c) /\ MapOK(c) /\ HomeOK(c)

LoopPlace ==
  /\ b.pc \notin Working => b.tx = NoCall
  /\ b.pc = "idle" => batch = {}
  /\ b.pc = "infra" => "client" \in Faults \/ stopped
TrackedOnce == \A e, f \in Tracked : e.tx = f.tx => e = f
PublishOK ==
  b.pc = "publish" => Done(b.tx) \/ Queued(b.tx) \/ IsTracked(b.tx)

PlaceInv ==
  /\ Distinct(queue) /\ LoopPlace /\ TrackedOnce /\ PublishOK
  /\ \A c \in Calls : CallOK(c)

\* The channel.
LEMMA AppendHas ==
  ASSUME NEW q \in Seq(Calls), NEW k \in Calls
  PROVE  /\ \A c : Has(Append(q, k), c) <=> (Has(q, c) \/ c = k)
         /\ Distinct(q) /\ ~Has(q, k) => Distinct(Append(q, k))
<1> DEFINE r == Append(q, k)
           n == Len(q)
<1>1. n \in Nat /\ DOMAIN q = 1 .. n
  OBVIOUS
<1>2. /\ DOMAIN r = 1 .. n + 1 /\ r[n + 1] = k
      /\ \A i \in 1 .. n : r[i] = q[i]
  OBVIOUS
<1> HIDE DEF r, n
<1>3. ASSUME NEW c PROVE Has(r, c) <=> (Has(q, c) \/ c = k)
  <2>1. ASSUME NEW i \in DOMAIN r, r[i] = c PROVE Has(q, c) \/ c = k
    <3>1. i \in 1 .. n \/ i = n + 1
      BY <1>1, <1>2
    <3> QED BY <1>1, <1>2, <2>1, <3>1 DEF Has
  <2>2. ASSUME NEW i \in DOMAIN q, q[i] = c PROVE Has(r, c)
    <3>1. i \in 1 .. n + 1
      BY <1>1
    <3> QED BY <1>1, <1>2, <2>2, <3>1 DEF Has
  <2>3. Has(r, k)
    <3>1. n + 1 \in DOMAIN r
      BY <1>1, <1>2
    <3> QED BY <1>2, <3>1 DEF Has
  <2> QED BY <2>1, <2>2, <2>3 DEF Has
<1>4. ASSUME Distinct(q), ~Has(q, k), NEW i \in DOMAIN r, NEW j \in DOMAIN r, r[i] = r[j]
      PROVE  i = j
  <2>1. (i \in 1 .. n \/ i = n + 1) /\ (j \in 1 .. n \/ j = n + 1)
    BY <1>1, <1>2
  <2> QED BY <1>1, <1>2, <1>4, <2>1 DEF Has, Distinct
<1> QED BY <1>3, <1>4 DEF Distinct, r

LEMMA TailHas ==
  ASSUME NEW q \in Seq(Calls), q # <<>>, Distinct(q)
  PROVE  /\ Head(q) \in Calls /\ Has(q, Head(q)) /\ Distinct(Tail(q))
         /\ \A c : Has(Tail(q), c) <=> (Has(q, c) /\ c # Head(q))
<1> DEFINE r == Tail(q)
           n == Len(q)
<1>1. n \in Nat \ {0} /\ DOMAIN q = 1 .. n /\ Head(q) = q[1] /\ Head(q) \in Calls
  OBVIOUS
<1>2. r \in Seq(Calls) /\ Len(r) = n - 1 /\ \A i \in 1 .. n - 1 : r[i] = q[i + 1]
  BY HeadTailProperties
<1>3. DOMAIN r = 1 .. n - 1
  BY <1>2
<1> HIDE DEF r, n
<1>4. Has(q, Head(q))
  BY <1>1 DEF Has
<1>5. Distinct(r)
  <2> SUFFICES ASSUME NEW i \in 1 .. n - 1, NEW j \in 1 .. n - 1, r[i] = r[j]
               PROVE  i = j
    BY <1>3 DEF Distinct
  <2>1. i + 1 \in 1 .. n /\ j + 1 \in 1 .. n /\ q[i + 1] = q[j + 1]
    BY <1>1, <1>2
  <2>2. i + 1 = j + 1
    BY <1>1, <2>1 DEF Distinct
  <2> QED BY <1>1, <2>2
<1>6. ASSUME NEW c, Has(r, c) PROVE Has(q, c) /\ c # Head(q)
  <2>1. PICK i \in 1 .. n - 1 : r[i] = c
    BY <1>3, <1>6 DEF Has
  <2>2. i + 1 \in 1 .. n /\ q[i + 1] = c /\ i + 1 # 1
    BY <1>1, <1>2, <2>1
  <2>3. 1 \in 1 .. n
    BY <1>1
  <2> QED BY <1>1, <2>2, <2>3 DEF Has, Distinct
<1>7. ASSUME NEW c, Has(q, c), c # Head(q) PROVE Has(r, c)
  <2>1. PICK j \in 1 .. n : q[j] = c
    BY <1>1, <1>7 DEF Has
  <2>2. j # 1
    BY <1>1, <1>7, <2>1
  <2> DEFINE i == j - 1
  <2>3. i \in 1 .. n - 1 /\ i + 1 = j
    BY <1>1, <2>2
  <2> HIDE DEF i
  <2>4. r[i] = c
    BY <1>2, <2>1, <2>3
  <2> QED BY <1>3, <2>3, <2>4 DEF Has
<1> QED BY <1>1, <1>4, <1>5, <1>6, <1>7 DEF r

\* Nothing about c changes.
SameAt(c) ==
  /\ Queued(c)' <=> Queued(c)
  /\ c \in batch' <=> c \in batch
  /\ Being(c)' <=> Being(c)
  /\ IsTracked(c)' <=> IsTracked(c)
  /\ Entering(c)' <=> Entering(c)
  /\ Submitting(c)' <=> Submitting(c)
  /\ Done(c)' <=> Done(c)
  /\ (tx[c].status \in Terminal)' => Done(c)'
  /\ (Registered(c) = c)' <=> (Registered(c) = c)

LEMMA SameAtOK ==
  ASSUME NEW c, CallOK(c), SameAt(c), stopped => stopped'
  PROVE  CallOK(c)'
<1>1. Apart(c)'
  BY DEF CallOK, SameAt, Apart
<1>2. OpenOK(c)'
  BY DEF CallOK, SameAt, OpenOK, InFlight
<1>3. MapOK(c)'
  BY DEF CallOK, SameAt, MapOK, InFlight
<1>4. HomeOK(c)'
  BY DEF CallOK, SameAt, HomeOK, InFlight
<1> QED BY <1>1, <1>2, <1>3, <1>4 DEF CallOK

LEMMA TrackedSame ==
  ASSUME SameTracked
  PROVE  Tracked' = Tracked /\ \A c : IsTracked(c)' <=> IsTracked(c)
<1>1. Tracked' = Tracked
  BY DEF SameTracked, Tracked
<1> QED BY <1>1 DEF IsTracked

LEMMA CallerSame ==
  ASSUME UNCHANGED caller, NEW c
  PROVE  (Entering(c)' <=> Entering(c)) /\ (Submitting(c)' <=> Submitting(c))
BY DEF Entering, Submitting

\* Neither the status nor the map entry of c changes.
Known(c) ==
  /\ Done(c)' <=> Done(c)
  /\ (tx[c].status \in Terminal)' => Done(c)'
  /\ (Registered(c) = c)' <=> (Registered(c) = c)

LEMMA OutcomeKnown ==
  ASSUME SameOutcome, UNCHANGED transactions, NEW c \in Calls, CallOK(c)
  PROVE  Known(c)
BY DEF SameOutcome, CallOK, OpenOK, Done, Known, Registered

LEMMA ClosedKnown ==
  ASSUME TxmAssumption, ReqOK, NEW k \in Calls, NEW o, Closed(k, o),
         NEW c \in Calls, c # k, CallOK(c)
  PROVE  Known(c)
<1>1. tx'[c] = tx[c]
  BY DEF Closed
<1>2. (Registered(c) = c)' <=> (Registered(c) = c)
  <2>1. c # NoCall /\ IdOf[c] \in Ids /\ IdOf[k] \in Ids
    BY DEF Calls, NoCall, TxmAssumption
  <2>2. transactions' = IF ~PruneEnabled /\ transactions[IdOf[k]] = k
          THEN [transactions EXCEPT ![IdOf[k]] = NoCall] ELSE transactions
    BY DEF Closed, Evict
  <2> QED BY <2>1, <2>2 DEF Registered, ReqOK
<1> QED BY <1>1, <1>2 DEF Known, Done, CallOK, OpenOK

LEMMA ClosedDone ==
  ASSUME NEW k \in Calls, NEW o \in Outcomes, Closed(k, o)
  PROVE  Done(k)'
BY DEF Closed, Done, Outcomes, Terminal

LEMMA NextTxPlace ==
  ASSUME NextTx
  PROVE  b'.pc = "next" /\ b'.tx = NoCall /\ \A c : ~Being(c)'
<1>1. b'.pc = "next" /\ b'.tx = NoCall
  BY DEF NextTx, Idle
<1> QED BY <1>1 DEF Being, Active, Working

\* A request the loop stops working on ends in one of the other places, or is
\* closed, or is lost to a stop or to the requeue.
LEMMA LeavesLoop ==
  ASSUME TxmAssumption, Inv, PlaceInv, UNCHANGED <<caller, stopped>>,
         Fails \/ Drops \/ Requeues
  PROVE  PlaceInv'
<1>1. PICK k : k = b.tx
  OBVIOUS
<1>2. b.pc \in Active /\ NextTx /\ batch' = batch /\ SameTracked
  BY DEF Fails, Drops, Requeues, Active, Working
<1>3. k \in Calls /\ Being(k) /\ CallOK(k) /\ queue \in Seq(Calls)
  BY <1>1, <1>2 DEF Inv, LoopOK, QueueOK, Active, Being, PlaceInv
<1>4. /\ b'.pc = "next" /\ b'.tx = NoCall /\ \A c : ~Being(c)'
  BY <1>2, NextTxPlace
<1>5. Tracked' = Tracked /\ \A c : IsTracked(c)' <=> IsTracked(c)
  BY <1>2, TrackedSame
<1>6. \A c : (Entering(c)' <=> Entering(c)) /\ (Submitting(c)' <=> Submitting(c))
  BY CallerSame
<1>7. LoopPlace' /\ PublishOK'
  BY <1>2, <1>4 DEF LoopPlace, PublishOK
<1>8. TrackedOnce'
  BY <1>5 DEF TrackedOnce, PlaceInv
<1>9. \A c \in Calls : c # k => ~Being(c)
  BY <1>1 DEF Being
<1>10. CASE Requeues
  <2>1. queue' = Append(queue, k) /\ ~Has(queue, k)
    BY <1>1, <1>3, <1>10 DEF Requeues, CallOK, Apart, Queued
  <2>2. /\ \A c : Queued(c)' <=> (Queued(c) \/ c = k)
        /\ Distinct(queue')
    BY <1>3, <2>1, AppendHas DEF Queued, PlaceInv
  <2>3. ASSUME NEW c \in Calls PROVE Known(c) /\ CallOK(c)
    BY <1>10, OutcomeKnown DEF Requeues, PlaceInv
  <2>4. ASSUME NEW c \in Calls, c # k PROVE CallOK(c)'
    BY <1>2, <1>4, <1>5, <1>6, <1>9, <2>2, <2>3, <2>4, SameAtOK DEF SameAt, Known
  <2>5. CallOK(k)'
    <3>1. Known(k)
      BY <1>3, <2>3
    <3> QED BY <1>2, <1>3, <1>4, <1>5, <1>6, <2>2, <3>1
            DEF CallOK, Apart, OpenOK, MapOK, HomeOK, InFlight, Known
  <2>6. \A c \in Calls : CallOK(c)'
    BY <2>4, <2>5
  <2> QED BY <1>7, <1>8, <2>2, <2>6 DEF PlaceInv
<1>11. CASE Fails \/ Drops
  <2>1. queue' = queue /\ \A c : Queued(c)' <=> Queued(c)
    BY <1>11 DEF Fails, Drops, Queued
  <2>2. Distinct(queue)'
    BY <2>1 DEF PlaceInv, Distinct
  <2>3. ASSUME NEW c \in Calls, c # k PROVE CallOK(c) /\ Known(c)
    <3>1. CASE Fails
      BY <1>1, <1>3, <2>3, <3>1, ClosedKnown DEF Fails, PlaceInv, Inv
    <3>2. CASE Drops
      BY <3>2, OutcomeKnown DEF Drops, PlaceInv
    <3> QED BY <1>11, <3>1, <3>2
  <2>4. ASSUME NEW c \in Calls, c # k PROVE CallOK(c)'
    BY <1>2, <1>4, <1>5, <1>6, <1>9, <2>1, <2>3, <2>4, SameAtOK DEF SameAt, Known
  <2>5. ~InFlight(k)' /\ ~Entering(k)' /\ ~Submitting(k)' /\ Apart(k)'
    BY <1>2, <1>3, <1>4, <1>5, <1>6, <2>1 DEF CallOK, Apart, InFlight, Entering
  <2>6. CallOK(k)'
    <3>1. CASE Fails
      <4>1. Done(k)'
        BY <1>1, <1>3, <3>1, ClosedDone DEF Fails, Outcomes, Terminal
      <4> QED BY <2>5, <4>1 DEF CallOK, OpenOK, MapOK, HomeOK
    <3>2. CASE Drops
      <4>1. Known(k)
        BY <1>3, <3>2, OutcomeKnown DEF Drops
      <4>2. "client" \in Faults \/ stopped'
        BY <3>2 DEF Drops, PlaceInv, LoopPlace
      <4> QED BY <1>3, <2>5, <4>1, <4>2 DEF CallOK, OpenOK, MapOK, HomeOK, Known
    <3> QED BY <1>11, <3>1, <3>2
  <2>7. \A c \in Calls : CallOK(c)'
    BY <2>4, <2>6
  <2> QED BY <1>7, <1>8, <2>2, <2>7 DEF PlaceInv
<1> QED BY <1>10, <1>11

\* A step that moves no request.
LEMMA NothingMoves ==
  ASSUME PlaceInv, stopped => stopped',
         UNCHANGED <<caller, queue, batch, transactions>>, SameTracked, SameOutcome,
         b'.tx = b.tx \/ (b.pc \notin Active /\ b'.pc \notin Active),
         b'.pc \in Active <=> b.pc \in Active
  PROVE  /\ Distinct(queue)' /\ TrackedOnce'
         /\ \A c \in Calls : SameAt(c) /\ CallOK(c)'
<1>1. Tracked' = Tracked /\ \A c : IsTracked(c)' <=> IsTracked(c)
  BY TrackedSame
<1>2. Distinct(queue)' /\ TrackedOnce'
  BY <1>1 DEF PlaceInv, Distinct, TrackedOnce
<1>3. ASSUME NEW c \in Calls PROVE SameAt(c) /\ CallOK(c)'
  <2>1. CallOK(c) /\ Known(c)
    BY OutcomeKnown DEF PlaceInv
  <2>2. /\ Queued(c)' <=> Queued(c)
        /\ Being(c)' <=> Being(c)
    BY DEF Queued, Being
  <2>3. (Entering(c)' <=> Entering(c)) /\ (Submitting(c)' <=> Submitting(c))
    BY CallerSame
  <2>4. SameAt(c)
    BY <1>1, <2>1, <2>2, <2>3 DEF SameAt, Known
  <2> QED BY <2>1, <2>4, SameAtOK
<1> QED BY <1>2, <1>3

LEMMA StaysPlaces ==
  ASSUME TxmAssumption, Inv, PlaceInv, UNCHANGED <<caller, stopped>>, Stays \/ Publishes
  PROVE  PlaceInv'
<1>1. b'.pc \in Active <=> b.pc \in Active
  BY DEF Stays, Publishes, NextTx, Idle, Active, Working
<1>2. b'.tx = b.tx \/ (b.pc \notin Active /\ b'.pc \notin Active)
  BY DEF Stays, Publishes, NextTx, Idle, Active, Working
<1>3. /\ Distinct(queue)' /\ TrackedOnce'
      /\ \A c \in Calls : SameAt(c) /\ CallOK(c)'
  BY <1>1, <1>2, NothingMoves DEF Stays, Publishes
<1>4. CASE Stays
  <2>1. LoopPlace'
    BY <1>4 DEF Stays, PlaceInv, LoopPlace, Working, Active
  <2>2. PublishOK'
    <3> SUFFICES ASSUME b'.pc = "publish" PROVE PublishOK'
      BY DEF PublishOK
    <3>1. PICK k : k = b.tx
      OBVIOUS
    <3>2. b.pc = "publish" /\ b'.tx = k
      BY <1>4, <3>1 DEF Stays, Active, Working
    <3>3. k \in Calls /\ SameAt(k)
      BY <1>3, <3>1, <3>2 DEF Inv, LoopOK, Working
    <3>4. Done(k) \/ Queued(k) \/ IsTracked(k)
      BY <3>1, <3>2 DEF PlaceInv, PublishOK
    <3>5. Done(k)' \/ Queued(k)' \/ IsTracked(k)'
      BY <3>3, <3>4 DEF SameAt
    <3> QED BY <3>2, <3>5 DEF PublishOK, Done, Queued, IsTracked
  <2> QED BY <1>3, <2>1, <2>2 DEF PlaceInv
<1>5. CASE Publishes
  <2>1. b'.pc = "next" /\ b'.tx = NoCall
    BY <1>5, NextTxPlace DEF Publishes
  <2>2. LoopPlace' /\ PublishOK'
    BY <2>1 DEF LoopPlace, PublishOK
  <2> QED BY <1>3, <2>2 DEF PlaceInv
<1> QED BY <1>4, <1>5

\* AddUnconfirmed: from the loop's hands to the store.
LEMMA TracksPlaces ==
  ASSUME TxmAssumption, Inv, PlaceInv, UNCHANGED <<caller, stopped>>, Tracks
  PROVE  PlaceInv'
<1>1. PICK k : k = b.tx
  OBVIOUS
<1>2. /\ b.pc = "send" /\ b'.pc = "publish" /\ b'.tx = k
      /\ UNCHANGED <<queue, batch, transactions>> /\ SameOutcome
  BY <1>1 DEF Tracks
<1>3. /\ k \in Calls /\ Being(k) /\ CallOK(k)
      /\ b.env.acct \in Accounts /\ b.env.tx = k
  BY <1>1, <1>2 DEF Inv, LoopOK, Active, Working, Sending, Being, PlaceInv, Envelope
<1>4. Tracked' = Tracked \union {b.env}
  BY <1>3 DEF Tracks, Tracked
<1>5. \A c : IsTracked(c)' <=> (IsTracked(c) \/ c = k)
  BY <1>3, <1>4 DEF IsTracked
<1>6. \A c : (Entering(c)' <=> Entering(c)) /\ (Submitting(c)' <=> Submitting(c))
  BY CallerSame
<1>7. /\ \A c : ~Being(c)'
      /\ \A c \in Calls : c # k => ~Being(c)
      /\ \A c : Queued(c)' <=> Queued(c)
  BY <1>1, <1>2 DEF Being, Active, Queued
<1>8. ASSUME NEW c \in Calls PROVE CallOK(c) /\ Known(c)
  BY <1>2, OutcomeKnown DEF PlaceInv
<1>9. ASSUME NEW c \in Calls, c # k PROVE CallOK(c)'
  BY <1>2, <1>5, <1>6, <1>7, <1>8, <1>9, SameAtOK DEF SameAt, Known
<1>10. CallOK(k)'
  <2>1. Known(k)
    BY <1>3, <1>8
  <2> QED BY <1>2, <1>3, <1>5, <1>6, <1>7, <2>1
          DEF CallOK, Apart, OpenOK, MapOK, HomeOK, InFlight, Known
<1>11. \A c \in Calls : CallOK(c)'
  BY <1>9, <1>10
<1>12. TrackedOnce'
  <2>1. \A e \in Tracked : e.tx # k
    BY <1>3 DEF CallOK, Apart, IsTracked
  <2> QED BY <1>3, <1>4, <2>1 DEF TrackedOnce, PlaceInv
<1>13. LoopPlace'
  BY <1>2 DEF LoopPlace, Working
<1>14. PublishOK'
  BY <1>2, <1>5 DEF PublishOK, IsTracked
<1>15. Distinct(queue)'
  BY <1>2 DEF PlaceInv, Distinct
<1> QED BY <1>11, <1>12, <1>13, <1>14, <1>15 DEF PlaceInv

\* From the channel to the batch.
LEMMA TakesPlaces ==
  ASSUME TxmAssumption, Inv, PlaceInv, UNCHANGED <<caller, stopped>>, Takes
  PROVE  PlaceInv'
<1>1. PICK k : k = Head(queue)
  OBVIOUS
<1>2. /\ queue \in Seq(Calls) /\ queue # <<>> /\ queue' = Tail(queue) /\ Distinct(queue)
  BY DEF Takes, Inv, QueueOK, PlaceInv
<1>3. /\ k \in Calls /\ Queued(k) /\ Distinct(queue')
      /\ \A c : Queued(c)' <=> (Queued(c) /\ c # k)
  BY <1>1, <1>2, TailHas DEF Queued
<1>4. /\ UNCHANGED transactions /\ SameTracked /\ SameOutcome /\ b'.tx = b.tx
      /\ b'.pc = "drain" /\ b.pc \in {"idle", "drain"}
  BY DEF Takes
<1>5. batch' = batch \union {k}
  BY <1>1 DEF Takes, PlaceInv, LoopPlace
<1>6. Tracked' = Tracked /\ \A c : IsTracked(c)' <=> IsTracked(c)
  BY <1>4, TrackedSame
<1>7. \A c : (Entering(c)' <=> Entering(c)) /\ (Submitting(c)' <=> Submitting(c))
  BY CallerSame
<1>8. \A c : ~Being(c)' /\ ~Being(c)
  BY <1>4 DEF Being, Active, Working
<1>9. ASSUME NEW c \in Calls PROVE CallOK(c) /\ Known(c)
  BY <1>4, OutcomeKnown DEF PlaceInv
<1>10. ASSUME NEW c \in Calls, c # k PROVE CallOK(c)'
  BY <1>3, <1>5, <1>6, <1>7, <1>8, <1>9, <1>10, SameAtOK DEF SameAt, Known
<1>11. CallOK(k)'
  <2>1. Known(k) /\ CallOK(k)
    BY <1>3, <1>9
  <2> QED BY <1>3, <1>5, <1>6, <1>7, <1>8, <2>1
          DEF CallOK, Apart, OpenOK, MapOK, HomeOK, InFlight, Known
<1>12. \A c \in Calls : CallOK(c)'
  BY <1>10, <1>11
<1>13. TrackedOnce'
  BY <1>6 DEF TrackedOnce, PlaceInv
<1>14. LoopPlace' /\ PublishOK'
  BY <1>4 DEF LoopPlace, PublishOK, PlaceInv, Working
<1> QED BY <1>3, <1>12, <1>13, <1>14 DEF PlaceInv

\* From the batch to the loop's hands.
LEMMA PicksPlaces ==
  ASSUME TxmAssumption, Inv, PlaceInv, UNCHANGED <<caller, stopped>>, Picks
  PROVE  PlaceInv'
<1>1. /\ UNCHANGED <<queue, transactions>> /\ SameTracked /\ SameOutcome /\ b.pc = "next"
  BY DEF Picks
<1>2. CASE batch = {} /\ batch' = {} /\ b' = Idle
  <2>1. b'.pc = "idle" /\ b'.tx = NoCall
    BY <1>2 DEF Idle
  <2>2. b'.pc \notin Active /\ b.pc \notin Active
    BY <1>1, <2>1 DEF Active, Working
  <2>3. /\ Distinct(queue)' /\ TrackedOnce' /\ \A c \in Calls : CallOK(c)'
    BY <1>1, <1>2, <2>2, NothingMoves
  <2>4. LoopPlace' /\ PublishOK'
    BY <1>2, <2>1 DEF LoopPlace, PublishOK
  <2> QED BY <2>3, <2>4 DEF PlaceInv
<1>3. CASE \E c \in batch : /\ batch' = batch \ {c}
                            /\ b' = [Idle EXCEPT !.pc = "begin", !.tx = c]
  <2>1. PICK k \in batch : /\ batch' = batch \ {k}
                           /\ b' = [Idle EXCEPT !.pc = "begin", !.tx = k]
    BY <1>3
  <2>2. b'.pc = "begin" /\ b'.tx = k /\ k \in Calls
    BY <2>1 DEF Idle, Inv, QueueOK
  <2>3. Tracked' = Tracked /\ \A c : IsTracked(c)' <=> IsTracked(c)
    BY <1>1, TrackedSame
  <2>4. \A c : (Entering(c)' <=> Entering(c)) /\ (Submitting(c)' <=> Submitting(c))
    BY CallerSame
  <2>5. /\ \A c : ~Being(c)
        /\ \A c : Being(c)' <=> c = k
        /\ \A c : Queued(c)' <=> Queued(c)
    BY <1>1, <2>2 DEF Being, Active, Working, Queued
  <2>6. ASSUME NEW c \in Calls PROVE CallOK(c) /\ Known(c)
    BY <1>1, OutcomeKnown DEF PlaceInv
  <2>7. ASSUME NEW c \in Calls, c # k PROVE CallOK(c)'
    BY <2>1, <2>3, <2>4, <2>5, <2>6, <2>7, SameAtOK DEF SameAt, Known
  <2>8. CallOK(k)'
    <3>1. Known(k) /\ CallOK(k)
      BY <2>2, <2>6
    <3> QED BY <2>1, <2>2, <2>3, <2>4, <2>5, <3>1
            DEF CallOK, Apart, OpenOK, MapOK, HomeOK, InFlight, Known
  <2>9. \A c \in Calls : CallOK(c)'
    BY <2>7, <2>8
  <2>10. TrackedOnce' /\ Distinct(queue)'
    BY <1>1, <2>3 DEF TrackedOnce, Distinct, PlaceInv
  <2>11. LoopPlace' /\ PublishOK'
    BY <2>2 DEF LoopPlace, PublishOK, Working
  <2> QED BY <2>9, <2>10, <2>11 DEF PlaceInv
<1> QED BY <1>2, <1>3 DEF Picks

LEMMA BroadcastPlaces ==
  ASSUME TxmAssumption, Inv, ChainInv, PlaceInv, Broadcast
  PROVE  PlaceInv'
<1>1. UNCHANGED <<caller, stopped>> /\ BroadcastMove
  BY BroadcastFrame, BroadcastMoves DEF ChainInv
<1> QED BY <1>1, LeavesLoop, StaysPlaces, TracksPlaces, TakesPlaces, PicksPlaces
        DEF BroadcastMove

\* The accepted request in the loop's hands is found somewhere.
LEMMA PublishKept ==
  ASSUME Inv, PublishOK, b' = b,
         \A c \in Calls : Done(c) \/ Queued(c) \/ IsTracked(c)
                            => Done(c)' \/ Queued(c)' \/ IsTracked(c)'
  PROVE  PublishOK'
<1> SUFFICES ASSUME b.pc = "publish" PROVE PublishOK'
  BY DEF PublishOK
<1>1. PICK k : k = b.tx
  OBVIOUS
<1>2. k \in Calls /\ b'.tx = k
  BY <1>1 DEF Inv, LoopOK, Working
<1>3. Done(k)' \/ Queued(k)' \/ IsTracked(k)'
  BY <1>1, <1>2 DEF PublishOK
<1> QED BY <1>2, <1>3 DEF PublishOK, Done, Queued, IsTracked

\* The confirm loop takes a request from the store, back to the channel or closed.
LEMMA ConfirmPlaces ==
  ASSUME TxmAssumption, Inv, ChainInv, PlaceInv, ConfirmLoop
  PROVE  PlaceInv'
<1>1. UNCHANGED <<caller, batch, b, stopped>> /\ ConfirmMove
  BY ConfirmFrame, ConfirmMoves
<1>2. LoopPlace'
  BY <1>1 DEF PlaceInv, LoopPlace
<1>3. ASSUME \A c \in Calls : Done(c) \/ Queued(c) \/ IsTracked(c)
                                => Done(c)' \/ Queued(c)' \/ IsTracked(c)'
      PROVE  PublishOK'
  BY <1>1, <1>3, PublishKept DEF PlaceInv
<1>4. CASE Rests
  <2>1. SameTracked /\ SameOutcome /\ UNCHANGED <<queue, transactions>>
    BY <1>4, SameTrackedOK, SameOutcomeOK DEF Rests
  <2>2. /\ Distinct(queue)' /\ TrackedOnce'
        /\ \A c \in Calls : SameAt(c) /\ CallOK(c)'
    BY <1>1, <2>1, NothingMoves
  <2>3. PublishOK'
    BY <1>3, <2>2 DEF SameAt
  <2> QED BY <1>2, <2>2, <2>3 DEF PlaceInv
<1>5. ASSUME NEW e \in Tracked, Untracks(e) PROVE
        /\ e.tx \in Calls /\ IsTracked(e.tx) /\ TrackedOnce'
        /\ \A c : IsTracked(c)' <=> (IsTracked(c) /\ c # e.tx)
  <2>1. Tracked' = Tracked \ {e}
    BY <1>5 DEF Untracks, Tracked
  <2>2. e.tx \in Calls
    BY DEF Tracked, Inv, StoresOK
  <2> QED BY <2>1, <2>2 DEF IsTracked, TrackedOnce, PlaceInv
<1>6. ASSUME NEW c PROVE
        /\ (Entering(c)' <=> Entering(c)) /\ (Submitting(c)' <=> Submitting(c))
        /\ c \in batch' <=> c \in batch
        /\ Being(c)' <=> Being(c)
  BY <1>1, CallerSame DEF Being
<1>7. ASSUME NEW e \in Tracked, Retries(e) PROVE PlaceInv'
  <2>1. PICK k : k = e.tx
    OBVIOUS
  <2>2. /\ k \in Calls /\ IsTracked(k) /\ TrackedOnce' /\ CallOK(k)
        /\ \A c : IsTracked(c)' <=> (IsTracked(c) /\ c # k)
    BY <1>5, <1>7, <2>1 DEF Retries, PlaceInv
  <2>3. /\ queue' = Append(queue, k) /\ ~Has(queue, k) /\ queue \in Seq(Calls)
    BY <1>7, <2>1, <2>2 DEF Retries, CallOK, Apart, Queued, Inv, QueueOK
  <2>4. /\ \A c : Queued(c)' <=> (Queued(c) \/ c = k)
        /\ Distinct(queue')
    BY <2>2, <2>3, AppendHas DEF Queued, PlaceInv
  <2>5. ASSUME NEW c \in Calls PROVE CallOK(c) /\ Known(c)
    BY <1>7, OutcomeKnown DEF PlaceInv, Retries
  <2>6. ASSUME NEW c \in Calls, c # k PROVE CallOK(c)'
    BY <1>1, <1>6, <2>2, <2>4, <2>5, <2>6, SameAtOK DEF SameAt, Known
  <2>7. CallOK(k)'
    <3>1. Known(k) /\ CallOK(k)
      BY <2>2, <2>5
    <3> QED BY <1>1, <1>6, <2>2, <2>4, <3>1
            DEF CallOK, Apart, OpenOK, MapOK, HomeOK, InFlight, Known
  <2>8. \A c \in Calls : CallOK(c)'
    BY <2>6, <2>7
  <2>9. PublishOK'
    BY <1>3, <2>2, <2>4, <2>5 DEF Known
  <2> QED BY <1>2, <2>2, <2>4, <2>8, <2>9 DEF PlaceInv
<1>8. ASSUME NEW e \in Tracked, NEW o \in Outcomes, Resolves(e, o) PROVE PlaceInv'
  <2>1. PICK k : k = e.tx
    OBVIOUS
  <2>2. /\ k \in Calls /\ IsTracked(k) /\ TrackedOnce' /\ CallOK(k)
        /\ \A c : IsTracked(c)' <=> (IsTracked(c) /\ c # k)
    BY <1>5, <1>8, <2>1 DEF Resolves, PlaceInv
  <2>3. Closed(k, o) /\ queue' = queue
    BY <1>8, <2>1 DEF Resolves
  <2>4. \A c : Queued(c)' <=> Queued(c)
    BY <2>3 DEF Queued
  <2>5. ASSUME NEW c \in Calls, c # k PROVE CallOK(c) /\ Known(c)
    BY <2>2, <2>3, <2>5, ClosedKnown DEF PlaceInv, Inv
  <2>6. ASSUME NEW c \in Calls, c # k PROVE CallOK(c)'
    BY <1>1, <1>6, <2>2, <2>4, <2>5, <2>6, SameAtOK DEF SameAt, Known
  <2>7. Done(k)'
    BY <2>2, <2>3, ClosedDone
  <2>8. CallOK(k)'
    BY <1>6, <2>2, <2>4, <2>7
       DEF CallOK, Apart, OpenOK, MapOK, HomeOK, InFlight, Entering
  <2>9. \A c \in Calls : CallOK(c)'
    BY <2>6, <2>8
  <2>10. PublishOK'
    BY <1>3, <2>2, <2>4, <2>5, <2>7 DEF Known
  <2>11. Distinct(queue)'
    BY <2>3 DEF Distinct, PlaceInv
  <2> QED BY <1>2, <2>2, <2>9, <2>10, <2>11 DEF PlaceInv
<1> QED BY <1>1, <1>4, <1>7, <1>8 DEF ConfirmMove

\* Everything but the callers, the channel, the map and the statuses.
LEMMA OtherPlaces ==
  ASSUME PlaceInv, UNCHANGED <<batch, b, store>>, stopped => stopped'
  PROVE  /\ LoopPlace' /\ TrackedOnce'
         /\ \A c : /\ IsTracked(c)' <=> IsTracked(c)
                   /\ Being(c)' <=> Being(c)
                   /\ c \in batch' <=> c \in batch
<1>1. Tracked' = Tracked /\ \A c : IsTracked(c)' <=> IsTracked(c)
  BY SameTrackedOK, TrackedSame
<1>2. LoopPlace' /\ TrackedOnce'
  BY <1>1 DEF PlaceInv, LoopPlace, TrackedOnce
<1>3. \A c : (Being(c)' <=> Being(c)) /\ (c \in batch' <=> c \in batch)
  BY DEF Being
<1> QED BY <1>1, <1>2, <1>3

LEMMA EnvironmentPlaces ==
  ASSUME TxmAssumption, Inv, PlaceInv,
         PruneTerminal \/ Stop \/ CloseLedger \/ UNCHANGED vars
  PROVE  PlaceInv'
<1>1. /\ UNCHANGED <<caller, tx, queue, batch, b, store>> /\ (stopped => stopped')
  BY DEF PruneTerminal, Stop, CloseLedger, vars, reqVars
<1>2. CASE UNCHANGED transactions
  <2>1. /\ Distinct(queue)' /\ TrackedOnce'
        /\ \A c \in Calls : SameAt(c) /\ CallOK(c)'
    BY <1>1, <1>2, SameTrackedOK, SameOutcomeOK, NothingMoves
  <2>2. LoopPlace'
    BY <1>1, OtherPlaces
  <2>3. PublishOK'
    BY <1>1, <2>1, PublishKept DEF SameAt, PlaceInv
  <2> QED BY <2>1, <2>2, <2>3 DEF PlaceInv
<1>3. CASE PruneTerminal
  <2>1. PICK id \in Ids : /\ transactions[id] # NoCall
                          /\ tx[transactions[id]].status \in Terminal
                          /\ transactions' = [transactions EXCEPT ![id] = NoCall]
    BY <1>3 DEF PruneTerminal
  <2>2. PICK k : k = transactions[id]
    OBVIOUS
  <2>3. k \in Calls /\ CallOK(k) /\ Done(k)
    BY <2>1, <2>2 DEF Inv, ReqOK, PlaceInv, CallOK, OpenOK
  <2>4. /\ LoopPlace' /\ TrackedOnce'
        /\ \A c : /\ IsTracked(c)' <=> IsTracked(c)
                  /\ Being(c)' <=> Being(c)
                  /\ c \in batch' <=> c \in batch
    BY <1>1, OtherPlaces
  <2>5. ASSUME NEW c \in Calls PROVE
          /\ Queued(c)' <=> Queued(c)
          /\ Done(c)' <=> Done(c)
          /\ (Entering(c)' <=> Entering(c)) /\ (Submitting(c)' <=> Submitting(c))
          /\ (tx[c].status \in Terminal)' => Done(c)'
    BY <1>1, CallerSame DEF Queued, Done, PlaceInv, CallOK, OpenOK
  <2>6. ASSUME NEW c \in Calls, c # k PROVE CallOK(c)'
    <3>1. (Registered(c) = c)' <=> (Registered(c) = c)
      <4>1. c # NoCall /\ IdOf[c] \in Ids
        BY DEF Calls, NoCall, TxmAssumption
      <4> QED BY <2>1, <2>2, <2>6, <4>1 DEF Registered, Inv, ReqOK
    <3>2. SameAt(c) /\ CallOK(c)
      BY <2>4, <2>5, <3>1 DEF SameAt, PlaceInv
    <3> QED BY <1>1, <3>2, SameAtOK
  <2>7. CallOK(k)'
    BY <2>3, <2>4, <2>5 DEF CallOK, Apart, OpenOK, MapOK, HomeOK, InFlight, Entering
  <2>8. \A c \in Calls : CallOK(c)'
    BY <2>6, <2>7
  <2>9. PublishOK' /\ Distinct(queue)'
    BY <1>1, <2>4, <2>5, PublishKept DEF PlaceInv, Distinct
  <2> QED BY <2>4, <2>8, <2>9 DEF PlaceInv
<1> QED BY <1>2, <1>3 DEF Stop, CloseLedger, reqVars, vars

LEMMA CallerPlaces ==
  ASSUME TxmAssumption, Inv, PlaceInv, NEW k \in Calls, Caller(k)
  PROVE  PlaceInv'
<1>1. UNCHANGED <<batch, b, store, stopped>>
  BY CallerFrame
<1>2. /\ LoopPlace' /\ TrackedOnce'
      /\ \A c : /\ IsTracked(c)' <=> IsTracked(c)
                /\ Being(c)' <=> Being(c)
                /\ c \in batch' <=> c \in batch
  BY <1>1, OtherPlaces
<1>3. CallOK(k) /\ queue \in Seq(Calls) /\ Distinct(queue)
  BY DEF PlaceInv, Inv, QueueOK
<1>4. \A c \in Calls : c # k => caller'[c] = caller[c]
  BY DEF Caller, EnqueueStopped, Enqueue, EnqueueSend, EnqueueFull,
         EnqueueEvict, EnqueueReject, LookupToWait, WaitReturn, Return, Accept, SetPc,
         Inv, ReqOK
<1>5. \A c \in Calls : c # k => /\ Entering(c)' <=> Entering(c)
                                /\ Submitting(c)' <=> Submitting(c)
  BY <1>4 DEF Entering, Submitting
<1>6. ASSUME NEW pc, SetPc(k, pc) PROVE caller'[k].pc = pc
  BY <1>6 DEF SetPc, Inv, ReqOK
<1>7. ASSUME UNCHANGED queue PROVE Distinct(queue)' /\ \A c : Queued(c)' <=> Queued(c)
  BY <1>3, <1>7 DEF Distinct, Queued
<1>8. ASSUME UNCHANGED <<tx, transactions>>, NEW c \in Calls PROVE Known(c) /\ CallOK(c)
  BY <1>8, SameOutcomeOK, OutcomeKnown DEF PlaceInv
\* A caller step that leaves the channel, the map and the statuses alone.
<1>9. ASSUME UNCHANGED <<tx, transactions, queue>>, CallOK(k)'
      PROVE  PlaceInv'
  <2>1. ASSUME NEW c \in Calls, c # k PROVE CallOK(c)'
    BY <1>1, <1>2, <1>5, <1>7, <1>8, <1>9, <2>1, SameAtOK DEF SameAt, Known
  <2>2. \A c \in Calls : CallOK(c)'
    BY <1>9, <2>1
  <2>3. PublishOK'
    BY <1>1, <1>2, <1>7, <1>8, <1>9, PublishKept DEF Known, PlaceInv
  <2> QED BY <1>2, <1>7, <1>9, <2>2, <2>3 DEF PlaceInv
\* The caller leaves: it is in no place, and not registered or the map is another's.
<1>10. ASSUME UNCHANGED <<tx, transactions, queue>>, ~Entering(k)', ~Submitting(k)',
              caller[k].pc = "new" \/ ~Entering(k)
       PROVE  PlaceInv'
  <2>1. Known(k)
    BY <1>8, <1>10
  <2>2. Submitting(k) <=> FALSE
    BY <1>10 DEF Entering, Submitting
  <2>3. CASE ~Entering(k)
    <3>1. SameAt(k)
      BY <1>2, <1>7, <1>10, <2>1, <2>2, <2>3 DEF SameAt, Known
    <3> QED BY <1>1, <1>3, <1>9, <1>10, <3>1, SameAtOK
  <2>4. CASE Entering(k)
    <3>1. CallOK(k)'
      BY <1>1, <1>2, <1>3, <1>7, <1>10, <2>1, <2>2, <2>4
         DEF CallOK, Apart, OpenOK, MapOK, HomeOK, InFlight, Known
    <3> QED BY <1>9, <1>10, <3>1
  <2> QED BY <2>3, <2>4
<1>11. CASE EnqueueStopped(k)
  <2>1. caller'[k].pc = "stopped" /\ caller[k].pc = "new"
    BY <1>6, <1>11 DEF EnqueueStopped, Return
  <2>2. UNCHANGED <<tx, transactions, queue>> /\ ~Entering(k)' /\ ~Submitting(k)'
    BY <1>11, <2>1 DEF EnqueueStopped, Entering, Submitting
  <2> QED BY <1>10, <2>1, <2>2
<1>12. CASE LookupToWait(k)
  <2>1. caller'[k].pc \in {"notFound", "wait"} /\ caller[k].pc = "lookup"
    BY <1>12 DEF LookupToWait, Inv, ReqOK
  <2>2. /\ UNCHANGED <<tx, transactions, queue>> /\ ~Entering(k)' /\ ~Submitting(k)'
        /\ ~Entering(k)
    BY <1>12, <2>1 DEF LookupToWait, Entering, Submitting
  <2> QED BY <1>10, <2>2
<1>13. CASE WaitReturn(k)
  <2>1. caller'[k].pc \in {"result", "stopped"} /\ caller[k].pc = "wait"
    BY <1>6, <1>13 DEF WaitReturn, Return
  <2>2. /\ UNCHANGED <<tx, transactions, queue>> /\ ~Entering(k)' /\ ~Submitting(k)'
        /\ ~Entering(k)
    BY <1>13, <2>1 DEF WaitReturn, Entering, Submitting
  <2> QED BY <1>10, <2>2
<1>14. CASE EnqueueFull(k)
  <2>1. caller'[k].pc = "evict" /\ caller[k].pc = "send"
    BY <1>6, <1>14 DEF EnqueueFull
  <2>2. /\ UNCHANGED <<tx, transactions, queue>>
        /\ Entering(k)' /\ Submitting(k)' /\ Entering(k) /\ Submitting(k)
    BY <1>14, <2>1 DEF EnqueueFull, Entering, Submitting
  <2>3. Known(k)
    BY <1>8, <2>2
  <2>4. SameAt(k)
    BY <1>2, <1>7, <2>2, <2>3 DEF SameAt, Known
  <2> QED BY <1>1, <1>3, <1>9, <2>2, <2>4, SameAtOK
<1>15. CASE Enqueue(k) /\ Registered(k) # NoCall
  <2>1. /\ caller'[k].pc \in {"lookup", "accepted", "mismatch"}
        /\ caller[k].pc = "new"
    BY <1>6, <1>15 DEF Enqueue, Accept, Return
  <2>2. UNCHANGED <<tx, transactions, queue>> /\ ~Entering(k)' /\ ~Submitting(k)'
    BY <1>15, <2>1 DEF Enqueue, Entering, Submitting
  <2> QED BY <1>10, <2>1, <2>2
<1>16. CASE Enqueue(k) /\ Registered(k) = NoCall
  <2>1. /\ transactions' = [transactions EXCEPT ![IdOf[k]] = k]
        /\ tx' = [tx EXCEPT ![k] = NewTx]
        /\ caller'[k].pc = "send" /\ caller[k].pc = "new" /\ queue' = queue
    BY <1>6, <1>16 DEF Enqueue
  <2>2. Entering(k) /\ ~Submitting(k) /\ Entering(k)' /\ Submitting(k)'
    BY <2>1 DEF Entering, Submitting
  <2>3. IdOf[k] \in Ids /\ \A c \in Calls : IdOf[c] \in Ids /\ c # NoCall
    BY DEF TxmAssumption, Calls, NoCall
  <2>4. (Registered(k) = k)' /\ ~Done(k)' /\ tx'[k].status = "Pending"
    BY <2>1, <2>3 DEF Registered, Done, NewTx, Inv, ReqOK
  <2>5. ASSUME NEW c \in Calls, c # k PROVE Known(c) /\ CallOK(c)
    <3>1. (Registered(c) = c)' <=> (Registered(c) = c)
      BY <1>16, <2>1, <2>3, <2>5 DEF Registered, Inv, ReqOK
    <3>2. tx'[c] = tx[c]
      BY <2>1, <2>5 DEF Inv, ReqOK
    <3> QED BY <3>1, <3>2 DEF Known, Done, PlaceInv, CallOK, OpenOK
  <2>6. ASSUME NEW c \in Calls, c # k PROVE CallOK(c)'
    BY <1>1, <1>2, <1>5, <1>7, <2>1, <2>5, <2>6, SameAtOK DEF SameAt, Known
  <2>7. ~InFlight(k) /\ ~InFlight(k)'
    BY <1>2, <1>3, <1>7, <2>1, <2>2 DEF CallOK, Apart, InFlight
  <2>8. CallOK(k)'
    BY <2>2, <2>4, <2>7 DEF CallOK, Apart, OpenOK, MapOK, HomeOK, InFlight, Terminal
  <2>9. \A c \in Calls : CallOK(c)'
    BY <2>6, <2>8
  <2>10. \A c \in Calls : Done(c) \/ Queued(c) \/ IsTracked(c)
                            => Done(c)' \/ Queued(c)' \/ IsTracked(c)'
    <3>1. ~Done(k) /\ ~Queued(k) /\ ~IsTracked(k)
      BY <1>3, <2>2, <2>7 DEF CallOK, OpenOK, InFlight
    <3> QED BY <1>2, <1>7, <2>1, <2>5, <3>1 DEF Known
  <2>11. PublishOK'
    BY <1>1, <2>10, PublishKept DEF PlaceInv
  <2> QED BY <1>2, <1>7, <2>1, <2>9, <2>11 DEF PlaceInv
<1>17. CASE EnqueueSend(k)
  <2>1. /\ caller'[k].pc \in {"lookup", "accepted"} /\ caller[k].pc \in {"send", "resend"}
        /\ queue' = Append(queue, k) /\ UNCHANGED <<tx, transactions>>
    BY <1>6, <1>17 DEF EnqueueSend, Accept
  <2>2. Entering(k) /\ Submitting(k) /\ ~Entering(k)' /\ ~Submitting(k)'
    BY <2>1 DEF Entering, Submitting
  <2>3. ~Has(queue, k)
    BY <1>3, <2>2 DEF CallOK, Apart, Queued
  <2>4. /\ \A c : Queued(c)' <=> (Queued(c) \/ c = k)
        /\ Distinct(queue')
    BY <1>3, <2>1, <2>3, AppendHas DEF Queued
  <2>5. ASSUME NEW c \in Calls, c # k PROVE CallOK(c)'
    BY <1>1, <1>2, <1>5, <1>8, <2>1, <2>4, <2>5, SameAtOK DEF SameAt, Known
  <2>6. Known(k)
    BY <1>8, <2>1
  <2>7. CallOK(k)'
    BY <1>2, <1>3, <2>2, <2>4, <2>6
       DEF CallOK, Apart, OpenOK, MapOK, HomeOK, InFlight, Known
  <2>8. \A c \in Calls : CallOK(c)'
    BY <2>5, <2>7
  <2>9. PublishOK'
    BY <1>1, <1>2, <1>8, <2>1, <2>4, PublishKept DEF Known, PlaceInv
  <2> QED BY <1>2, <2>4, <2>8, <2>9 DEF PlaceInv
<1>18. CASE EnqueueReject(k)
  <2>1. /\ caller'[k].pc = "full" /\ caller[k].pc = "resend" /\ UNCHANGED <<tx, queue>>
        /\ transactions' = [transactions EXCEPT ![IdOf[k]] = NoCall]
    BY <1>6, <1>18 DEF EnqueueReject, Return
  <2>2. Entering(k) /\ Submitting(k) /\ ~Entering(k)' /\ ~Submitting(k)'
    BY <2>1 DEF Entering, Submitting
  <2>3. IdOf[k] \in Ids /\ \A c \in Calls : IdOf[c] \in Ids /\ c # NoCall
    BY DEF TxmAssumption, Calls, NoCall
  <2>4. Registered(k) = k
    BY <1>3, <2>2 DEF CallOK, MapOK
  <2>5. \A c \in Calls : /\ Done(c)' <=> Done(c)
                         /\ (tx[c].status \in Terminal)' => Done(c)'
    BY <2>1 DEF Done, PlaceInv, CallOK, OpenOK
  <2>6. ASSUME NEW c \in Calls, c # k PROVE CallOK(c)'
    <3>1. (Registered(c) = c)' <=> (Registered(c) = c)
      BY <2>1, <2>3, <2>4, <2>6 DEF Registered, Inv, ReqOK
    <3>2. SameAt(c) /\ CallOK(c)
      BY <1>2, <1>5, <1>7, <2>1, <2>5, <2>6, <3>1 DEF SameAt, PlaceInv
    <3> QED BY <1>1, <3>2, SameAtOK
  <2>7. CallOK(k)'
    <3>1. (Registered(k) # k)'
      BY <2>1, <2>3 DEF Registered, Inv, ReqOK
    <3>2. ~InFlight(k)'
      BY <1>2, <1>3, <1>7, <2>1, <2>2 DEF CallOK, Apart, InFlight
    <3> QED BY <2>2, <2>5, <3>1, <3>2 DEF CallOK, Apart, OpenOK, MapOK, HomeOK, InFlight
  <2>8. \A c \in Calls : CallOK(c)'
    BY <2>6, <2>7
  <2>9. PublishOK'
    BY <1>1, <1>2, <1>7, <2>1, <2>5, PublishKept DEF PlaceInv
  <2> QED BY <1>2, <1>7, <2>1, <2>8, <2>9 DEF PlaceInv
<1>19. CASE EnqueueEvict(k)
  <2>1. caller'[k].pc = "resend" /\ caller[k].pc = "evict"
    BY <1>6, <1>19 DEF EnqueueEvict
  <2>2. Entering(k) /\ Submitting(k) /\ Entering(k)' /\ Submitting(k)'
    BY <2>1 DEF Entering, Submitting
  <2>3. CASE queue = <<>>
    <3>1. UNCHANGED <<queue, tx, transactions>>
      BY <1>19, <2>3 DEF EnqueueEvict
    <3>2. Known(k)
      BY <1>8, <3>1
    <3>3. SameAt(k)
      BY <1>2, <1>7, <2>2, <3>1, <3>2 DEF SameAt, Known
    <3> QED BY <1>1, <1>3, <1>9, <3>1, <3>3, SameAtOK
  <2>4. CASE queue # <<>>
    <3>1. PICK d : d = Head(queue)
      OBVIOUS
    <3>2. /\ d \in Calls /\ Queued(d) /\ Distinct(Tail(queue)) /\ CallOK(d)
          /\ \A c : Has(Tail(queue), c) <=> (Queued(c) /\ c # d)
      BY <1>3, <2>4, <3>1, TailHas DEF Queued, PlaceInv
    <3>3. Registered(d) = d
      BY <3>2 DEF CallOK, MapOK, InFlight
    <3>4. queue' = Tail(queue) /\ UpdateStatus(d, tx[d], "Failed")
      BY <1>19, <2>4, <3>1, <3>3 DEF EnqueueEvict
    <3>5. \A c : Queued(c)' <=> (Queued(c) /\ c # d)
      BY <3>2, <3>4 DEF Queued
    <3>6. "Failed" \in Outcomes /\ tx[d] \in TxRecord /\ ReqOK
      BY <3>2 DEF Outcomes, Terminal, Inv, ReqOK
    <3>7. Closed(d, "Failed")
      BY <3>2, <3>4, <3>6, UpdateCloses
    <3>8. Done(d)'
      BY <3>2, <3>6, <3>7, ClosedDone
    <3>9. ASSUME NEW c \in Calls, c # d PROVE Known(c) /\ CallOK(c)
      BY <3>2, <3>6, <3>7, <3>9, ClosedKnown DEF PlaceInv
    <3>10. d # k
      BY <2>2, <3>2 DEF CallOK, Apart
    <3>11. ASSUME NEW c \in Calls, c # d PROVE CallOK(c)'
      <4>1. (Entering(c)' <=> Entering(c)) /\ (Submitting(c)' <=> Submitting(c))
        BY <1>5, <2>2
      <4>2. SameAt(c) /\ CallOK(c)
        BY <1>2, <3>5, <3>9, <3>11, <4>1 DEF SameAt, Known
      <4> QED BY <1>1, <4>2, SameAtOK
    <3>12. CallOK(d)'
      <4>1. (Entering(d)' <=> Entering(d)) /\ (Submitting(d)' <=> Submitting(d))
        BY <1>5, <3>2, <3>10
      <4> QED BY <1>2, <3>2, <3>5, <3>8, <4>1
              DEF CallOK, Apart, OpenOK, MapOK, HomeOK, InFlight, Entering
    <3>13. \A c \in Calls : CallOK(c)'
      BY <3>11, <3>12
    <3>14. PublishOK'
      BY <1>1, <1>2, <3>5, <3>8, <3>9, PublishKept DEF Known, PlaceInv
    <3> QED BY <1>2, <3>2, <3>4, <3>13, <3>14 DEF PlaceInv
  <2> QED BY <2>3, <2>4
<1> QED BY <1>11, <1>12, <1>13, <1>14, <1>15, <1>16, <1>17, <1>18, <1>19 DEF Caller

LEMMA InitPlaces == ASSUME TxmAssumption, Init PROVE PlaceInv
<1>1. Tracked = {}
  BY DEF Init, Tracked, NoStore, NewTxStore
<1>2. Distinct(queue) /\ LoopPlace /\ TrackedOnce /\ PublishOK
  BY <1>1 DEF Init, Distinct, LoopPlace, TrackedOnce, PublishOK, Idle, Working
<1>3. ASSUME NEW c \in Calls PROVE CallOK(c)
  <2>1. ~InFlight(c)
    BY <1>1 DEF Init, InFlight, Queued, Has, Being, Idle, Active, Working, IsTracked
  <2>2. ~Done(c) /\ ~Submitting(c) /\ tx[c].status = "Pending"
    BY DEF Init, Done, NewTx, Submitting
  <2>3. Registered(c) # c
    BY DEF Init, Registered, Calls, NoCall, TxmAssumption
  <2> QED BY <2>1, <2>2, <2>3 DEF CallOK, Apart, OpenOK, MapOK, HomeOK, InFlight, Terminal
<1> QED BY <1>2, <1>3 DEF PlaceInv

LEMMA NextPlaces ==
  ASSUME TxmAssumption, Inv, ChainInv, PlaceInv, [Next]_vars
  PROVE  PlaceInv'
BY CallerPlaces, BroadcastPlaces, ConfirmPlaces, EnvironmentPlaces DEF Next

\* Every request is in one place, and the map leads to the open ones, in every
\* reachable state.
THEOREM PlaceInvariance == Spec => []PlaceInv
<1>1. Init => PlaceInv
  BY TxmAssumption, InitPlaces
<1>2. Inv /\ ChainInv /\ PlaceInv /\ [Next]_vars => PlaceInv'
  BY TxmAssumption, NextPlaces
<1> QED BY <1>1, <1>2, Invariance, ChainInvariance, PTL DEF Spec

\* A set whose elements are all equal counts as whether it has one.
LEMMA AtMostOne ==
  ASSUME NEW S, \A x, y \in S : x = y
  PROVE  Cardinality(S) = IF S = {} THEN 0 ELSE 1
<1>1. CASE S = {}
  BY <1>1, FS_EmptySet
<1>2. CASE S # {}
  <2>1. PICK x \in S : TRUE
    BY <1>2
  <2>2. S = {x}
    BY <2>1
  <2> QED BY <1>2, <2>2, FS_Singleton
<1> QED BY <1>1, <1>2

\* Enqueue, the broadcast loop and the confirm loop never hold one request in
\* two places, although they hand it over in several steps: it is not queued
\* twice, nor sent while an earlier envelope of it is tracked.
THEOREM OnePlaceOnly == Spec => []OnePlace
<1>1. Inv /\ PlaceInv => OnePlace
  <2> SUFFICES ASSUME Inv, PlaceInv, NEW c \in Calls
               PROVE  Cardinality({i \in DOMAIN queue : queue[i] = c})
                        + (IF c \in batch THEN 1 ELSE 0)
                        + (IF b.tx = c /\ b.pc # "publish" THEN 1 ELSE 0)
                        + Cardinality({e \in Tracked : e.tx = c})
                      <= 1
    BY DEF OnePlace
  <2> DEFINE q == {i \in DOMAIN queue : queue[i] = c}
             t == {e \in Tracked : e.tx = c}
  <2>1. Cardinality(q) = IF Queued(c) THEN 1 ELSE 0
    <3>1. \A x, y \in q : x = y
      BY DEF PlaceInv, Distinct
    <3>2. q = {} <=> ~Queued(c)
      BY DEF Queued, Has
    <3> HIDE DEF q
    <3> QED BY <3>1, <3>2, AtMostOne
  <2>2. Cardinality(t) = IF IsTracked(c) THEN 1 ELSE 0
    <3>1. \A x, y \in t : x = y
      BY DEF PlaceInv, TrackedOnce
    <3>2. t = {} <=> ~IsTracked(c)
      BY DEF IsTracked
    <3> HIDE DEF t
    <3> QED BY <3>1, <3>2, AtMostOne
  <2>3. b.tx = c /\ b.pc # "publish" => Being(c)
    BY DEF PlaceInv, LoopPlace, Calls, NoCall, Being, Active
  <2>4. Apart(c)
    BY DEF PlaceInv, CallOK
  <2> HIDE DEF q, t
  <2> QED BY <2>1, <2>2, <2>3, <2>4 DEF Apart, q, t
<1> QED BY <1>1, Invariance, PlaceInvariance, PTL

\* What is in Pipeline and open is in flight.
LEMMA PipelineOpen ==
  ASSUME Inv, PlaceInv, NEW c \in Pipeline
  PROVE  c \in Calls /\ (InFlight(c) \/ Done(c))
<1>1. c \in Calls
  <2>1. CASE c \in {queue[i] : i \in DOMAIN queue}
    BY <2>1 DEF Inv, QueueOK
  <2>2. CASE c \in batch
    BY <2>2 DEF Inv, QueueOK
  <2>3. CASE c \in {b.tx} \ {NoCall}
    BY <2>3 DEF Inv, LoopOK, BRecord
  <2>4. CASE c \in {e.tx : e \in Tracked}
    BY <2>4 DEF Inv, StoresOK, Tracked
  <2> QED BY <2>1, <2>2, <2>3, <2>4 DEF Pipeline
<1>2. CASE b.tx = c /\ c # NoCall
  <2>1. b.pc \in Working
    BY <1>2 DEF PlaceInv, LoopPlace
  <2>2. CASE b.pc = "publish"
    BY <1>1, <1>2, <2>2 DEF PlaceInv, PublishOK, InFlight
  <2>3. CASE b.pc # "publish"
    BY <1>1, <1>2, <2>1, <2>3 DEF Being, Active, InFlight
  <2> QED BY <2>2, <2>3
<1>3. CASE c \in batch \/ c \in {queue[i] : i \in DOMAIN queue} \/ c \in {e.tx : e \in Tracked}
  BY <1>1, <1>3 DEF InFlight, Queued, Has, IsTracked
<1> QED BY <1>2, <1>3 DEF Pipeline

\* Idempotency of Enqueue: two requests with one id are never both on their way,
\* although entries leave the map by eviction, rejection and pruning while the
\* loops hold the request.
THEOREM OneInFlight == Spec => []OneInFlightPerId
<1>1. Inv /\ PlaceInv => OneInFlightPerId
  <2> SUFFICES ASSUME Inv, PlaceInv, NEW c \in Pipeline, NEW d \in Pipeline,
                      IdOf[c] = IdOf[d], ~Done(c), ~Done(d)
               PROVE  c = d
    BY DEF OneInFlightPerId
  <2>1. c \in Calls /\ d \in Calls /\ InFlight(c) /\ InFlight(d)
    BY PipelineOpen
  <2>2. Registered(c) = c /\ Registered(d) = d
    BY <2>1 DEF PlaceInv, CallOK, MapOK
  <2> QED BY <2>2 DEF Registered
<1> QED BY <1>1, Invariance, PlaceInvariance, PTL

\* No request is orphaned: what the map shows as open is in the channel, in the
\* broadcast loop or in a store, until a stop. A getClient failure, whose requeue
\* into a full channel loses the request, is excluded.
THEOREM NoneOrphaned == ASSUME "client" \notin Faults PROVE Spec => []NoOrphan
<1>1. Inv /\ PlaceInv => NoOrphan
  <2> SUFFICES ASSUME Inv, PlaceInv, NEW c \in Calls, Registered(c) = c, ~Done(c),
                      ~stopped, caller[c].pc \notin {"send", "evict", "resend"}
               PROVE  c \in Pipeline
    BY DEF NoOrphan
  <2>1. InFlight(c)
    BY DEF PlaceInv, CallOK, HomeOK, Submitting
  <2>2. c # NoCall
    BY DEF Calls, NoCall
  <2> QED BY <2>1, <2>2 DEF InFlight, Queued, Has, Being, IsTracked, Pipeline
<1> QED BY <1>1, Invariance, PlaceInvariance, PTL

\* A step of the loops keeps a request closed, and its map entry until then.
Kept(c) ==
  /\ Done(c) => Done(c)'
  /\ Registered(c) = c => (Registered(c) = c)' \/ Done(c)'

LEMMA KnownKept ==
  ASSUME SameOutcome, UNCHANGED transactions, NEW c \in Calls PROVE Kept(c)
BY DEF SameOutcome, Kept, Done, Registered

LEMMA ClosedKept ==
  ASSUME TxmAssumption, ReqOK, PlaceInv, NEW k \in Calls, NEW o \in Outcomes,
         Closed(k, o), NEW c \in Calls
  PROVE  Kept(c)
<1>1. CASE c = k
  BY <1>1, ClosedDone DEF Kept
<1>2. CASE c # k
  <2>1. Known(c)
    BY <1>2, ClosedKnown DEF PlaceInv
  <2> QED BY <2>1 DEF Known, Kept
<1> QED BY <1>1, <1>2

LEMMA LoopsKeep ==
  ASSUME TxmAssumption, Inv, ChainInv, PlaceInv, Broadcast \/ ConfirmLoop,
         NEW c \in Calls
  PROVE  Kept(c)
<1>1. "Failed" \in Outcomes /\ ReqOK
  BY DEF Outcomes, Terminal, Inv
<1>2. CASE Broadcast
  <2>1. BroadcastMove
    BY <1>2, BroadcastMoves DEF ChainInv
  <2>2. CASE Fails
    <3>1. PICK k : k = b.tx
      OBVIOUS
    <3>2. k \in Calls /\ Closed(k, "Failed")
      BY <2>2, <3>1 DEF Fails, Inv, LoopOK, Active
    <3> QED BY <1>1, <3>2, ClosedKept
  <2>3. CASE ~Fails
    <3>1. SameOutcome /\ UNCHANGED transactions
      BY <2>1, <2>3 DEF BroadcastMove, Stays, Drops, Requeues, Tracks, Publishes,
             Takes, Picks
    <3> QED BY <3>1, KnownKept
  <2> QED BY <2>2, <2>3
<1>3. CASE ConfirmLoop
  <2>1. ConfirmMove
    BY <1>3, ConfirmMoves
  <2>2. ASSUME NEW e \in Tracked, NEW o \in Outcomes, Resolves(e, o) PROVE Kept(c)
    <3>1. PICK k : k = e.tx
      OBVIOUS
    <3>2. k \in Calls /\ Closed(k, o)
      BY <2>2, <3>1 DEF Tracked, Inv, StoresOK, ChainInv, KindInv, Resolves
    <3> QED BY <1>1, <3>2, ClosedKept
  <2>3. CASE Rests \/ \E e \in Tracked : Retries(e)
    <3>1. SameOutcome /\ UNCHANGED transactions
      BY <2>3, SameOutcomeOK DEF Rests, Retries
    <3> QED BY <3>1, KnownKept
  <2> QED BY <2>1, <2>2, <2>3 DEF ConfirmMove
<1> QED BY <1>2, <1>3

\* What a caller waits on is closed, registered, or was rejected.
Served(d) == d \in Calls /\ (Done(d) \/ Registered(d) = d \/ caller[d].pc = "full")
WaitInv == \A w \in Calls : caller[w].pc = "wait" => Served(caller[w].waitOn)

\* A step of the callers keeps it so: only the rejection takes an open request
\* out of the map, and a request is made anew only before anyone waits on it.
LEMMA CallerServes ==
  ASSUME TxmAssumption, Inv, PlaceInv, NEW k \in Calls, Caller(k),
         NEW d \in Calls, Served(d)
  PROVE  Served(d)'
<1>1. \A c \in Calls : IdOf[c] \in Ids /\ c # NoCall
  BY DEF TxmAssumption, Calls, NoCall
<1>2. CallOK(d) /\ CallOK(k) /\ ReqOK
  BY DEF PlaceInv, Inv
<1>3. ASSUME NEW pc, SetPc(k, pc), caller[k].pc # "full" \/ pc = "full",
             UNCHANGED <<tx, transactions>>
      PROVE  Served(d)'
  BY <1>2, <1>3 DEF Served, SetPc, Done, Registered, ReqOK
<1>4. CASE EnqueueStopped(k) \/ EnqueueSend(k) \/ EnqueueFull(k) \/ WaitReturn(k)
  BY <1>3, <1>4 DEF EnqueueStopped, EnqueueSend, EnqueueFull, WaitReturn, Return,
         Accept
<1>5. CASE LookupToWait(k)
  BY <1>2, <1>5 DEF LookupToWait, Served, Done, Registered, ReqOK
<1>6. CASE Enqueue(k) /\ Registered(k) # NoCall
  BY <1>3, <1>6 DEF Enqueue, Accept, Return
<1>7. CASE Enqueue(k) /\ Registered(k) = NoCall
  <2>1. /\ transactions' = [transactions EXCEPT ![IdOf[k]] = k]
        /\ tx' = [tx EXCEPT ![k] = NewTx]
        /\ caller' = [caller EXCEPT ![k].pc = "send"] /\ caller[k].pc = "new"
    BY <1>7 DEF Enqueue, SetPc
  <2>2. ~Done(k) /\ Registered(k) # k
    BY <1>1, <1>2, <1>7, <2>1 DEF CallOK, OpenOK, Entering
  <2>3. d # k
    BY <2>1, <2>2 DEF Served
  <2>4. (Done(d) => Done(d)') /\ caller'[d] = caller[d]
    BY <1>2, <2>1, <2>3 DEF Done, ReqOK
  <2>5. Registered(d) = d => (Registered(d) = d)'
    BY <1>1, <1>2, <1>7, <2>1 DEF Registered, ReqOK
  <2> QED BY <2>4, <2>5 DEF Served
<1>8. CASE EnqueueReject(k)
  <2>1. /\ transactions' = [transactions EXCEPT ![IdOf[k]] = NoCall] /\ UNCHANGED tx
        /\ caller' = [caller EXCEPT ![k].pc = "full"] /\ caller[k].pc = "resend"
    BY <1>8 DEF EnqueueReject, Return, SetPc
  <2>2. Registered(k) = k
    BY <1>2, <2>1 DEF CallOK, MapOK, Submitting
  <2>3. CASE d = k
    BY <1>2, <2>1, <2>3 DEF Served, ReqOK
  <2>4. CASE d # k
    <3>1. Registered(d) = d => (Registered(d) = d)'
      BY <1>1, <1>2, <2>1, <2>2, <2>4 DEF Registered, ReqOK
    <3>2. (Done(d) => Done(d)') /\ caller'[d] = caller[d]
      BY <1>2, <2>1, <2>4 DEF Done, ReqOK
    <3> QED BY <3>1, <3>2 DEF Served
  <2> QED BY <2>3, <2>4
<1>9. CASE EnqueueEvict(k)
  <2>1. caller' = [caller EXCEPT ![k].pc = "resend"] /\ caller[k].pc = "evict"
    BY <1>9 DEF EnqueueEvict, SetPc
  <2>2. caller[d].pc = "full" => caller'[d].pc = "full"
    BY <1>2, <2>1 DEF ReqOK
  <2>3. CASE UNCHANGED <<tx, transactions>>
    BY <2>2, <2>3 DEF Served, Done, Registered
  <2>4. CASE ~UNCHANGED <<tx, transactions>>
    <3>1. PICK h : h = Head(queue)
      OBVIOUS
    <3>2. queue # <<>> /\ UpdateStatus(h, tx[h], "Failed")
      BY <1>9, <2>4, <3>1 DEF EnqueueEvict
    <3>3. h \in Calls /\ tx[h] \in TxRecord /\ "Failed" \in Outcomes
      <4>1. h \in Calls
        BY <3>1, <3>2, TailHas DEF Inv, QueueOK, PlaceInv
      <4> QED BY <1>2, <4>1 DEF ReqOK, Outcomes, Terminal
    <3>4. Closed(h, "Failed")
      BY <1>2, <3>2, <3>3, UpdateCloses
    <3>5. Kept(d)
      BY <1>2, <3>3, <3>4, ClosedKept
    <3> QED BY <2>2, <3>5 DEF Served, Kept
  <2> QED BY <2>3, <2>4
<1> QED BY <1>4, <1>5, <1>6, <1>7, <1>8, <1>9 DEF Caller

LEMMA NextServes ==
  ASSUME TxmAssumption, Inv, ChainInv, PlaceInv, [Next]_vars, NEW d \in Calls, Served(d)
  PROVE  Served(d)'
<1>1. CASE \E k \in Calls : Caller(k)
  BY <1>1, CallerServes
<1>2. CASE Broadcast \/ ConfirmLoop
  <2>1. Kept(d) /\ UNCHANGED caller
    BY <1>2, LoopsKeep, BroadcastFrame, ConfirmFrame
  <2> QED BY <2>1 DEF Served, Kept
<1>3. CASE PruneTerminal
  <2>1. PICK id \in Ids : /\ transactions[id] # NoCall
                          /\ tx[transactions[id]].status \in Terminal
                          /\ transactions' = [transactions EXCEPT ![id] = NoCall]
    BY <1>3 DEF PruneTerminal
  <2>2. UNCHANGED <<caller, tx>>
    BY <1>3 DEF PruneTerminal
  <2>3. Registered(d) = d => (Registered(d) = d)' \/ Done(d)
    <3>1. CASE IdOf[d] = id
      BY <2>1, <3>1 DEF Registered, PlaceInv, CallOK, OpenOK
    <3>2. CASE IdOf[d] # id
      BY <2>1, <3>2 DEF Registered, Inv, ReqOK
    <3> QED BY <3>1, <3>2
  <2> QED BY <2>2, <2>3 DEF Served, Done
<1>4. CASE Stop \/ CloseLedger \/ UNCHANGED vars
  BY <1>4 DEF Stop, CloseLedger, vars, reqVars, Served, Done, Registered
<1> QED BY <1>1, <1>2, <1>3, <1>4 DEF Next

\* The map leads from an id to a request with that id.
MapIds == \A id \in Ids : transactions[id] # NoCall => IdOf[transactions[id]] = id

LEMMA EvictIds ==
  ASSUME TxmAssumption, ReqOK, MapIds, NEW k \in Calls,
         transactions' \in {transactions, Evict(k)}
  PROVE  MapIds'
BY DEF MapIds, Evict, ReqOK, TxmAssumption

LEMMA NextIds ==
  ASSUME TxmAssumption, Inv, ChainInv, PlaceInv, MapIds, [Next]_vars
  PROVE  MapIds'
<1>1. ReqOK /\ "Failed" \in Outcomes
  BY DEF Inv, Outcomes, Terminal
<1>2. CASE UNCHANGED transactions
  BY <1>2 DEF MapIds
<1>3. CASE Broadcast
  <2>1. BroadcastMove
    BY <1>3, BroadcastMoves DEF ChainInv
  <2>2. CASE Fails
    <3>1. PICK k : k = b.tx
      OBVIOUS
    <3>2. k \in Calls /\ transactions' = Evict(k)
      BY <2>2, <3>1 DEF Fails, Closed, Inv, LoopOK, Active
    <3> QED BY <1>1, <3>2, EvictIds
  <2>3. CASE ~Fails
    BY <1>2, <2>1, <2>3 DEF BroadcastMove, Stays, Drops, Requeues, Tracks, Publishes,
           Takes, Picks
  <2> QED BY <2>2, <2>3
<1>4. CASE ConfirmLoop
  <2>1. ConfirmMove
    BY <1>4, ConfirmMoves
  <2>2. ASSUME NEW e \in Tracked, NEW o \in Outcomes, Resolves(e, o) PROVE MapIds'
    <3>1. PICK k : k = e.tx
      OBVIOUS
    <3>2. k \in Calls /\ transactions' = Evict(k)
      BY <2>2, <3>1 DEF Tracked, Inv, StoresOK, Resolves, Closed
    <3> QED BY <1>1, <3>2, EvictIds
  <2>3. CASE Rests \/ \E e \in Tracked : Retries(e)
    BY <1>2, <2>3 DEF Rests, Retries
  <2> QED BY <2>1, <2>2, <2>3 DEF ConfirmMove
<1>5. ASSUME NEW k \in Calls, Caller(k) PROVE MapIds'
  <2>1. CASE EnqueueEvict(k)
    <3>1. CASE queue = <<>>
      BY <1>2, <2>1, <3>1 DEF EnqueueEvict
    <3>2. CASE queue # <<>>
      <4>1. PICK h : h = Head(queue)
        OBVIOUS
      <4>2. h \in Calls
        BY <3>2, <4>1, TailHas DEF Inv, QueueOK, PlaceInv
      <4>3. transactions' \in {transactions, Evict(h)}
        BY <2>1, <3>2, <4>1 DEF EnqueueEvict, UpdateStatus
      <4> QED BY <1>1, <4>2, <4>3, EvictIds
    <3> QED BY <3>1, <3>2
  <2>2. CASE Enqueue(k)
    BY <1>1, <2>2 DEF Enqueue, MapIds, ReqOK, TxmAssumption, Registered
  <2>3. CASE EnqueueReject(k)
    BY <1>1, <2>3 DEF EnqueueReject, MapIds, ReqOK, TxmAssumption
  <2>4. CASE ~EnqueueEvict(k) /\ ~Enqueue(k) /\ ~EnqueueReject(k)
    BY <1>2, <1>5, <2>4 DEF Caller, EnqueueStopped, EnqueueSend, EnqueueFull,
           LookupToWait, WaitReturn
  <2> QED BY <2>1, <2>2, <2>3, <2>4
<1>6. CASE PruneTerminal
  BY <1>1, <1>6 DEF PruneTerminal, MapIds, ReqOK
<1>7. CASE Stop \/ CloseLedger \/ UNCHANGED vars
  BY <1>2, <1>7 DEF Stop, CloseLedger, vars, reqVars
<1> QED BY <1>3, <1>4, <1>5, <1>6, <1>7 DEF Next

\* Who waits in the next state waited already, or has just found the request in
\* the map.
LEMMA NextWaits ==
  ASSUME TxmAssumption, Inv, ChainInv, PlaceInv, MapIds, WaitInv, [Next]_vars
  PROVE  WaitInv'
<1> SUFFICES ASSUME NEW w \in Calls, (caller[w].pc = "wait")'
             PROVE  Served(caller[w].waitOn)'
  BY DEF WaitInv
<1>1. CASE caller'[w] = caller[w]
  <2>1. PICK d : d = caller[w].waitOn
    OBVIOUS
  <2>2. d \in Calls /\ Served(d)
    BY <1>1, <2>1 DEF WaitInv, Served
  <2>3. Served(d)'
    BY <2>2, NextServes
  <2> QED BY <1>1, <2>1, <2>3 DEF Served
<1>2. CASE caller'[w] # caller[w]
  <2>1. PICK k \in Calls : Caller(k)
    BY <1>2, BroadcastFrame, ConfirmFrame
       DEF Next, PruneTerminal, Stop, CloseLedger, vars, reqVars
  <2>2. LookupToWait(w)
    BY <1>2, <2>1 DEF Caller, EnqueueStopped, Enqueue, EnqueueSend, EnqueueFull,
           EnqueueEvict, EnqueueReject, LookupToWait, WaitReturn, Return, Accept, SetPc,
           Inv, ReqOK
  <2>3. /\ Registered(w) # NoCall /\ UNCHANGED <<transactions, tx>>
        /\ caller'[w].waitOn = Registered(w)
    BY <2>2 DEF LookupToWait, Inv, ReqOK
  <2>4. PICK d : d = Registered(w)
    OBVIOUS
  <2>5. d \in Calls /\ IdOf[d] = IdOf[w]
    BY <2>3, <2>4 DEF Registered, MapIds, Inv, ReqOK, TxmAssumption
  <2>6. (Registered(d) = d)'
    BY <2>3, <2>4, <2>5 DEF Registered
  <2>7. (caller[w].waitOn)' = d
    BY <2>3, <2>4
  <2> QED BY <2>5, <2>6, <2>7 DEF Served
<1> QED BY <1>1, <1>2

\* What callers wait on, in every reachable state.
THEOREM WaitInvariance == Spec => [](MapIds /\ WaitInv)
<1>1. Init => MapIds /\ WaitInv
  BY DEF Init, MapIds, WaitInv
<1>2. Inv /\ ChainInv /\ PlaceInv /\ (MapIds /\ WaitInv) /\ [Next]_vars
        => (MapIds /\ WaitInv)'
  BY TxmAssumption, NextIds, NextWaits
<1> QED BY <1>1, <1>2, Invariance, ChainInvariance, PlaceInvariance, PTL DEF Spec

\* No caller of EnqueueAndWait is left waiting for nothing, whoever registered the
\* request, however many callers share an id and whatever leaves the map by
\* eviction and pruning meanwhile: only a rejection does it, and a getClient
\* failure, which is excluded.
THEOREM AllWaitersServed == ASSUME "client" \notin Faults PROVE Spec => []WaitersServed
<1>1. Inv /\ PlaceInv /\ WaitInv => WaitersServed
  <2> SUFFICES ASSUME Inv, PlaceInv, WaitInv, NEW c \in Calls, caller[c].pc = "wait",
                      ~stopped, NEW d, d = caller[c].waitOn, ~Done(d),
                      caller[d].pc # "full"
               PROVE  /\ Registered(d) = d
                      /\ caller[d].pc \in {"send", "evict", "resend"} \/ d \in Pipeline
    BY DEF WaitersServed
  <2>1. d \in Calls /\ Registered(d) = d /\ d # NoCall
    BY DEF WaitInv, Served, Calls, NoCall
  <2>2. CASE caller[d].pc \notin {"send", "evict", "resend"}
    <3>1. InFlight(d)
      BY <2>1, <2>2 DEF PlaceInv, CallOK, HomeOK, Submitting
    <3>2. d \in Pipeline
      BY <2>1, <3>1 DEF InFlight, Queued, Has, Being, IsTracked, Pipeline
    <3> QED BY <2>1, <3>2
  <2> QED BY <2>1, <2>2
<1> QED BY <1>1, Invariance, PlaceInvariance, WaitInvariance, PTL

\* --------------------------------------------------------------------------
\* Effects. A payload that took effect is tracked until the request is closed
\* as Finalized or as unknown; a request without lost answers takes effect once.

EffectOK(c) ==
  c \notin lossy =>
    /\ \A l, m \in LandedOk(c) : l = m
    /\ \A l \in LandedOk(c) : l.env \in Tracked \/ tx[c].terminal \in {"Finalized", "Unknown"}
    /\ tx[c].terminal = "Finalized" => LandedOk(c) # {}

EffectInv == \A c \in Calls : EffectOK(c)

LEMMA EffectTruth == PlaceInv /\ EffectInv => TruthfulStatus
<1> SUFFICES ASSUME PlaceInv, EffectInv, NEW c \in Calls \ lossy
             PROVE  /\ tx[c].terminal = "Finalized" => LandedOk(c) # {}
                    /\ tx[c].terminal = "Failed" => LandedOk(c) = {}
  BY DEF TruthfulStatus
<1>1. tx[c].terminal = "Finalized" => LandedOk(c) # {}
  BY DEF EffectInv, EffectOK
<1>2. ASSUME tx[c].terminal = "Failed", NEW l \in LandedOk(c) PROVE FALSE
  <2>1. l.env \in Tracked /\ l.env.tx = c
    BY <1>2 DEF EffectInv, EffectOK, LandedOk
  <2>2. Done(c) /\ IsTracked(c)
    BY <1>2, <2>1 DEF Done, IsTracked
  <2> QED BY <2>2 DEF PlaceInv, CallOK, OpenOK, InFlight
<1> QED BY <1>1, <1>2

\* Landed envelopes, and the ghost, change in few steps.
LEMMA LandedSame ==
  ASSUME UNCHANGED landed, NEW c
  PROVE  LandedOk(c)' = LandedOk(c)
BY DEF LandedOk

\* Nothing that took effect leaves the stores, and c is not closed.
LEMMA EffectKept ==
  ASSUME NEW c \in Calls, EffectOK(c), UNCHANGED landed, lossy \subseteq lossy',
         tx'[c].terminal = tx[c].terminal,
         \A e \in Tracked : e.tx = c => e \in Tracked'
  PROVE  EffectOK(c)'
<1>1. LandedOk(c)' = LandedOk(c)
  BY LandedSame
<1>2. \A l \in LandedOk(c) : l.env.tx = c
  BY DEF LandedOk
<1> QED BY <1>1, <1>2 DEF EffectOK

\* A request that is in no store and open has taken no effect.
LEMMA NoEffectYet ==
  ASSUME NEW c \in Calls, EffectOK(c), c \notin lossy, ~Done(c), ~IsTracked(c)
  PROVE  LandedOk(c) = {}
<1> SUFFICES ASSUME NEW l \in LandedOk(c) PROVE FALSE
  OBVIOUS
<1>1. l.env.tx = c
  BY DEF LandedOk
<1> QED BY <1>1 DEF EffectOK, Done, IsTracked

\* A request closes as Failed, or moves on, without an effect.
LEMMA EffectNone ==
  ASSUME NEW c \in Calls, UNCHANGED landed, lossy \subseteq lossy',
         c \notin lossy' => LandedOk(c) = {},
         tx'[c].terminal # "Finalized"
  PROVE  EffectOK(c)'
<1>1. LandedOk(c)' = LandedOk(c)
  BY LandedSame
<1> QED BY <1>1 DEF EffectOK

LEMMA BroadcastEffects ==
  ASSUME TxmAssumption, Inv, ChainInv, PlaceInv, EffectInv, Broadcast
  PROVE  EffectInv'
<1>1. BroadcastMove /\ UNCHANGED landed /\ lossy \subseteq lossy'
  BY BroadcastFrame, BroadcastMoves, DeliverMove DEF ChainInv
<1>2. Tracked \subseteq Tracked'
  <2>1. \A a \in Accounts : store[a].unconf \subseteq store'[a].unconf
    BY <1>1 DEF BroadcastMove, Stays, Fails, Drops, Requeues, Tracks, Publishes, Takes,
           Picks, SameTracked
  <2> QED BY <2>1 DEF Tracked
<1>3. ASSUME NEW c \in Calls, tx'[c].terminal = tx[c].terminal PROVE EffectOK(c)'
  BY <1>1, <1>2, <1>3, EffectKept DEF EffectInv
<1>4. CASE Fails
  <2>1. PICK k : k = b.tx
    OBVIOUS
  <2>2. k \in Calls /\ Being(k) /\ CallOK(k) /\ EffectOK(k) /\ Closed(k, "Failed")
    BY <1>4, <2>1 DEF Fails, Inv, LoopOK, Active, Being, PlaceInv, EffectInv
  <2>3. ~Done(k) /\ ~IsTracked(k)
    BY <2>2 DEF CallOK, Apart, OpenOK, InFlight
  <2>4. EffectOK(k)'
    <3>1. k \notin lossy' => LandedOk(k) = {}
      BY <1>1, <2>2, <2>3, NoEffectYet
    <3>2. tx'[k].terminal # "Finalized"
      BY <2>2, <2>3 DEF Closed, Done
    <3> QED BY <1>1, <2>2, <3>1, <3>2, EffectNone
  <2>5. ASSUME NEW c \in Calls, c # k PROVE EffectOK(c)'
    BY <1>3, <2>2, <2>5 DEF Closed
  <2> QED BY <2>4, <2>5 DEF EffectInv
<1>5. CASE ~Fails
  <2>1. SameOutcome
    BY <1>1, <1>5 DEF BroadcastMove, Stays, Drops, Requeues, Tracks, Publishes, Takes, Picks
  <2> QED BY <1>3, <2>1 DEF EffectInv, SameOutcome
<1> QED BY <1>4, <1>5

LEMMA ConfirmEffects ==
  ASSUME TxmAssumption, Inv, ChainInv, PlaceInv, EffectInv, ConfirmLoop
  PROVE  EffectInv'
<1>1. ConfirmMove /\ UNCHANGED landed /\ lossy \subseteq lossy'
  BY ConfirmFrame, ConfirmMoves
<1>2. CASE Rests
  <2>1. Tracked' = Tracked
    BY <1>2 DEF Rests, Tracked
  <2>2. \A c \in Calls : tx'[c].terminal = tx[c].terminal
    BY <1>2 DEF Rests
  <2> QED BY <1>1, <2>1, <2>2, EffectKept DEF EffectInv
<1>3. ASSUME NEW e \in Tracked, Untracks(e) PROVE
        /\ e.tx \in Calls /\ ~Done(e.tx) /\ e.kind = "invoke"
        /\ \A f \in Tracked : f.tx # e.tx => f \in Tracked'
        /\ \A l \in LandedOk(e.tx) : e.tx \notin lossy => l.env = e
  <2>1. Tracked' = Tracked \ {e}
    BY <1>3 DEF Untracks, Tracked
  <2>2. e.tx \in Calls /\ e.kind = "invoke"
    BY DEF Tracked, Inv, StoresOK, ChainInv, KindInv
  <2>3. ~Done(e.tx)
    BY <2>2 DEF PlaceInv, CallOK, OpenOK, InFlight, IsTracked
  <2>4. ASSUME NEW l \in LandedOk(e.tx), e.tx \notin lossy PROVE l.env = e
    <3>1. l.env \in Tracked /\ l.env.tx = e.tx
      BY <2>2, <2>3, <2>4 DEF EffectInv, EffectOK, LandedOk, Done
    <3> QED BY <3>1 DEF PlaceInv, TrackedOnce
  <2> QED BY <2>1, <2>2, <2>3, <2>4
\* Without an effect of e there is none of its request.
<1>4. ASSUME NEW e \in Tracked, Untracks(e), Settled(e), e.tx \notin lossy'
      PROVE  LandedOk(e.tx) = {}
  <2> SUFFICES ASSUME NEW l \in LandedOk(e.tx) PROVE FALSE
    OBVIOUS
  <2>1. l.env = e /\ l \in landed /\ l.result = "success"
    BY <1>1, <1>3, <1>4 DEF LandedOk
  <2> QED BY <1>4, <2>1 DEF Settled
<1>5. ASSUME NEW e \in Tracked, Retries(e) PROVE EffectInv'
  <2>1. Untracks(e) /\ Settled(e) /\ SameOutcome
    BY <1>5 DEF Retries
  <2>2. ASSUME NEW c \in Calls, c # e.tx PROVE EffectOK(c)'
    BY <1>1, <1>3, <2>1, <2>2, EffectKept DEF EffectInv, SameOutcome
  <2>3. EffectOK(e.tx)'
    <3>1. PICK k : k = e.tx
      OBVIOUS
    <3>2. k \in Calls /\ tx'[k].terminal # "Finalized" /\ (k \notin lossy' => LandedOk(k) = {})
      BY <1>3, <1>4, <2>1, <3>1 DEF SameOutcome, Done
    <3> QED BY <1>1, <3>1, <3>2, EffectNone
  <2> QED BY <1>3, <2>1, <2>2, <2>3 DEF EffectInv
<1>6. ASSUME NEW e \in Tracked, NEW o \in Outcomes, Resolves(e, o) PROVE EffectInv'
  <2>1. PICK k : k = e.tx
    OBVIOUS
  <2>2. /\ Untracks(e) /\ Closed(k, o) /\ (o = "Failed" => Settled(e))
        /\ o = "Finalized" => \E l \in landed : l.env = e /\ l.result = "success"
    BY <1>6, <2>1 DEF Resolves
  <2>3. k \in Calls /\ ~Done(k) /\ e.kind = "invoke" /\ EffectOK(k)
    BY <1>3, <2>1, <2>2 DEF EffectInv
  <2>4. tx'[k].terminal = o
    BY <2>2, <2>3 DEF Closed, Done
  <2>5. LandedOk(k)' = LandedOk(k)
    BY <1>1, LandedSame
  <2>6. EffectOK(k)'
    <3>1. CASE o = "Failed"
      BY <1>1, <1>4, <2>1, <2>2, <2>3, <2>4, <3>1, EffectNone
    <3>2. CASE o = "Finalized"
      <4>1. LandedOk(k) # {}
        BY <2>1, <2>2, <2>3, <3>2 DEF LandedOk
      <4> QED BY <1>1, <2>3, <2>4, <2>5, <3>2, <4>1 DEF EffectOK
    <3>3. CASE o = "Unknown"
      BY <1>1, <2>3, <2>4, <2>5, <3>3 DEF EffectOK
    <3> QED BY <3>1, <3>2, <3>3 DEF Outcomes, Terminal
  <2>7. ASSUME NEW c \in Calls, c # k PROVE EffectOK(c)'
    BY <1>1, <1>3, <2>1, <2>2, <2>7, EffectKept DEF EffectInv, Closed
  <2> QED BY <2>6, <2>7 DEF EffectInv
<1> QED BY <1>1, <1>2, <1>5, <1>6 DEF ConfirmMove

\* What a ledger does to a request without lost answers: nothing, or its payload
\* takes effect for the first time, while the request is open and tracked.
TakesEffect(c) ==
  /\ LandedOk(c) = {} /\ ~Done(c) /\ LandedOk(c)' # {}
  /\ \A l, m \in LandedOk(c)' : l = m
  /\ \A l \in LandedOk(c)' : l.env \in Tracked

LEMMA LedgerEffect ==
  ASSUME TxmAssumption, Inv, ChainInv, PlaceInv, EffectInv, CloseLedger,
         NEW c \in Calls, c \notin lossy
  PROVE  LandedOk(c)' = LandedOk(c) \/ TakesEffect(c)
<1>1. PICK inc, res : Includes(inc, res)
  BY LedgerMove
<1> DEFINE New(e) == [env |-> e, ledger |-> head + 1, result |-> res[e]]
<1>2. landed' = landed \union {New(e) : e \in inc}
  BY <1>1 DEF Includes
<1>3. ASSUME NEW e \in inc, New(e) \in LandedOk(c)'
      PROVE  e \in Tracked /\ e.tx = c /\ e.seq = acctSeq[e.acct] + 1
             /\ e.acct \in Accounts /\ ~Done(c)
  <2>1. New(e).env = e
    OBVIOUS
  <2>2. e.kind = "invoke" /\ e.tx = c
    BY <1>3, <2>1 DEF LandedOk
  <2>3. e \in pool /\ e.seq = acctSeq[e.acct] + 1 /\ e.acct \in Accounts
    BY <1>1 DEF Includes, Inv, ChainOK, Envelope
  <2>4. e \in store[e.acct].unconf
    BY <2>2, <2>3 DEF ChainInv, PoolInv
  <2>5. e \in Tracked
    BY <2>3, <2>4 DEF Tracked
  <2>6. ~Done(c)
    BY <2>2, <2>5 DEF PlaceInv, CallOK, OpenOK, InFlight, IsTracked
  <2> QED BY <2>2, <2>3, <2>5, <2>6
<1>4. CASE \E e \in inc : New(e) \in LandedOk(c)'
  <2>1. PICK e \in inc : New(e) \in LandedOk(c)'
    BY <1>4
  <2>2. /\ e \in Tracked /\ e.tx = c /\ e.seq = acctSeq[e.acct] + 1
        /\ e.acct \in Accounts /\ ~Done(c)
    BY <1>3, <2>1
  <2>3. ASSUME NEW m \in LandedOk(c) PROVE FALSE
    <3>1. m \in landed /\ m.env.tx = c
      BY DEF LandedOk
    <3>2. m.env \in Tracked
      BY <2>2 DEF EffectInv, EffectOK, Done
    <3>3. m.env = e
      BY <2>2, <3>1, <3>2 DEF PlaceInv, TrackedOnce
    <3>4. e.seq <= acctSeq[e.acct] /\ acctSeq[e.acct] \in Nat
      BY <2>2, <3>1, <3>3 DEF ChainInv, LandedInv, Inv, ChainOK
    <3> QED BY <2>2, <3>4
  <2>4. ASSUME NEW l \in LandedOk(c)' PROVE l = New(e)
    <3>1. l \in landed' /\ l.env.kind = "invoke" /\ l.env.tx = c /\ l.result = "success"
      BY DEF LandedOk
    <3>2. l \notin landed
      BY <2>3, <3>1 DEF LandedOk
    <3>3. PICK f \in inc : l = New(f)
      BY <1>2, <3>1, <3>2
    <3>4. f \in Tracked /\ f.tx = c
      BY <1>3, <2>4, <3>3
    <3>5. f = e
      BY <2>2, <3>4 DEF PlaceInv, TrackedOnce
    <3> QED BY <3>3, <3>5
  <2>5. New(e).env = e
    OBVIOUS
  <2> HIDE DEF New
  <2>6. LandedOk(c) = {} /\ LandedOk(c)' # {}
    BY <2>1, <2>3
  <2>7. \A l, m \in LandedOk(c)' : l = m
    BY <2>4
  <2>8. \A l \in LandedOk(c)' : l.env \in Tracked
    BY <2>2, <2>4, <2>5
  <2> QED BY <2>2, <2>6, <2>7, <2>8 DEF TakesEffect
<1>5. CASE \A e \in inc : New(e) \notin LandedOk(c)'
  <2> HIDE DEF New
  <2>1. \A l \in LandedOk(c)' : l \in LandedOk(c)
    BY <1>2, <1>5 DEF LandedOk
  <2>2. \A l \in LandedOk(c) : l \in LandedOk(c)'
    BY <1>2 DEF LandedOk
  <2> QED BY <2>1, <2>2
<1> QED BY <1>4, <1>5

LEMMA LedgerEffects ==
  ASSUME TxmAssumption, Inv, ChainInv, PlaceInv, EffectInv, CloseLedger
  PROVE  EffectInv'
<1>1. UNCHANGED <<tx, store, lossy>>
  BY LedgerMove
<1>2. Tracked' = Tracked
  BY <1>1 DEF Tracked
<1>3. ASSUME NEW c \in Calls, c \notin lossy PROVE EffectOK(c)'
  <2>1. EffectOK(c)
    BY DEF EffectInv
  <2>2. CASE LandedOk(c)' = LandedOk(c)
    BY <1>1, <1>2, <2>1, <2>2 DEF EffectOK
  <2>3. CASE TakesEffect(c)
    BY <1>1, <1>2, <2>3 DEF EffectOK, TakesEffect, Done
  <2> QED BY <1>3, <2>2, <2>3, LedgerEffect
<1>4. ASSUME NEW c \in Calls, c \in lossy PROVE EffectOK(c)'
  BY <1>1, <1>4 DEF EffectOK
<1> QED BY <1>3, <1>4 DEF EffectInv

\* A caller closes at most the request it evicts from the channel.
LEMMA CallerOutcome ==
  ASSUME TxmAssumption, Inv, PlaceInv, NEW k \in Calls, Caller(k)
  PROVE  \/ \A c \in Calls : tx'[c].terminal = tx[c].terminal
         \/ \E d \in Calls : Queued(d) /\ Closed(d, "Failed")
<1>1. CASE EnqueueEvict(k) /\ queue # <<>>
  <2>1. PICK d : d = Head(queue)
    OBVIOUS
  <2>2. d \in Calls /\ Queued(d)
    BY <1>1, <2>1, TailHas DEF Inv, QueueOK, PlaceInv, Queued
  <2>3. Registered(d) = d
    BY <2>2 DEF PlaceInv, CallOK, MapOK, InFlight
  <2>4. UpdateStatus(d, tx[d], "Failed")
    BY <1>1, <2>1, <2>3 DEF EnqueueEvict
  <2>5. "Failed" \in Outcomes /\ tx[d] \in TxRecord /\ ReqOK
    BY <2>2 DEF Outcomes, Terminal, Inv, ReqOK
  <2>6. Closed(d, "Failed")
    BY <2>2, <2>4, <2>5, UpdateCloses
  <2> QED BY <2>2, <2>6
<1>2. CASE Enqueue(k) /\ Registered(k) = NoCall
  <2>1. tx' = [tx EXCEPT ![k] = NewTx] /\ caller[k].pc = "new"
    BY <1>2 DEF Enqueue
  <2>2. tx[k].terminal = "none"
    BY <2>1 DEF PlaceInv, CallOK, OpenOK, Entering, Done
  <2> QED BY <2>1, <2>2 DEF NewTx, Inv, ReqOK
<1>3. CASE UNCHANGED tx
  BY <1>3
<1> QED BY <1>1, <1>2, <1>3 DEF Caller, EnqueueStopped, Enqueue, EnqueueSend, EnqueueFull,
       EnqueueEvict, EnqueueReject, LookupToWait, WaitReturn

LEMMA CallerEffects ==
  ASSUME TxmAssumption, Inv, PlaceInv, EffectInv, NEW k \in Calls, Caller(k)
  PROVE  EffectInv'
<1>1. UNCHANGED <<store, landed, lossy>>
  BY CallerFrame
<1>2. Tracked' = Tracked
  BY <1>1 DEF Tracked
<1>3. ASSUME NEW c \in Calls, tx'[c].terminal = tx[c].terminal PROVE EffectOK(c)'
  BY <1>1, <1>2, <1>3, EffectKept DEF EffectInv
<1>4. ASSUME NEW d \in Calls, Queued(d), Closed(d, "Failed") PROVE EffectInv'
  <2>1. ~Done(d) /\ ~IsTracked(d) /\ EffectOK(d)
    BY <1>4 DEF PlaceInv, CallOK, Apart, OpenOK, InFlight, EffectInv
  <2>2. EffectOK(d)'
    <3>1. d \notin lossy' => LandedOk(d) = {}
      BY <1>1, <2>1, NoEffectYet
    <3>2. tx'[d].terminal # "Finalized"
      BY <1>4, <2>1 DEF Closed, Done
    <3> QED BY <1>1, <3>1, <3>2, EffectNone
  <2>3. ASSUME NEW c \in Calls, c # d PROVE EffectOK(c)'
    BY <1>3, <1>4, <2>3 DEF Closed
  <2> QED BY <2>2, <2>3 DEF EffectInv
<1> QED BY <1>3, <1>4, CallerOutcome DEF EffectInv

LEMMA NextEffects ==
  ASSUME TxmAssumption, Inv, ChainInv, PlaceInv, EffectInv, [Next]_vars
  PROVE  EffectInv'
<1>1. CASE PruneTerminal \/ Stop \/ UNCHANGED vars
  <2>1. UNCHANGED <<tx, store, landed, lossy>>
    BY <1>1 DEF PruneTerminal, Stop, vars, chainVars
  <2>2. Tracked' = Tracked
    BY <2>1 DEF Tracked
  <2> QED BY <2>1, <2>2, EffectKept DEF EffectInv
<1> QED BY <1>1, CallerEffects, BroadcastEffects, ConfirmEffects, LedgerEffects DEF Next

\* A payload takes effect at most once, and is tracked until its request is
\* closed, in every reachable state.
THEOREM EffectInvariance == Spec => []EffectInv
<1>1. Init => EffectInv
  BY DEF Init, EffectInv, EffectOK, LandedOk, NewTx
<1>2. Inv /\ ChainInv /\ PlaceInv /\ EffectInv /\ [Next]_vars => EffectInv'
  BY TxmAssumption, NextEffects
<1> QED BY <1>1, <1>2, Invariance, ChainInvariance, PlaceInvariance, PTL DEF Spec

\* A request that ends as Finalized took effect on chain, and one that ends as
\* Failed did not, although the confirm loop reads the status and the ledger
\* range of a lagging RPC at different moments. (A request whose answer was lost
\* is excluded.)
THEOREM StatusIsTruthful == Spec => []TruthfulStatus
BY EffectTruth, PlaceInvariance, EffectInvariance, PTL

\* --------------------------------------------------------------------------
\* The refinement. Without lost answers, and without a node that reports ledger
\* 0, no request is ever in the ghost.

NothingLost == lossy = {} /\ cur = NoEnvelope

LEMMA NothingLostKept ==
  ASSUME "lossy" \notin Faults, "zeroLedger" \notin Faults, NothingLost, [Next]_vars
  PROVE  NothingLost'
<1>1. CASE BSend
  BY <1>1 DEF BSend, BSendAccepted, BSendError, BSendReject, BSendFatal, BSendTooLate,
         BSendBadSeq, BFrame, confVars, NothingLost
<1>2. CASE BRestore
  BY <1>2 DEF BRestore, BRestoreStart, BRestoreSend, BRestoreSendError, BRestoreFail,
         BRestoreSuccess, BRestoreLandedFailed, BRestorePollTimeout, BFrame, confVars,
         NothingLost
<1>3. CASE Broadcast
  BY <1>1, <1>2, <1>3 DEF Broadcast, BRecv, BDrain, BPick, BGetClientFail, BInfraRequeue,
         BSequenceFail, BBegin, BSimulateFail, BSimulate, BPublish, BDelay, BHalt,
         BFrame, confVars, NothingLost
<1>4. CASE ConfirmLoop
  BY <1>4 DEF ConfirmLoop, ConfirmTick, CGetClientFail, vars, CSnapshot, ConfirmPoll,
         CLanded, CStatusError, CNotFound, CNotFoundZero, CLatestLedger, CHalt, CFrame, NextPoll, confVars, NothingLost
<1>5. ASSUME NEW c \in Calls, Caller(c) PROVE NothingLost'
  BY <1>5 DEF Caller, EnqueueStopped, Enqueue, EnqueueSend, EnqueueFull, EnqueueEvict,
         EnqueueReject, LookupToWait, WaitReturn, confVars, NothingLost
<1>6. CASE PruneTerminal \/ Stop \/ CloseLedger \/ UNCHANGED vars
  BY <1>6 DEF PruneTerminal, Stop, CloseLedger, vars, confVars, NothingLost
<1> QED BY <1>3, <1>4, <1>5, <1>6 DEF Next

\* How often a payload took effect.
LEMMA EffectCount ==
  ASSUME EffectInv, lossy = {}, NEW c \in Calls
  PROVE  Cardinality(LandedOk(c)) = IF LandedOk(c) = {} THEN 0 ELSE 1
BY AtMostOne DEF EffectInv, EffectOK

\* A step that leaves the chain alone closes at most one request.
LEMMA StepCloses ==
  ASSUME TxmAssumption, Inv, ChainInv, PlaceInv, [Next]_vars, ~CloseLedger
  PROVE  /\ UNCHANGED landed
         /\ \/ \A c \in Calls : tx'[c].terminal = tx[c].terminal
            \/ \E d \in Calls, o \in Outcomes : ~Done(d) /\ Closed(d, o)
<1>1. "Failed" \in Outcomes
  BY DEF Outcomes, Terminal
<1>2. CASE Broadcast
  <2>1. UNCHANGED landed /\ BroadcastMove
    BY <1>2, BroadcastFrame, BroadcastMoves DEF ChainInv
  <2>2. CASE Fails
    <3>1. PICK k : k = b.tx
      OBVIOUS
    <3>2. k \in Calls /\ Being(k) /\ CallOK(k) /\ Closed(k, "Failed")
      BY <2>2, <3>1 DEF Fails, Inv, LoopOK, Active, Being, PlaceInv
    <3>3. ~Done(k)
      BY <3>2 DEF CallOK, OpenOK, InFlight
    <3> QED BY <1>1, <2>1, <3>2, <3>3
  <2>3. CASE ~Fails
    BY <2>1, <2>3 DEF BroadcastMove, Stays, Drops, Requeues, Tracks, Publishes, Takes,
           Picks, SameOutcome
  <2> QED BY <2>2, <2>3
<1>3. CASE ConfirmLoop
  <2>1. UNCHANGED landed /\ ConfirmMove
    BY <1>3, ConfirmFrame, ConfirmMoves
  <2>2. ASSUME NEW e \in Tracked, NEW o \in Outcomes, Resolves(e, o)
        PROVE  \E d \in Calls : ~Done(d) /\ Closed(d, o)
    <3>1. e.tx \in Calls
      BY DEF Tracked, Inv, StoresOK, ChainInv, KindInv
    <3>2. ~Done(e.tx)
      BY <3>1 DEF PlaceInv, CallOK, OpenOK, InFlight, IsTracked
    <3> QED BY <2>2, <3>1, <3>2 DEF Resolves
  <2>3. CASE Rests \/ \E e \in Tracked : Retries(e)
    BY <2>1, <2>3 DEF Rests, Retries, SameOutcome
  <2> QED BY <2>1, <2>2, <2>3 DEF ConfirmMove
<1>4. ASSUME NEW k \in Calls, Caller(k)
      PROVE  /\ UNCHANGED landed
             /\ \/ \A c \in Calls : tx'[c].terminal = tx[c].terminal
                \/ \E d \in Calls : ~Done(d) /\ Closed(d, "Failed")
  <2>1. UNCHANGED landed
    BY <1>4, CallerFrame
  <2>2. \A d \in Calls : Queued(d) => ~Done(d)
    BY DEF PlaceInv, CallOK, OpenOK, InFlight
  <2> QED BY <1>4, <2>1, <2>2, CallerOutcome
<1>5. CASE PruneTerminal \/ Stop \/ UNCHANGED vars
  BY <1>5 DEF PruneTerminal, Stop, vars, chainVars
<1> QED BY <1>1, <1>2, <1>3, <1>4, <1>5 DEF Next

LEMMA DeliveryInit == Init => Delivery!Init
<1> SUFFICES ASSUME Init PROVE Delivery!Init
  OBVIOUS
<1>1. \A c \in Calls : Cardinality(LandedOk(c)) = 0
  BY FS_EmptySet DEF Init, LandedOk
<1>2. \A c \in Calls : tx[c].terminal = "none"
  BY DEF Init, NewTx
<1> QED BY <1>1, <1>2 DEF Delivery!Init

\* A ledger is an effect of every request whose envelope it includes first.
LEMMA LedgerDelivers ==
  ASSUME TxmAssumption, Inv, ChainInv, PlaceInv, EffectInv, lossy = {}, CloseLedger
  PROVE  Delivery!Next
<1> DEFINE rs == {c \in Calls : TakesEffect(c)}
<1>1. UNCHANGED tx
  BY LedgerMove
<1>2. ASSUME NEW c \in rs
      PROVE  /\ Cardinality(LandedOk(c)) = 0 /\ tx[c].terminal = "none"
             /\ Cardinality(LandedOk(c)') = 1
  <2>1. TakesEffect(c)
    OBVIOUS
  <2>2. Cardinality(LandedOk(c)) = 0
    BY <2>1, FS_EmptySet DEF TakesEffect
  <2>3. Cardinality(LandedOk(c)') = 1
    BY <2>1, AtMostOne DEF TakesEffect
  <2> QED BY <2>1, <2>2, <2>3 DEF TakesEffect, Done
<1>3. ASSUME NEW c \in Calls, c \notin rs PROVE LandedOk(c)' = LandedOk(c)
  BY <1>3, LedgerEffect
<1>4. [c \in Calls |-> Cardinality(LandedOk(c))]'
        = [c \in Calls |-> IF c \in rs THEN 1 ELSE Cardinality(LandedOk(c))]
  <2> HIDE DEF rs
  <2>1. \A c \in Calls : Cardinality(LandedOk(c)') = IF c \in rs THEN 1 ELSE Cardinality(LandedOk(c))
    BY <1>2, <1>3
  <2> QED BY <2>1
<1>5. rs \in SUBSET Calls
  OBVIOUS
<1> HIDE DEF rs
<1>6. Delivery!TakeEffect(rs)
  BY <1>1, <1>2, <1>4, <1>5 DEF Delivery!TakeEffect
<1> QED BY <1>5, <1>6 DEF Delivery!Next

\* A request is closed with the outcome the chain has.
LEMMA CloseDelivers ==
  ASSUME EffectInv, PlaceInv', EffectInv', lossy = {}, lossy' = {}, UNCHANGED landed,
         NEW d \in Calls, NEW o \in Outcomes, ~Done(d), Closed(d, o)
  PROVE  Delivery!Next
<1>1. \A c \in Calls : LandedOk(c)' = LandedOk(c)
  BY LandedSame
<1>2. tx[d].terminal = "none" /\ tx'[d].terminal = o /\ \A c \in Calls \ {d} : tx'[c] = tx[c]
  BY DEF Done, Closed
<1>3. TruthfulStatus'
  <2>1. (PlaceInv /\ EffectInv => TruthfulStatus)'
    BY EffectTruth, PTL
  <2> QED BY <2>1
<1>4. /\ o = "Finalized" => Cardinality(LandedOk(d)) = 1
      /\ o = "Failed" => Cardinality(LandedOk(d)) = 0
  <2>1. /\ o = "Finalized" => LandedOk(d) # {}
        /\ o = "Failed" => LandedOk(d) = {}
    BY <1>1, <1>2, <1>3 DEF TruthfulStatus
  <2> QED BY <2>1, EffectCount
<1>5. [c \in Calls |-> Cardinality(LandedOk(c))]' = [c \in Calls |-> Cardinality(LandedOk(c))]
  BY <1>1
<1>6. [c \in Calls |-> tx[c].terminal]' = [[c \in Calls |-> tx[c].terminal] EXCEPT ![d] = o]
  BY <1>2
<1>7. o \in {"Finalized", "Failed", "Unknown"}
  BY DEF Outcomes, Terminal
<1>8. Delivery!Close(d, o)
  BY <1>2, <1>4, <1>5, <1>6, <1>7 DEF Delivery!Close
<1> QED BY <1>7, <1>8 DEF Delivery!Next

LEMMA DeliveryStep ==
  ASSUME TxmAssumption, Inv, ChainInv, PlaceInv, EffectInv, NothingLost, PlaceInv',
         EffectInv', NothingLost', [Next]_vars
  PROVE  [Delivery!Next]_(Delivery!vars)
<1>1. lossy = {} /\ lossy' = {}
  BY DEF NothingLost
<1>2. CASE CloseLedger
  BY <1>1, <1>2, LedgerDelivers
<1>3. CASE ~CloseLedger
  <2>1. CASE UNCHANGED landed /\ \A c \in Calls : tx'[c].terminal = tx[c].terminal
    <3>1. \A c \in Calls : LandedOk(c)' = LandedOk(c)
      BY <2>1, LandedSame
    <3>2. UNCHANGED Delivery!vars
      BY <2>1, <3>1 DEF Delivery!vars
    <3> QED BY <3>2
  <2> QED BY <1>1, <1>3, <2>1, StepCloses, CloseDelivers
<1> QED BY <1>2, <1>3

\* The transaction manager implements TxDelivery: a payload takes effect at most
\* once, only while its request is open, and the request is closed with what the
\* chain says, whatever sequences are recycled and whatever is retried. The two
\* faults excluded are the ones with which the code loses track of an envelope:
\* a send whose answer is lost, and NOT_FOUND with LatestLedger = 0.
THEOREM DeliveryRefined ==
  ASSUME "lossy" \notin Faults, "zeroLedger" \notin Faults
  PROVE  Spec => ImplementsDelivery
<1>1. Init => NothingLost
  BY DEF Init, NothingLost
<1>2. NothingLost /\ [Next]_vars => NothingLost'
  BY NothingLostKept
<1>3. Inv /\ ChainInv /\ PlaceInv /\ EffectInv /\ NothingLost /\ PlaceInv' /\ EffectInv'
        /\ NothingLost' /\ [Next]_vars => [Delivery!Next]_(Delivery!vars)
  BY TxmAssumption, DeliveryStep
<1> QED BY <1>1, <1>2, <1>3, DeliveryInit, Invariance, ChainInvariance, PlaceInvariance,
        EffectInvariance, PTL DEF Spec, ImplementsDelivery, Delivery!Spec
=============================================================================
