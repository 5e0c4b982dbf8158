------------------------------ MODULE TxStore ------------------------------
(***************************************************************************)
(* The per-account sequence allocator of the transaction manager           *)
(* (relayer/txm/txstore.go), as operators on a store record:               *)
(*   next     nextSequence, the head of the sequence space                 *)
(*   unconf   unconfirmedSequences, the envelopes sent and not resolved;   *)
(*            an envelope carries its sequence, so the map is a set        *)
(*   failed   failedSequences, recycled sequences to be used again         *)
(*   onchain  lastOnchainSequence, the next sequence the chain expects,    *)
(*            as of the last resync                                        *)
(* An envelope stands for its hash: equal records hash alike.              *)
(***************************************************************************)
EXTENDS Integers

NewTxStore(initial) ==
  [next |-> initial, unconf |-> {}, failed |-> {}, onchain |-> initial]

\* Sequences start at 1, so an account without a TxStore is the store at 0.
NoStore == NewTxStore(0)

UnconfSeqs(st) == {e.seq : e \in st.unconf}

\* nextExpected is the chain's last used sequence plus one.
ResyncNonce(st, nextExpected) ==
  [st EXCEPT !.failed  = {s \in @ : s >= nextExpected},
             !.next    = IF @ < nextExpected THEN nextExpected ELSE @,
             !.onchain = nextExpected]

\* The result of GetNextSequence, min(nextSequence, min(failedSequences)), as
\* the set that holds exactly that number. Nothing is reserved by the read.
GetNextSequence(st) ==
  {s \in st.failed \union {st.next} :
      \A q \in st.failed \union {st.next} : s <= q}

\* AddUnconfirmed returns an error unless this holds.
CanAddUnconfirmed(st, seq) ==
  /\ seq \notin UnconfSeqs(st)
  /\ seq \in st.failed \/ seq = st.next

AddKeepsFailed(st, e) ==                  \* mutant: stays in failedSequences
  [st EXCEPT !.unconf = @ \union {e},
             !.next   = IF e.seq >= @ THEN e.seq + 1 ELSE @]

AddUnconfirmed(st, e) ==
  [st EXCEPT !.unconf = @ \union {e},
             !.failed = @ \ {e.seq},
             !.next   = IF e.seq >= @ THEN e.seq + 1 ELSE @]

\* Confirm returns an error unless the sequence is tracked under this hash.
CanConfirm(st, e) == e \in st.unconf

ConfirmNoRecycle(st, e, failed) ==        \* mutant: the sequence is leaked
  [st EXCEPT !.unconf = {u \in @ : u.seq # e.seq}]

Confirm(st, e, failed) ==
  [st EXCEPT !.unconf = {u \in @ : u.seq # e.seq},
             !.failed = IF failed /\ e.seq >= st.onchain
                          THEN @ \union {e.seq} ELSE @]

Release(st, seq) ==
  [st EXCEPT !.unconf = {u \in @ : u.seq # seq},
             !.failed = IF seq >= st.onchain THEN @ \union {seq} ELSE @]

\* A sequence is in one state: tracked by one envelope, or recycled, or neither,
\* and never ahead of the head.
StoreOK(st) ==
  /\ \A e, f \in st.unconf : e.seq = f.seq => e = f
  /\ \A e \in st.unconf : e.seq < st.next /\ e.seq \notin st.failed
  /\ \A s \in st.failed : s <= st.next
=============================================================================
