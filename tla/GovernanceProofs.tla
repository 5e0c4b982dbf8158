-------------------------- MODULE GovernanceProofs --------------------------
(***************************************************************************)
(* Proofs about Governance, for every set of instances, signers, roots and *)
(* batches: nonces are used once and in order, roots do not come back, the *)
(* signers in force stand behind what is executed, no accepted             *)
(* configuration is unusable, and the timelock implements                  *)
(* DelayedExecution.                                                       *)
(***************************************************************************)
EXTENDS Governance, Induction, SequenceTheorems

\* --------------------------------------------------------------------------
\* The inductive invariant

\* The roots accepted are marked as seen, and differ.
Fresh(m) ==
  /\ \A i \in 1 .. Len(m.accepted) : m.accepted[i] \in m.seen
  /\ \A i, j \in 1 .. Len(m.accepted) : m.accepted[i] = m.accepted[j] => i = j

\* A root with operations left, set under the configuration in force, has its quorum.
Backed(m) ==
  /\ m.meta.version <= m.version
  /\ m.meta.version = m.version /\ m.count < m.meta.post
       => VerifySignatures(m.config, m.backers)

McmsGood(m) ==
  /\ m \in McmsRecord /\ Counted(m) /\ Fresh(m) /\ Backed(m)
  /\ ValidateGroupTree(m.config)

\* A frame can be taken back to a good state, and has so far marked its batch.
FrameGood ==
  ~Idle =>
    /\ \A n \in Instances :
         /\ McmsGood(frame.saved.mcms[n])
         /\ Len(frame.saved.mcms[n].executed) <= Len(mcms[n].executed)
    /\ frame.kind = "batch" =>
         /\ CanExecuteBatch(frame.saved.tl, frame.batch, now)
         /\ tl.ready = [frame.saved.tl.ready EXCEPT ![frame.batch] = DONE_TIMESTAMP]
    /\ frame.kind = "bypass" => tl.ready = frame.saved.tl.ready

Inv == TypeOK /\ (\A n \in Instances : McmsGood(mcms[n])) /\ FrameGood

\* --------------------------------------------------------------------------
\* One MCMS

LEMMA NewMcmsGood ==
  ASSUME NEW c \in Configs, ValidateGroupTree(c)
  PROVE  McmsGood(NewMcms(c))
<1>1. NewMcms(c) \in McmsRecord
  BY EmptySeq DEF NewMcms, McmsRecord
<1>2. Len(NewMcms(c).executed) = 0 /\ Len(NewMcms(c).accepted) = 0
  BY DEF NewMcms
<1>3. NewMcms(c).config = c
  BY DEF NewMcms
<1>4. Counted(NewMcms(c)) /\ Fresh(NewMcms(c)) /\ Backed(NewMcms(c))
  BY <1>1, <1>2 DEF Counted, Fresh, Backed, NewMcms
<1> QED BY <1>1, <1>3, <1>4 DEF McmsGood

LEMMA ApplyConfigGood ==
  ASSUME NEW m, McmsGood(m), NEW c \in Configs, NEW clear \in BOOLEAN,
         CanApplyConfig(m, c)
  PROVE  McmsGood(ApplyConfig(m, c, clear))
<1> DEFINE a == ApplyConfig(m, c, clear)
<1>1. m \in McmsRecord
  BY DEF McmsGood
<1>2. a \in McmsRecord
  <2>1. m.version + 1 \in Nat /\ m.count \in Nat /\ 0 \in Nat
        /\ NoTree \in {p.tree : p \in Proposals} \union {NoTree}
    BY <1>1 DEF McmsRecord
  <2> HIDE DEF NoTree
  <2>2. CASE clear
    BY <1>1, <2>1, <2>2 DEF ApplyConfig, McmsRecord
  <2>3. CASE ~clear
    BY <1>1, <2>1, <2>3 DEF ApplyConfig, McmsRecord
  <2> QED BY <2>2, <2>3
<1>3. a.accepted = m.accepted /\ a.seen = m.seen /\ a.executed = m.executed
      /\ a.count = m.count /\ a.version = m.version + 1 /\ a.config = c
  BY <1>1 DEF ApplyConfig, McmsRecord
<1>4. a.meta = IF clear THEN [pre |-> m.count, post |-> m.count, version |-> m.version + 1]
                        ELSE m.meta
  BY <1>1 DEF ApplyConfig, McmsRecord
<1>5. m.version \in Nat /\ m.count \in Nat /\ m.meta.version \in Nat
  BY <1>1 DEF McmsRecord
<1> HIDE DEF a
<1>6. Counted(a)
  BY <1>3, <1>4, <1>5 DEF McmsGood, Counted
<1>7. Fresh(a)
  BY <1>3 DEF McmsGood, Fresh
<1>8. Backed(a)
  BY <1>3, <1>4, <1>5 DEF McmsGood, Backed
<1>9. ValidateGroupTree(a.config)
  BY <1>3 DEF CanApplyConfig
<1> QED BY <1>2, <1>6, <1>7, <1>8, <1>9 DEF McmsGood, a

LEMMA SetRootGood ==
  ASSUME NEW n, NEW m, McmsGood(m), NEW p \in Proposals, NEW meta \in p.tree.metas,
         NEW signed \in SUBSET Signers, NEW time, CanSetRoot(n, m, p, meta, signed, time)
  PROVE  McmsGood(SetRoot(m, p, meta, signed))
<1> DEFINE r == SetRoot(m, p, meta, signed)
<1>1. m \in McmsRecord
  BY DEF McmsGood
<1>2. meta.pre \in Nat /\ meta.post \in Nat /\ meta.version \in Nat /\ p.until \in Nat
  BY McmsAssumption
<1>3. Append(m.accepted, p) \in Seq(Proposals)
  BY <1>1, AppendProperties DEF McmsRecord
<1>4. r \in McmsRecord
  BY <1>1, <1>2, <1>3 DEF SetRoot, McmsRecord
<1>5. r.accepted = Append(m.accepted, p) /\ r.seen = m.seen \union {p}
      /\ r.executed = m.executed /\ r.count = meta.pre /\ r.version = m.version
      /\ r.config = m.config /\ r.backers = signed
      /\ r.meta = [pre |-> meta.pre, post |-> meta.post, version |-> meta.version]
  BY <1>1 DEF SetRoot, McmsRecord
<1>6. meta.pre = m.count /\ meta.pre <= meta.post /\ meta.version = m.version
      /\ p \notin m.seen /\ VerifySignatures(m.config, signed)
  BY DEF CanSetRoot
<1> HIDE DEF r
<1>7. Counted(r)
  BY <1>2, <1>5, <1>6 DEF McmsGood, Counted
<1>8. Fresh(r)
  <2>1. m.accepted \in Seq(Proposals) /\ Len(m.accepted) \in Nat
    BY <1>1, LenProperties DEF McmsRecord
  <2>2. Len(r.accepted) = Len(m.accepted) + 1 /\ r.accepted[Len(m.accepted) + 1] = p
        /\ \A i \in 1 .. Len(m.accepted) : r.accepted[i] = m.accepted[i]
    BY <1>5, <2>1, AppendProperties
  <2>3. \A i \in 1 .. Len(m.accepted) : m.accepted[i] \in m.seen /\ m.accepted[i] # p
    BY <1>6 DEF McmsGood, Fresh
  <2> QED BY <1>5, <2>1, <2>2, <2>3 DEF McmsGood, Fresh
<1>9. Backed(r)
  BY <1>2, <1>5, <1>6 DEF Backed
<1>10. ValidateGroupTree(r.config)
  BY <1>5 DEF McmsGood
<1> QED BY <1>4, <1>7, <1>8, <1>9, <1>10 DEF McmsGood, r

LEMMA OpOfProposal ==
  ASSUME NEW m \in McmsRecord, NEW op \in m.tree.ops
  PROVE  \E p \in Proposals : op \in p.tree.ops
<1>1. m.tree = NoTree \/ \E p \in Proposals : m.tree = p.tree
  BY DEF McmsRecord
<1>2. m.tree # NoTree
  BY DEF NoTree
<1> QED BY <1>1, <1>2

LEMMA UseNonceGood ==
  ASSUME NEW n, NEW m, McmsGood(m), NEW op \in m.tree.ops, NEW time,
         CanExecute(n, m, op, time)
  PROVE  McmsGood(UseNonce(m, op))
<1> DEFINE u == UseNonce(m, op)
<1>1. m \in McmsRecord
  BY DEF McmsGood
<1>2. op \in ProposedOps
  <2>1. PICK p \in Proposals : op \in p.tree.ops
    BY <1>1, OpOfProposal
  <2>2. p.tree.ops \in {q.tree.ops : q \in Proposals}
    OBVIOUS
  <2> QED BY <2>1, <2>2 DEF ProposedOps
<1>3. m.executed \in Seq(ProposedOps) /\ Append(m.executed, op) \in Seq(ProposedOps)
  BY <1>1, <1>2, AppendProperties DEF McmsRecord
<1>4. m.count \in Nat /\ m.meta.pre \in Nat /\ m.meta.post \in Nat
  BY <1>1 DEF McmsRecord
<1>5. u \in McmsRecord
  <2> DEFINE e == Append(m.executed, op)
         c == m.count + 1
  <2>1. u = [m EXCEPT !.count = c, !.executed = e]
    BY DEF UseNonce
  <2>2. e \in Seq(ProposedOps) /\ c \in Nat
    BY <1>3, <1>4
  <2> HIDE DEF e, c, u
  <2> QED BY <1>1, <2>1, <2>2 DEF McmsRecord
<1>6. u.accepted = m.accepted /\ u.seen = m.seen /\ u.executed = Append(m.executed, op)
      /\ u.count = m.count + 1 /\ u.version = m.version /\ u.config = m.config
      /\ u.backers = m.backers /\ u.meta = m.meta
  BY <1>1 DEF UseNonce, McmsRecord
<1>7. m.count < m.meta.post /\ op.nonce = m.count /\ m.meta.version = m.version
  BY DEF CanExecute
<1> HIDE DEF u
<1>8. Counted(u)
  <2>1. Len(m.executed) = m.count
    BY DEF McmsGood, Counted
  <2>2. Len(u.executed) = m.count + 1 /\ u.executed[m.count + 1] = op
        /\ \A i \in 1 .. m.count : u.executed[i] = m.executed[i]
    BY <1>3, <1>6, <2>1, AppendProperties
  <2> QED BY <1>4, <1>6, <1>7, <2>1, <2>2 DEF McmsGood, Counted
<1>9. Fresh(u)
  BY <1>6 DEF McmsGood, Fresh
<1>10. Backed(u)
  BY <1>4, <1>6, <1>7 DEF McmsGood, Backed
<1>11. ValidateGroupTree(u.config)
  BY <1>6 DEF McmsGood
<1> QED BY <1>5, <1>8, <1>9, <1>10, <1>11 DEF McmsGood, u

\* --------------------------------------------------------------------------
\* The timelock

\* The time Schedule gives a batch.
ReadyAt(delay, at) ==
  LET s == SaturatingAdd(at, delay) IN IF s > DONE_TIMESTAMP THEN s ELSE DONE_TIMESTAMP + 1

LEMMA ScheduleType ==
  ASSUME NEW t \in TlRecord, NEW b \in Batches, NEW delay \in Times, NEW at \in Times
  PROVE  /\ Schedule(t, b, delay, at) \in TlRecord
         /\ Schedule(t, b, delay, at).delay = t.delay
         /\ Schedule(t, b, delay, at).ready = [t.ready EXCEPT ![b] = ReadyAt(delay, at)]
         /\ ReadyAt(delay, at) \in Times /\ ReadyAt(delay, at) > DONE_TIMESTAMP
         /\ ReadyAt(delay, at) >= at + delay \/ ReadyAt(delay, at) = TimeMax
<1> DEFINE x == ReadyAt(delay, at)
<1>1. at \in Nat /\ delay \in Nat /\ TimeMax \in Nat /\ TimeMax >= 2
  BY TimelockAssumption DEF Times
<1>2. x \in Times /\ x > DONE_TIMESTAMP /\ (x >= at + delay \/ x = TimeMax)
  BY <1>1 DEF ReadyAt, SaturatingAdd, Times, DONE_TIMESTAMP
<1>3. Schedule(t, b, delay, at) = [t EXCEPT !.ready[b] = x]
  BY DEF Schedule, ReadyAt
<1> HIDE DEF x
<1>4. /\ Schedule(t, b, delay, at) \in TlRecord
      /\ Schedule(t, b, delay, at).delay = t.delay
      /\ Schedule(t, b, delay, at).ready = [t.ready EXCEPT ![b] = x]
  BY <1>2, <1>3 DEF TlRecord
<1> QED BY <1>2, <1>4 DEF x

LEMMA AdministerType ==
  ASSUME NEW t \in TlRecord, NEW k, AdminCallOK(k)
  PROVE  Administer(t, k) \in TlRecord /\ Administer(t, k).ready = t.ready
<1>1. CASE k.fn = "grant_role"
  BY <1>1 DEF AdminCallOK, Administer, TlRecord
<1>2. CASE k.fn = "revoke_role"
  BY <1>2 DEF AdminCallOK, Administer, TlRecord
<1>3. CASE k.fn = "update_delay"
  BY <1>3 DEF AdminCallOK, Administer, TlRecord
<1>4. CASE k.fn = "block_function"
  BY <1>4 DEF AdminCallOK, Administer, TlRecord
<1>5. CASE k.fn = "unblock_function"
  BY <1>5 DEF AdminCallOK, Administer, TlRecord
<1>6. k.fn \in {"grant_role", "revoke_role", "update_delay", "block_function",
               "unblock_function"}
  BY DEF AdminCallOK
<1> QED BY <1>1, <1>2, <1>3, <1>4, <1>5, <1>6

\* What a call on the timelock does to its operations: nothing, or it schedules one
\* with the delay in force, or it cancels a pending one.
OpsStep(t, u) ==
  \/ u.ready = t.ready
  \/ /\ u.delay = t.delay
     /\ \E b \in Batches :
          \/ \E x \in Times :
               /\ t.ready[b] = 0 /\ u.ready = [t.ready EXCEPT ![b] = x]
               /\ x > DONE_TIMESTAMP /\ (x >= now + t.delay \/ x = TimeMax)
          \/ t.ready[b] > DONE_TIMESTAMP /\ u.ready = [t.ready EXCEPT ![b] = 0]

LEMMA TimelockStep ==
  ASSUME tl \in TlRecord, now \in Times, NEW caller, NEW k, CallOK(k),
         TimelockAllows(caller, k)
  PROVE  TimelockAfter(caller, k) \in TlRecord /\ OpsStep(tl, TimelockAfter(caller, k))
<1>1. CASE k.fn = "schedule_batch"
  <2> DEFINE u == Schedule(tl, k.batch, k.delay, now)
  <2>1. k.batch \in Batches /\ k.delay \in Times /\ TimelockAfter(caller, k) = u
    BY <1>1 DEF CallOK, TimelockAfter
  <2>2. tl.ready[k.batch] = 0 /\ k.delay >= tl.delay
    BY <1>1 DEF TimelockAllows, CanSchedule, AdminFns
  <2> DEFINE x == ReadyAt(k.delay, now)
  <2>3. /\ u \in TlRecord /\ u.delay = tl.delay /\ x \in Times
        /\ u.ready = [tl.ready EXCEPT ![k.batch] = x] /\ x > DONE_TIMESTAMP
        /\ x >= now + k.delay \/ x = TimeMax
    BY <2>1, ScheduleType
  <2> HIDE DEF u, x
  <2>4. x >= now + tl.delay \/ x = TimeMax
    <3>1. x \in Int /\ now \in Int /\ k.delay \in Int /\ tl.delay \in Int
      BY <2>1, <2>3 DEF Times, TlRecord
    <3> QED BY <2>2, <2>3, <3>1
  <2> QED BY <2>1, <2>2, <2>3, <2>4 DEF OpsStep
<1>2. CASE k.fn = "cancel"
  <2>1. k.batch \in Batches /\ TimelockAfter(caller, k) = Cancel(tl, k.batch)
    BY <1>2 DEF CallOK, TimelockAfter
  <2>2. tl.ready[k.batch] > DONE_TIMESTAMP
    BY <1>2 DEF TimelockAllows, CanCancel, AdminFns
  <2> HIDE DEF Times
  <2>0. 0 \in Times
    BY TimelockAssumption DEF Times
  <2>3. Cancel(tl, k.batch) \in TlRecord
        /\ Cancel(tl, k.batch).ready = [tl.ready EXCEPT ![k.batch] = 0]
        /\ Cancel(tl, k.batch).delay = tl.delay
    BY <2>0, <2>1 DEF Cancel, TlRecord
  <2> QED BY <2>1, <2>2, <2>3 DEF OpsStep
<1>3. CASE k.fn = "renounce_role"
  <2>1. k.role \in Roles /\ TimelockAfter(caller, k) = RenounceRole(tl, k.role, caller)
    BY <1>3 DEF TimelockAllows, TimelockAfter, AdminFns
  <2> QED BY <2>1 DEF OpsStep, RenounceRole, TlRecord
<1>4. CASE k.fn \in AdminFns
  <2>1. AdminCallOK(k) /\ TimelockAfter(caller, k) = Administer(tl, k)
    BY <1>4 DEF TimelockAllows, TimelockAfter, AdminFns
  <2> QED BY <2>1, AdministerType DEF OpsStep
<1>5. k.fn \in {"schedule_batch", "cancel", "renounce_role"} \union AdminFns
  BY DEF TimelockAllows, AdminFns
<1> QED BY <1>1, <1>2, <1>3, <1>4, <1>5

\* --------------------------------------------------------------------------
\* Every step keeps the invariant

LEMMA InitGood == Init => Inv
<1> SUFFICES ASSUME Init PROVE Inv
  OBVIOUS
<1>1. tl \in TlRecord
  <2>1. [r \in Roles |-> IF r = "ADMIN" THEN {Self} ELSE FirstHolders[r]]
          \in [Roles -> SUBSET Accounts]
    BY TimelockAssumption, GovernanceAssumption
  <2>2. 0 \in Times /\ FirstDelay \in Times
    BY TimelockAssumption, GovernanceAssumption DEF Times
  <2> QED BY <2>1, <2>2 DEF Init, Initialize, TlRecord
<1>2. \A n \in Instances : McmsGood(mcms[n])
  BY NewMcmsGood, GovernanceAssumption DEF Init
<1>3. mcms \in [Instances -> McmsRecord]
  BY <1>2 DEF Init, McmsGood
<1>4. now \in Times
  BY TimelockAssumption DEF Init, Times
<1> QED BY <1>1, <1>2, <1>3, <1>4 DEF Init, Inv, TypeOK, FrameGood, Idle

\* A step between transactions that leaves every MCMS good keeps the invariant.
LEMMA IdleStep ==
  ASSUME Inv, Idle, UNCHANGED <<frame, performed>>, tl' \in TlRecord, now' \in Times,
         mcms' \in [Instances -> McmsRecord], \A n \in Instances : McmsGood(mcms'[n])
  PROVE  Inv'
BY DEF Inv, TypeOK, FrameGood, Idle, NoFrame

\* Replacing one MCMS by a good one.
LEMMA OneMcms ==
  ASSUME Inv, NEW n \in Instances, NEW m, McmsGood(m), mcms' = [mcms EXCEPT ![n] = m]
  PROVE  mcms' \in [Instances -> McmsRecord] /\ \A i \in Instances : McmsGood(mcms'[i])
BY DEF Inv, TypeOK, McmsGood

LEMMA DirectCallGood ==
  ASSUME Inv, NEW caller, NEW k \in Calls, DirectCall(caller, k)
  PROVE  Inv' /\ OpsStep(tl, tl')
<1>1. CallOK(k) /\ tl \in TlRecord /\ now \in Times
  BY GovernanceAssumption DEF Inv, TypeOK
<1>2. TimelockAllows(caller, k) /\ tl' = TimelockAfter(caller, k)
      /\ Idle /\ UNCHANGED <<mcms, performed, frame, now>>
  BY DEF DirectCall
<1>3. tl' \in TlRecord /\ OpsStep(tl, tl')
  BY <1>1, <1>2, TimelockStep
<1>4. mcms' \in [Instances -> McmsRecord] /\ \A n \in Instances : McmsGood(mcms'[n])
  BY <1>2 DEF Inv, TypeOK
<1> QED BY <1>1, <1>2, <1>3, <1>4, IdleStep

LEMMA SetRootOfGood ==
  ASSUME Inv, NEW n \in Instances, NEW p \in Proposals, NEW meta \in p.tree.metas,
         NEW signed \in SUBSET Signers, SetRootOf(n, p, meta, signed)
  PROVE  Inv'
<1>1. McmsGood(SetRoot(mcms[n], p, meta, signed))
  BY SetRootGood DEF SetRootOf, Inv
<1>2. mcms' \in [Instances -> McmsRecord] /\ \A i \in Instances : McmsGood(mcms'[i])
  BY <1>1, OneMcms DEF SetRootOf
<1>3. Idle /\ UNCHANGED <<tl, performed, frame, now>> /\ tl \in TlRecord /\ now \in Times
  BY DEF SetRootOf, Inv, TypeOK
<1> QED BY <1>2, <1>3, IdleStep

\* The operation of a root that an MCMS executes.
LEMMA UsesNonce ==
  ASSUME Inv, NEW n \in Instances, NEW op \in mcms[n].tree.ops,
         CanExecute(n, mcms[n], op, now), mcms' = [mcms EXCEPT ![n] = UseNonce(mcms[n], op)]
  PROVE  /\ CallOK(op.call)
         /\ mcms' \in [Instances -> McmsRecord]
         /\ \A i \in Instances : /\ McmsGood(mcms'[i])
                                 /\ Len(mcms[i].executed) <= Len(mcms'[i].executed)
<1>1. McmsGood(mcms[n]) /\ mcms[n] \in McmsRecord
  BY DEF Inv, McmsGood
<1>2. McmsGood(UseNonce(mcms[n], op))
  BY <1>1, UseNonceGood
<1>3. mcms' \in [Instances -> McmsRecord] /\ \A i \in Instances : McmsGood(mcms'[i])
  BY <1>2, OneMcms
<1>4. CallOK(op.call)
  BY <1>1, OpOfProposal, GovernanceAssumption
<1>5. ASSUME NEW i \in Instances PROVE Len(mcms[i].executed) <= Len(mcms'[i].executed)
  <2>1. Len(mcms[i].executed) = mcms[i].count /\ mcms[i].count \in Nat
        /\ Len(mcms'[i].executed) = mcms'[i].count
    BY <1>3 DEF Inv, McmsGood, Counted, McmsRecord
  <2>2. CASE i = n
    <3>1. mcms'[n] = UseNonce(mcms[n], op)
      BY DEF Inv, TypeOK
    <3>2. UseNonce(mcms[n], op).count = mcms[n].count + 1
      BY <1>1 DEF UseNonce, McmsRecord
    <3> QED BY <2>1, <2>2, <3>1, <3>2
  <2>3. CASE i # n
    BY <2>1, <2>3 DEF Inv, TypeOK
  <2> QED BY <2>2, <2>3
<1> QED BY <1>3, <1>4, <1>5

LEMMA ExecuteOpGood ==
  ASSUME Inv, NEW n \in Instances, NEW op \in mcms[n].tree.ops, ExecuteOp(n, op)
  PROVE  Inv' /\ OpsStep(tl, tl')
<1>1. CallOK(op.call) /\ mcms' \in [Instances -> McmsRecord]
      /\ \A i \in Instances : McmsGood(mcms'[i])
  BY UsesNonce DEF ExecuteOp
<1>2. tl \in TlRecord /\ now \in Times /\ Idle /\ UNCHANGED <<performed, frame, now>>
  BY DEF ExecuteOp, Inv, TypeOK
<1>3. tl' \in TlRecord /\ OpsStep(tl, tl')
  <2>1. CASE op.call.target = Self
    BY <1>1, <1>2, <2>1, TimelockStep DEF ExecuteOp
  <2>2. CASE op.call.target # Self
    BY <1>2, <2>2 DEF ExecuteOp, OpsStep
  <2> QED BY <2>1, <2>2
<1> QED BY <1>1, <1>2, <1>3, IdleStep

\* Opening a frame.
LEMMA OpenFrame ==
  ASSUME Inv, Idle, NEW kind \in {"batch", "bypass"}, NEW b \in Batches,
         NEW via \in Instances \union {NoVia}, frame' = Frame(kind, b, via),
         UNCHANGED <<performed, now>>, tl' \in TlRecord,
         mcms' \in [Instances -> McmsRecord],
         \A i \in Instances : /\ McmsGood(mcms'[i])
                              /\ Len(mcms[i].executed) <= Len(mcms'[i].executed),
         kind = "batch" => /\ CanExecuteBatch(tl, b, now)
                           /\ tl'.ready = [tl.ready EXCEPT ![b] = DONE_TIMESTAMP],
         kind = "bypass" => tl'.ready = tl.ready
  PROVE  Inv'
<1>1. frame' = [kind |-> kind, batch |-> b, next |-> 1, via |-> via,
                saved |-> [tl |-> tl, mcms |-> mcms]]
  BY DEF Frame, Saved
<1>2. frame' \in FrameRecord
  BY <1>1 DEF FrameRecord, Inv, TypeOK
<1>3. TypeOK'
  BY <1>2 DEF Inv, TypeOK
<1>4. FrameGood'
  BY <1>1 DEF FrameGood, Inv
<1> QED BY <1>3, <1>4 DEF Inv

LEMMA ExecuteBatchGood ==
  ASSUME Inv, NEW b \in Batches, ExecuteBatch(b)
  PROVE  Inv'
<1>1. tl \in TlRecord /\ Idle /\ CanExecuteBatch(tl, b, now) /\ tl' = MarkDone(tl, b)
      /\ frame' = Frame("batch", b, NoVia) /\ UNCHANGED <<mcms, performed, now>>
  BY DEF ExecuteBatch, Inv, TypeOK
<1>2. tl' \in TlRecord /\ tl'.ready = [tl.ready EXCEPT ![b] = DONE_TIMESTAMP]
  <2>1. 1 \in Times
    BY TimelockAssumption DEF Times
  <2> HIDE DEF Times
  <2> QED BY <1>1, <2>1 DEF MarkDone, TlRecord, DONE_TIMESTAMP
<1>3. \A i \in Instances : /\ McmsGood(mcms'[i])
                           /\ Len(mcms[i].executed) <= Len(mcms'[i].executed)
  BY <1>1 DEF Inv, McmsGood, Counted, McmsRecord
<1>4. mcms' \in [Instances -> McmsRecord]
  BY <1>1 DEF Inv, TypeOK
<1> QED BY <1>1, <1>2, <1>3, <1>4, OpenFrame

LEMMA BypasserExecuteBatchGood ==
  ASSUME Inv, NEW caller, NEW b \in Batches, BypasserExecuteBatch(caller, b)
  PROVE  Inv'
<1>1. tl \in TlRecord /\ Idle /\ frame' = Frame("bypass", b, NoVia)
      /\ UNCHANGED <<tl, mcms, performed, now>>
  BY DEF BypasserExecuteBatch, Inv, TypeOK
<1>2. \A i \in Instances : /\ McmsGood(mcms'[i])
                           /\ Len(mcms[i].executed) <= Len(mcms'[i].executed)
  BY <1>1 DEF Inv, McmsGood, Counted, McmsRecord
<1>3. mcms' \in [Instances -> McmsRecord]
  BY <1>1 DEF Inv, TypeOK
<1> QED BY <1>1, <1>2, <1>3, OpenFrame

LEMMA ExecuteOpBypassGood ==
  ASSUME Inv, NEW n \in Instances, NEW op \in mcms[n].tree.ops, ExecuteOpBypass(n, op)
  PROVE  Inv'
<1>1. tl \in TlRecord /\ Idle /\ frame' = Frame("bypass", op.call.batch, n)
      /\ UNCHANGED <<tl, performed, now>> /\ op.call.fn = "bypasser_execute_batch"
  BY DEF ExecuteOpBypass, Inv, TypeOK
<1>2. CallOK(op.call) /\ mcms' \in [Instances -> McmsRecord]
      /\ \A i \in Instances : /\ McmsGood(mcms'[i])
                              /\ Len(mcms[i].executed) <= Len(mcms'[i].executed)
  BY UsesNonce DEF ExecuteOpBypass
<1>3. op.call.batch \in Batches
  BY <1>1, <1>2 DEF CallOK
<1> QED BY <1>1, <1>2, <1>3, OpenFrame

LEMMA MakeCallGood ==
  ASSUME Inv, MakeCall
  PROVE  Inv'
<1> DEFINE k == CallsOf[frame.batch][frame.next]
<1>1. frame \in FrameRecord /\ tl \in TlRecord /\ ~Idle
  BY DEF MakeCall, Inv, TypeOK, Idle
<1>2. frame.batch \in Batches /\ frame.next \in Nat \ {0}
      /\ frame.next <= Len(CallsOf[frame.batch])
  BY <1>1 DEF FrameRecord, MakeCall
<1>3. CallOK(k)
  <2>1. frame.next \in 1 .. Len(CallsOf[frame.batch])
    BY <1>2, TimelockAssumption
  <2> QED BY <1>2, <2>1, GovernanceAssumption
<1>4. tl' \in TlRecord /\ tl'.ready = tl.ready
  BY <1>1, AdministerType DEF MakeCall
<1>5. mcms' \in [Instances -> McmsRecord]
      /\ \A i \in Instances : /\ McmsGood(mcms'[i])
                              /\ mcms'[i].executed = mcms[i].executed
  <2>1. CASE UNCHANGED mcms
    BY <2>1 DEF Inv, TypeOK
  <2>2. CASE /\ k.target \in Instances /\ k.fn = "set_config"
             /\ CanApplyConfig(mcms[k.target], k.config)
             /\ mcms' = [mcms EXCEPT ![k.target] = ApplyConfig(@, k.config, k.clear)]
    <3> DEFINE m == ApplyConfig(mcms[k.target], k.config, k.clear)
    <3>1. McmsGood(mcms[k.target]) /\ k.config \in Configs /\ k.clear \in BOOLEAN
      BY <1>3, <2>2 DEF Inv, CallOK
    <3>2. McmsGood(m)
      BY <2>2, <3>1, ApplyConfigGood
    <3>3. mcms' = [mcms EXCEPT ![k.target] = m]
      BY <2>2
    <3>4. m.executed = mcms[k.target].executed
      BY <3>1 DEF ApplyConfig, McmsGood, McmsRecord
    <3> HIDE DEF m
    <3>5. mcms' \in [Instances -> McmsRecord] /\ \A i \in Instances : McmsGood(mcms'[i])
      BY <2>2, <3>2, <3>3, OneMcms
    <3> QED BY <3>3, <3>4, <3>5 DEF Inv, TypeOK
  <2> QED BY <2>1, <2>2 DEF MakeCall
<1>6. frame' = [frame EXCEPT !.next = @ + 1] /\ UNCHANGED <<performed, now>>
  BY DEF MakeCall
<1>7. frame' \in FrameRecord /\ frame'.kind = frame.kind /\ frame'.batch = frame.batch
      /\ frame'.saved = frame.saved
  BY <1>1, <1>2, <1>6 DEF FrameRecord
<1>8. TypeOK'
  BY <1>4, <1>5, <1>6, <1>7 DEF Inv, TypeOK
<1>9. FrameGood'
  BY <1>1, <1>4, <1>5, <1>6, <1>7 DEF Inv, FrameGood
<1> QED BY <1>5, <1>8, <1>9 DEF Inv

LEMMA RevertGood ==
  ASSUME Inv, Revert
  PROVE  Inv'
<1>1. frame \in FrameRecord /\ ~Idle /\ frame' = NoFrame /\ tl' = frame.saved.tl
      /\ mcms' = frame.saved.mcms /\ UNCHANGED <<performed, now>>
  BY DEF Revert, Inv, TypeOK, Idle
<1>2. tl' \in TlRecord /\ mcms' \in [Instances -> McmsRecord]
  BY <1>1 DEF FrameRecord
<1>3. \A n \in Instances : McmsGood(mcms'[n])
  BY <1>1 DEF Inv, FrameGood
<1> QED BY <1>1, <1>2, <1>3 DEF Inv, TypeOK, FrameGood, Idle

LEMMA FinishBatchGood ==
  ASSUME Inv, FinishBatch
  PROVE  Inv'
<1>1. frame \in FrameRecord /\ frame' = NoFrame /\ UNCHANGED <<tl, mcms, now>>
  BY DEF FinishBatch, Inv, TypeOK, Idle
<1>2. performed' \in [Batches -> Nat]
  BY <1>1 DEF FinishBatch, Inv, TypeOK, FrameRecord
<1> QED BY <1>1, <1>2 DEF Inv, TypeOK, FrameGood, Idle

LEMMA PassTimeGood ==
  ASSUME Inv, PassTime
  PROVE  Inv'
<1>1. now' \in Times
  BY GovernanceAssumption, TimelockAssumption DEF PassTime, Inv, TypeOK, Times
<1> QED BY <1>1, IdleStep DEF PassTime, Inv, TypeOK

LEMMA StepGood == Inv /\ [Next]_vars => Inv'
<1> SUFFICES ASSUME Inv, [Next]_vars PROVE Inv'
  OBVIOUS
<1>1. CASE UNCHANGED vars
  BY <1>1 DEF vars, Inv, TypeOK, FrameGood, Idle
<1>2. ASSUME NEW n \in Instances, McmsStep(n) PROVE Inv'
  BY <1>2, SetRootOfGood, ExecuteOpGood, ExecuteOpBypassGood DEF McmsStep
<1> QED
  BY <1>1, <1>2, DirectCallGood, BypasserExecuteBatchGood, ExecuteBatchGood,
     MakeCallGood, RevertGood, FinishBatchGood, PassTimeGood DEF Next

LEMMA AlwaysInv == Spec => []Inv
<1>1. Init => Inv
  BY InitGood
<1>2. Inv /\ [Next]_vars => Inv'
  BY StepGood
<1> QED BY <1>1, <1>2, PTL DEF Spec

\* --------------------------------------------------------------------------
\* The theorems

\* Whatever the batches and the role holders do, every variable has its type: no time
\* of the timelock leaves the range of a u64, and no frame outlives its transaction.
THEOREM GovernanceTypeCorrect == Spec => []TypeOK
<1>1. Inv => TypeOK
  BY DEF Inv
<1> QED BY <1>1, AlwaysInv, PTL

\* An MCMS uses every nonce once and in order, through set_root with and without
\* override, set_config with and without clear_root, and reverted batches.
THEOREM NoncesOnce == Spec => []NoncesUsedOnce
<1>1. Inv => NoncesUsedOnce
  BY DEF Inv, McmsGood, NoncesUsedOnce
<1> QED BY <1>1, AlwaysInv, PTL

\* set_root never accepts a signed hash again, not even after set_config.
THEOREM RootsOnce == Spec => []NoRootTwice
<1>1. Inv => NoRootTwice
  BY DEF Inv, McmsGood, Fresh, NoRootTwice
<1> QED BY <1>1, AlwaysInv, PTL

LEMMA QuorumStep ==
  ASSUME Inv, [Next]_vars
  PROVE  \A n \in Instances : Len(mcms'[n].executed) > Len(mcms[n].executed) =>
           VerifySignatures(mcms[n].config, mcms[n].backers)
<1> DEFINE Goal == \A n \in Instances : Len(mcms'[n].executed) > Len(mcms[n].executed) =>
                     VerifySignatures(mcms[n].config, mcms[n].backers)
<1>0. \A n \in Instances : Len(mcms[n].executed) \in Nat
  BY DEF Inv, McmsGood, Counted, McmsRecord
<1>1. CASE UNCHANGED mcms
  BY <1>0, <1>1
<1>2. ASSUME NEW n \in Instances, NEW op \in mcms[n].tree.ops,
             ExecuteOp(n, op) \/ ExecuteOpBypass(n, op)
      PROVE  Goal
  <2>1. CanExecute(n, mcms[n], op, now) /\ mcms' = [mcms EXCEPT ![n] = UseNonce(mcms[n], op)]
    BY <1>2 DEF ExecuteOp, ExecuteOpBypass
  <2>2. VerifySignatures(mcms[n].config, mcms[n].backers)
    BY <2>1 DEF CanExecute, Inv, McmsGood, Backed
  <2>3. \A i \in Instances \ {n} : mcms'[i] = mcms[i]
    BY <2>1 DEF Inv, TypeOK
  <2> QED BY <1>0, <2>2, <2>3
<1>3. ASSUME NEW n \in Instances, NEW p \in Proposals, NEW meta \in p.tree.metas,
             NEW signed \in SUBSET Signers, SetRootOf(n, p, meta, signed)
      PROVE  Goal
  <2>1. mcms' = [mcms EXCEPT ![n] = SetRoot(mcms[n], p, meta, signed)]
    BY <1>3 DEF SetRootOf
  <2>2. SetRoot(mcms[n], p, meta, signed).executed = mcms[n].executed
    BY DEF SetRoot, Inv, TypeOK, McmsRecord
  <2>3. \A i \in Instances : mcms'[i].executed = mcms[i].executed
    BY <2>1, <2>2 DEF Inv, TypeOK
  <2> QED BY <1>0, <2>3
<1>4. CASE MakeCall
  <2>1. CASE UNCHANGED mcms
    BY <1>0, <2>1
  <2>2. ASSUME NEW n \in Instances, NEW c, NEW clear,
               mcms' = [mcms EXCEPT ![n] = ApplyConfig(@, c, clear)]
        PROVE  Goal
    <3>1. ApplyConfig(mcms[n], c, clear).executed = mcms[n].executed
      BY DEF ApplyConfig, Inv, TypeOK, McmsRecord
    <3>2. \A i \in Instances : mcms'[i].executed = mcms[i].executed
      BY <2>2, <3>1 DEF Inv, TypeOK
    <3> QED BY <1>0, <3>2
  <2> QED BY <1>4, <2>1, <2>2 DEF MakeCall
<1>5. CASE Revert
  <2>1. \A n \in Instances : Len(mcms'[n].executed) <= Len(mcms[n].executed)
                             /\ Len(mcms'[n].executed) \in Nat
    BY <1>5 DEF Revert, Inv, FrameGood, McmsGood, Counted, McmsRecord
  <2> QED BY <1>0, <2>1
<1>6. ASSUME NEW n \in Instances, McmsStep(n) PROVE Goal
  BY <1>2, <1>3, <1>6 DEF McmsStep
<1>7. \/ UNCHANGED mcms \/ MakeCall \/ Revert \/ \E n \in Instances : McmsStep(n)
  BY DEF Next, vars, DirectCall, BypasserExecuteBatch, ExecuteBatch, FinishBatch, PassTime
<1> QED BY <1>1, <1>4, <1>5, <1>6, <1>7

\* An operation is executed only when the signers that stand behind its root still
\* make the quorum of the configuration in force: set_config without clear_root
\* cannot leave a root of the old signers to be executed.
THEOREM QuorumBehind == Spec => BackedByQuorum
<1>1. Inv /\ [Next]_vars =>
        [\A n \in Instances : Len(mcms'[n].executed) > Len(mcms[n].executed) =>
           VerifySignatures(mcms[n].config, mcms[n].backers)]_vars
  BY QuorumStep
<1> QED BY <1>1, AlwaysInv, PTL DEF Spec, BackedByQuorum

\* --------------------------------------------------------------------------
\* The timelock implements DelayedExecution

LEMMA SameReady ==
  ASSUME NEW t, NEW u, u.ready = t.ready
  PROVE  StatusOf(u) = StatusOf(t) /\ EarliestOf(u) = EarliestOf(t)
BY DEF StatusOf, EarliestOf

LEMMA OneReady ==
  ASSUME NEW t \in TlRecord, NEW u, NEW b \in Batches, NEW x \in Times,
         u.ready = [t.ready EXCEPT ![b] = x]
  PROVE  /\ StatusOf(u) = [StatusOf(t) EXCEPT ![b] =
              IF x = 0 THEN "unset" ELSE IF x = DONE_TIMESTAMP THEN "done" ELSE "pending"]
         /\ EarliestOf(u) = [EarliestOf(t) EXCEPT ![b] = IF x > DONE_TIMESTAMP THEN x ELSE 0]
<1>1. \A i \in Batches : u.ready[i] = IF i = b THEN x ELSE t.ready[i]
  BY DEF TlRecord
<1> QED BY <1>1 DEF StatusOf, EarliestOf

LEMMA DelayInit == Init => Delayed!Init
<1> SUFFICES ASSUME Init PROVE Delayed!Init
  OBVIOUS
<1>1. CommittedTl = tl /\ tl = Initialize(FirstDelay, FirstHolders)
  BY DEF Init, CommittedTl, Idle
<1>2. tl.ready = [b \in Batches |-> 0] /\ tl.delay = FirstDelay
  BY <1>1 DEF Initialize
<1>3. FirstDelay \in Nat
  BY GovernanceAssumption, TimelockAssumption DEF Times
<1>4. StatusOf(tl) = [b \in Batches |-> "unset"] /\ EarliestOf(tl) = [b \in Batches |-> 0]
  BY <1>2 DEF StatusOf, EarliestOf, DONE_TIMESTAMP
<1> QED BY <1>1, <1>2, <1>3, <1>4 DEF Delayed!Init, Init

\* A finished call on the timelock is an announcement, a withdrawal, a change of the
\* notice, or nothing.
LEMMA DelayOps ==
  ASSUME Inv, Inv', Idle, Idle', UNCHANGED <<performed, now>>, OpsStep(tl, tl')
  PROVE  [Delayed!Next]_(Delayed!vars)
<1>1. CommittedTl = tl /\ CommittedTl' = tl' /\ tl \in TlRecord /\ tl' \in TlRecord
  BY DEF CommittedTl, Inv, TypeOK
<1>2. now \in Nat /\ TimeMax \in Nat /\ tl.delay \in Nat /\ tl'.delay \in Nat
  BY <1>1, TimelockAssumption DEF Inv, TypeOK, TlRecord, Times
<1>3. CASE tl'.ready = tl.ready
  <2>1. StatusOf(tl') = StatusOf(tl) /\ EarliestOf(tl') = EarliestOf(tl)
    BY <1>3, SameReady
  <2>2. Delayed!ChangeNotice
    BY <1>1, <1>2, <2>1 DEF Delayed!ChangeNotice
  <2> QED BY <2>2 DEF Delayed!Next
<1>4. ASSUME NEW b \in Batches, NEW x \in Times, tl.ready[b] = 0, tl'.delay = tl.delay,
             tl'.ready = [tl.ready EXCEPT ![b] = x],
             x > DONE_TIMESTAMP, x >= now + tl.delay \/ x = TimeMax
      PROVE  [Delayed!Next]_(Delayed!vars)
  <2>1. x # 0 /\ x # DONE_TIMESTAMP
    BY <1>4 DEF Times, DONE_TIMESTAMP
  <2>2. StatusOf(tl') = [StatusOf(tl) EXCEPT ![b] = "pending"]
        /\ EarliestOf(tl') = [EarliestOf(tl) EXCEPT ![b] = x]
    BY <1>1, <1>4, <2>1, OneReady
  <2>3. StatusOf(tl)[b] = "unset" /\ EarliestOf(tl')[b] = x
    BY <1>4, <2>2 DEF StatusOf, EarliestOf
  <2>4. Delayed!Announce(b, EarliestOf(tl')[b])
    BY <1>1, <1>4, <2>2, <2>3 DEF Delayed!Announce
  <2> QED BY <1>1, <2>4 DEF Delayed!Next
<1>5. ASSUME NEW b \in Batches, tl.ready[b] > DONE_TIMESTAMP, tl'.delay = tl.delay,
             tl'.ready = [tl.ready EXCEPT ![b] = 0]
      PROVE  [Delayed!Next]_(Delayed!vars)
  <2>1. 0 \in Times /\ tl.ready[b] \in Times
    BY <1>1, TimelockAssumption DEF Times, TlRecord
  <2>2. ~(0 > DONE_TIMESTAMP) /\ tl.ready[b] # 0 /\ tl.ready[b] # DONE_TIMESTAMP
    BY <1>5, <2>1 DEF Times, DONE_TIMESTAMP
  <2>3. StatusOf(tl') = [StatusOf(tl) EXCEPT ![b] = "unset"]
        /\ EarliestOf(tl') = [EarliestOf(tl) EXCEPT ![b] = 0]
    BY <1>1, <1>5, <2>1, <2>2, OneReady
  <2>4. StatusOf(tl)[b] = "pending"
    BY <2>2 DEF StatusOf
  <2>5. Delayed!Withdraw(b)
    BY <1>1, <1>5, <2>3, <2>4 DEF Delayed!Withdraw
  <2> QED BY <2>5 DEF Delayed!Next
<1> QED BY <1>3, <1>4, <1>5 DEF OpsStep

\* A step that leaves the committed state as it was.
LEMMA DelayStutter ==
  ASSUME CommittedTl' = CommittedTl, UNCHANGED <<performed, now>>
  PROVE  [Delayed!Next]_(Delayed!vars)
BY DEF Delayed!vars

LEMMA DelayFinish ==
  ASSUME Inv, FinishBatch
  PROVE  [Delayed!Next]_(Delayed!vars)
<1> DEFINE s == frame.saved.tl
       b == frame.batch
<1>1. frame \in FrameRecord /\ ~Idle /\ Idle' /\ UNCHANGED <<tl, now>> /\ tl \in TlRecord
  BY DEF FinishBatch, Inv, TypeOK, Idle
<1>2. CommittedTl = s /\ CommittedTl' = tl /\ b \in Batches /\ s \in TlRecord
      /\ frame.kind \in {"batch", "bypass"}
  BY <1>1 DEF CommittedTl, FrameRecord
<1>3. tl.delay \in Nat
  BY <1>1, TimelockAssumption DEF TlRecord, Times
<1>4. CASE frame.kind = "batch"
  <2>1. CanExecuteBatch(s, b, now) /\ tl.ready = [s.ready EXCEPT ![b] = DONE_TIMESTAMP]
    BY <1>1, <1>4 DEF Inv, FrameGood
  <2>2. performed' = [performed EXCEPT ![b] = @ + 1]
    BY <1>4 DEF FinishBatch
  <2>3. DONE_TIMESTAMP \in Times /\ DONE_TIMESTAMP # 0
    BY TimelockAssumption DEF Times, DONE_TIMESTAMP
  <2> HIDE DEF s, b
  <2>4. StatusOf(tl) = [StatusOf(s) EXCEPT ![b] = "done"]
        /\ EarliestOf(tl) = [EarliestOf(s) EXCEPT ![b] = 0]
    <3>1. ~(DONE_TIMESTAMP > DONE_TIMESTAMP)
      BY DEF DONE_TIMESTAMP
    <3> QED BY <1>2, <2>1, <2>3, <3>1, OneReady
  <2>5. StatusOf(s)[b] = "pending" /\ EarliestOf(s)[b] <= now
    BY <1>2, <2>1 DEF CanExecuteBatch, StatusOf, EarliestOf, DONE_TIMESTAMP, TlRecord, Times
  <2>6. PredOf[b] # NoPred => StatusOf(s)[PredOf[b]] = "done"
    BY <1>2, <2>1, <2>3, TimelockAssumption DEF CanExecuteBatch, StatusOf
  <2>7. Delayed!Perform(b)
    BY <1>1, <1>2, <1>3, <2>2, <2>4, <2>5, <2>6 DEF Delayed!Perform
  <2> QED BY <1>2, <2>7 DEF Delayed!Next
<1>5. CASE frame.kind = "bypass"
  <2>1. tl.ready = s.ready /\ UNCHANGED performed
    BY <1>1, <1>5 DEF Inv, FrameGood, FinishBatch
  <2>2. StatusOf(tl) = StatusOf(s) /\ EarliestOf(tl) = EarliestOf(s)
    BY <2>1, SameReady
  <2>3. Delayed!ChangeNotice
    BY <1>1, <1>2, <1>3, <2>1, <2>2 DEF Delayed!ChangeNotice
  <2> QED BY <2>3 DEF Delayed!Next
<1> QED BY <1>2, <1>4, <1>5

LEMMA DelayStep ==
  ASSUME Inv, Inv', [Next]_vars
  PROVE  [Delayed!Next]_(Delayed!vars)
<1>1. CASE UNCHANGED vars
  BY <1>1, DelayStutter DEF vars, CommittedTl, Idle
<1>2. ASSUME NEW n \in Instances, McmsStep(n) PROVE [Delayed!Next]_(Delayed!vars)
  <2>1. ASSUME NEW p \in Proposals, NEW meta \in p.tree.metas,
               NEW signed \in SUBSET Signers, SetRootOf(n, p, meta, signed)
        PROVE  [Delayed!Next]_(Delayed!vars)
    BY <2>1, DelayStutter DEF SetRootOf, CommittedTl, Idle
  <2>2. ASSUME NEW op \in mcms[n].tree.ops, ExecuteOp(n, op)
        PROVE  [Delayed!Next]_(Delayed!vars)
    <3>1. OpsStep(tl, tl')
      BY <2>2, ExecuteOpGood
    <3> QED BY <2>2, <3>1, DelayOps DEF ExecuteOp, Idle
  <2>3. ASSUME NEW op \in mcms[n].tree.ops, ExecuteOpBypass(n, op)
        PROVE  [Delayed!Next]_(Delayed!vars)
    BY <2>3, DelayStutter DEF ExecuteOpBypass, CommittedTl, Idle, Frame, Saved, NoFrame
  <2> QED BY <1>2, <2>1, <2>2, <2>3 DEF McmsStep
<1>3. ASSUME NEW a, NEW k \in Calls, DirectCall(a, k)
      PROVE  [Delayed!Next]_(Delayed!vars)
  <2>1. OpsStep(tl, tl')
    BY <1>3, DirectCallGood
  <2> QED BY <1>3, <2>1, DelayOps DEF DirectCall, Idle
<1>4. ASSUME NEW a, NEW b \in Batches, BypasserExecuteBatch(a, b)
      PROVE  [Delayed!Next]_(Delayed!vars)
  BY <1>4, DelayStutter DEF BypasserExecuteBatch, CommittedTl, Idle, Frame, Saved, NoFrame
<1>5. ASSUME NEW b \in Batches, ExecuteBatch(b) PROVE [Delayed!Next]_(Delayed!vars)
  BY <1>5, DelayStutter DEF ExecuteBatch, CommittedTl, Idle, Frame, Saved, NoFrame
<1>6. CASE MakeCall
  <2>1. frame \in FrameRecord /\ ~Idle /\ frame' = [frame EXCEPT !.next = @ + 1]
        /\ UNCHANGED <<performed, now>> /\ frame' # NoFrame
    BY <1>6 DEF MakeCall, Inv, TypeOK, Idle, FrameRecord, NoFrame
  <2>2. frame'.saved = frame.saved
    BY <2>1 DEF FrameRecord
  <2> QED BY <2>1, <2>2, DelayStutter DEF CommittedTl, Idle
<1>7. CASE Revert
  BY <1>7, DelayStutter DEF Revert, CommittedTl, Idle
<1>8. CASE PassTime
  <2>1. now' \in Nat /\ now' > now /\ UNCHANGED <<tl, performed, frame>>
    BY <1>8, TimelockAssumption DEF PassTime, Inv, TypeOK, Times
  <2>2. CommittedTl' = CommittedTl
    BY <2>1 DEF CommittedTl, Idle
  <2>3. Delayed!PassTime
    BY <2>1, <2>2 DEF Delayed!PassTime
  <2> QED BY <2>3 DEF Delayed!Next
<1> QED
  BY <1>1, <1>2, <1>3, <1>4, <1>5, <1>6, <1>7, <1>8, DelayFinish DEF Next

\* The timelock implements DelayedExecution: a batch is performed at most once, not
\* before the notice in force when it was scheduled is over, after its predecessor,
\* and never after cancel, whoever holds the roles and whatever calls its batches
\* make; a failed batch leaves no trace.
THEOREM DelayKept == Spec => ImplementsDelay
<1>1. Init => Delayed!Init
  BY DelayInit
<1>2. Inv /\ Inv' /\ [Next]_vars => [Delayed!Next]_(Delayed!vars)
  BY DelayStep
<1> QED BY <1>1, <1>2, AlwaysInv, PTL DEF Spec, ImplementsDelay, Delayed!Spec

\* --------------------------------------------------------------------------
\* The group tree

TreeOK(c) == c \in Configs /\ ValidateGroupTree(c)

LEMMA GroupsAre ==
  /\ NumGroups \in Nat \ {0} /\ 0 \in Groups /\ Groups \subseteq Nat
  /\ IsFiniteSet(Groups)
  /\ \A g \in Groups : g < NumGroups /\ \A h \in Nat : h <= g => h \in Groups
<1>1. NumGroups \in Nat \ {0}
  BY McmsAssumption
<1>2. IsFiniteSet(0 .. NumGroups - 1)
  BY <1>1, FS_Interval
<1> QED BY <1>1, <1>2 DEF Groups

\* What validate_group_tree leaves of the shapes a configuration may have.
LEMMA TreeShape ==
  ASSUME NEW c, TreeOK(c)
  PROVE  /\ c.quorum \in [Groups -> Nat] /\ c.parent \in [Groups -> Groups]
         /\ \A g \in Groups \ {0} : c.parent[g] < g
         /\ DOMAIN c.group \in SUBSET Signers /\ DOMAIN c.group # {}
         /\ \A s \in DOMAIN c.group : c.group[s] \in Groups
<1>1. c.quorum \in [Groups -> Nat] /\ c.parent \in [Groups -> Groups]
      /\ c.group \in UNION {[S -> Groups] : S \in (SUBSET Signers) \ {{}}}
  BY DEF TreeOK, Configs
<1>2. PICK S \in (SUBSET Signers) \ {{}} : c.group \in [S -> Groups]
  BY <1>1
<1>3. \A g \in Groups \ {0} : c.parent[g] < g
  BY DEF TreeOK, ValidateGroupTree
<1>4. DOMAIN c.group = S /\ \A s \in S : c.group[s] \in Groups
  BY <1>2
<1>5. S \in SUBSET Signers /\ S # {}
  OBVIOUS
<1> QED BY <1>1, <1>3, <1>4, <1>5

LEMMA TreeFinite ==
  ASSUME NEW c, TreeOK(c), NEW g \in Groups
  PROVE  /\ IsFiniteSet(Members(c, g)) /\ Cardinality(Members(c, g)) \in Nat
         /\ IsFiniteSet(Children(c, g)) /\ Cardinality(Children(c, g)) \in Nat
         /\ Members(c, g) \in SUBSET Signers /\ Children(c, g) \in SUBSET Groups
<1>1. IsFiniteSet(Groups) /\ IsFiniteSet(Signers)
  BY GroupsAre, McmsAssumption, FS_Interval, SMTT(30) DEF Signers
<1>2. Members(c, g) \in SUBSET Signers /\ Children(c, g) \in SUBSET Groups
  BY TreeShape DEF Members, Children
<1>3. IsFiniteSet(Members(c, g)) /\ IsFiniteSet(Children(c, g))
  BY <1>1, <1>2, FS_Subset
<1> QED BY <1>2, <1>3, FS_CardinalityType

\* One vote's way up.
Climb(c, v, u, h) ==
  {h} \union (IF v[h] + 1 = c.quorum[h] /\ h # 0 THEN u[c.parent[h]] ELSE {})

LEMMA ReachedSteps ==
  ASSUME NEW c, TreeOK(c), NEW v \in [Groups -> Nat], NEW g \in Groups
  PROVE  \E u : /\ Reached(c, v, g) = u[g]
                /\ \A h \in Groups : u[h] = Climb(c, v, u, h)
<1> DEFINE Good(w, n) == \A h \in Groups : h <= n => w[h] = Climb(c, v, w, h)
           S == {n \in Nat : \E w : w \in [Groups -> SUBSET Groups] /\ Good(w, n)}
           up == CHOOSE w : w = [h \in Groups |-> Climb(c, v, w, h)]
<1>0. /\ \A h \in Groups \ {0} : c.parent[h] < h /\ c.parent[h] \in Groups
      /\ Groups \subseteq Nat /\ 0 \in Groups
  BY TreeShape, GroupsAre
<1>1. 0 \in S
  <2> DEFINE w == [h \in Groups |-> {h}]
  <2>1. w \in [Groups -> SUBSET Groups]
    OBVIOUS
  <2>2. Good(w, 0)
    <3> SUFFICES ASSUME NEW h \in Groups, h <= 0 PROVE w[h] = Climb(c, v, w, h)
      OBVIOUS
    <3>1. h = 0
      BY <1>0
    <3> QED BY <3>1 DEF Climb
  <2> HIDE DEF w, Good
  <2> QED BY <2>1, <2>2
<1>2. ASSUME NEW n \in Nat, n \in S PROVE n + 1 \in S
  <2>1. PICK w : w \in [Groups -> SUBSET Groups] /\ Good(w, n)
    BY <1>2
  <2> DEFINE x == [h \in Groups |-> IF h <= n THEN w[h] ELSE Climb(c, v, w, h)]
  <2>2. ASSUME NEW h \in Groups PROVE x[h] \in SUBSET Groups
    <3>1. h # 0 => w[c.parent[h]] \in SUBSET Groups
      BY <1>0, <2>1
    <3> QED BY <2>1, <3>1 DEF Climb
  <2>3. x \in [Groups -> SUBSET Groups]
    BY <2>2
  <2>4. ASSUME NEW h \in Groups, h <= n + 1 PROVE x[h] = Climb(c, v, x, h)
    <3>0. h # 0 => c.parent[h] \in Groups /\ c.parent[h] < h
      BY <1>0
    <3>1. h # 0 => c.parent[h] \in Groups /\ c.parent[h] <= n
      <4> HIDE DEF x
      <4>1. h \in Nat /\ (h # 0 => c.parent[h] \in Nat)
        BY <1>0, <3>0
      <4> QED BY <2>4, <3>0, <4>1
    <3>2. h # 0 => x[c.parent[h]] = w[c.parent[h]]
      BY <3>1
    <3>3. Climb(c, v, x, h) = Climb(c, v, w, h)
      BY <3>2 DEF Climb
    <3>4. x[h] = Climb(c, v, w, h)
      BY <2>1
    <3> QED BY <3>3, <3>4
  <2> HIDE DEF x
  <2> QED BY <2>3, <2>4
<1>3. Nat \subseteq S
  <2> HIDE DEF S
  <2> QED BY <1>1, <1>2, NatSetInduction
<1>4. PICK w : w \in [Groups -> SUBSET Groups] /\ Good(w, NumGroups)
  BY <1>3, GroupsAre
<1>5. \A h \in Groups : h <= NumGroups
  BY GroupsAre
<1>6. w = [h \in Groups |-> Climb(c, v, w, h)]
  <2>1. \A h \in Groups : w[h] = Climb(c, v, w, h)
    BY <1>4, <1>5
  <2> QED BY <1>4, <2>1
<1>7. up = [h \in Groups |-> Climb(c, v, up, h)]
  BY <1>6
<1>8. Reached(c, v, g) = up[g]
  BY DEF Reached, Climb
<1> HIDE DEF up
<1>9. \A h \in Groups : up[h] = Climb(c, v, up, h)
  BY <1>7
<1> QED BY <1>8, <1>9

\* The vote that makes the quorum of h counts for h's parent.
Tips(c, v, h, x) == h # 0 /\ v[h] + 1 = c.quorum[h] /\ c.parent[h] = x

\* The groups a vote in g counts for are a chain: each but g is tipped by
\* exactly one of them, and each that is tipped is among them.
ChainOK(c, v, R, g) ==
  /\ R \in SUBSET Groups /\ g \in R /\ \A h \in R : h <= g
  /\ \A h \in R : \A x \in Groups : Tips(c, v, h, x) => x \in R
  /\ \A x \in R \ {g} : \E h \in R : Tips(c, v, h, x) /\ \A k \in R : Tips(c, v, k, x) => k = h

LEMMA ReachedChain ==
  ASSUME NEW c, TreeOK(c), NEW v \in [Groups -> Nat], NEW g \in Groups
  PROVE  ChainOK(c, v, Reached(c, v, g), g)
<1>1. PICK u : /\ Reached(c, v, g) = u[g]
               /\ \A h \in Groups : u[h] = Climb(c, v, u, h)
  BY ReachedSteps
<1> DEFINE S == {n \in Nat : \A h \in Groups : h <= n => ChainOK(c, v, u[h], h)}
<1>0. /\ \A h \in Groups \ {0} : c.parent[h] < h /\ c.parent[h] \in Groups
      /\ Groups \subseteq Nat /\ 0 \in Groups
  BY TreeShape, GroupsAre
<1>2. ASSUME NEW h \in Groups, ~(v[h] + 1 = c.quorum[h] /\ h # 0)
      PROVE  ChainOK(c, v, u[h], h)
  <2>1. u[h] = {h} /\ h \in Nat
    BY <1>0, <1>1, <1>2 DEF Climb
  <2> QED BY <1>2, <2>1 DEF ChainOK, Tips
<1>3. ASSUME NEW h \in Groups, v[h] + 1 = c.quorum[h], h # 0,
             ChainOK(c, v, u[c.parent[h]], c.parent[h])
      PROVE  ChainOK(c, v, u[h], h)
  <2> DEFINE p == c.parent[h]
             Q == u[p]
             R == u[h]
  <2>1. R = {h} \union Q /\ p \in Groups /\ p < h /\ h \in Nat /\ p \in Nat
    BY <1>0, <1>1, <1>3 DEF Climb
  <2>2. Q \in SUBSET Groups /\ p \in Q /\ \A k \in Q : k <= p
    BY <1>3 DEF ChainOK
  <2>3. ASSUME NEW k \in Q PROVE k \in Nat /\ k < h
    <3>1. k \in Nat /\ k <= p
      BY <1>0, <2>2
    <3> HIDE DEF p
    <3> QED BY <2>1, <3>1
  <2>4. \A x : Tips(c, v, h, x) <=> x = p
    BY <1>3 DEF Tips
  <2>5. \A k \in Q : ~Tips(c, v, k, p)
    <3> SUFFICES ASSUME NEW k \in Q, Tips(c, v, k, p) PROVE FALSE
      OBVIOUS
    <3>1. k \in Groups \ {0} /\ c.parent[k] = p
      BY <2>2 DEF Tips
    <3>2. p < k /\ k <= p /\ k \in Nat
      BY <1>0, <2>2, <2>3, <3>1
    <3> QED BY <2>1, <3>2
  <2>6. \A k \in Q : \A x \in Groups : Tips(c, v, k, x) => x \in Q
    BY <1>3 DEF ChainOK
  <2>7. \A x \in Q \ {p} : \E k \in Q : Tips(c, v, k, x) /\ \A j \in Q : Tips(c, v, j, x) => j = k
    BY <1>3 DEF ChainOK
  <2> HIDE DEF R, Q, p
  <2>8. \A k \in R : k <= h
    BY <2>1, <2>3
  <2>9. \A k \in R : \A x \in Groups : Tips(c, v, k, x) => x \in R
    BY <2>1, <2>2, <2>4, <2>6
  <2>10. ASSUME NEW x \in R \ {h}
         PROVE  \E k \in R : Tips(c, v, k, x) /\ \A j \in R : Tips(c, v, j, x) => j = k
    <3>1. x \in Q
      BY <2>1
    <3>2. CASE x = p
      BY <2>1, <2>4, <2>5, <3>2
    <3>3. CASE x # p
      <4>1. PICK k \in Q : Tips(c, v, k, x) /\ \A j \in Q : Tips(c, v, j, x) => j = k
        BY <2>7, <3>1, <3>3
      <4>2. \A j \in R : Tips(c, v, j, x) => j = k
        BY <2>1, <2>4, <3>3, <4>1
      <4>3. k \in R
        BY <2>1
      <4> QED BY <4>1, <4>2, <4>3
    <3> QED BY <3>2, <3>3
  <2>11. R \in SUBSET Groups /\ h \in R
    BY <2>1, <2>2
  <2> QED BY <2>8, <2>9, <2>10, <2>11 DEF ChainOK, R
<1>4. 0 \in S
  <2> SUFFICES ASSUME NEW h \in Groups, h <= 0 PROVE ChainOK(c, v, u[h], h)
    OBVIOUS
  <2>1. h = 0
    BY <1>0
  <2> QED BY <1>2, <2>1
<1>5. ASSUME NEW n \in Nat, n \in S PROVE n + 1 \in S
  <2> SUFFICES ASSUME NEW h \in Groups, h <= n + 1 PROVE ChainOK(c, v, u[h], h)
    OBVIOUS
  <2>1. CASE v[h] + 1 = c.quorum[h] /\ h # 0
    <3>1. c.parent[h] \in Groups /\ c.parent[h] <= n
      BY <1>0, <2>1
    <3>2. ChainOK(c, v, u[c.parent[h]], c.parent[h])
      BY <1>5, <3>1
    <3> QED BY <1>3, <2>1, <3>2
  <2>2. CASE ~(v[h] + 1 = c.quorum[h] /\ h # 0)
    BY <1>2, <2>2
  <2> QED BY <2>1, <2>2
<1>6. Nat \subseteq S
  <2> HIDE DEF S
  <2> QED BY <1>4, <1>5, NatSetInduction
<1>7. g \in S
  BY <1>0, <1>6
<1>8. ChainOK(c, v, u[g], g)
  BY <1>0, <1>7
<1> QED BY <1>1, <1>8

\* The children of a group whose votes make their quorum.
Won(c, v, g) == {h \in Children(c, g) : v[h] >= c.quorum[h]}

\* The votes of every group are its members' and its winning children's.
VotesOK(c, v, S) ==
  /\ v \in [Groups -> Nat]
  /\ \A g \in Groups :
       v[g] = Cardinality(Members(c, g) \intersect S) + Cardinality(Won(c, v, g))

LEMMA VoteSets ==
  ASSUME NEW c, TreeOK(c), NEW v, NEW S, NEW g \in Groups
  PROVE  /\ IsFiniteSet(Members(c, g) \intersect S) /\ IsFiniteSet(Won(c, v, g))
         /\ Cardinality(Members(c, g) \intersect S) \in Nat
         /\ Cardinality(Won(c, v, g)) \in Nat
<1>1. IsFiniteSet(Members(c, g)) /\ IsFiniteSet(Children(c, g))
  BY TreeFinite
<1>2. /\ Members(c, g) \intersect S \in SUBSET Members(c, g)
      /\ Won(c, v, g) \in SUBSET Children(c, g)
  BY DEF Won
<1>3. IsFiniteSet(Members(c, g) \intersect S) /\ IsFiniteSet(Won(c, v, g))
  BY <1>1, <1>2, FS_Subset
<1> QED BY <1>3, FS_CardinalityType

\* Counting one more signer keeps the votes right.
LEMMA VoteCounted ==
  ASSUME NEW c, TreeOK(c), NEW v, NEW S, VotesOK(c, v, S),
         NEW s \in DOMAIN c.group, s \notin S
  PROVE  VotesOK(c, CountVote(c, v, s), S \union {s})
<1> DEFINE g0 == c.group[s]
           R == Reached(c, v, g0)
           w == CountVote(c, v, s)
           U == S \union {s}
<1>0. g0 \in Groups /\ v \in [Groups -> Nat] /\ c.quorum \in [Groups -> Nat]
  BY TreeShape DEF VotesOK
<1>1. ChainOK(c, v, R, g0)
  BY <1>0, ReachedChain
<1> HIDE DEF R
<1>2. w = [h \in Groups |-> v[h] + IF h \in R THEN 1 ELSE 0]
  BY DEF CountVote, R
<1> HIDE DEF w
<1>3. w \in [Groups -> Nat]
  BY <1>0, <1>2
<1>4. ASSUME NEW g \in Groups
      PROVE  w[g] = Cardinality(Members(c, g) \intersect U) + Cardinality(Won(c, w, g))
  <2> DEFINE a == Cardinality(Members(c, g) \intersect S)
             b == Cardinality(Won(c, v, g))
  <2>1. v[g] = a + b
    BY DEF VotesOK
  <2>2. /\ a \in Nat /\ b \in Nat
        /\ IsFiniteSet(Members(c, g) \intersect S) /\ IsFiniteSet(Won(c, v, g))
    BY VoteSets
  <2>3. Cardinality(Members(c, g) \intersect U) = IF g = g0 THEN a + 1 ELSE a
    <3>1. CASE g = g0
      <4>1. Members(c, g) \intersect U = (Members(c, g) \intersect S) \union {s}
            /\ s \notin Members(c, g) \intersect S
        BY <3>1 DEF Members
      <4>2. Cardinality((Members(c, g) \intersect S) \union {s}) = a + 1
        BY <2>2, <4>1, FS_AddElement
      <4> QED BY <3>1, <4>1, <4>2
    <3>2. CASE g # g0
      <4>1. Members(c, g) \intersect U = Members(c, g) \intersect S
        BY <3>2 DEF Members
      <4> QED BY <3>2, <4>1
    <3> QED BY <3>1, <3>2
  <2>4. \A h \in Groups : h \in Won(c, w, g) <=> h \in Won(c, v, g) \/ (h \in R /\ Tips(c, v, h, g))
    <3> SUFFICES ASSUME NEW h \in Groups
                 PROVE  h \in Won(c, w, g) <=>
                          h \in Won(c, v, g) \/ (h \in R /\ Tips(c, v, h, g))
      OBVIOUS
    <3>1. v[h] \in Nat /\ c.quorum[h] \in Nat /\ w[h] = v[h] + IF h \in R THEN 1 ELSE 0
      BY <1>0, <1>2
    <3>2. h \in Children(c, g) <=> h # 0 /\ c.parent[h] = g /\ c.quorum[h] > 0
      BY DEF Children
    <3>3. w[h] >= c.quorum[h] <=> v[h] >= c.quorum[h] \/ (h \in R /\ v[h] + 1 = c.quorum[h])
      BY <3>1
    <3>4. v[h] + 1 = c.quorum[h] => c.quorum[h] > 0
      BY <3>1
    <3>5. /\ h \in Won(c, w, g) <=> h \in Children(c, g) /\ w[h] >= c.quorum[h]
          /\ h \in Won(c, v, g) <=> h \in Children(c, g) /\ v[h] >= c.quorum[h]
      BY DEF Won
    <3> QED BY <3>2, <3>3, <3>4, <3>5 DEF Tips
  <2>5. Won(c, w, g) \subseteq Groups /\ Won(c, v, g) \subseteq Groups
    BY DEF Won, Children
  <2>6. \A h \in R : Tips(c, v, h, g) => h \notin Won(c, v, g)
    <3> SUFFICES ASSUME NEW h \in R, Tips(c, v, h, g), h \in Won(c, v, g) PROVE FALSE
      OBVIOUS
    <3>1. h \in Groups /\ v[h] \in Nat /\ v[h] + 1 = c.quorum[h] /\ v[h] >= c.quorum[h]
      BY <1>0, <1>1 DEF ChainOK, Tips, Won
    <3> QED BY <3>1
  <2>7. Cardinality(Won(c, w, g)) = IF g \in R /\ g # g0 THEN b + 1 ELSE b
    <3>1. CASE g \in R /\ g # g0
      <4>1. PICK h \in R : Tips(c, v, h, g) /\ \A k \in R : Tips(c, v, k, g) => k = h
        BY <1>1, <3>1 DEF ChainOK
      <4>2. h \in Groups
        BY <1>1 DEF ChainOK
      <4>3. Won(c, w, g) = Won(c, v, g) \union {h} /\ h \notin Won(c, v, g)
        BY <2>4, <2>5, <2>6, <4>1, <4>2
      <4>4. Cardinality(Won(c, v, g) \union {h}) = b + 1
        BY <2>2, <4>3, FS_AddElement
      <4> QED BY <3>1, <4>3, <4>4
    <3>2. CASE ~(g \in R /\ g # g0)
      <4>1. ASSUME NEW h \in R, Tips(c, v, h, g) PROVE FALSE
        <5>1. g \in R
          BY <1>1, <4>1 DEF ChainOK
        <5>2. g = g0 /\ h <= g /\ h \in Groups
          BY <1>1, <3>2, <5>1 DEF ChainOK
        <5>3. h # 0 /\ c.parent[h] = g
          BY <4>1 DEF Tips
        <5>4. g < h /\ h \in Nat /\ g \in Nat
          BY <5>2, <5>3, TreeShape, GroupsAre
        <5> QED BY <5>2, <5>4
      <4>2. Won(c, w, g) = Won(c, v, g)
        BY <2>4, <2>5, <4>1
      <4> QED BY <3>2, <4>2
    <3> QED BY <3>1, <3>2
  <2>8. g0 \in R
    BY <1>1 DEF ChainOK
  <2>9. w[g] = v[g] + IF g \in R THEN 1 ELSE 0
    BY <1>2
  <2> HIDE DEF a, b
  <2>10. CASE g = g0
    BY <2>1, <2>2, <2>3, <2>7, <2>8, <2>9, <2>10
  <2>11. CASE g # g0
    BY <2>1, <2>2, <2>3, <2>7, <2>9, <2>11
  <2> QED BY <2>10, <2>11
<1> QED BY <1>3, <1>4 DEF VotesOK, w

\* verify_signatures counts every signer once, in the order of the list.
LEMMA VotesAre ==
  ASSUME NEW c, TreeOK(c), NEW signed \in SUBSET DOMAIN c.group
  PROVE  VotesOK(c, GroupVotes(c, signed), signed)
<1> DEFINE k == NumSigners
           V == [Groups -> Nat]
           start == [h \in Groups |-> 0]
           Go(i, v) == IF i \in signed THEN CountVote(c, v, i) ELSE v
           Step(f, i) == IF i = 0 THEN start ELSE Go(i, f[i - 1])
           u == CHOOSE f : f = [i \in 0 .. k |-> Step(f, i)]
           step == [i \in 1 .. k |-> [v \in V |-> Go(i, v)]]
<1>1. k \in Nat /\ signed \subseteq 1 .. k /\ DOMAIN c.group \in SUBSET Signers
  BY McmsAssumption, TreeShape DEF Signers
<1>2. ASSUME NEW i, NEW v \in V PROVE Go(i, v) \in V
  BY DEF CountVote
<1>3. start \in V
  OBVIOUS
<1> HIDE DEF V, Go, start, k
<1>4. step \in StepFunctions(V, k)
  BY <1>2 DEF StepFunctions
<1>5. PICK w : Stepwise(w, V, start, k, step)
  <2> HIDE DEF step
  <2> QED BY <1>1, <1>3, <1>4, StepwiseFunction
<1>6. w \in [0 .. k -> V] /\ w[0] = start /\ \A n \in 1 .. k : w[n] = Go(n, w[n - 1])
  <2>1. w \in [0 .. k -> V] /\ w[0] = start /\ \A n \in 1 .. k : w[n] = step[n][w[n - 1]]
    BY <1>5 DEF Stepwise
  <2>2. \A n \in 1 .. k : n - 1 \in 0 .. k
    BY <1>1
  <2>3. \A n \in 1 .. k : w[n - 1] \in V
    BY <2>1, <2>2
  <2> QED BY <2>1, <2>3
<1>7. w = [n \in 0 .. k |-> Step(w, n)]
  <2>1. ASSUME NEW n \in 0 .. k PROVE w[n] = Step(w, n)
    <3>1. n # 0 => n \in 1 .. k
      BY <1>1
    <3> QED BY <1>6, <3>1
  <2>2. w = [n \in 0 .. k |-> w[n]]
    BY <1>6
  <2> HIDE DEF Step
  <2> QED BY <2>1, <2>2
<1>8. u = [n \in 0 .. k |-> Step(u, n)]
  <2> HIDE DEF Step
  <2> QED BY <1>7
<1>9. GroupVotes(c, signed) = u[k]
  BY DEF GroupVotes, Go, start, k
<1> HIDE DEF u
<1>10. u[0] = start /\ \A n \in 1 .. k : u[n] = Go(n, u[n - 1])
  <2>1. \A n \in 0 .. k : u[n] = Step(u, n)
    <3> HIDE DEF Step
    <3> QED BY <1>8
  <2>2. \A n \in 1 .. k : n \in 0 .. k /\ n # 0
    BY <1>1
  <2> QED BY <1>1, <2>1, <2>2
<1> DEFINE T == {n \in Nat : n <= k => VotesOK(c, u[n], signed \intersect (1 .. n))}
<1>11. 0 \in T
  <2>1. signed \intersect (1 .. 0) = {}
    BY <1>1
  <2>2. ASSUME NEW g \in Groups
        PROVE  start[g] = Cardinality(Members(c, g) \intersect {}) + Cardinality(Won(c, start, g))
    <3>1. \A h \in Children(c, g) : ~(start[h] >= c.quorum[h])
      <4> SUFFICES ASSUME NEW h \in Children(c, g) PROVE ~(start[h] >= c.quorum[h])
        OBVIOUS
      <4>1. h \in Groups /\ c.quorum[h] > 0
        BY DEF Children
      <4>2. c.quorum[h] \in Nat /\ start[h] = 0
        BY <4>1, TreeShape DEF start
      <4> QED BY <4>1, <4>2
    <3>2. Won(c, start, g) = {} /\ Members(c, g) \intersect {} = {}
      BY <3>1 DEF Won
    <3>3. start[g] = 0
      BY DEF start
    <3> QED BY <3>2, <3>3, FS_EmptySet
  <2>3. VotesOK(c, start, {})
    BY <1>3, <2>2 DEF VotesOK, V
  <2> QED BY <1>10, <2>1, <2>3
<1>12. ASSUME NEW n \in Nat, n \in T PROVE n + 1 \in T
  <2> DEFINE S == signed \intersect (1 .. n)
             U == signed \intersect (1 .. n + 1)
  <2> SUFFICES ASSUME n + 1 <= k PROVE VotesOK(c, u[n + 1], U)
    OBVIOUS
  <2>1. n + 1 \in 1 .. k /\ (n + 1) - 1 = n /\ VotesOK(c, u[n], S)
    BY <1>1, <1>12
  <2>2. u[n + 1] = Go(n + 1, u[n])
    BY <1>10, <2>1
  <2>3. CASE n + 1 \in signed
    <3>1. U = S \union {n + 1} /\ n + 1 \notin S
      BY <2>3
    <3>2. n + 1 \in DOMAIN c.group /\ u[n + 1] = CountVote(c, u[n], n + 1)
      BY <2>2, <2>3 DEF Go
    <3> HIDE DEF S, U, T
    <3> QED BY <2>1, <3>1, <3>2, VoteCounted
  <2>4. CASE n + 1 \notin signed
    <3>1. U = S
      <4>1. \A x \in 1 .. n + 1 : x # n + 1 => x \in 1 .. n
        OBVIOUS
      <4>2. \A x \in 1 .. n : x \in 1 .. n + 1
        OBVIOUS
      <4> QED BY <2>4, <4>1, <4>2
    <3>2. u[n + 1] = u[n]
      BY <2>2, <2>4 DEF Go
    <3> QED BY <2>1, <3>1, <3>2
  <2> QED BY <2>3, <2>4
<1>13. VotesOK(c, u[k], signed \intersect (1 .. k))
  <2> HIDE DEF T
  <2>1. Nat \subseteq T
    BY <1>11, <1>12, NatSetInduction
  <2> QED BY <1>1, <2>1 DEF T
<1>14. signed \intersect (1 .. k) = signed
  BY <1>1
<1> QED BY <1>9, <1>13, <1>14

\* What the tree says of one group, given what it says of the children.
Speaks(c, signed, F, g) ==
  /\ c.quorum[g] > 0
  /\ Cardinality(Members(c, g) \intersect signed)
       + Cardinality({h \in Children(c, g) : F[h]}) >= c.quorum[g]

\* The children come after their group, so the tree says one thing only.
LEMMA TreeSaysOne ==
  ASSUME NEW c, TreeOK(c), NEW signed, NEW F, NEW H,
         F = [g \in Groups |-> Speaks(c, signed, F, g)],
         H = [g \in Groups |-> Speaks(c, signed, H, g)]
  PROVE  F = H
<1> DEFINE T == {n \in Nat : \A g \in Groups : g + n >= NumGroups => F[g] = H[g]}
<1>0. /\ Groups \subseteq Nat /\ NumGroups \in Nat /\ \A g \in Groups : g < NumGroups
      /\ \A h \in Groups \ {0} : c.parent[h] < h
  BY GroupsAre, TreeShape
<1>1. 0 \in T
  <2> SUFFICES ASSUME NEW g \in Groups, g + 0 >= NumGroups PROVE FALSE
    OBVIOUS
  <2>1. g \in Nat /\ g < NumGroups
    BY <1>0
  <2> QED BY <1>0, <2>1
<1>2. ASSUME NEW n \in Nat, n \in T PROVE n + 1 \in T
  <2> SUFFICES ASSUME NEW g \in Groups, g + (n + 1) >= NumGroups PROVE F[g] = H[g]
    OBVIOUS
  <2>1. ASSUME NEW h \in Children(c, g) PROVE F[h] = H[h]
    <3>1. h \in Groups \ {0} /\ c.parent[h] = g
      BY DEF Children
    <3>2. g < h /\ h \in Nat /\ g \in Nat
      BY <1>0, <3>1
    <3>3. h + n >= NumGroups
      BY <1>0, <3>2
    <3> QED BY <1>2, <3>1, <3>3
  <2>2. {h \in Children(c, g) : F[h]} = {h \in Children(c, g) : H[h]}
    BY <2>1
  <2>3. Speaks(c, signed, F, g) = Speaks(c, signed, H, g)
    BY <2>2 DEF Speaks
  <2>4. F[g] = Speaks(c, signed, F, g) /\ H[g] = Speaks(c, signed, H, g)
    <3> HIDE DEF T
    <3> QED OBVIOUS
  <2> QED BY <2>3, <2>4
<1>3. Nat \subseteq T
  <2> HIDE DEF T
  <2> QED BY <1>1, <1>2, NatSetInduction
<1>4. \A g \in Groups : F[g] = H[g]
  <2> SUFFICES ASSUME NEW g \in Groups PROVE F[g] = H[g]
    OBVIOUS
  <2>1. NumGroups \in T /\ g \in Nat
    BY <1>0, <1>3
  <2>2. g + NumGroups >= NumGroups
    BY <1>0, <2>1
  <2> QED BY <2>1, <2>2
<1>5. F = [g \in Groups |-> F[g]] /\ H = [g \in Groups |-> H[g]]
  <2> HIDE DEF T
  <2> QED OBVIOUS
<1> QED BY <1>4, <1>5

\* The votes counted one by one say what the tree says.
LEMMA VotesAgree ==
  ASSUME NEW c, TreeOK(c), NEW signed \in SUBSET DOMAIN c.group
  PROVE  \E F : /\ F = [g \in Groups |-> Speaks(c, signed, F, g)]
                /\ Agrees(c, signed) = F[0]
                /\ \A g \in Groups :
                     F[g] <=> c.quorum[g] > 0 /\ GroupVotes(c, signed)[g] >= c.quorum[g]
<1> DEFINE v == GroupVotes(c, signed)
           F == [g \in Groups |-> c.quorum[g] > 0 /\ v[g] >= c.quorum[g]]
           H == CHOOSE f : f = [g \in Groups |-> Speaks(c, signed, f, g)]
<1>1. VotesOK(c, v, signed)
  BY VotesAre
<1> HIDE DEF v
<1>2. ASSUME NEW g \in Groups PROVE F[g] = Speaks(c, signed, F, g)
  <2>1. {h \in Children(c, g) : F[h]} = Won(c, v, g)
    <3>1. \A h \in Children(c, g) : h \in Groups /\ c.quorum[h] > 0
      BY DEF Children
    <3>2. \A h \in Children(c, g) : F[h] <=> v[h] >= c.quorum[h]
      BY <3>1
    <3> HIDE DEF F
    <3> QED BY <3>2 DEF Won
  <2>2. v[g] = Cardinality(Members(c, g) \intersect signed) + Cardinality(Won(c, v, g))
    BY <1>1 DEF VotesOK
  <2>3. F[g] = (c.quorum[g] > 0 /\ v[g] >= c.quorum[g])
    OBVIOUS
  <2> HIDE DEF F
  <2> QED BY <2>1, <2>2, <2>3 DEF Speaks
<1>3. F = [g \in Groups |-> Speaks(c, signed, F, g)]
  <2>1. F = [g \in Groups |-> F[g]]
    OBVIOUS
  <2> HIDE DEF F
  <2> QED BY <1>2, <2>1
<1>4. \A g \in Groups : F[g] <=> c.quorum[g] > 0 /\ v[g] >= c.quorum[g]
  OBVIOUS
<1> HIDE DEF F
<1>5. H = [g \in Groups |-> Speaks(c, signed, H, g)]
  BY <1>3
<1>6. Agrees(c, signed) = H[0]
  BY DEF Agrees, Speaks
<1> HIDE DEF H
<1>7. F = H
  BY <1>3, <1>5, TreeSaysOne
<1> QED BY <1>3, <1>4, <1>6, <1>7 DEF v

\* A signer's group has a quorum, and so have all above it.
LEMMA RootHasQuorum ==
  ASSUME NEW c, TreeOK(c)
  PROVE  c.quorum[0] > 0
<1> DEFINE Q == {g \in Groups : c.quorum[g] > 0}
<1>0. /\ Groups \subseteq Nat /\ c.quorum \in [Groups -> Nat] /\ c.parent \in [Groups -> Groups]
      /\ \A h \in Groups \ {0} : c.parent[h] < h
      /\ DOMAIN c.group # {} /\ \A s \in DOMAIN c.group : c.group[s] \in Groups
  BY GroupsAre, TreeShape
<1>1. ASSUME NEW g \in Groups, Members(c, g) # {} \/ Children(c, g) # {}
      PROVE  g \in Q
  <2> DEFINE a == Cardinality(Members(c, g))
             b == Cardinality(Children(c, g))
  <2>1. /\ a \in Nat /\ b \in Nat
        /\ IsFiniteSet(Members(c, g)) /\ IsFiniteSet(Children(c, g))
    BY TreeFinite
  <2>2. a # 0 \/ b # 0
    BY <1>1, <2>1, FS_EmptySet
  <2>3. IF c.quorum[g] = 0 THEN a + b = 0 ELSE a + b >= c.quorum[g]
    BY DEF TreeOK, ValidateGroupTree
  <2> HIDE DEF a, b
  <2>4. c.quorum[g] # 0
    BY <2>1, <2>2, <2>3
  <2> QED BY <1>0, <2>4
<1>2. PICK s : s \in DOMAIN c.group
  BY <1>0
<1>3. c.group[s] \in Groups /\ s \in Members(c, c.group[s])
  BY <1>0, <1>2 DEF Members
<1>4. c.group[s] \in Q
  BY <1>1, <1>3
<1>5. PICK g \in Q : \A k \in Q : g <= k
  <2>1. Q \in SUBSET Nat /\ Q # {}
    BY <1>0, <1>4
  <2> HIDE DEF Q
  <2> QED BY <2>1, LeastNatural
<1>6. g = 0
  <2> SUFFICES ASSUME g # 0 PROVE FALSE
    OBVIOUS
  <2>1. g \in Groups \ {0} /\ c.parent[g] \in Groups /\ c.parent[g] < g
    BY <1>0, <1>5
  <2>2. g \in Children(c, c.parent[g])
    BY <1>5, <2>1 DEF Children
  <2>3. c.parent[g] \in Q
    BY <1>1, <2>1, <2>2
  <2>4. g <= c.parent[g] /\ g \in Nat /\ c.parent[g] \in Nat
    BY <1>0, <1>5, <2>1, <2>3
  <2> QED BY <2>1, <2>4
<1> QED BY <1>5, <1>6

\* All signers together carry every group that has a quorum.
LEMMA AllAgree ==
  ASSUME NEW c, TreeOK(c)
  PROVE  Agrees(c, DOMAIN c.group)
<1> DEFINE D == DOMAIN c.group
<1>1. PICK F : /\ F = [g \in Groups |-> Speaks(c, D, F, g)] /\ Agrees(c, D) = F[0]
  BY VotesAgree
<1> DEFINE T == {n \in Nat : \A g \in Groups :
                   g + n >= NumGroups /\ c.quorum[g] > 0 => F[g]}
<1>0. /\ Groups \subseteq Nat /\ NumGroups \in Nat /\ \A g \in Groups : g < NumGroups
      /\ \A h \in Groups \ {0} : c.parent[h] < h
      /\ 0 \in Groups /\ c.quorum \in [Groups -> Nat]
  BY GroupsAre, TreeShape
<1>2. 0 \in T
  <2> SUFFICES ASSUME NEW g \in Groups, g + 0 >= NumGroups PROVE FALSE
    OBVIOUS
  <2>1. g \in Nat /\ g < NumGroups
    BY <1>0
  <2> HIDE DEF T
  <2> QED BY <1>0, <2>1
<1>3. ASSUME NEW n \in Nat, n \in T PROVE n + 1 \in T
  <2> SUFFICES ASSUME NEW g \in Groups, g + (n + 1) >= NumGroups, c.quorum[g] > 0 PROVE F[g]
    OBVIOUS
  <2>1. ASSUME NEW h \in Children(c, g) PROVE F[h]
    <3>1. h \in Groups \ {0} /\ c.parent[h] = g /\ c.quorum[h] > 0
      BY DEF Children
    <3>2. g < h /\ h \in Nat /\ g \in Nat
      BY <1>0, <3>1
    <3>3. h + n >= NumGroups
      BY <1>0, <3>2
    <3> QED BY <1>3, <3>1, <3>3
  <2> HIDE DEF T
  <2>2. {h \in Children(c, g) : F[h]} = Children(c, g)
    BY <2>1
  <2>3. Members(c, g) \intersect D = Members(c, g)
    BY DEF Members
  <2>4. Cardinality(Members(c, g)) + Cardinality(Children(c, g)) >= c.quorum[g]
    <3>1. c.quorum[g] # 0
      BY <1>0
    <3> QED BY <3>1 DEF TreeOK, ValidateGroupTree
  <2>5. Speaks(c, D, F, g)
    BY <2>2, <2>3, <2>4 DEF Speaks
  <2>6. F[g] = Speaks(c, D, F, g)
    BY <1>1
  <2> QED BY <2>5, <2>6
<1>4. Nat \subseteq T
  <2> HIDE DEF T
  <2> QED BY <1>2, <1>3, NatSetInduction
<1>5. F[0]
  <2>1. NumGroups \in T /\ 0 + NumGroups >= NumGroups
    BY <1>0, <1>4
  <2>2. c.quorum[0] > 0
    BY RootHasQuorum
  <2> QED BY <1>0, <2>1, <2>2
<1> QED BY <1>1, <1>5

\* Every configuration an instance ever has can be used: verify_signatures counts
\* the votes as the group tree says, and all signers together reach the quorum.
\* Nobody can be locked out by a set_config that validate_group_tree let pass.
THEOREM ConfigsAreUsable == Spec => []ConfigUsable
<1>1. ASSUME NEW c, TreeOK(c), NEW signed \in SUBSET DOMAIN c.group
      PROVE  VerifySignatures(c, signed) = Agrees(c, signed)
  <2>1. PICK F : /\ F = [g \in Groups |-> Speaks(c, signed, F, g)]
                 /\ Agrees(c, signed) = F[0]
                 /\ \A g \in Groups :
                      F[g] <=> c.quorum[g] > 0 /\ GroupVotes(c, signed)[g] >= c.quorum[g]
    BY <1>1, VotesAgree
  <2>2. 0 \in Groups /\ c.quorum[0] \in Nat
    BY <1>1, GroupsAre, TreeShape
  <2>3. c.quorum[0] # 0 <=> c.quorum[0] > 0
    BY <2>2
  <2>4. F[0] \in BOOLEAN
    BY <2>1, <2>2 DEF Speaks
  <2>5. VerifySignatures(c, signed) <=> F[0]
    BY <2>1, <2>2, <2>3 DEF VerifySignatures
  <2>6. VerifySignatures(c, signed) \in BOOLEAN
    BY DEF VerifySignatures
  <2> QED BY <2>1, <2>4, <2>5, <2>6
<1>2. Inv => ConfigUsable
  <2> SUFFICES ASSUME Inv, NEW n \in Instances
               PROVE  LET c == mcms[n].config IN
                        /\ Agrees(c, DOMAIN c.group)
                        /\ \A signed \in SUBSET DOMAIN c.group :
                             VerifySignatures(c, signed) = Agrees(c, signed)
    BY DEF ConfigUsable
  <2>1. TreeOK(mcms[n].config)
    BY DEF Inv, McmsGood, McmsRecord, TreeOK
  <2> QED BY <1>1, <2>1, AllAgree
<1> QED BY <1>2, AlwaysInv, PTL
=============================================================================
