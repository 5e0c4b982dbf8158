----------------------------- MODULE Governance -----------------------------
(***************************************************************************)
(* The governance of the contracts: MCMS instances that hold roles of a    *)
(* timelock, which owns them and the other contracts. The signers of an    *)
(* MCMS approve a root; anyone then executes its operations in order, as   *)
(* calls the MCMS makes; and the timelock makes the calls of the batches   *)
(* scheduled, or bypassed, by its role holders.                            *)
(*                                                                         *)
(* A transaction that fails anywhere leaves nothing behind. The calls of a *)
(* batch are made one by one, and the state a failure returns to is        *)
(* frame.saved. A contract on the call stack cannot be called again.       *)
(***************************************************************************)
EXTENDS Mcms, Timelock

CONSTANTS
  FirstConfig,             \* [Instances -> the configuration of initialize]
  FirstDelay, FirstHolders,
  Calls,                   \* calls a role holder that is no MCMS may make
  MaxTime                  \* bound: the last time of a behaviour

VARIABLES
  tl,          \* the timelock
  mcms,        \* [Instances -> Mcms]
  performed,   \* [Batches -> times execute_batch made its calls]
  frame,       \* the batch being executed, or NoFrame
  now

vars == <<tl, mcms, performed, frame, now>>

NoFrame == [kind |-> "none"]
NoVia   == "nobody"

\* The arguments of a call have the types of the function's parameters.
CallOK(k) ==
  /\ k.fn \in {"schedule_batch", "cancel", "bypasser_execute_batch"} => k.batch \in Batches
  /\ k.fn = "schedule_batch" => k.delay \in Times
  /\ k.fn = "set_config" => k.config \in Configs /\ k.clear \in BOOLEAN

ASSUME GovernanceAssumption ==
  /\ Instances \subseteq Accounts /\ Self \notin Instances /\ NoVia \notin Accounts
  /\ \A n \in Instances : FirstConfig[n] \in Configs /\ ValidateGroupTree(FirstConfig[n])
  /\ FirstDelay \in Times /\ MaxTime \in Times
  /\ \A r \in Roles \ {"ADMIN"} : FirstHolders[r] \subseteq Accounts
  /\ \A k \in Calls : CallOK(k)
  /\ \A p \in Proposals : \A op \in p.tree.ops : CallOK(op.call)
  /\ \A b \in Batches : \A i \in 1 .. Len(CallsOf[b]) : CallOK(CallsOf[b][i])

\* --------------------------------------------------------------------------
\* Calls that are done at once. `caller` is who calls the timelock.

TimelockAllows(caller, k) ==
  \/ k.fn = "schedule_batch" /\ CanSchedule(tl, caller, k.batch, k.delay)
  \/ k.fn = "cancel" /\ CanCancel(tl, caller, k.batch)
  \/ k.fn = "renounce_role" /\ k.role \in Roles
  \/ k.fn \in AdminFns /\ caller \in tl.roles["ADMIN"] /\ AdminCallOK(k)

TimelockAfter(caller, k) ==
  CASE k.fn = "schedule_batch" -> Schedule(tl, k.batch, k.delay, now)
    [] k.fn = "cancel"         -> Cancel(tl, k.batch)
    [] k.fn = "renounce_role"  -> RenounceRole(tl, k.role, caller)
    [] OTHER                   -> Administer(tl, k)

Idle == frame = NoFrame

DirectCall(caller, k) ==
  /\ Idle /\ k.target = Self /\ TimelockAllows(caller, k)
  /\ tl' = TimelockAfter(caller, k)
  /\ UNCHANGED <<mcms, performed, frame, now>>

\* --------------------------------------------------------------------------
\* MCMS

SetRootOf(n, p, meta, signed) ==
  /\ Idle /\ CanSetRoot(n, mcms[n], p, meta, signed, now)
  /\ mcms' = [mcms EXCEPT ![n] = SetRoot(mcms[n], p, meta, signed)]
  /\ UNCHANGED <<tl, performed, frame, now>>

\* execute, for an operation whose target is an entry of the timelock that makes no
\* calls, or another contract: those are not modelled, and an MCMS takes no orders
\* but from its owner.
ExecuteOp(n, op) ==
  /\ Idle /\ CanExecute(n, mcms[n], op, now)
  /\ mcms' = [mcms EXCEPT ![n] = UseNonce(mcms[n], op)]
  /\ IF op.call.target = Self
       THEN TimelockAllows(n, op.call) /\ tl' = TimelockAfter(n, op.call)
       ELSE op.call.target \notin Instances /\ UNCHANGED tl
  /\ UNCHANGED <<performed, frame, now>>

\* --------------------------------------------------------------------------
\* Batches

Saved == [tl |-> tl, mcms |-> mcms]

Frame(kind, b, via) == [kind |-> kind, batch |-> b, next |-> 1, via |-> via,
                        saved |-> Saved]

ExecuteBatch(b) ==
  /\ Idle /\ CanExecuteBatch(tl, b, now)
  /\ tl' = MarkDone(tl, b)
  /\ frame' = Frame("batch", b, NoVia)
  /\ UNCHANGED <<mcms, performed, now>>

BypasserExecuteBatch(caller, b) ==
  /\ Idle /\ CanBypass(tl, caller)
  /\ frame' = Frame("bypass", b, NoVia)
  /\ UNCHANGED <<tl, mcms, performed, now>>

ExecuteOpBypass(n, op) ==
  /\ Idle /\ CanExecute(n, mcms[n], op, now)
  /\ op.call.target = Self /\ op.call.fn = "bypasser_execute_batch"
  /\ CanBypass(tl, n)
  /\ mcms' = [mcms EXCEPT ![n] = UseNonce(mcms[n], op)]
  /\ frame' = Frame("bypass", op.call.batch, n)
  /\ UNCHANGED <<tl, performed, now>>

\* execute_call: a call of the timelock on itself is dispatched to the functions of
\* an administrator, without a look at the ADMIN role; set_config is the one call
\* on an MCMS that only its owner may make.
MakeCall ==
  /\ ~Idle /\ frame.next <= Len(CallsOf[frame.batch])
  /\ LET k == CallsOf[frame.batch][frame.next] IN
     IF k.target = Self
       THEN AdminCallOK(k) /\ tl' = Administer(tl, k) /\ UNCHANGED mcms
       ELSE IF k.target \in Instances
         THEN /\ k.target # frame.via /\ k.fn = "set_config"
              /\ CanApplyConfig(mcms[k.target], k.config)
              /\ mcms' = [mcms EXCEPT ![k.target] = ApplyConfig(@, k.config, k.clear)]
              /\ UNCHANGED tl
         ELSE UNCHANGED <<tl, mcms>>
  /\ frame' = [frame EXCEPT !.next = @ + 1]
  /\ UNCHANGED <<performed, now>>

\* A call that fails, or traps, takes the whole transaction back.
Revert ==
  /\ ~Idle /\ tl' = frame.saved.tl /\ mcms' = frame.saved.mcms
  /\ frame' = NoFrame /\ UNCHANGED <<performed, now>>

FinishBatch ==
  /\ ~Idle /\ frame.next > Len(CallsOf[frame.batch])
  /\ performed' = IF frame.kind = "batch"
                    THEN [performed EXCEPT ![frame.batch] = @ + 1] ELSE performed
  /\ frame' = NoFrame /\ UNCHANGED <<tl, mcms, now>>

PassTime ==
  /\ Idle /\ now < MaxTime /\ now' = now + 1
  /\ UNCHANGED <<tl, mcms, performed, frame>>

\* --------------------------------------------------------------------------

Init ==
  /\ tl = Initialize(FirstDelay, FirstHolders)
  /\ mcms = [n \in Instances |-> NewMcms(FirstConfig[n])]
  /\ performed = [b \in Batches |-> 0] /\ frame = NoFrame /\ now = 0

McmsStep(n) ==
  \/ \E p \in Proposals : \E meta \in p.tree.metas, signed \in SUBSET Signers :
       SetRootOf(n, p, meta, signed)
  \/ \E op \in mcms[n].tree.ops : ExecuteOp(n, op) \/ ExecuteOpBypass(n, op)

Next ==
  \/ \E n \in Instances : McmsStep(n)
  \/ \E a \in Accounts \ (Instances \union {Self}) :
       \/ \E k \in Calls : DirectCall(a, k)
       \/ \E b \in Batches : BypasserExecuteBatch(a, b)
  \/ \E b \in Batches : ExecuteBatch(b)
  \/ MakeCall \/ Revert \/ FinishBatch \/ PassTime

Spec == Init /\ [][Next]_vars

\* --------------------------------------------------------------------------
\* Properties

FrameRecord ==
  [kind : {"batch", "bypass"}, batch : Batches, next : Nat \ {0},
   via : Instances \union {NoVia},
   saved : [tl : TlRecord, mcms : [Instances -> McmsRecord]]]

\* Every variable has its type; times stay in the range of a u64.
TypeOK ==
  /\ tl \in TlRecord /\ mcms \in [Instances -> McmsRecord]
  /\ performed \in [Batches -> Nat] /\ now \in Times
  /\ frame \in FrameRecord \union {NoFrame}

Counted(m) ==
  /\ Len(m.executed) = m.count /\ m.meta.pre <= m.count /\ m.count <= m.meta.post
  /\ \A i \in 1 .. Len(m.executed) : m.executed[i].nonce = i - 1

\* Across roots, overridden roots, cleared roots and reverted calls, an MCMS uses
\* every nonce once and in order.
NoncesUsedOnce == \A n \in Instances : Counted(mcms[n])

\* A root that was replaced or cleared never comes back.
NoRootTwice ==
  \A n \in Instances : \A i, j \in 1 .. Len(mcms[n].accepted) :
    mcms[n].accepted[i] = mcms[n].accepted[j] => i = j

\* An operation is executed only on the word of the signers in force when it is, not
\* of those that were when its root was set.
BackedByQuorum ==
  [][\A n \in Instances : Len(mcms'[n].executed) > Len(mcms[n].executed) =>
       VerifySignatures(mcms[n].config, mcms[n].backers)]_vars

\* A configuration that was accepted can be used: the votes are counted as the group
\* tree says, and the signers together reach the quorum. A configuration they cannot
\* reach would leave the instance without anyone to speak for it.
ConfigUsable ==
  \A n \in Instances : LET c == mcms[n].config IN
    /\ Agrees(c, DOMAIN c.group)
    /\ \A signed \in SUBSET DOMAIN c.group :
         VerifySignatures(c, signed) = Agrees(c, signed)

\* The state of the last finished transaction, as DelayedExecution sees it.
CommittedTl == IF Idle THEN tl ELSE frame.saved.tl

StatusOf(t) == [b \in Batches |->
  IF t.ready[b] = 0 THEN "unset"
    ELSE IF t.ready[b] = DONE_TIMESTAMP THEN "done" ELSE "pending"]

EarliestOf(t) == [b \in Batches |->
  IF t.ready[b] > DONE_TIMESTAMP THEN t.ready[b] ELSE 0]

Delayed == INSTANCE DelayedExecution WITH
  Horizon <- TimeMax, status <- StatusOf(CommittedTl),
  earliest <- EarliestOf(CommittedTl), notice <- CommittedTl.delay

\* The timelock keeps its promise whoever holds its roles and whatever its batches
\* do to its own delay and roles: each batch at most once, with its notice, after
\* its predecessor, not after a cancel, and nothing of it when one call fails.
ImplementsDelay == Delayed!Spec
=============================================================================
