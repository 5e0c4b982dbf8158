------------------------------ MODULE OffRamp ------------------------------
(***************************************************************************)
(* The OffRamp contract (contracts/offramp): execution of inbound CCIP     *)
(* messages, with the parts of the Router, the token pool, the receiver,   *)
(* the verifiers and the RMN it calls.                                     *)
(*                                                                         *)
(* execute is a transaction of several cross-contract calls. Transactions  *)
(* do not interleave, but every callee may fail, and Soroban rolls back    *)
(* the frame that returns an error or traps: call.saved is the state it    *)
(* rolls back to. A callee that calls execute again is refused by the      *)
(* guard, which leaves no trace. What the callees answer is state, and     *)
(* changes between transactions.                                           *)
(***************************************************************************)
EXTENDS Naturals, Sequences, FiniteSets

CONSTANTS
  Messages,                   \* records of Message
  Chains, OnRamps, Ccvs,
  LaneConfigs,                \* arguments the owner may try
  PoolAnswers, ReceiverAnswers

\* What execute looks at in a message. `payload`: data or receive gas; `elsewhere`:
\* the transfer names a token receiver of its own, a contract. Decoding a message
\* does not look at the receiver: it is the 32 bytes of a contract id, or of zero;
\* it is padded, the 32 bytes after some zeros; or it is malformed.
Receivers == {"contract", "zero", "padded", "malformed"}
Message ==
  [source : Chains, onramp : OnRamps, tokens : BOOLEAN, payload : BOOLEAN,
   receiver : Receivers, elsewhere : BOOLEAN]

LaneConfig ==
  [enabled : BOOLEAN, onramps : SUBSET OnRamps, defaults : SUBSET Ccvs,
   mandated : SUBSET Ccvs]

CcvConfig == [req : Seq(Ccvs), opt : Seq(Ccvs), thr : Nat]

ASSUME OffRampAssumption ==
  /\ Messages \subseteq Message /\ LaneConfigs \subseteq LaneConfig
  /\ PoolAnswers \subseteq
       [registered : BOOLEAN, ccvs : SUBSET Ccvs, includeDefaults : BOOLEAN]
  /\ \A r \in ReceiverAnswers :
       /\ r.kind \in {"wasm", "none", "other"} /\ r.answers \in BOOLEAN
       /\ r.finalityOk \in BOOLEAN /\ r.config \in CcvConfig
  /\ IsFiniteSet(Ccvs)

VARIABLES
  st,       \* the contract's storage, the token balances and the deliveries
  call,     \* the execute in progress, or NoExec
  lane,     \* [Chains -> LaneConfig]
  cursed,   \* the subjects the RMN has cursed: chains, or Global
  router,   \* chains for which the Router knows this OffRamp
  pool,     \* what the registry and the pool say of the token
  recv      \* the receiver: what it is, and its CCV and finality policy

vars == <<st, call, lane, cursed, router, pool, recv>>
envVars == <<lane, cursed, router, pool, recv>>

States == {"Untouched", "InProgress", "Success", "Failure"}
NoExec == [pc |-> "none"]
NoLane == [enabled |-> FALSE, onramps |-> {}, defaults |-> {}, mandated |-> {}]

Global == "global"
Subjects == Chains \union {Global}
IsCursed(s) == s \in cursed \/ Global \in cursed

Elems(s) == {s[i] : i \in DOMAIN s}

\* --------------------------------------------------------------------------
\* Which CCVs must attest a message

\* get_inbound_pool_required_ccvs: an empty list asks for the lane's defaults.
PoolRequiredNoFallback(l) == \* mutant: an empty list asks for nothing
  pool.ccvs \union (IF pool.includeDefaults THEN l.defaults ELSE {})

PoolRequired(l) ==
  pool.ccvs \union
    (IF pool.includeDefaults \/ pool.ccvs = {} THEN l.defaults ELSE {})

AnyDuplicates(list) == TRUE  \* mutant: duplicates are not looked for

NoDuplicates(list) == \A i, j \in DOMAIN list : list[i] = list[j] => i = j

\* merge_receiver_ccvs. The order of the required CCVs does not matter.
MergeOK(config) ==
  /\ NoDuplicates(config.req) /\ NoDuplicates(config.opt)
  /\ config.thr <= Len(config.opt)

MergeRequired(config, poolRequired, l) ==
  Elems(config.req) \union poolRequired \union l.mandated
    \union (IF config.req = <<>> /\ config.thr = 0 THEN l.defaults ELSE {})

\* The optional CCVs that are not required anyway, by their place in the list.
MergeOptional(config, required) ==
  {i \in DOMAIN config.opt : config.opt[i] \notin required}

\* The threshold falls by one, not below zero, for each one that is.
MergeThreshold(config, kept) ==
  LET removed == Len(config.opt) - Cardinality(kept) IN
  IF config.thr <= removed THEN 0 ELSE config.thr - removed

\* ccip_receiver_contract_address takes 32 bytes, and nothing else; nothing is
\* deployed at the zero address.
WellFormed(m) == m.receiver \in {"contract", "zero"}
ReceiverKind(m) ==
  CASE m.receiver = "contract" -> recv.kind
    [] m.receiver = "zero" -> "none"
    [] ~WellFormed(m) -> "invalid"

\* address_from_token_bytes, of the transfer's own token receiver or else of the
\* message's, takes a padded one too.
TokenReceiverKind(m) ==
  IF m.elsewhere THEN "wasm"
    ELSE IF m.receiver \in {"contract", "padded"} THEN recv.kind ELSE "none"

TokenOnlyCcvs(m, l) ==
  [ok  |-> m.tokens => pool.registered,
   req |-> (IF m.tokens THEN PoolRequired(l) ELSE l.defaults) \union l.mandated,
   opt |-> <<>>, kept |-> {}, thr |-> 0]

\* get_ccvs_for_message_internal
ReceiverCcvs(m, l) ==
  LET required == MergeRequired(recv.config,
                    IF m.tokens THEN PoolRequired(l) ELSE {}, l)
      kept == MergeOptional(recv.config, required)
  IN [ok  |-> /\ ReceiverKind(m) = "wasm" /\ recv.answers /\ MergeOK(recv.config)
              /\ m.tokens => pool.registered,
      req |-> required, opt |-> recv.config.opt, kept |-> kept,
      thr |-> MergeThreshold(recv.config, kept)]

TokenOnly(m) == ~m.payload \/ m.receiver = "zero"

\* verify_ccv_quorum, up to the quorum check
EnforcedCcvs(m, l) ==
  IF TokenOnly(m) THEN TokenOnlyCcvs(m, l) ELSE ReceiverCcvs(m, l)

\* get_ccvs_for_message, the view the executors gather attestations by
ViewWithoutReceiver(m) ==    \* mutant: the receiver is not consulted
  TokenOnlyCcvs(m, lane[m.source])

GetCcvsForMessage(m) ==
  LET p == IF ~m.payload \/ ReceiverKind(m) # "wasm"
             THEN TokenOnlyCcvs(m, lane[m.source])
             ELSE ReceiverCcvs(m, lane[m.source])
  IN  [p EXCEPT !.ok = @ /\ WellFormed(m)]      \* InvalidReceiverLength

OptionalPresent(p, supplied) == {i \in p.kept : p.opt[i] \in supplied}

EnsureQuorumPresent(p, supplied) ==
  p.req \subseteq supplied /\ Cardinality(OptionalPresent(p, supplied)) >= p.thr

\* build_verify_indices: the required CCVs, and the first optional ones that are
\* supplied, up to the threshold. Extras are dropped.
BuildVerifyIndices(p, supplied) ==
  LET present == OptionalPresent(p, supplied)
      counted == {k \in present : Cardinality({j \in present : j <= k}) <= p.thr}
  IN  p.req \union {p.opt[k] : k \in counted}

\* --------------------------------------------------------------------------
\* execute

IsRouted(m) == ~TokenOnly(m)
AfterRelease(m) == IF IsRouted(m) THEN "route" ELSE "finish"
AfterVerify(m) == IF m.tokens THEN "release" ELSE AfterRelease(m)

\* The checks up to the replay protection. `valid` are the supplied CCVs whose
\* verifier result is a genuine attestation of the message.
Execute(m, supplied, valid) ==
  /\ call = NoExec /\ ~st.guard
  /\ ~IsCursed(m.source)
  /\ lane[m.source].enabled /\ m.onramp \in lane[m.source].onramps
  /\ st.exec[m] \in {"Untouched", "Failure"}
  /\ st' = [st EXCEPT !.guard = TRUE, !.exec[m] = "InProgress"]
  /\ call' = [pc |-> "ccvs", m |-> m, prior |-> st.exec[m], saved |-> st,
              lane |-> lane[m.source], supplied |-> supplied, valid |-> valid,
              proof |-> {}]
  /\ UNCHANGED envVars

\* An error out of execute: the frame is rolled back.
Rollback == st' = call.saved /\ call' = NoExec

\* A caught error: the first one is recorded, a repeated one makes no progress.
FailAndKeepGuard ==          \* mutant: the guard is left set
  IF call.prior = "Failure" THEN Rollback
    ELSE /\ st' = [st EXCEPT !.exec[call.m] = "Failure", !.reports[call.m] = @ + 1]
         /\ call' = NoExec

FailMessage ==
  IF call.prior = "Failure" THEN Rollback
    ELSE /\ st' = [st EXCEPT !.exec[call.m] = "Failure", !.guard = FALSE,
                             !.reports[call.m] = @ + 1]
         /\ call' = NoExec

\* The receiver's finality policy, then the quorum, then each verifier.
VerifyCcvQuorum ==
  LET m == call.m
      p == EnforcedCcvs(m, call.lane)
      verified == BuildVerifyIndices(p, call.supplied)
  IN  /\ call.pc = "ccvs" /\ p.ok
      /\ TokenOnly(m) \/ recv.finalityOk
      /\ EnsureQuorumPresent(p, call.supplied) /\ verified \subseteq call.valid
      /\ call' = [call EXCEPT !.pc = AfterVerify(m), !.proof = verified]
      /\ UNCHANGED <<st, envVars>>

\* Any of those calls may fail: a trap, a typed error, a missing attestation.
VerifyFail == call.pc = "ccvs" /\ FailMessage /\ UNCHANGED envVars

ReleaseOrMint ==
  /\ call.pc = "release" /\ pool.registered
  /\ TokenReceiverKind(call.m) = "wasm"
  /\ st' = [st EXCEPT !.released[call.m] = @ + 1]
  /\ call' = [call EXCEPT !.pc = AfterRelease(call.m)]
  /\ UNCHANGED envVars

\* The registry lookup fails, or the token receiver cannot hold tokens.
ReleaseFail == call.pc = "release" /\ FailMessage /\ UNCHANGED envVars

\* The pool call is not caught.
ReleaseTrap == call.pc = "release" /\ Rollback /\ UNCHANGED envVars

\* route_verified_message, then Router.route_message, which calls ccip_receive
Deliverable(m) == ReceiverKind(m) = "wasm"
RouterAccepts(m) == ~IsCursed(m.source) /\ m.source \in router

RouteMessage ==
  /\ call.pc = "route" /\ Deliverable(call.m) /\ RouterAccepts(call.m)
  /\ st' = [st EXCEPT !.delivered[call.m] = @ + 1]
  /\ call' = [call EXCEPT !.pc = "finish"]
  /\ UNCHANGED envVars

\* Tokens already released are taken back by a trap.
RouteFailRecorded ==         \* mutant: a Failure with the tokens released
  call.pc = "route" /\ FailMessage /\ UNCHANGED envVars

RouteFail ==
  /\ call.pc = "route"
  /\ IF call.m.tokens THEN Rollback ELSE FailMessage
  /\ UNCHANGED envVars

Finish ==
  /\ call.pc = "finish"
  /\ st' = [st EXCEPT !.exec[call.m] = "Success", !.guard = FALSE]
  /\ call' = NoExec
  /\ UNCHANGED envVars

\* --------------------------------------------------------------------------
\* Between transactions

\* SourceChainConfigArgs.validate
Validate(c) ==
  c.onramps # {} /\ c.defaults # {} /\ c.defaults \intersect c.mandated = {}

ApplySourceChainCfgUpdates(s, c) ==
  /\ call = NoExec /\ Validate(c)
  /\ lane' = [lane EXCEPT ![s] = c]
  /\ UNCHANGED <<st, call, cursed, router, pool, recv>>

\* RmnRemote.curse and uncurse
Curse(s) ==
  /\ call = NoExec /\ cursed' = cursed \union {s}
  /\ UNCHANGED <<st, call, lane, router, pool, recv>>
Uncurse(s) ==
  /\ call = NoExec /\ s \in cursed /\ cursed' = cursed \ {s}
  /\ UNCHANGED <<st, call, lane, router, pool, recv>>

\* Router.add_offramp, remove_offramp, apply_ramp_updates
AddOffRamp(s) ==
  /\ call = NoExec /\ s \notin router /\ router' = router \union {s}
  /\ UNCHANGED <<st, call, lane, cursed, pool, recv>>
RemoveOffRamp(s) ==
  /\ call = NoExec /\ s \in router /\ router' = router \ {s}
  /\ UNCHANGED <<st, call, lane, cursed, pool, recv>>

\* The token's administrator registers another pool, or none, or the pool's required
\* CCVs change; the receiver's owner changes its answers.
ChangePool(a) ==
  /\ call = NoExec /\ pool' = a
  /\ UNCHANGED <<st, call, lane, cursed, router, recv>>
ChangeReceiver(a) ==
  /\ call = NoExec /\ recv' = a
  /\ UNCHANGED <<st, call, lane, cursed, router, pool>>

Init ==
  /\ st = [exec |-> [m \in Messages |-> "Untouched"], guard |-> FALSE,
           released |-> [m \in Messages |-> 0], delivered |-> [m \in Messages |-> 0],
           reports |-> [m \in Messages |-> 0]]
  /\ call = NoExec
  /\ lane = [s \in Chains |-> NoLane]
  /\ cursed = {} /\ router = {}
  /\ pool \in PoolAnswers /\ recv \in ReceiverAnswers

Environment ==
  \/ \E s \in Subjects : Curse(s) \/ Uncurse(s)
  \/ \E s \in Chains : AddOffRamp(s) \/ RemoveOffRamp(s)
  \/ \E s \in Chains, c \in LaneConfigs : ApplySourceChainCfgUpdates(s, c)
  \/ \E a \in PoolAnswers : ChangePool(a)
  \/ \E a \in ReceiverAnswers : ChangeReceiver(a)

Next ==
  \/ \E m \in Messages, supplied \in SUBSET Ccvs :
       \E valid \in SUBSET supplied : Execute(m, supplied, valid)
  \/ VerifyCcvQuorum \/ VerifyFail \/ ReleaseOrMint \/ ReleaseFail \/ ReleaseTrap
  \/ RouteMessage \/ RouteFail \/ Finish
  \/ Environment

Spec == Init /\ [][Next]_vars

\* --------------------------------------------------------------------------
\* Properties

StRecord ==
  [exec : [Messages -> States], guard : BOOLEAN, released : [Messages -> Nat],
   delivered : [Messages -> Nat], reports : [Messages -> Nat]]

CallRecord ==
  [pc : {"ccvs", "release", "route", "finish"}, m : Messages,
   prior : {"Untouched", "Failure"}, saved : StRecord, lane : LaneConfig,
   supplied : SUBSET Ccvs, valid : SUBSET Ccvs, proof : SUBSET Ccvs]

\* Type correctness of every variable.
TypeOK ==
  /\ st \in StRecord /\ call \in CallRecord \union {NoExec}
  /\ lane \in [Chains -> LaneConfig]
  /\ cursed \subseteq Subjects /\ router \subseteq Chains
  /\ pool \in PoolAnswers /\ recv \in ReceiverAnswers

Settled(s) == ~s.guard /\ \A m \in Messages : s.exec[m] # "InProgress"

\* Whatever fails in execute, a finished transaction leaves the guard free and no
\* message InProgress: every message can be executed again or has succeeded.
NothingStuck == call = NoExec => Settled(st)

\* What a step does for a message: tokens, a delivery or a final success.
Effect(m) ==
  \/ st'.released[m] > st.released[m] \/ st'.delivered[m] > st.delivered[m]
  \/ st'.exec[m] = "Success" /\ st.exec[m] # "Success"

\* No effect without verification: tokens are released, and a message delivered or
\* closed, only when at least one CCV attested it, and by genuine attestations.
NeverUnverified ==
  [][\A m \in Messages : Effect(m) =>
       call.m = m /\ call.proof # {} /\ call.proof \subseteq call.valid]_vars

\* The policies hold as their owners wrote them, whatever the merge did: for every
\* effect the lane's mandated CCVs attested the message, the pool's own, and for a
\* delivery the receiver's required ones and as many different optional ones as
\* its threshold says.
PoliciesHeld ==
  [][\A m \in Messages : Effect(m) =>
       /\ lane[m.source].mandated \subseteq call.proof
       /\ m.tokens => pool.ccvs \subseteq call.proof
       /\ IsRouted(m) =>
            /\ Elems(recv.config.req) \subseteq call.proof
            /\ Cardinality(Elems(recv.config.opt) \intersect call.proof)
                 >= recv.config.thr]_vars

\* Where the view may drift from the enforcement, and where not, for every message
\* there can be, whenever executors can ask, which is between transactions.
\* When execute resolves the CCVs of a message, get_ccvs_for_message
\* tells the executors to gather the same ones if the receiver is 32 bytes long. If
\* not, it refuses, and the message has no payload: execute never reads such a
\* receiver. What the view does answer is what execute requires, but for a payload
\* to a receiver that is no Wasm contract, which execute fails.
ViewMatchesExecute ==
  call = NoExec => \A m \in Message :
    LET p == EnforcedCcvs(m, lane[m.source])
        v == GetCcvsForMessage(m)
    IN  /\ p.ok => IF WellFormed(m) THEN v = p ELSE ~m.payload /\ ~v.ok
        /\ v.ok => v = p \/ (~p.ok /\ m.payload /\ ReceiverKind(m) # "wasm")

\* The committed state: that of the last finished transaction.
Committed == IF call = NoExec THEN st ELSE call.saved

Execution == INSTANCE MsgExecution WITH
  Carrying  <- {m \in Messages : m.tokens},
  Routed    <- {m \in Messages : IsRouted(m)},
  state     <- Committed.exec,
  released  <- Committed.released,
  delivered <- Committed.delivered,
  reports   <- Committed.reports

\* execute implements at-most-once execution: tokens and delivery exactly with
\* the success, one report of a failure, no way back from a success.
ImplementsExecution == Execution!Spec
=============================================================================
