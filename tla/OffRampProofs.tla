---------------------------- MODULE OffRampProofs ----------------------------
(***************************************************************************)
(* Proofs about OffRamp, for every set of messages, lanes, verifiers and   *)
(* answers: the storage is settled between transactions, nothing happens   *)
(* without a genuine attestation, every party's CCV policy is enforced,    *)
(* the view agrees with it, and execute implements MsgExecution.           *)
(***************************************************************************)
EXTENDS OffRamp, Induction, SequenceTheorems

\* --------------------------------------------------------------------------
\* The inductive invariant

\* The frame in progress: what it would roll back to, and what it has done since.
FrameOK ==
  call # NoExec =>
    LET c == call IN
    /\ Settled(c.saved) /\ c.saved.exec[c.m] = c.prior
    /\ st.exec = [c.saved.exec EXCEPT ![c.m] = "InProgress"]
    /\ st.reports = c.saved.reports
    /\ st.released = IF c.m.tokens /\ c.pc \in {"route", "finish"}
                     THEN [c.saved.released EXCEPT ![c.m] = @ + 1]
                     ELSE c.saved.released
    /\ st.delivered = IF IsRouted(c.m) /\ c.pc = "finish"
                      THEN [c.saved.delivered EXCEPT ![c.m] = @ + 1]
                      ELSE c.saved.delivered
    /\ c.pc = "release" => c.m.tokens
    /\ c.pc = "route" => IsRouted(c.m)

\* An enabled lane has default CCVs, and a verified frame has an attestation.
LanesOK == \A s \in Chains : lane[s].enabled => lane[s].defaults # {}

ProofOK ==
  call # NoExec =>
    /\ call.lane.defaults # {}
    /\ call.pc # "ccvs" => call.proof # {} /\ call.proof \subseteq call.valid

Inv == TypeOK /\ NothingStuck /\ FrameOK /\ LanesOK /\ ProofOK

\* --------------------------------------------------------------------------
\* The operators that resolve and verify the CCVs

\* Only supplied CCVs are verified.
LEMMA VerifiedSupplied ==
  ASSUME NEW p, NEW supplied, EnsureQuorumPresent(p, supplied)
  PROVE  BuildVerifyIndices(p, supplied) \subseteq supplied
BY DEF EnsureQuorumPresent, BuildVerifyIndices, OptionalPresent

\* With a positive threshold that the supplied optional CCVs reach, the first of
\* them is verified.
LEMMA OptionalVerified ==
  ASSUME NEW p, NEW supplied, p.kept \in SUBSET Nat, p.thr \in Nat, p.thr > 0,
         IsFiniteSet(p.kept), EnsureQuorumPresent(p, supplied)
  PROVE  BuildVerifyIndices(p, supplied) # {}
<1> DEFINE present == OptionalPresent(p, supplied)
<1>1. present \subseteq p.kept /\ IsFiniteSet(present)
  BY FS_Subset DEF OptionalPresent
<1>2. Cardinality(present) >= p.thr
  BY DEF EnsureQuorumPresent
<1>3. present # {}
  BY <1>2, FS_EmptySet
<1>4. PICK k \in present : \A j \in present : k <= j
  BY <1>1, <1>3, LeastNatural
<1>5. {j \in present : j <= k} = {k}
  <2>1. \A j \in present : j <= k => j = k
    BY <1>1, <1>4
  <2> QED BY <1>1, <1>4, <2>1
<1>6. Cardinality({j \in present : j <= k}) <= p.thr
  BY <1>5, FS_Singleton
<1> QED BY <1>4, <1>6 DEF BuildVerifyIndices

\* Whatever the receiver and the pool answer, a lane with default CCVs asks for at
\* least one attestation.
LEMMA SomeVerified ==
  ASSUME NEW m \in Messages, NEW l \in LaneConfig, NEW supplied,
         pool \in PoolAnswers, recv \in ReceiverAnswers, l.defaults # {},
         EnsureQuorumPresent(EnforcedCcvs(m, l), supplied)
  PROVE  BuildVerifyIndices(EnforcedCcvs(m, l), supplied) # {}
<1> DEFINE p == EnforcedCcvs(m, l)
<1>1. CASE p.req # {}
  BY <1>1 DEF BuildVerifyIndices
<1>2. CASE p.req = {}
  <2>1. ~TokenOnly(m)
    <3>1. TokenOnly(m) => p.req # {}
      BY DEF EnforcedCcvs, TokenOnlyCcvs, PoolRequired
    <3> QED BY <3>1, <1>2
  <2> DEFINE required == MergeRequired(recv.config,
                           IF m.tokens THEN PoolRequired(l) ELSE {}, l)
             kept == MergeOptional(recv.config, required)
  <2>2. p.req = required /\ p.kept = kept /\ p.thr = MergeThreshold(recv.config, kept)
    BY <2>1 DEF EnforcedCcvs, ReceiverCcvs
  <2>3. recv.config \in CcvConfig
    BY OffRampAssumption
  <2>4. recv.config.thr > 0
    <3>1. Elems(recv.config.req) = {} /\ ~(recv.config.req = <<>> /\ recv.config.thr = 0)
      BY <1>2, <2>2 DEF MergeRequired
    <3>2. recv.config.req \in Seq(Ccvs) /\ recv.config.thr \in Nat
      BY <2>3 DEF CcvConfig
    <3>3. DOMAIN recv.config.req = {}
      BY <3>1 DEF Elems
    <3>4. Len(recv.config.req) = 0
      <4>1. Len(recv.config.req) \in Nat
            /\ DOMAIN recv.config.req = 1 .. Len(recv.config.req)
        BY <3>2, LenProperties
      <4>2. 1 \notin 1 .. Len(recv.config.req)
        BY <3>3, <4>1
      <4> QED BY <4>1, <4>2
    <3>5. recv.config.req = <<>>
      BY <3>2, <3>4, EmptySeq
    <3> QED BY <3>1, <3>2, <3>5
  <2>5. kept = 1 .. Len(recv.config.opt)
    BY <1>2, <2>2, <2>3 DEF MergeOptional, CcvConfig
  <2>6. IsFiniteSet(kept) /\ Cardinality(kept) = Len(recv.config.opt)
    BY <2>3, <2>5, FS_Interval DEF CcvConfig
  <2>7. p.thr = recv.config.thr
    BY <2>2, <2>3, <2>4, <2>6 DEF MergeThreshold, CcvConfig
  <2>8. kept \in SUBSET Nat
    BY <2>5
  <2>9. p.thr \in Nat
    BY <2>3, <2>7 DEF CcvConfig
  <2> HIDE DEF p, kept, required
  <2> QED BY <2>2, <2>4, <2>6, <2>7, <2>8, <2>9, OptionalVerified DEF p
<1> QED BY <1>1, <1>2

\* --------------------------------------------------------------------------
\* Every step keeps the invariant

\* A program counter other than "none" belongs to a frame.
LEMMA InFrame ==
  ASSUME TypeOK, call.pc # "none"
  PROVE  call # NoExec /\ call \in CallRecord
BY DEF TypeOK, NoExec

LEMMA NotInFrame ==
  ASSUME NEW c \in CallRecord
  PROVE  c # NoExec
BY DEF CallRecord, NoExec

\* The storage before the frame is well-typed and settled again after a rollback.
LEMMA RollbackKeeps ==
  ASSUME Inv, call.pc # "none", Rollback, UNCHANGED envVars
  PROVE  Inv'
<1>1. call # NoExec /\ call \in CallRecord
  BY InFrame DEF Inv
<1>2. call' = NoExec /\ st' = call.saved /\ st' \in StRecord
  BY <1>1 DEF Rollback, CallRecord
<1>3. TypeOK'
  BY <1>2 DEF Inv, TypeOK, envVars
<1>4. NothingStuck'
  BY <1>1, <1>2 DEF Inv, NothingStuck, FrameOK, Settled
<1>5. LanesOK'
  BY DEF Inv, LanesOK, envVars
<1> QED BY <1>2, <1>3, <1>4, <1>5 DEF Inv, FrameOK, ProofOK

\* What the steps of a frame do to the storage, field by field.
LEMMA FailStep ==
  ASSUME Inv, call.pc # "none", FailMessage, call.prior # "Failure"
  PROVE  /\ st'.exec = [st.exec EXCEPT ![call.m] = "Failure"]
         /\ st'.reports = [st.reports EXCEPT ![call.m] = @ + 1]
         /\ st'.released = st.released /\ st'.delivered = st.delivered
         /\ ~st'.guard /\ st' \in StRecord
<1> DEFINE ex == [st.exec EXCEPT ![call.m] = "Failure"]
           rp == [st.reports EXCEPT ![call.m] = @ + 1]
<1>1. call.m \in Messages /\ st \in StRecord
  BY InFrame DEF Inv, TypeOK, CallRecord
<1>2. ex \in [Messages -> States] /\ rp \in [Messages -> Nat]
  BY <1>1 DEF StRecord, States
<1>3. st' = [st EXCEPT !.exec = ex, !.guard = FALSE, !.reports = rp]
  BY <1>1 DEF FailMessage, StRecord
<1> HIDE DEF ex, rp
<1>4. /\ st'.exec = ex /\ st'.reports = rp /\ ~st'.guard /\ st' \in StRecord
      /\ st'.released = st.released /\ st'.delivered = st.delivered
  BY <1>1, <1>2, <1>3 DEF StRecord
<1> QED BY <1>4 DEF ex, rp

LEMMA ReleaseStep ==
  ASSUME Inv, ReleaseOrMint
  PROVE  /\ st'.released = [st.released EXCEPT ![call.m] = @ + 1]
         /\ st'.exec = st.exec /\ st'.reports = st.reports
         /\ st'.delivered = st.delivered /\ st' \in StRecord
<1>1. call.m \in Messages /\ st \in StRecord
  BY InFrame DEF ReleaseOrMint, Inv, TypeOK, CallRecord
<1>2. st' = [st EXCEPT !.released[call.m] = @ + 1]
  BY DEF ReleaseOrMint
<1> QED BY <1>1, <1>2 DEF StRecord

LEMMA RouteStep ==
  ASSUME Inv, RouteMessage
  PROVE  /\ st'.delivered = [st.delivered EXCEPT ![call.m] = @ + 1]
         /\ st'.exec = st.exec /\ st'.reports = st.reports
         /\ st'.released = st.released /\ st' \in StRecord
<1>1. call.m \in Messages /\ st \in StRecord
  BY InFrame DEF RouteMessage, Inv, TypeOK, CallRecord
<1>2. st' = [st EXCEPT !.delivered[call.m] = @ + 1]
  BY DEF RouteMessage
<1> QED BY <1>1, <1>2 DEF StRecord

LEMMA FinishStep ==
  ASSUME Inv, Finish
  PROVE  /\ st'.exec = [st.exec EXCEPT ![call.m] = "Success"]
         /\ st'.released = st.released /\ st'.delivered = st.delivered
         /\ st'.reports = st.reports /\ ~st'.guard /\ st' \in StRecord
<1>1. call.m \in Messages /\ st \in StRecord
  BY InFrame DEF Finish, Inv, TypeOK, CallRecord
<1>2. st' = [st EXCEPT !.exec[call.m] = "Success", !.guard = FALSE]
  BY DEF Finish
<1> QED BY <1>1, <1>2 DEF StRecord, States

\* A recorded failure settles the storage.
LEMMA FailKeeps ==
  ASSUME Inv, call.pc # "none", FailMessage, UNCHANGED envVars
  PROVE  Inv'
<1>1. call # NoExec /\ call \in CallRecord
  BY InFrame DEF Inv
<1>2. CASE call.prior = "Failure"
  BY <1>2, RollbackKeeps DEF FailMessage
<1>3. CASE call.prior # "Failure"
  <2>1. call' = NoExec
    BY <1>3 DEF FailMessage
  <2>2. call.m \in Messages /\ st \in StRecord
    BY <1>1 DEF Inv, TypeOK, CallRecord
  <2>3. /\ st'.exec = [st.exec EXCEPT ![call.m] = "Failure"] /\ ~st'.guard
        /\ st' \in StRecord
    BY <1>3, FailStep
  <2>4. TypeOK'
    BY <2>1, <2>3 DEF Inv, TypeOK, envVars
  <2>5. \A n \in Messages : n # call.m => st.exec[n] # "InProgress"
    BY <1>1, <2>2 DEF Inv, FrameOK, Settled, CallRecord, StRecord
  <2>6. NothingStuck'
    BY <2>2, <2>3, <2>5 DEF NothingStuck, Settled, StRecord
  <2>7. LanesOK'
    BY DEF Inv, LanesOK, envVars
  <2> QED BY <2>1, <2>4, <2>6, <2>7 DEF Inv, FrameOK, ProofOK
<1> QED BY <1>2, <1>3

LEMMA ExecuteKeeps ==
  ASSUME Inv, NEW m \in Messages, NEW supplied \in SUBSET Ccvs,
         NEW valid \in SUBSET supplied, Execute(m, supplied, valid)
  PROVE  Inv'
<1>1. /\ call = NoExec /\ st \in StRecord /\ Settled(st)
      /\ lane[m.source].enabled /\ st.exec[m] \in {"Untouched", "Failure"}
  BY DEF Inv, Execute, TypeOK, NothingStuck
<1>2. m.source \in Chains /\ lane[m.source] \in LaneConfig
  BY OffRampAssumption DEF Inv, TypeOK, Message
<1>3. /\ st' = [st EXCEPT !.guard = TRUE, !.exec[m] = "InProgress"]
      /\ call' = [pc |-> "ccvs", m |-> m, prior |-> st.exec[m], saved |-> st,
                  lane |-> lane[m.source], supplied |-> supplied, valid |-> valid,
                  proof |-> {}]
      /\ UNCHANGED envVars
  BY DEF Execute
<1>4. st' \in StRecord /\ call' \in CallRecord
  BY <1>1, <1>2, <1>3 DEF StRecord, CallRecord, States
<1>5. TypeOK'
  BY <1>3, <1>4 DEF Inv, TypeOK, envVars
<1>6. call' # NoExec
  BY <1>4, NotInFrame
<1>7. FrameOK'
  BY <1>1, <1>3 DEF FrameOK, StRecord
<1>8. LanesOK' /\ ProofOK'
  BY <1>1, <1>2, <1>3 DEF Inv, LanesOK, ProofOK, envVars
<1> QED BY <1>5, <1>6, <1>7, <1>8 DEF Inv, NothingStuck

LEMMA VerifyKeeps ==
  ASSUME Inv, VerifyCcvQuorum
  PROVE  Inv'
<1> DEFINE p == EnforcedCcvs(call.m, call.lane)
           verified == BuildVerifyIndices(p, call.supplied)
<1>1. /\ call.pc = "ccvs" /\ EnsureQuorumPresent(p, call.supplied)
      /\ verified \subseteq call.valid
      /\ call' = [call EXCEPT !.pc = AfterVerify(call.m), !.proof = verified]
      /\ UNCHANGED <<st, envVars>>
  BY DEF VerifyCcvQuorum
<1>2. call # NoExec /\ call \in CallRecord
  BY <1>1, InFrame DEF Inv
<1>3. /\ call.m \in Messages /\ call.lane \in LaneConfig /\ call.lane.defaults # {}
      /\ pool \in PoolAnswers /\ recv \in ReceiverAnswers
  BY <1>2 DEF Inv, TypeOK, ProofOK, CallRecord
<1>4. verified # {}
  BY <1>1, <1>3, SomeVerified
<1>5. verified \subseteq Ccvs
  BY <1>1, <1>2 DEF CallRecord
<1> HIDE DEF p, verified
<1>6. AfterVerify(call.m) \in {"release", "route", "finish"}
  BY DEF AfterVerify, AfterRelease
<1>7. call' \in CallRecord
  BY <1>1, <1>2, <1>5, <1>6 DEF CallRecord
<1>8. call' # NoExec
  BY <1>7, NotInFrame
<1>9. TypeOK'
  BY <1>1, <1>7 DEF Inv, TypeOK, envVars
<1>10. /\ call'.pc = AfterVerify(call.m) /\ call'.proof = verified
       /\ call'.m = call.m /\ call'.saved = call.saved /\ call'.prior = call.prior
       /\ call'.lane = call.lane /\ call'.valid = call.valid
  BY <1>1, <1>2 DEF CallRecord
<1>11. FrameOK'
  BY <1>1, <1>2, <1>10 DEF Inv, FrameOK, AfterVerify, AfterRelease, IsRouted, TokenOnly
<1>12. LanesOK' /\ ProofOK'
  BY <1>1, <1>2, <1>4, <1>10 DEF Inv, LanesOK, ProofOK, envVars
<1> QED BY <1>8, <1>9, <1>11, <1>12 DEF Inv, NothingStuck

LEMMA ReleaseKeeps ==
  ASSUME Inv, ReleaseOrMint
  PROVE  Inv'
<1>1. /\ call.pc = "release" /\ UNCHANGED envVars
      /\ call' = [call EXCEPT !.pc = AfterRelease(call.m)]
  BY DEF ReleaseOrMint
<1>2. call # NoExec /\ call \in CallRecord /\ st \in StRecord
  BY <1>1, InFrame DEF Inv, TypeOK
<1>3. call.m \in Messages /\ AfterRelease(call.m) \in {"route", "finish"}
  BY <1>2 DEF CallRecord, AfterRelease
<1>4. call' \in CallRecord
  BY <1>1, <1>2, <1>3 DEF CallRecord
<1>5. call' # NoExec
  BY <1>4, NotInFrame
<1>6. TypeOK'
  BY <1>1, <1>4, ReleaseStep DEF Inv, TypeOK, envVars
<1>7. /\ call'.pc = AfterRelease(call.m) /\ call'.proof = call.proof
      /\ call'.m = call.m /\ call'.saved = call.saved /\ call'.prior = call.prior
      /\ call'.lane = call.lane /\ call'.valid = call.valid
  BY <1>1, <1>2 DEF CallRecord
<1>8. FrameOK'
  BY <1>1, <1>2, <1>7, ReleaseStep DEF Inv, FrameOK, AfterRelease, IsRouted, TokenOnly
<1>9. LanesOK' /\ ProofOK'
  BY <1>1, <1>2, <1>7 DEF Inv, LanesOK, ProofOK, envVars
<1> QED BY <1>5, <1>6, <1>8, <1>9 DEF Inv, NothingStuck

LEMMA RouteKeeps ==
  ASSUME Inv, RouteMessage
  PROVE  Inv'
<1>1. /\ call.pc = "route" /\ UNCHANGED envVars
      /\ call' = [call EXCEPT !.pc = "finish"]
  BY DEF RouteMessage
<1>2. call # NoExec /\ call \in CallRecord /\ st \in StRecord
  BY <1>1, InFrame DEF Inv, TypeOK
<1>3. call.m \in Messages
  BY <1>2 DEF CallRecord
<1>4. call' \in CallRecord
  BY <1>1, <1>2, <1>3 DEF CallRecord
<1>5. call' # NoExec
  BY <1>4, NotInFrame
<1>6. TypeOK'
  BY <1>1, <1>4, RouteStep DEF Inv, TypeOK, envVars
<1>7. /\ call'.pc = "finish" /\ call'.proof = call.proof
      /\ call'.m = call.m /\ call'.saved = call.saved /\ call'.prior = call.prior
      /\ call'.lane = call.lane /\ call'.valid = call.valid
  BY <1>1, <1>2 DEF CallRecord
<1>8. FrameOK'
  BY <1>1, <1>2, <1>7, RouteStep DEF Inv, FrameOK, IsRouted, TokenOnly
<1>9. LanesOK' /\ ProofOK'
  BY <1>1, <1>2, <1>7 DEF Inv, LanesOK, ProofOK, envVars
<1> QED BY <1>5, <1>6, <1>8, <1>9 DEF Inv, NothingStuck

LEMMA FinishKeeps ==
  ASSUME Inv, Finish
  PROVE  Inv'
<1>1. call.pc = "finish" /\ UNCHANGED envVars /\ call' = NoExec
  BY DEF Finish
<1>2. call # NoExec /\ call \in CallRecord /\ st \in StRecord
  BY <1>1, InFrame DEF Inv, TypeOK
<1>3. call.m \in Messages
  BY <1>2 DEF CallRecord
<1>4. /\ st'.exec = [st.exec EXCEPT ![call.m] = "Success"] /\ ~st'.guard
      /\ st' \in StRecord
  BY FinishStep
<1>5. TypeOK'
  BY <1>1, <1>4 DEF Inv, TypeOK, envVars
<1>6. \A n \in Messages : n # call.m => st.exec[n] # "InProgress"
  BY <1>2, <1>3 DEF Inv, FrameOK, Settled, CallRecord, StRecord
<1>7. NothingStuck'
  BY <1>2, <1>3, <1>4, <1>6 DEF NothingStuck, Settled, StRecord
<1>8. LanesOK'
  BY <1>1 DEF Inv, LanesOK, envVars
<1> QED BY <1>1, <1>5, <1>7, <1>8 DEF Inv, FrameOK, ProofOK

\* What changes between transactions leaves the storage alone, and a lane is only
\* given a configuration that passed validation.
LEMMA EnvironmentKeeps ==
  ASSUME Inv, Environment
  PROVE  Inv'
<1>1. call = NoExec /\ UNCHANGED <<st, call>>
  BY DEF Environment, Curse, Uncurse, AddOffRamp, RemoveOffRamp,
         ApplySourceChainCfgUpdates, ChangePool, ChangeReceiver
<1>2. /\ cursed' \subseteq Subjects /\ router' \subseteq Chains
      /\ pool' \in PoolAnswers /\ recv' \in ReceiverAnswers
  BY DEF Inv, TypeOK, Environment, Curse, Uncurse, AddOffRamp, RemoveOffRamp,
         ApplySourceChainCfgUpdates, ChangePool, ChangeReceiver
<1>3. lane' \in [Chains -> LaneConfig] /\ LanesOK'
  <2>1. CASE lane' = lane
    BY <2>1 DEF Inv, TypeOK, LanesOK
  <2>2. CASE \E s \in Chains, c \in LaneConfigs : ApplySourceChainCfgUpdates(s, c)
    <3>1. PICK s \in Chains, c \in LaneConfigs :
            Validate(c) /\ lane' = [lane EXCEPT ![s] = c]
      BY <2>2 DEF ApplySourceChainCfgUpdates
    <3>2. c \in LaneConfig /\ c.defaults # {}
      BY <3>1, OffRampAssumption DEF Validate
    <3> QED BY <3>1, <3>2 DEF Inv, TypeOK, LanesOK
  <2> QED BY <2>1, <2>2 DEF Environment, Curse, Uncurse, AddOffRamp, RemoveOffRamp,
                            ChangePool, ChangeReceiver
<1> QED BY <1>1, <1>2, <1>3
        DEF Inv, TypeOK, NothingStuck, FrameOK, ProofOK

LEMMA InvInit == Init => Inv
<1> SUFFICES ASSUME Init PROVE Inv
  OBVIOUS
<1>1. st \in StRecord /\ call = NoExec
  BY DEF Init, StRecord, States
<1>2. NoLane \in LaneConfig /\ ~NoLane.enabled
  BY DEF NoLane, LaneConfig
<1>3. TypeOK /\ LanesOK
  BY <1>1, <1>2 DEF Init, TypeOK, LanesOK
<1>4. NothingStuck
  BY DEF Init, NothingStuck, Settled
<1> QED BY <1>1, <1>3, <1>4 DEF Inv, FrameOK, ProofOK

LEMMA InvNext == Inv /\ [Next]_vars => Inv'
<1> SUFFICES ASSUME Inv, [Next]_vars PROVE Inv'
  OBVIOUS
<1>1. CASE UNCHANGED vars
  BY <1>1 DEF vars, Inv, TypeOK, NothingStuck, FrameOK, LanesOK, ProofOK
<1>2. CASE \E m \in Messages, supplied \in SUBSET Ccvs :
             \E valid \in SUBSET supplied : Execute(m, supplied, valid)
  BY <1>2, ExecuteKeeps
<1>3. CASE VerifyCcvQuorum \/ ReleaseOrMint \/ RouteMessage \/ Finish
  BY <1>3, VerifyKeeps, ReleaseKeeps, RouteKeeps, FinishKeeps
<1>4. CASE VerifyFail \/ ReleaseFail
  BY <1>4, FailKeeps DEF VerifyFail, ReleaseFail
<1>5. CASE ReleaseTrap
  BY <1>5, RollbackKeeps DEF ReleaseTrap
<1>6. CASE RouteFail
  BY <1>6, RollbackKeeps, FailKeeps DEF RouteFail
<1>7. CASE Environment
  BY <1>7, EnvironmentKeeps
<1> QED BY <1>1, <1>2, <1>3, <1>4, <1>5, <1>6, <1>7 DEF Next

\* --------------------------------------------------------------------------
\* The theorems

\* Spec implies its type invariant and NothingStuck: whatever the callees answer or
\* how they fail, a finished execute leaves the guard free and nothing InProgress.
THEOREM OffRampTypeCorrect == Spec => []TypeOK
<1>1. Spec => []Inv
  BY InvInit, InvNext, PTL DEF Spec
<1>2. Inv => TypeOK
  BY DEF Inv
<1> QED BY <1>1, <1>2, PTL

THEOREM NeverStuck == Spec => []NothingStuck
<1>1. Spec => []Inv
  BY InvInit, InvNext, PTL DEF Spec
<1>2. Inv => NothingStuck
  BY DEF Inv
<1> QED BY <1>1, <1>2, PTL

\* A step that has an effect belongs to a verified frame of that message.
LEMMA EffectVerified ==
  ASSUME Inv, Next, NEW n \in Messages, Effect(n)
  PROVE  /\ call # NoExec /\ call.pc # "ccvs"
         /\ call.m = n /\ call.proof # {} /\ call.proof \subseteq call.valid
<1>1. /\ st \in StRecord
      /\ call.pc # "none" => call # NoExec /\ call \in CallRecord
  BY InFrame DEF Inv, TypeOK
<1>2. ASSUME Rollback, call.pc # "none" PROVE FALSE
  BY <1>1, <1>2 DEF Rollback, Inv, FrameOK, Effect, CallRecord, StRecord
<1>3. ASSUME FailMessage, call.pc # "none" PROVE FALSE
  <2>1. CASE call.prior = "Failure"
    BY <1>2, <1>3, <2>1 DEF FailMessage
  <2>2. CASE call.prior # "Failure"
    BY <1>1, <1>3, <2>2, FailStep DEF Effect, CallRecord, StRecord
  <2> QED BY <2>1, <2>2
<1>4. CASE \E m \in Messages, supplied \in SUBSET Ccvs :
             \E valid \in SUBSET supplied : Execute(m, supplied, valid)
  BY <1>1, <1>4 DEF Execute, Effect, StRecord
<1>5. CASE VerifyCcvQuorum \/ Environment
  <2>1. st' = st
    BY <1>5 DEF VerifyCcvQuorum, Environment, Curse, Uncurse, AddOffRamp,
                RemoveOffRamp, ApplySourceChainCfgUpdates, ChangePool, ChangeReceiver
  <2> QED BY <1>1, <2>1 DEF Effect, StRecord
<1>6. CASE VerifyFail \/ ReleaseFail \/ ReleaseTrap \/ RouteFail
  BY <1>2, <1>3, <1>6 DEF VerifyFail, ReleaseFail, ReleaseTrap, RouteFail
<1>7. CASE ReleaseOrMint \/ RouteMessage \/ Finish
  <2>1. call.pc # "none" /\ call.pc # "ccvs"
    BY <1>7 DEF ReleaseOrMint, RouteMessage, Finish
  <2>2. n = call.m
    <3>1. call.m \in Messages
      BY <1>1, <2>1 DEF CallRecord
    <3> QED BY <1>1, <1>7, <3>1, ReleaseStep, RouteStep, FinishStep
            DEF Effect, StRecord
  <2> QED BY <1>1, <2>1, <2>2 DEF Inv, ProofOK
<1> QED BY <1>4, <1>5, <1>6, <1>7 DEF Next

\* Tokens are released, and messages delivered or closed, only by a frame that at
\* least one CCV attested, genuinely: an empty pool list, an empty receiver
\* configuration or an optional list that is all required cannot add up to none.
THEOREM AlwaysVerified == Spec => NeverUnverified
<1>1. Spec => []Inv
  BY InvInit, InvNext, PTL DEF Spec
<1>2. Inv /\ [Next]_vars =>
        [\A m \in Messages : Effect(m) =>
           call.m = m /\ call.proof # {} /\ call.proof \subseteq call.valid]_vars
  BY EffectVerified
<1> QED BY <1>1, <1>2, PTL DEF Spec, NeverUnverified

\* --------------------------------------------------------------------------
\* The policies of lane, pool and receiver

\* The merge may move optional CCVs to the required ones and lower the threshold:
\* as many different optional ones as the receiver asked for are verified still.
LEMMA ThresholdKept ==
  ASSUME NEW config \in CcvConfig, MergeOK(config), NEW required, NEW supplied, NEW p,
         p.req = required, p.opt = config.opt,
         p.kept = MergeOptional(config, required),
         p.thr = MergeThreshold(config, p.kept),
         EnsureQuorumPresent(p, supplied)
  PROVE  Cardinality(Elems(config.opt) \intersect BuildVerifyIndices(p, supplied))
           >= config.thr
<1> DEFINE opt     == config.opt
           D       == DOMAIN opt
           present == OptionalPresent(p, supplied)
           counted == {k \in present : Cardinality({j \in present : j <= k}) <= p.thr}
           moved   == D \ p.kept
           I       == moved \union counted
           image   == {opt[i] : i \in I}
<1>1. /\ opt \in Seq(Ccvs) /\ config.thr \in Nat /\ D = 1 .. Len(opt)
      /\ Len(opt) \in Nat
  BY DEF CcvConfig
<1>2. IsFiniteSet(D) /\ Cardinality(D) = Len(opt)
  BY <1>1, FS_Interval
<1>3. p.kept \subseteq D /\ present \subseteq p.kept /\ counted \subseteq present
  BY DEF MergeOptional, OptionalPresent
<1>4. /\ IsFiniteSet(p.kept) /\ IsFiniteSet(present) /\ IsFiniteSet(counted)
      /\ IsFiniteSet(moved)
      /\ Cardinality(p.kept) \in Nat /\ Cardinality(present) \in Nat
      /\ Cardinality(counted) \in Nat /\ Cardinality(p.kept) <= Cardinality(D)
  <2>1. IsFiniteSet(p.kept) /\ Cardinality(p.kept) <= Cardinality(D)
    BY <1>2, <1>3, FS_Subset
  <2>2. IsFiniteSet(present) /\ IsFiniteSet(moved)
    BY <1>2, <1>3, <2>1, FS_Subset
  <2>3. IsFiniteSet(counted)
    BY <1>3, <2>2, FS_Subset
  <2> QED BY <2>1, <2>2, <2>3, FS_CardinalityType
<1>5. Cardinality(moved) = Len(opt) - Cardinality(p.kept)
  <2>1. D \intersect p.kept = p.kept
    BY <1>3
  <2> HIDE DEF D
  <2>2. Cardinality(D \ p.kept) = Cardinality(D) - Cardinality(D \intersect p.kept)
    BY <1>2, FS_Difference
  <2> QED BY <1>2, <2>1, <2>2
<1>6. /\ p.thr \in Nat /\ p.thr <= Cardinality(present)
      /\ config.thr <= Cardinality(moved) + p.thr
  BY <1>1, <1>2, <1>4, <1>5 DEF MergeThreshold, EnsureQuorumPresent
<1>7. Cardinality(counted) >= p.thr
  <2>1. present \in SUBSET Nat
    BY <1>1, <1>3
  <2> HIDE DEF present
  <2> QED BY <1>4, <1>6, <2>1, FirstOnes
<1>8. IsFiniteSet(I) /\ Cardinality(I) = Cardinality(moved) + Cardinality(counted)
  <2>1. moved \intersect counted = {}
    BY <1>3
  <2> HIDE DEF moved, counted
  <2>2. Cardinality(moved) \in Nat
    BY <1>4, FS_CardinalityType
  <2>3. Cardinality(moved \intersect counted) = 0
    BY <2>1, FS_EmptySet
  <2>4. /\ IsFiniteSet(moved \union counted)
        /\ Cardinality(moved \union counted) =
             Cardinality(moved) + Cardinality(counted) - Cardinality(moved \intersect counted)
    BY <1>4, FS_Union
  <2> QED BY <1>4, <2>2, <2>3, <2>4
<1>9. IsFiniteSet(image) /\ Cardinality(image) = Cardinality(I)
  <2>1. \A i, j \in I : opt[i] = opt[j] => i = j
    BY <1>3 DEF MergeOK, NoDuplicates
  <2> HIDE DEF I
  <2> QED BY <1>8, <2>1, InjectiveImage
<1> DEFINE E == Elems(opt) \intersect BuildVerifyIndices(p, supplied)
<1>10. image \subseteq E
  <2>1. \A i \in moved : opt[i] \in required
    BY DEF MergeOptional
  <2> QED BY <1>3, <2>1 DEF Elems, BuildVerifyIndices
<1>11. IsFiniteSet(E)
  <2>1. E \subseteq Ccvs
    BY <1>1 DEF Elems
  <2> HIDE DEF E
  <2> QED BY <2>1, OffRampAssumption, FS_Subset
<1>12. Cardinality(image) <= Cardinality(E) /\ Cardinality(E) \in Nat
  <2> HIDE DEF image, E
  <2> QED BY <1>10, <1>11, FS_Subset, FS_CardinalityType
<1>13. Cardinality(moved) \in Nat
  BY <1>4, FS_CardinalityType
<1> HIDE DEF E, image, I, moved, counted, present
<1>14. Cardinality(E) >= config.thr
  BY <1>1, <1>4, <1>6, <1>7, <1>8, <1>9, <1>12, <1>13
<1> QED BY <1>14 DEF E

\* What the three owners asked for of a message, as they wrote it.
Policies(m, proof) ==
  /\ lane[m.source].mandated \subseteq proof
  /\ m.tokens => pool.ccvs \subseteq proof
  /\ IsRouted(m) =>
       /\ Elems(recv.config.req) \subseteq proof
       /\ Cardinality(Elems(recv.config.opt) \intersect proof) >= recv.config.thr

\* A frame works with the lane as it is, and past the verification it carries the
\* attestations of every policy.
PoliciesOK ==
  call # NoExec =>
    /\ call.lane = lane[call.m.source]
    /\ call.pc # "ccvs" => Policies(call.m, call.proof)

\* Verification enforces the policies.
LEMMA VerifyPolicies ==
  ASSUME Inv, NEW m \in Messages, NEW supplied,
         EnforcedCcvs(m, lane[m.source]).ok,
         EnsureQuorumPresent(EnforcedCcvs(m, lane[m.source]), supplied)
  PROVE  Policies(m, BuildVerifyIndices(EnforcedCcvs(m, lane[m.source]), supplied))
<1> DEFINE l == lane[m.source]
           p == EnforcedCcvs(m, l)
           proof == BuildVerifyIndices(p, supplied)
<1>1. p.req \subseteq proof
  BY DEF BuildVerifyIndices
<1>2. CASE TokenOnly(m)
  <2>1. l.mandated \subseteq p.req /\ (m.tokens => pool.ccvs \subseteq p.req)
    BY <1>2 DEF EnforcedCcvs, TokenOnlyCcvs, PoolRequired
  <2> QED BY <1>1, <1>2, <2>1 DEF Policies, IsRouted
<1>3. CASE ~TokenOnly(m)
  <2>1. p = ReceiverCcvs(m, l)
    BY <1>3 DEF EnforcedCcvs
  <2>2. recv.config \in CcvConfig
    BY OffRampAssumption DEF Inv, TypeOK
  <2> DEFINE required == MergeRequired(recv.config,
                           IF m.tokens THEN PoolRequired(l) ELSE {}, l)
  <2>3. /\ MergeOK(recv.config) /\ p.req = required /\ p.opt = recv.config.opt
        /\ p.kept = MergeOptional(recv.config, required)
        /\ p.thr = MergeThreshold(recv.config, p.kept)
    BY <2>1 DEF ReceiverCcvs
  <2>4. /\ l.mandated \subseteq p.req /\ Elems(recv.config.req) \subseteq p.req
        /\ m.tokens => pool.ccvs \subseteq p.req
    BY <2>3 DEF MergeRequired, PoolRequired
  <2> HIDE DEF p, required
  <2>5. Cardinality(Elems(recv.config.opt) \intersect proof) >= recv.config.thr
    BY <2>2, <2>3, ThresholdKept DEF p
  <2> QED BY <1>1, <2>4, <2>5 DEF Policies, p
<1> QED BY <1>2, <1>3

LEMMA PoliciesInit == Init => PoliciesOK
BY DEF Init, PoliciesOK

LEMMA PoliciesNext == Inv /\ PoliciesOK /\ [Next]_vars => PoliciesOK'
<1> SUFFICES ASSUME Inv, PoliciesOK, [Next]_vars
             PROVE  PoliciesOK'
  OBVIOUS
<1>1. ASSUME UNCHANGED envVars, NEW m, NEW proof, Policies(m, proof)
      PROVE  Policies(m, proof)'
  BY <1>1 DEF Policies, envVars
<1>2. CASE UNCHANGED vars
  BY <1>2 DEF vars, PoliciesOK, Policies
<1>3. CASE \E m \in Messages, supplied \in SUBSET Ccvs :
             \E valid \in SUBSET supplied : Execute(m, supplied, valid)
  BY <1>3 DEF Execute, PoliciesOK, envVars
<1>4. CASE VerifyCcvQuorum
  <2>1. call # NoExec /\ call \in CallRecord /\ call.m \in Messages
    BY <1>4, InFrame DEF VerifyCcvQuorum, Inv, CallRecord
  <2> DEFINE p == EnforcedCcvs(call.m, call.lane)
             verified == BuildVerifyIndices(p, call.supplied)
  <2>2. /\ call.lane = lane[call.m.source]
        /\ call' = [call EXCEPT !.pc = AfterVerify(call.m), !.proof = verified]
        /\ p.ok /\ EnsureQuorumPresent(p, call.supplied) /\ UNCHANGED envVars
    BY <1>4, <2>1 DEF VerifyCcvQuorum, PoliciesOK
  <2>3. Policies(call.m, verified)
    BY <2>1, <2>2, VerifyPolicies
  <2>4. call'.m = call.m /\ call'.proof = verified /\ call'.lane = call.lane
    BY <2>1, <2>2 DEF CallRecord
  <2> HIDE DEF verified
  <2> QED BY <2>2, <2>3, <2>4 DEF PoliciesOK, Policies, envVars
<1>5. CASE ReleaseOrMint \/ RouteMessage
  <2>1. call # NoExec /\ call \in CallRecord /\ call.pc # "ccvs"
    BY <1>5, InFrame DEF ReleaseOrMint, RouteMessage, Inv
  <2>2. /\ call'.m = call.m /\ call'.proof = call.proof /\ call'.lane = call.lane
        /\ UNCHANGED envVars
    BY <1>5, <2>1 DEF ReleaseOrMint, RouteMessage, CallRecord
  <2> QED BY <2>1, <2>2 DEF PoliciesOK, Policies, envVars
<1>6. CASE VerifyFail \/ ReleaseFail \/ ReleaseTrap \/ RouteFail \/ Finish
  BY <1>6 DEF VerifyFail, ReleaseFail, ReleaseTrap, RouteFail, Finish, FailMessage,
              Rollback, PoliciesOK
<1>7. CASE Environment
  BY <1>7 DEF Environment, Curse, Uncurse, AddOffRamp, RemoveOffRamp,
              ApplySourceChainCfgUpdates, ChangePool, ChangeReceiver, PoliciesOK
<1> QED BY <1>2, <1>3, <1>4, <1>5, <1>6, <1>7 DEF Next

\* Whatever the lists are and however they overlap: the mandated CCVs of the lane,
\* those of the pool, the required ones of the receiver and its threshold of
\* different optional ones attested every message that took effect.
THEOREM PoliciesAlwaysHeld == Spec => PoliciesHeld
<1>1. Spec => [](Inv /\ PoliciesOK)
  BY InvInit, InvNext, PoliciesInit, PoliciesNext, PTL DEF Spec
<1>2. Inv /\ PoliciesOK /\ [Next]_vars =>
        [\A m \in Messages : Effect(m) =>
           /\ lane[m.source].mandated \subseteq call.proof
           /\ m.tokens => pool.ccvs \subseteq call.proof
           /\ IsRouted(m) =>
                /\ Elems(recv.config.req) \subseteq call.proof
                /\ Cardinality(Elems(recv.config.opt) \intersect call.proof)
                     >= recv.config.thr]_vars
  BY EffectVerified DEF PoliciesOK, Policies
<1> QED BY <1>1, <1>2, PTL DEF Spec, PoliciesHeld

\* For every message, lane, pool and receiver: the view an executor plans with
\* returns the CCVs the enforcement resolves if the receiver is 32 bytes long, and
\* refuses otherwise; and it answers differently only what execute fails.
THEOREM ViewAlwaysMatches == Spec => []ViewMatchesExecute
<1>1. ViewMatchesExecute
  <2> SUFFICES ASSUME NEW m \in Message
               PROVE  LET p == EnforcedCcvs(m, lane[m.source])
                          v == GetCcvsForMessage(m)
                      IN  /\ p.ok => IF WellFormed(m) THEN v = p ELSE ~m.payload /\ ~v.ok
                          /\ v.ok => \/ v = p
                                     \/ ~p.ok /\ m.payload /\ ReceiverKind(m) # "wasm"
    BY DEF ViewMatchesExecute
  <2> DEFINE l == lane[m.source]
             byView == IF ~m.payload \/ ReceiverKind(m) # "wasm"
                         THEN TokenOnlyCcvs(m, l) ELSE ReceiverCcvs(m, l)
  <2>1. /\ GetCcvsForMessage(m).ok = (byView.ok /\ WellFormed(m))
        /\ WellFormed(m) /\ byView.ok \in BOOLEAN => GetCcvsForMessage(m) = byView
    BY DEF GetCcvsForMessage, TokenOnlyCcvs, ReceiverCcvs
  <2> QED BY <2>1 DEF EnforcedCcvs, TokenOnly, ReceiverKind, WellFormed, TokenOnlyCcvs, ReceiverCcvs
<1> QED BY <1>1, PTL

\* --------------------------------------------------------------------------
\* Refinement: the committed state moves only when a frame ends

LEMMA RollbackStutters ==
  ASSUME Inv, call.pc # "none", Rollback
  PROVE  Committed' = Committed
BY InFrame DEF Rollback, Committed, Inv

\* A frame that records a failure has released and delivered nothing.
LEMMA FailImplements ==
  ASSUME Inv, call.pc # "none", FailMessage,
         ~(call.m.tokens /\ call.pc \in {"route", "finish"}), call.pc # "finish"
  PROVE  Committed' = Committed \/ \E m \in Messages : Execution!Fail(m)
<1>1. call # NoExec /\ call \in CallRecord
  BY InFrame DEF Inv
<1>2. CASE call.prior = "Failure"
  BY <1>2, RollbackStutters DEF FailMessage
<1>3. CASE call.prior # "Failure"
  <2>1. /\ Committed = call.saved /\ Committed' = st'
        /\ call.m \in Messages /\ call.saved \in StRecord
    BY <1>1, <1>3 DEF FailMessage, Committed, CallRecord
  <2>2. /\ call.saved.exec[call.m] = "Untouched"
        /\ st.exec = [call.saved.exec EXCEPT ![call.m] = "InProgress"]
        /\ st.reports = call.saved.reports
        /\ st.released = call.saved.released /\ st.delivered = call.saved.delivered
    BY <1>1, <1>3 DEF Inv, FrameOK, CallRecord
  <2>3. st'.exec = [call.saved.exec EXCEPT ![call.m] = "Failure"]
    BY <1>3, <2>1, <2>2, FailStep DEF StRecord
  <2> QED BY <1>3, <2>1, <2>2, <2>3, FailStep DEF Execution!Fail
<1> QED BY <1>2, <1>3

LEMMA FinishImplements ==
  ASSUME Inv, Finish
  PROVE  \E m \in Messages : Execution!Succeed(m)
<1>1. call.pc = "finish" /\ call # NoExec /\ call \in CallRecord /\ call' = NoExec
  BY InFrame DEF Finish, Inv
<1>2. /\ Committed = call.saved /\ Committed' = st'
      /\ call.m \in Messages /\ call.saved \in StRecord
  BY <1>1 DEF Committed, CallRecord
<1>3. /\ call.saved.exec[call.m] \in {"Untouched", "Failure"}
      /\ st.exec = [call.saved.exec EXCEPT ![call.m] = "InProgress"]
      /\ st.reports = call.saved.reports
  BY <1>1 DEF Inv, FrameOK, CallRecord
<1>4. st'.exec = [call.saved.exec EXCEPT ![call.m] = "Success"]
  BY <1>2, <1>3, FinishStep DEF StRecord
<1>5. st'.released = [call.saved.released EXCEPT ![call.m] =
                        IF call.m.tokens THEN @ + 1 ELSE @]
  BY <1>1, <1>2, FinishStep DEF Inv, FrameOK, StRecord
<1>6. st'.delivered = [call.saved.delivered EXCEPT ![call.m] =
                         IF IsRouted(call.m) THEN @ + 1 ELSE @]
  BY <1>1, <1>2, FinishStep DEF Inv, FrameOK, StRecord
<1> QED BY <1>2, <1>3, <1>4, <1>5, <1>6, FinishStep DEF Execution!Succeed

LEMMA StepImplements ==
  ASSUME Inv, [Next]_vars
  PROVE  [Execution!Next]_(Execution!vars)
<1>1. Committed' = Committed => UNCHANGED Execution!vars
  BY DEF Execution!vars
<1>2. CASE UNCHANGED vars
  BY <1>1, <1>2 DEF vars, Committed
<1>3. CASE \E m \in Messages, supplied \in SUBSET Ccvs :
             \E valid \in SUBSET supplied : Execute(m, supplied, valid)
  <2>1. PICK m \in Messages, supplied \in SUBSET Ccvs :
          \E valid \in SUBSET supplied : Execute(m, supplied, valid)
    BY <1>3
  <2>2. call = NoExec /\ call'.saved = st /\ call'.pc = "ccvs"
    BY <2>1 DEF Execute
  <2>3. Committed' = Committed
    BY <2>2 DEF Committed, NoExec
  <2> QED BY <1>1, <2>3
<1>4. CASE VerifyCcvQuorum \/ ReleaseOrMint \/ RouteMessage
  <2>1. call.pc # "none"
    BY <1>4 DEF VerifyCcvQuorum, ReleaseOrMint, RouteMessage
  <2>2. call # NoExec /\ call \in CallRecord
    BY <2>1, InFrame DEF Inv
  <2>3. call'.saved = call.saved /\ call'.pc # "none"
    BY <1>4, <2>2 DEF VerifyCcvQuorum, ReleaseOrMint, RouteMessage, CallRecord,
                      AfterVerify, AfterRelease
  <2>4. Committed' = Committed
    BY <2>2, <2>3 DEF Committed, NoExec
  <2> QED BY <1>1, <2>4
<1>5. CASE VerifyFail \/ ReleaseFail
  BY <1>1, <1>5, FailImplements DEF VerifyFail, ReleaseFail, Execution!Next
<1>6. CASE ReleaseTrap
  BY <1>1, <1>6, RollbackStutters DEF ReleaseTrap
<1>7. CASE RouteFail
  BY <1>1, <1>7, RollbackStutters, FailImplements DEF RouteFail, Execution!Next
<1>8. CASE Finish
  BY <1>8, FinishImplements DEF Execution!Next
<1>9. CASE Environment
  <2>1. UNCHANGED <<st, call>>
    BY <1>9 DEF Environment, Curse, Uncurse, AddOffRamp, RemoveOffRamp,
                ApplySourceChainCfgUpdates, ChangePool, ChangeReceiver
  <2> QED BY <1>1, <2>1 DEF Committed
<1> QED BY <1>2, <1>3, <1>4, <1>5, <1>6, <1>7, <1>8, <1>9 DEF Next

\* execute implements MsgExecution: a message succeeds at most once, its tokens are
\* released and its payload delivered exactly when it does, and a failure is
\* reported once.
THEOREM ExecutesAtMostOnce == Spec => ImplementsExecution
<1>1. Spec => []Inv
  BY InvInit, InvNext, PTL DEF Spec
<1>2. Init => Execution!Init
  BY DEF Init, Execution!Init, Committed
<1>3. Inv /\ [Next]_vars => [Execution!Next]_(Execution!vars)
  BY StepImplements
<1> QED BY <1>1, <1>2, <1>3, PTL DEF Spec, ImplementsExecution, Execution!Spec
=============================================================================
