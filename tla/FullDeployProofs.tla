--------------------------- MODULE FullDeployProofs --------------------------
(***************************************************************************)
(* Proofs for FullDeploy, for any stack, any number of runs and of rounds. *)
(***************************************************************************)
EXTENDS FullDeploy, Induction

Kinds    == {"upload", "create", "initialize", "configure"}
Ops      == [kind : Kinds, c : Stack, part : Parts \union {"-"}]
Envs     == [restore : BOOLEAN, op : Ops, seq : Nat \ {0}, run : Nat, mine : BOOLEAN,
             late : BOOLEAN]
Instance == [exists : BOOLEAN, owner : {"none", "deployer", "timelock", "other"},
             parts : SUBSET (Parts \union {"-"}), tuned : BOOLEAN, initRun : Nat]
Before   == {"simulate", "assemble", "restore", "send"}
Calls    == [pc : Before \union {"idle", "wait", "ok", "err"}, op : Ops \union {NoOp},
             run : Nat, attempt : Nat, restored : BOOLEAN, env : Envs \union {NoEnv},
             landed : {"no", "success", "failed", "exceeded"}, hits : Nat, missed : Nat]
Calling  == {"upload", "create", "init", "config"}
RunStates == [pc : Calling \union {"idle", "step", "owner", "failed", "done"}, i : Nat,
              run : Nat, refs : SUBSET Stack, made : SUBSET Stack]

TypeInv ==
  /\ d \in Calls /\ r \in RunStates
  /\ acctSeq \in Nat /\ pool \in SUBSET Envs
  /\ contract \in [Components -> Instance]
  /\ refs \in SUBSET Stack

KindOf == [upload |-> "upload", create |-> "create", init |-> "initialize",
           config |-> "configure"]

\* While the run waits for a call, the call is that of its step.
CallOfRun ==
  /\ d.pc \notin {"idle", "ok"} => r.pc \in Calling
  /\ r.pc \in Calling =>
       /\ d.pc # "idle" /\ d.run = r.run
       /\ d.op = [kind |-> KindOf[r.pc], c |-> C, part |-> Step.part]
  /\ r.pc \in Calling \union {"owner"} =>
       r.i \in Steps /\ (r.pc = "config" <=> Step.part # "-")
  /\ r.pc = "config" => C \in r.made
  /\ r.pc = "owner" => contract[C].exists
  /\ r.pc \in {"step", "done"} => r.i \in Steps \union {End}
  /\ r.pc = "done" => r.i = End

\* The call's own envelopes: the last one, until it lands, and those whose wait timed
\* out. All are for the operation of the call, and none has landed yet.
OwnEnvelopes ==
  /\ ~d.env.late
  /\ d.pc \in {"send", "wait", "ok"} =>
       /\ d.env \in Envs /\ d.env.mine /\ d.env.seq <= acctSeq + 1
       /\ d.env.op = d.op /\ d.env.run = d.run
  /\ \A e \in pool :
       /\ e.late => e.mine
       /\ e.mine => e.op = d.op /\ d.pc \notin {"idle", "ok"} /\ d.landed = "no"
       /\ e.mine /\ ~e.late => e = d.env /\ d.pc \in {"wait", "err"}
  /\ d.pc = "send" => d.landed = "no"
  /\ d.pc = "ok" => d.landed = "success" /\ ~d.env.restore

\* hits, against what the call knows of them.
HitsCounted ==
  /\ d.pc \in Before \union {"idle"} => d.hits <= d.missed
  /\ d.hits <= 1 + d.missed
  /\ d.landed = "no" => d.hits <= d.missed
  /\ d.pc = "wait" /\ (d.landed # "success" \/ d.env.restore) => d.hits <= d.missed

\* What a run may rely on when its call has landed.
Landed ==
  d.pc \in {"wait", "ok"} /\ d.landed = "success" /\ ~d.env.restore =>
    /\ r.pc = "create" => contract[C].exists /\ ~contract[C].tuned
    /\ r.pc = "init" => /\ contract[C].exists /\ ~contract[C].tuned
                        /\ contract[C].owner \in {"deployer", "timelock"}
    /\ r.pc = "config" => Step.part \in contract[C].parts

\* Late envelopes: of no later sequence or run, none of the run in progress but the
\* call's own, and none that would overwrite the operator's settings.
PoolBounded ==
  \A e \in pool :
    /\ e.seq <= acctSeq + 1 /\ e.run <= r.run
    /\ e.run = r.run /\ r.pc # "failed" => e.mine
    /\ e.op.kind = "configure" => ~contract[e.op.c].tuned

InstancesSound ==
  /\ \A c \in Components :
       /\ contract[c].owner # "none" => contract[c].exists
       /\ contract[c].tuned => contract[c].owner # "none"
       /\ contract[c].initRun <= r.run
  /\ Active => \A c \in r.made : ~contract[c].tuned

\* What this run initialized it is initializing now, or has configured up to here.
ConfiguredSoFar ==
  Active \/ r.pc = "done" =>
    \A c \in Stack : contract[c].initRun = r.run =>
      \/ r.pc = "init" /\ C = c
      \/ /\ c \in r.made
         /\ \A j \in DOMAIN Plan :
              j < r.i /\ Plan[j].c = c /\ Plan[j].part # "-" => Plan[j].part \in contract[c].parts

IInv ==
  /\ TypeInv /\ CallOfRun /\ OwnEnvelopes /\ HitsCounted /\ Landed /\ PoolBounded
  /\ InstancesSound /\ RecordedIsOurs /\ ConfiguredSoFar

-----------------------------------------------------------------------------
(* The plan.                                                                 *)

LEMMA PlanDomain == DOMAIN Plan = 1 .. 24 /\ Len(Plan) = 24
BY DEF Plan, Foundation, Verification, Fees, Ramps, Receiver, Deploy, Configure

\* Every component is deployed before any part of it is configured.
LEMMA DeployedFirst ==
  ASSUME NEW i \in DOMAIN Plan, NEW j \in DOMAIN Plan,
         Plan[i].c = Plan[j].c, Plan[i].part = "-", Plan[j].part # "-"
  PROVE  i < j
<1>1. \A k, l \in 1 .. 24 :
        Plan[k].c = Plan[l].c /\ Plan[k].part = "-" /\ Plan[l].part # "-" => k < l
  BY DEF Plan, Foundation, Verification, Fees, Ramps, Receiver, Deploy, Configure
<1> QED BY <1>1, PlanDomain

LEMMA StepFacts ==
  /\ End = 25 /\ Stack \subseteq Components
  /\ \A i \in Steps : i \in Nat /\ 1 <= i /\ i <= 24 /\ i \in DOMAIN Plan
  /\ \A i \in Steps : Plan[i].c \in Stack /\ Plan[i].part \in Parts \union {"-"}
<1>1. /\ End = 25 /\ Stack \subseteq Components
      /\ \A i \in Steps : i \in Nat /\ 1 <= i /\ i <= 24 /\ i \in DOMAIN Plan
  BY PlanDomain, FullDeployAssumption DEF End, Steps
<1>2. \A i \in Steps : Plan[i].c \in Stack /\ Plan[i].part \in Parts \union {"-"}
  <2> SUFFICES ASSUME NEW i \in Steps
               PROVE  Plan[i].c \in Stack /\ Plan[i].part \in Parts \union {"-"}
    OBVIOUS
  <2>1. i \in DOMAIN Plan /\ Plan[i].c \in Stack
    BY DEF Steps
  <2>2. Plan[i].part \in {Plan[j].part : j \in DOMAIN Plan}
    BY <2>1
  <2> QED BY <2>1, <2>2, FullDeployAssumption DEF AllParts
<1> QED BY <1>1, <1>2

\* No step of the instance is skipped.
LEMMA AfterFacts ==
  ASSUME NEW i \in 0 .. 24
  PROVE  /\ After(i) \in Steps \union {End} /\ After(i) \in Nat
         /\ \A k \in Steps : k < After(i) => k <= i
<1> DEFINE later == {j \in Steps \union {End} : j > i}
           P(j) == j > i /\ \A k \in Steps : k > i => j <= k
<1>1. later \in SUBSET Nat /\ End \in later
  BY StepFacts
<1>2. PICK m \in later : \A k \in later : m <= k
  <2> HIDE DEF later
  <2> QED BY <1>1, LeastNatural
<1>3. m \in Steps \union {End} /\ P(m)
  BY <1>2
<1>4. After(i) \in Steps \union {End} /\ P(After(i))
  <2> HIDE DEF P
  <2>1. After(i) = CHOOSE j \in Steps \union {End} : P(j)
    BY DEF After, P
  <2> QED BY <1>3, <2>1
<1>5. After(i) \in Nat
  BY <1>4, StepFacts
<1> QED BY <1>4, <1>5, StepFacts

-----------------------------------------------------------------------------
(* The steps of a call.                                                      *)

LEMMA OpTyped ==
  ASSUME IInv, d.pc \notin {"idle", "ok"}
  PROVE  d.op \in Ops
<1>1. r.pc \in Calling /\ r.i \in Steps
      /\ d.op = [kind |-> KindOf[r.pc], c |-> Plan[r.i].c, part |-> Plan[r.i].part]
  BY DEF IInv, CallOfRun, C, Step
<1>2. KindOf[r.pc] \in Kinds
  BY <1>1 DEF KindOf, Calling, Kinds
<1> QED BY <1>1, <1>2, StepFacts DEF Ops

\* A refused or failed round, or the last one of the call.
LEMMA RetryTypes ==
  ASSUME TypeInv, NEW n \in {0, 1}, Retry(n)
  PROVE  /\ d' \in Calls
         /\ d'.pc \in {"simulate", "err"} /\ d'.op = d.op /\ d'.run = d.run /\ d'.hits = d.hits
         /\ d'.pc = "simulate" => d'.missed = d.missed + n /\ ~d'.env.late /\ d'.landed = "no"
         /\ d'.pc = "err" => d'.missed = d.missed /\ d'.env = d.env /\ d'.landed = d.landed
<1>1. CASE d.attempt = SubmitMaxAttempts
  BY <1>1 DEF Retry, TypeInv, Calls
<1>2. CASE d.attempt # SubmitMaxAttempts
  <2>1. d' = [d EXCEPT !.pc = "simulate", !.attempt = @ + 1, !.restored = FALSE,
                       !.env = NoEnv, !.landed = "no", !.missed = @ + n]
    BY <1>2 DEF Retry
  <2>2. n \in Nat /\ d \in Calls /\ d.missed + n \in Nat /\ d.attempt + 1 \in Nat
    BY DEF TypeInv, Calls
  <2> QED BY <2>1, <2>2 DEF Calls, Before, NoEnv
<1> QED BY <1>1, <1>2

LEMMA CallSteps ==
  ASSUME IInv, Deploying, UNCHANGED runVars
  PROVE  IInv'
<1> USE DEF IInv
<1>1. UNCHANGED <<acctSeq, wasm, contract, r, refs>>
  BY DEF runVars, Deploying, ledgerVars, Simulate, Assemble, SendAccepted, SendRefused,
         SendError, PollSuccess, PollFailed, TimedOut, CallError
<1>2. (InstancesSound /\ RecordedIsOurs /\ ConfiguredSoFar)'
  BY <1>1 DEF InstancesSound, RecordedIsOurs, ConfiguredSoFar, Active, C, Step
<1>3. CASE Simulate
  <2> USE <1>3 DEF Simulate, ledgerVars
  <2>1. TypeInv'
    BY <1>1 DEF TypeInv, Calls, Before
  <2>2. CallOfRun'
    BY <1>1 DEF CallOfRun, TypeInv, Calls, C, Step
  <2>3. OwnEnvelopes'
    BY <1>1 DEF OwnEnvelopes, CallOfRun, TypeInv, Calls
  <2>4. HitsCounted'
    BY <1>1 DEF HitsCounted, OwnEnvelopes, TypeInv, Calls, Before
  <2>5. Landed'
    BY <1>1 DEF Landed, OwnEnvelopes, TypeInv, Calls, C, Step
  <2>6. PoolBounded'
    BY <1>1 DEF PoolBounded, OwnEnvelopes, CallOfRun, TypeInv, Calls, InstancesSound, Active, KindOf, Calling
  <2> QED BY <1>2, <2>1, <2>2, <2>3, <2>4, <2>5, <2>6
<1>4. CASE Assemble
  <2> USE <1>4 DEF Assemble, ledgerVars, Envelope
  <2>1. TypeInv'
    <3>1. d.op \in Ops
      BY OpTyped
    <3>2. d.run \in Nat /\ acctSeq + 1 \in Nat \ {0} /\ (d.pc = "restore") \in BOOLEAN
      BY DEF TypeInv, Calls
    <3>3. Envelope(d.pc = "restore") \in Envs
      BY <3>1, <3>2 DEF Envs
    <3> HIDE DEF Envelope
    <3> QED BY <1>1, <3>3 DEF TypeInv, Calls, Before
  <2>2. CallOfRun'
    BY <1>1 DEF CallOfRun, TypeInv, Calls, C, Step
  <2>3. OwnEnvelopes'
    BY <1>1, OpTyped DEF OwnEnvelopes, CallOfRun, TypeInv, Calls, Envs
  <2>4. HitsCounted'
    BY <1>1 DEF HitsCounted, OwnEnvelopes, TypeInv, Calls, Before
  <2>5. Landed'
    BY <1>1 DEF Landed, OwnEnvelopes, TypeInv, Calls, C, Step
  <2>6. PoolBounded'
    BY <1>1 DEF PoolBounded, OwnEnvelopes, CallOfRun, TypeInv, Calls, InstancesSound, Active, KindOf, Calling
  <2> QED BY <1>2, <2>1, <2>2, <2>3, <2>4, <2>5, <2>6
<1>5. CASE SendAccepted
  <2> USE <1>5 DEF SendAccepted, ledgerVars, Alive
  <2>1. TypeInv'
    BY <1>1 DEF TypeInv, Calls, Before, OwnEnvelopes
  <2>2. CallOfRun'
    BY <1>1 DEF CallOfRun, TypeInv, Calls, C, Step
  <2>3. OwnEnvelopes'
    BY <1>1 DEF OwnEnvelopes, CallOfRun, TypeInv, Calls
  <2>4. HitsCounted'
    BY <1>1 DEF HitsCounted, OwnEnvelopes, TypeInv, Calls, Before
  <2>5. Landed'
    BY <1>1 DEF Landed, OwnEnvelopes, TypeInv, Calls, C, Step
  <2>6. PoolBounded'
    BY <1>1 DEF PoolBounded, OwnEnvelopes, CallOfRun, TypeInv, Calls, InstancesSound, Active, KindOf, Calling
  <2> QED BY <1>2, <2>1, <2>2, <2>3, <2>4, <2>5, <2>6
<1>6. CASE SendRefused
  <2> DEFINE n == 0
  <2>0. d.pc = "send" /\ UNCHANGED pool /\ Retry(n) /\ n \in {0, 1}
    BY <1>6 DEF SendRefused, ledgerVars
  <2>7. /\ d' \in Calls
        /\ d'.pc \in {"simulate", "err"} /\ d'.op = d.op /\ d'.run = d.run /\ d'.hits = d.hits
        /\ d'.pc = "simulate" => d'.missed = d.missed + n /\ ~d'.env.late /\ d'.landed = "no"
        /\ d'.pc = "err" => d'.missed = d.missed /\ d'.env = d.env /\ d'.landed = d.landed
    <3> HIDE DEF n
    <3> QED BY <2>0, RetryTypes
  <2>8. \A e \in pool : e.mine => e.late
    BY <2>0 DEF OwnEnvelopes
  <2>1. TypeInv'
    BY <1>1, <2>0, <2>7, <2>8 DEF TypeInv, Calls, Before
  <2>2. CallOfRun'
    BY <1>1, <2>0, <2>7, <2>8 DEF CallOfRun, TypeInv, Calls, C, Step
  <2>3. OwnEnvelopes'
    BY <1>1, <2>0, <2>7, <2>8 DEF OwnEnvelopes, CallOfRun, TypeInv, Calls
  <2>4. HitsCounted'
    BY <1>1, <2>0, <2>7, <2>8 DEF HitsCounted, OwnEnvelopes, TypeInv, Calls, Before
  <2>5. Landed'
    BY <1>1, <2>0, <2>7, <2>8 DEF Landed, OwnEnvelopes, TypeInv, Calls, C, Step
  <2>6. PoolBounded'
    BY <1>1, <2>0, <2>7, <2>8 DEF PoolBounded, OwnEnvelopes, CallOfRun, TypeInv, Calls, InstancesSound, Active, KindOf, Calling
  <2> QED BY <1>2, <2>1, <2>2, <2>3, <2>4, <2>5, <2>6
<1>7. CASE SendError
  <2> USE <1>7 DEF SendError, ledgerVars, ReturnError, Alive
  <2>1. TypeInv'
    BY <1>1 DEF TypeInv, Calls, Before, OwnEnvelopes
  <2>2. CallOfRun'
    BY <1>1 DEF CallOfRun, TypeInv, Calls, C, Step
  <2>3. OwnEnvelopes'
    BY <1>1 DEF OwnEnvelopes, CallOfRun, TypeInv, Calls
  <2>4. HitsCounted'
    BY <1>1 DEF HitsCounted, OwnEnvelopes, TypeInv, Calls, Before
  <2>5. Landed'
    BY <1>1 DEF Landed, OwnEnvelopes, TypeInv, Calls, C, Step
  <2>6. PoolBounded'
    BY <1>1 DEF PoolBounded, OwnEnvelopes, CallOfRun, TypeInv, Calls, InstancesSound, Active, KindOf, Calling
  <2> QED BY <1>2, <2>1, <2>2, <2>3, <2>4, <2>5, <2>6
<1>8. CASE PollSuccess
  <2> USE <1>8 DEF PollSuccess, ledgerVars
  <2>1. TypeInv'
    BY <1>1 DEF TypeInv, Calls, Before
  <2>2. CallOfRun'
    BY <1>1 DEF CallOfRun, TypeInv, Calls, C, Step
  <2>3. OwnEnvelopes'
    BY <1>1 DEF OwnEnvelopes, CallOfRun, TypeInv, Calls
  <2>4. HitsCounted'
    BY <1>1 DEF HitsCounted, OwnEnvelopes, TypeInv, Calls, Before
  <2>5. Landed'
    BY <1>1 DEF Landed, OwnEnvelopes, TypeInv, Calls, C, Step
  <2>6. PoolBounded'
    BY <1>1 DEF PoolBounded, OwnEnvelopes, CallOfRun, TypeInv, Calls, InstancesSound, Active, KindOf, Calling
  <2> QED BY <1>2, <2>1, <2>2, <2>3, <2>4, <2>5, <2>6
<1>9. CASE PollFailed
  <2>0. d.pc = "wait" /\ d.landed \in {"failed", "exceeded"} /\ UNCHANGED pool
    BY <1>9 DEF PollFailed, ledgerVars
  <2>7. /\ d' \in Calls /\ d'.pc \in {"simulate", "err"} /\ d'.op = d.op
        /\ d'.run = d.run /\ d'.hits = d.hits /\ d'.missed = d.missed /\ ~d'.env.late
    BY <1>9, RetryTypes DEF PollFailed, ReturnError, TypeInv, Calls, OwnEnvelopes
  <2>8. \A e \in pool : ~e.mine
    BY <2>0 DEF OwnEnvelopes
  <2>1. TypeInv'
    BY <1>1, <2>0, <2>7, <2>8 DEF TypeInv, Calls, Before
  <2>2. CallOfRun'
    BY <1>1, <2>0, <2>7, <2>8 DEF CallOfRun, TypeInv, Calls, C, Step
  <2>3. OwnEnvelopes'
    BY <1>1, <2>0, <2>7, <2>8 DEF OwnEnvelopes, CallOfRun, TypeInv, Calls
  <2>4. HitsCounted'
    BY <1>1, <2>0, <2>7, <2>8 DEF HitsCounted, OwnEnvelopes, TypeInv, Calls, Before
  <2>5. Landed'
    BY <1>1, <2>0, <2>7, <2>8 DEF Landed, OwnEnvelopes, TypeInv, Calls, C, Step
  <2>6. PoolBounded'
    BY <1>1, <2>0, <2>7, <2>8 DEF PoolBounded, OwnEnvelopes, CallOfRun, TypeInv, Calls, InstancesSound, Active, KindOf, Calling
  <2> QED BY <1>2, <2>1, <2>2, <2>3, <2>4, <2>5, <2>6
<1>10. CASE TimedOut
  <2> DEFINE n == IF ~d.env.restore /\ d.landed = "success" THEN 1 ELSE 0
  <2>0. d.pc = "wait" /\ Retry(n) /\ n \in {0, 1}
    BY <1>10 DEF TimedOut
  <2>7. /\ d' \in Calls
        /\ d'.pc \in {"simulate", "err"} /\ d'.op = d.op /\ d'.run = d.run /\ d'.hits = d.hits
        /\ d'.pc = "simulate" => d'.missed = d.missed + n /\ ~d'.env.late /\ d'.landed = "no"
        /\ d'.pc = "err" => d'.missed = d.missed /\ d'.env = d.env /\ d'.landed = d.landed
    <3> HIDE DEF n
    <3> QED BY <2>0, RetryTypes
  <2>8. ASSUME NEW e \in pool'
        PROVE  \E f \in pool :
                 /\ e \in Envs /\ e.seq = f.seq /\ e.run = f.run /\ e.op = f.op
                 /\ e.mine = f.mine /\ e.late = (f.late \/ f = d.env)
    <3>1. PICK f \in pool : e = [f EXCEPT !.late = @ \/ f = d.env]
      BY <1>10 DEF TimedOut
    <3>2. f \in Envs /\ (f = d.env) \in BOOLEAN
      BY DEF TypeInv
    <3> QED BY <3>1, <3>2 DEF Envs
  <2>9. ASSUME NEW e \in pool'
        PROVE  /\ e.late => e.mine
               /\ e.mine => e.late /\ e.op = d.op /\ d.landed = "no"
    <3>1. PICK f \in pool :
            /\ e.op = f.op /\ e.mine = f.mine /\ e.late = (f.late \/ f = d.env)
      BY <2>8
    <3>2. /\ d.env.mine /\ (f.late => f.mine)
          /\ f.mine => f.op = d.op /\ d.landed = "no"
          /\ f.mine /\ ~f.late => f = d.env
      BY <2>0 DEF OwnEnvelopes
    <3> QED BY <3>1, <3>2
  <2>1. TypeInv'
    BY <1>1, <2>7, <2>8 DEF TypeInv, Calls, Before
  <2>2. CallOfRun'
    BY <1>1, <2>0, <2>7, <2>8 DEF CallOfRun, TypeInv, Calls, C, Step
  <2>3. OwnEnvelopes'
    BY <2>0, <2>7, <2>9 DEF OwnEnvelopes
  <2>4. HitsCounted'
    BY <1>1, <2>0, <2>7, <2>8 DEF HitsCounted, OwnEnvelopes, TypeInv, Calls, Before
  <2>5. Landed'
    BY <1>1, <2>0, <2>7, <2>8 DEF Landed, OwnEnvelopes, TypeInv, Calls, C, Step
  <2>6. PoolBounded'
    BY <1>1, <2>0, <2>7, <2>8 DEF PoolBounded, OwnEnvelopes, CallOfRun, TypeInv, Calls, InstancesSound, Active, KindOf, Calling
  <2> QED BY <1>2, <2>1, <2>2, <2>3, <2>4, <2>5, <2>6
<1>11. CASE CallError
  <2> USE <1>11 DEF CallError, ledgerVars, ReturnError
  <2>1. TypeInv'
    BY <1>1 DEF TypeInv, Calls, Before
  <2>2. CallOfRun'
    BY <1>1 DEF CallOfRun, TypeInv, Calls, C, Step
  <2>3. OwnEnvelopes'
    BY <1>1 DEF OwnEnvelopes, CallOfRun, TypeInv, Calls
  <2>4. HitsCounted'
    BY <1>1 DEF HitsCounted, OwnEnvelopes, TypeInv, Calls, Before
  <2>5. Landed'
    BY <1>1 DEF Landed, OwnEnvelopes, TypeInv, Calls, C, Step
  <2>6. PoolBounded'
    BY <1>1 DEF PoolBounded, OwnEnvelopes, CallOfRun, TypeInv, Calls, InstancesSound, Active, KindOf, Calling
  <2> QED BY <1>2, <2>1, <2>2, <2>3, <2>4, <2>5, <2>6
<1> QED BY <1>3, <1>4, <1>5, <1>6, <1>7, <1>8, <1>9, <1>10, <1>11 DEF Deploying

-----------------------------------------------------------------------------
(* The steps of a run.                                                      *)

LEMMA DisownFacts ==
  ASSUME pool \in SUBSET Envs, NEW e \in Disown
  PROVE  /\ e \in Envs /\ ~e.mine /\ ~e.late
         /\ \E f \in pool : e.seq = f.seq /\ e.run = f.run /\ e.op = f.op
<1>1. PICK f \in pool : e = [f EXCEPT !.mine = FALSE, !.late = FALSE]
  BY DEF Disown
<1>2. f \in Envs
  OBVIOUS
<1> QED BY <1>1, <1>2 DEF Envs

\* A new call: its step, and no envelope of its own yet.
LEMMA InvokeFacts ==
  ASSUME IInv, NEW kind \in Kinds, Invoke(kind), r.i \in Steps
  PROVE  /\ d' \in Calls /\ pool' \in SUBSET Envs
         /\ d'.pc = "simulate" /\ d'.run = r.run /\ d'.hits = 0 /\ d'.missed = 0 /\ ~d'.env.late
         /\ d'.op = [kind |-> kind, c |-> Plan[r.i].c, part |-> Plan[r.i].part]
         /\ \A e \in pool' :
              /\ ~e.mine /\ ~e.late
              /\ \E f \in pool : e.seq = f.seq /\ e.run = f.run /\ e.op = f.op
<1> DEFINE op == [kind |-> kind, c |-> Plan[r.i].c, part |-> Plan[r.i].part]
<1>1. pool' = Disown /\ pool \in SUBSET Envs /\ r.run \in Nat
  BY DEF Invoke, IInv, TypeInv, RunStates
<1>2. \A e \in pool' : /\ e \in Envs /\ ~e.mine /\ ~e.late
                       /\ \E f \in pool : e.seq = f.seq /\ e.run = f.run /\ e.op = f.op
  BY <1>1, DisownFacts
<1>3. d' = [NoCall EXCEPT !.pc = "simulate", !.op = op, !.run = r.run, !.attempt = 1]
  BY DEF Invoke, Call, C, Step
<1>4. op \in Ops
  BY StepFacts DEF Ops
<1> HIDE DEF op
<1>5. d' \in Calls /\ d'.pc = "simulate" /\ d'.run = r.run /\ d'.hits = 0 /\ d'.missed = 0 /\ ~d'.env.late
      /\ d'.op = op
  BY <1>1, <1>3, <1>4 DEF NoCall, NoEnv, Calls, Before
<1> QED BY <1>2, <1>5 DEF op

\* The run goes on to a call of its step.
LEMMA InvokeKeeps ==
  ASSUME IInv, Still, NEW pc \in Calling, Goto(pc), Invoke(KindOf[pc]),
         r.i \in Steps, pc = "config" <=> Step.part # "-", pc = "config" => C \in r.made,
         d.pc \in {"idle", "ok"}, r.pc \in {"step", "owner", "upload"}
  PROVE  IInv'
<1> USE DEF IInv
<1>1. KindOf[pc] \in Kinds
  BY DEF KindOf, Calling, Kinds
<1> DEFINE op == [kind |-> KindOf[pc], c |-> Plan[r.i].c, part |-> Plan[r.i].part]
<1>2. /\ d' \in Calls /\ pool' \in SUBSET Envs
      /\ d'.pc = "simulate" /\ d'.run = r.run /\ d'.hits = 0 /\ d'.missed = 0 /\ ~d'.env.late /\ d'.op = op
      /\ \A e \in pool' :
           /\ ~e.mine /\ ~e.late
           /\ \E f \in pool : e.seq = f.seq /\ e.run = f.run /\ e.op = f.op
  BY <1>1, InvokeFacts
<1> HIDE DEF op
<1>3. /\ UNCHANGED <<acctSeq, contract, refs>> /\ r' \in RunStates
      /\ r'.pc = pc /\ r'.i = r.i /\ r'.run = r.run /\ r'.refs = r.refs /\ r'.made = r.made
  BY DEF Still, Goto, TypeInv, RunStates
<1>4. \A e \in pool : ~e.mine /\ e.run # r.run
  BY DEF OwnEnvelopes, PoolBounded, Active
<1>5. TypeInv'
  BY <1>2, <1>3 DEF TypeInv
<1>6. CallOfRun'
  BY <1>2, <1>3 DEF CallOfRun, C, Step, op, Calling
<1>7. OwnEnvelopes' /\ HitsCounted' /\ Landed'
  BY <1>2 DEF OwnEnvelopes, HitsCounted, Landed, Before
<1>8. PoolBounded'
  BY <1>2, <1>3, <1>4 DEF PoolBounded
<1>9. InstancesSound' /\ RecordedIsOurs'
  BY <1>3 DEF InstancesSound, RecordedIsOurs, Active, Calling
<1>10. ConfiguredSoFar'
  BY <1>3 DEF ConfiguredSoFar, Active, Calling
<1> QED BY <1>5, <1>6, <1>7, <1>8, <1>9, <1>10

\* The run goes on without a call, to `pc` at step `i`.
LEMMA QuietKeeps ==
  ASSUME IInv, NoCallFrame, Active, d.pc \in {"idle", "ok"}, r' \in RunStates,
         r'.pc \in {"step", "owner", "failed"}, r'.run = r.run,
         r'.i \in Steps \union {End},
         r'.pc = "owner" => r'.i \in Steps /\ (Step.part = "-" /\ contract[C].exists)',
         \A c \in r'.made : ~contract[c].tuned,
         \A c \in r'.refs : contract[c].exists /\ contract[c].owner \in {"deployer", "timelock"},
         (r'.pc # "failed" => ConfiguredSoFar')
  PROVE  IInv'
<1> USE DEF IInv
<1>1. UNCHANGED <<d, pool, acctSeq, contract, refs>>
  BY DEF NoCallFrame, Still
<1>2. TypeInv'
  BY <1>1 DEF TypeInv
<1>3. CallOfRun'
  BY <1>1 DEF CallOfRun, C, Step, Calling
<1>4. OwnEnvelopes' /\ HitsCounted'
  BY <1>1 DEF OwnEnvelopes, HitsCounted
<1>5. Landed'
  BY <1>1 DEF Landed
<1>6. PoolBounded'
  BY <1>1 DEF PoolBounded, OwnEnvelopes, Active
<1>7. InstancesSound' /\ RecordedIsOurs'
  BY <1>1 DEF InstancesSound, RecordedIsOurs
<1>8. ConfiguredSoFar'
  BY DEF ConfiguredSoFar, Active
<1> QED BY <1>2, <1>3, <1>4, <1>5, <1>6, <1>7, <1>8

\* The next step: the parts of a step passed are applied, or not this run's business.
LEMMA AdvanceConfigured ==
  ASSUME IInv, Active, UNCHANGED contract, r.i \in Steps,
         r'.i = After(r.i), r'.run = r.run, r.made \subseteq r'.made,
         r.pc = "init" => C \in r'.made,
         Step.part # "-" /\ C \in r.made => Step.part \in contract[C].parts
  PROVE  ConfiguredSoFar'
<1> SUFFICES ASSUME NEW c \in Stack, contract[c].initRun = r.run
             PROVE  /\ c \in r'.made
                    /\ \A j \in DOMAIN Plan :
                         j < r'.i /\ Plan[j].c = c /\ Plan[j].part # "-" =>
                           Plan[j].part \in contract[c].parts
  BY DEF ConfiguredSoFar
<1>1. \/ r.pc = "init" /\ C = c
      \/ /\ c \in r.made
         /\ \A j \in DOMAIN Plan :
              j < r.i /\ Plan[j].c = c /\ Plan[j].part # "-" => Plan[j].part \in contract[c].parts
  BY DEF IInv, ConfiguredSoFar
<1>2. c \in r'.made
  BY <1>1
<1>3. ASSUME NEW j \in DOMAIN Plan, j < r'.i, Plan[j].c = c, Plan[j].part # "-"
      PROVE  Plan[j].part \in contract[c].parts
  <2>1. j \in Steps /\ r.i \in 0 .. 24 /\ j \in Nat /\ r.i \in Nat /\ r.i \in DOMAIN Plan
    BY <1>3, StepFacts DEF Steps
  <2>2. j <= r.i
    BY <1>3, <2>1, AfterFacts
  <2>3. CASE r.pc = "init" /\ C = c
    <3>1. Plan[r.i].c = Plan[j].c /\ Plan[r.i].part = "-"
      BY <1>3, <2>3 DEF IInv, CallOfRun, C, Step, Calling
    <3>2. r.i < j
      BY <1>3, <2>1, <3>1, DeployedFirst
    <3> QED BY <2>1, <2>2, <3>2
  <2>4. CASE ~(r.pc = "init" /\ C = c)
    <3>1. CASE j = r.i
      BY <1>1, <1>3, <2>4, <3>1 DEF C, Step
    <3>2. CASE j # r.i
      <4>1. j < r.i
        BY <2>1, <2>2, <3>2
      <4> QED BY <1>1, <1>3, <2>4, <4>1
    <3> QED BY <3>1, <3>2
  <2> QED BY <2>3, <2>4
<1> QED BY <1>2, <1>3

LEMMA RunSteps ==
  ASSUME IInv, Run
  PROVE  IInv'
<1> USE DEF IInv
<1>1. r \in RunStates /\ r.refs \subseteq Stack
  BY DEF TypeInv, RunStates
<1>2. r.pc \notin Calling => d.pc \in {"idle", "ok"}
  BY DEF CallOfRun
<1>3. ASSUME r.i \in Steps
      PROVE  /\ Step = Plan[r.i] /\ C \in Stack /\ r.i \in 0 .. 24
             /\ After(r.i) \in Steps \union {End} /\ After(r.i) \in Nat
  <2>1. r.i \in 0 .. 24 /\ Plan[r.i].c \in Stack
    BY <1>3, StepFacts
  <2> QED BY <2>1, AfterFacts DEF C, Step
<1>4. /\ Active => \A c \in r.made : ~contract[c].tuned
      /\ \A c \in r.refs : contract[c].exists /\ contract[c].owner \in {"deployer", "timelock"}
  BY DEF InstancesSound, RecordedIsOurs
<1>5. CASE StartRun
  <2>1. /\ UNCHANGED <<acctSeq, contract, refs>> /\ d' = NoCall /\ pool' = Disown
        /\ r' = [pc |-> "step", i |-> After(0), run |-> r.run + 1, refs |-> refs, made |-> {}]
    BY <1>5 DEF StartRun, Still
  <2>2. After(0) \in Steps \union {End} /\ After(0) \in Nat /\ r.run \in Nat
    BY <1>1, AfterFacts DEF RunStates
  <2>3. pool' \in SUBSET Envs /\ \A e \in pool' :
          /\ ~e.mine /\ ~e.late
          /\ \E f \in pool : e.seq = f.seq /\ e.run = f.run /\ e.op = f.op
    BY <2>1, DisownFacts DEF TypeInv
  <2>4. r' \in RunStates /\ NoCall \in Calls
    BY <2>1, <2>2 DEF RunStates, TypeInv, NoCall, Calls
  <2>5. TypeInv' /\ CallOfRun'
    BY <2>1, <2>2, <2>3, <2>4 DEF TypeInv, CallOfRun, NoCall, Calling
  <2>6. OwnEnvelopes' /\ HitsCounted' /\ Landed'
    BY <2>1, <2>3 DEF OwnEnvelopes, HitsCounted, Landed, NoCall, NoEnv
  <2>7. PoolBounded'
    <3> SUFFICES ASSUME NEW e \in pool'
                 PROVE  /\ e.seq <= acctSeq + 1 /\ e.run <= r.run + 1 /\ e.run # r.run + 1
                        /\ e.op.kind = "configure" => ~contract[e.op.c].tuned
      BY <2>1 DEF PoolBounded
    <3>1. PICK f \in pool : e.seq = f.seq /\ e.run = f.run /\ e.op = f.op
      BY <2>3
    <3>2. f.run \in Nat /\ f.run <= r.run
      BY DEF TypeInv, Envs, PoolBounded
    <3> QED BY <2>2, <3>1, <3>2 DEF PoolBounded
  <2>8. \A c \in Components : contract[c].initRun \in Nat /\ contract[c].initRun <= r.run
    BY DEF TypeInv, Instance, InstancesSound
  <2>9. InstancesSound' /\ RecordedIsOurs' /\ ConfiguredSoFar'
    BY <2>1, <2>2, <2>8, StepFacts DEF InstancesSound, RecordedIsOurs, ConfiguredSoFar
  <2> QED BY <2>5, <2>6, <2>7, <2>9
<1>6. CASE Resolve
  <2>1. r.pc = "step" /\ r.i \in Steps /\ Step.part = "-" /\ Still
    BY <1>6 DEF Resolve
  <2>2. CASE (C \in r.refs \/ (contract[C].exists /\ C \notin upgraded)) /\ Goto("owner")
             /\ UNCHANGED <<d, pool>>
    <3>1. contract[C].exists
      BY <1>4, <2>2
    <3>2. r' \in RunStates /\ r' = [r EXCEPT !.pc = "owner"]
      BY <1>1, <2>2 DEF Goto, RunStates
    <3>3. ConfiguredSoFar' /\ (Step.part = "-" /\ contract[C].exists)'
      BY <1>1, <2>1, <3>1, <3>2 DEF ConfiguredSoFar, Still, Active, C, Step, RunStates
    <3> QED BY <1>1, <1>2, <1>4, <2>1, <2>2, <3>2, <3>3, QuietKeeps
            DEF NoCallFrame, Active, RunStates, Calling
  <2>3. CASE Fail /\ UNCHANGED <<d, pool>>
    <3>1. r' \in RunStates /\ r' = [r EXCEPT !.pc = "failed"]
      BY <1>1, <2>3 DEF Fail, Goto, RunStates
    <3> QED BY <1>1, <1>2, <1>4, <2>1, <2>3, <3>1, QuietKeeps
            DEF NoCallFrame, Active, RunStates, Calling
  <2>4. CASE Goto("upload") /\ Invoke("upload")
    BY <1>2, <2>1, <2>4, InvokeKeeps DEF Calling, KindOf
  <2> QED BY <1>6, <2>2, <2>3, <2>4 DEF Resolve
<1>7. CASE Uploaded
  <2>1. r.pc = "upload" /\ r.i \in Steps /\ Step.part = "-" /\ Still /\ d.pc = "ok"
        /\ Goto("create") /\ Invoke("create")
    BY <1>7 DEF Uploaded, CallOfRun, Calling
  <2> QED BY <2>1, InvokeKeeps DEF Calling, KindOf
<1>8. CASE Created
  <2>1. /\ r.pc = "create" /\ r.i \in Steps /\ Step.part = "-" /\ NoCallFrame /\ d.pc = "ok"
        /\ r' = [r EXCEPT !.pc = "owner", !.made = @ \union {C}]
    BY <1>8 DEF Created, CallOfRun, Calling
  <2>2. contract[C].exists /\ ~contract[C].tuned
    BY <2>1 DEF Landed, OwnEnvelopes
  <2>3. r' \in RunStates
    BY <1>1, <1>3, <2>1 DEF RunStates
  <2>4. ConfiguredSoFar' /\ (Step.part = "-" /\ contract[C].exists)'
    BY <1>1, <2>1, <2>2 DEF ConfiguredSoFar, NoCallFrame, Still, Active, C, Step, RunStates
  <2>5. r'.pc = "owner" /\ r'.i = r.i /\ r'.run = r.run /\ r'.refs = r.refs
        /\ r'.made = r.made \union {C}
    BY <1>1, <2>1 DEF RunStates
  <2> QED BY <1>4, <2>1, <2>2, <2>3, <2>4, <2>5, QuietKeeps DEF Active
<1>9. CASE ReadOwner
  <2>1. r.pc = "owner" /\ r.i \in Steps /\ Step.part = "-" /\ Still /\ contract[C].exists
        /\ d.pc \in {"idle", "ok"}
    BY <1>2, <1>9 DEF ReadOwner, CallOfRun, Calling
  <2>2. CASE Goto("init") /\ Invoke("initialize")
    BY <2>1, <2>2, InvokeKeeps DEF Calling, KindOf
  <2>3. CASE /\ C \in r.refs \/ contract[C].owner = "deployer"
             /\ Advance([r EXCEPT !.refs = @ \union {C}]) /\ UNCHANGED <<d, pool>>
    <3>1. /\ r'.pc = "step" /\ r'.i = After(r.i) /\ r'.run = r.run /\ r'.made = r.made
          /\ r'.refs = r.refs \union {C} /\ r' \in RunStates
      BY <1>1, <1>3, <2>1, <2>3 DEF Advance, RunStates
    <3>2. ConfiguredSoFar'
      BY <2>1, <3>1, AdvanceConfigured DEF Active, Still
    <3> QED BY <1>3, <1>4, <2>1, <2>3, <3>1, <3>2, QuietKeeps DEF NoCallFrame, Active
  <2>4. CASE Fail /\ UNCHANGED <<d, pool>>
    <3>1. r' \in RunStates /\ r' = [r EXCEPT !.pc = "failed"]
      BY <1>1, <2>4 DEF Fail, Goto, RunStates
    <3> QED BY <1>1, <1>4, <2>1, <2>4, <3>1, QuietKeeps DEF NoCallFrame, Active, RunStates
  <2> QED BY <1>9, <2>2, <2>3, <2>4 DEF ReadOwner
<1>10. CASE Initialized
  <2>1. /\ r.pc = "init" /\ r.i \in Steps /\ Step.part = "-" /\ NoCallFrame /\ d.pc = "ok"
        /\ Advance([r EXCEPT !.refs = @ \union {C}, !.made = @ \union {C}])
    BY <1>10 DEF Initialized, CallOfRun, Calling
  <2>2. /\ contract[C].exists /\ ~contract[C].tuned
        /\ contract[C].owner \in {"deployer", "timelock"}
    BY <2>1 DEF Landed, OwnEnvelopes
  <2>3. /\ r'.pc = "step" /\ r'.i = After(r.i) /\ r'.run = r.run
        /\ r'.made = r.made \union {C} /\ r'.refs = r.refs \union {C} /\ r' \in RunStates
    BY <1>1, <1>3, <2>1 DEF Advance, RunStates
  <2>4. ConfiguredSoFar'
    BY <2>1, <2>3, AdvanceConfigured DEF Active, NoCallFrame, Still
  <2> QED BY <1>3, <1>4, <2>1, <2>2, <2>3, <2>4, QuietKeeps DEF Active
<1>11. CASE ConfigureStep
  <2>1. r.pc = "step" /\ r.i \in Steps /\ Step.part # "-" /\ Still /\ d.pc \in {"idle", "ok"}
    BY <1>2, <1>11 DEF ConfigureStep, Calling
  <2>2. CASE C \in r.made /\ Goto("config") /\ Invoke("configure")
    BY <2>1, <2>2, InvokeKeeps DEF Calling, KindOf
  <2>3. CASE C \notin r.made /\ Advance(r) /\ UNCHANGED <<d, pool>>
    <3>1. /\ r'.pc = "step" /\ r'.i = After(r.i) /\ r'.run = r.run /\ r'.made = r.made
          /\ r'.refs = r.refs /\ r' \in RunStates
      BY <1>1, <1>3, <2>1, <2>3 DEF Advance, RunStates
    <3>2. ConfiguredSoFar'
      BY <2>1, <2>3, <3>1, AdvanceConfigured DEF Active, Still
    <3> QED BY <1>3, <1>4, <2>1, <2>3, <3>1, <3>2, QuietKeeps DEF NoCallFrame, Active
  <2> QED BY <1>11, <2>2, <2>3 DEF ConfigureStep
<1>12. CASE Configured
  <2>1. /\ r.pc = "config" /\ r.i \in Steps /\ NoCallFrame /\ d.pc = "ok" /\ Advance(r)
        /\ Step.part \in contract[C].parts
    BY <1>12 DEF Configured, CallOfRun, Calling, Landed, OwnEnvelopes
  <2>2. /\ r'.pc = "step" /\ r'.i = After(r.i) /\ r'.run = r.run /\ r'.made = r.made
        /\ r'.refs = r.refs /\ r' \in RunStates
    BY <1>1, <1>3, <2>1 DEF Advance, RunStates
  <2>3. ConfiguredSoFar'
    BY <2>1, <2>2, AdvanceConfigured DEF Active, NoCallFrame, Still
  <2> QED BY <1>3, <1>4, <2>1, <2>2, <2>3, QuietKeeps DEF Active
<1>13. CASE RunFails
  <2>1. /\ UNCHANGED <<acctSeq, contract, refs>> /\ d' = NoCall /\ pool' = Disown
        /\ r' \in RunStates /\ r'.pc = "failed" /\ r'.i = r.i /\ r'.run = r.run
        /\ r'.refs = r.refs /\ r'.made = r.made
    BY <1>1, <1>13 DEF RunFails, Still, Fail, Goto, RunStates
  <2>2. pool' \in SUBSET Envs /\ \A e \in pool' :
          /\ ~e.mine /\ ~e.late
          /\ \E f \in pool : e.seq = f.seq /\ e.run = f.run /\ e.op = f.op
    BY <2>1, DisownFacts DEF TypeInv
  <2>3. NoCall \in Calls
    BY DEF NoCall, Calls
  <2>4. TypeInv' /\ CallOfRun'
    BY <2>1, <2>2, <2>3 DEF TypeInv, CallOfRun, NoCall, Calling
  <2>5. OwnEnvelopes' /\ HitsCounted' /\ Landed'
    BY <2>1, <2>2 DEF OwnEnvelopes, HitsCounted, Landed, NoCall, NoEnv
  <2>6. PoolBounded'
    BY <2>1, <2>2 DEF PoolBounded
  <2>7. InstancesSound' /\ RecordedIsOurs' /\ ConfiguredSoFar'
    BY <2>1 DEF InstancesSound, RecordedIsOurs, ConfiguredSoFar, Active
  <2> QED BY <2>4, <2>5, <2>6, <2>7
<1>14. CASE Finish
  <2>1. /\ UNCHANGED <<d, pool, acctSeq, contract>> /\ refs' = r.refs
        /\ r.pc = "step" /\ r.i = End
        /\ r' \in RunStates /\ r'.pc = "done" /\ r'.i = r.i /\ r'.run = r.run
        /\ r'.refs = r.refs /\ r'.made = r.made
    BY <1>1, <1>14 DEF Finish, Goto, RunStates
  <2>2. TypeInv' /\ CallOfRun'
    BY <1>1, <2>1 DEF TypeInv, CallOfRun, Calling
  <2>3. OwnEnvelopes' /\ HitsCounted' /\ Landed'
    BY <2>1 DEF OwnEnvelopes, HitsCounted, Landed
  <2>4. PoolBounded'
    BY <2>1 DEF PoolBounded
  <2>5. InstancesSound' /\ RecordedIsOurs' /\ ConfiguredSoFar'
    BY <2>1 DEF InstancesSound, RecordedIsOurs, ConfiguredSoFar, Active
  <2> QED BY <2>2, <2>3, <2>4, <2>5
<1> QED BY <1>5, <1>6, <1>7, <1>8, <1>9, <1>10, <1>11, <1>12, <1>13, <1>14 DEF Run

-----------------------------------------------------------------------------
(* The network and the others.                                               *)

\* What an instance on the ledger never loses.
Kept(c) ==
  /\ contract[c].exists => contract'[c].exists
  /\ contract[c].owner \in {"deployer", "timelock"} =>
       contract'[c].owner \in {"deployer", "timelock"}
  /\ contract'[c].owner # "none" => contract'[c].exists
  /\ contract'[c].tuned => contract'[c].owner # "none"
  /\ contract[c].parts \subseteq contract'[c].parts

\* An envelope takes effect.
LEMMA ApplyFacts ==
  ASSUME IInv, NEW op \in Ops, NEW run \in Nat, Applies(op), Apply(op, run)
  PROVE  /\ contract' \in [Components -> Instance]
         /\ \A c \in Components : Kept(c) /\ contract'[c].tuned \in {contract[c].tuned, FALSE}
         /\ \A c \in Components : c # op.c \/ op.kind # "configure" =>
              contract'[c].tuned = contract[c].tuned
         /\ \A c \in Components : c # op.c \/ op.kind # "initialize" =>
              contract'[c].initRun = contract[c].initRun
         /\ op.kind = "create" => contract'[op.c].exists /\ ~contract'[op.c].tuned
         /\ op.kind = "initialize" => /\ contract'[op.c].exists /\ ~contract'[op.c].tuned
                                      /\ contract'[op.c].owner = "deployer"
                                      /\ contract'[op.c].initRun = run
         /\ op.kind = "configure" => op.part \in contract'[op.c].parts
<1> USE DEF IInv
<1>1. op.c \in Components /\ op.kind \in Kinds /\ op.part \in Parts \union {"-"}
  BY StepFacts DEF Ops
<1>2. contract \in [Components -> Instance] /\ contract[op.c] \in Instance
  BY <1>1 DEF TypeInv
<1>3. \A c \in Components :
        /\ contract[c].owner # "none" => contract[c].exists
        /\ contract[c].tuned => contract[c].owner # "none"
  BY DEF InstancesSound
<1> DEFINE k == contract[op.c]
<1>8. /\ k.owner # "none" => k.exists
      /\ k.tuned => k.owner # "none"
  BY <1>1, <1>3
<1>4. CASE op.kind = "upload"
  <2> DEFINE new == k
  <2>1. contract' = [contract EXCEPT ![op.c] = new]
    BY <1>2, <1>4 DEF Apply
  <2>3. /\ new \in Instance /\ new.exists = k.exists /\ new.owner = k.owner
        /\ new.parts = k.parts /\ new.tuned = k.tuned /\ new.initRun = k.initRun
    BY <1>1, <1>2 DEF Instance
  <2> HIDE DEF new
  <2>4. /\ contract' \in [Components -> Instance] /\ contract'[op.c] = new
        /\ \A c \in Components : c # op.c => contract'[c] = contract[c]
    BY <1>1, <1>2, <2>1, <2>3
  <2>5. \A c \in Components : c # op.c => Kept(c)
    <3> SUFFICES ASSUME NEW c \in Components, c # op.c PROVE Kept(c)
      OBVIOUS
    <3>1. contract'[c] = contract[c]
      BY <2>4
    <3>2. /\ contract[c].owner # "none" => contract[c].exists
          /\ contract[c].tuned => contract[c].owner # "none"
      BY <1>3
    <3> QED BY <3>1, <3>2 DEF Kept
  <2>6. Kept(op.c)
    BY <1>8, <2>3, <2>4 DEF Kept
  <2> QED BY <1>1, <1>2, <1>8, <1>4, <2>3, <2>4, <2>5, <2>6 DEF Instance
<1>5. CASE op.kind = "create"
  <2> DEFINE new == [k EXCEPT !.exists = TRUE]
  <2>1. contract' = [contract EXCEPT ![op.c] = new]
    BY <1>2, <1>5 DEF Apply
  <2>2. ~k.exists
    BY <1>5 DEF Applies
  <2>3. /\ new \in Instance /\ new.exists = TRUE /\ new.owner = k.owner
        /\ new.parts = k.parts /\ new.tuned = k.tuned /\ new.initRun = k.initRun
    BY <1>1, <1>2 DEF Instance
  <2> HIDE DEF new
  <2>4. /\ contract' \in [Components -> Instance] /\ contract'[op.c] = new
        /\ \A c \in Components : c # op.c => contract'[c] = contract[c]
    BY <1>1, <1>2, <2>1, <2>3
  <2>5. \A c \in Components : c # op.c => Kept(c)
    <3> SUFFICES ASSUME NEW c \in Components, c # op.c PROVE Kept(c)
      OBVIOUS
    <3>1. contract'[c] = contract[c]
      BY <2>4
    <3>2. /\ contract[c].owner # "none" => contract[c].exists
          /\ contract[c].tuned => contract[c].owner # "none"
      BY <1>3
    <3> QED BY <3>1, <3>2 DEF Kept
  <2>6. Kept(op.c)
    BY <1>8, <2>2, <2>3, <2>4 DEF Kept
  <2> QED BY <1>1, <1>2, <1>8, <1>5, <2>2, <2>3, <2>4, <2>5, <2>6 DEF Instance
<1>6. CASE op.kind = "initialize"
  <2> DEFINE new == [k EXCEPT !.owner = "deployer", !.initRun = run]
  <2>1. contract' = [contract EXCEPT ![op.c] = new]
    BY <1>2, <1>6 DEF Apply
  <2>2. k.exists /\ k.owner = "none"
    BY <1>6 DEF Applies
  <2>3. /\ new \in Instance /\ new.exists = k.exists /\ new.owner = "deployer"
        /\ new.parts = k.parts /\ new.tuned = k.tuned /\ new.initRun = run
    BY <1>1, <1>2 DEF Instance
  <2> HIDE DEF new
  <2>4. /\ contract' \in [Components -> Instance] /\ contract'[op.c] = new
        /\ \A c \in Components : c # op.c => contract'[c] = contract[c]
    BY <1>1, <1>2, <2>1, <2>3
  <2>5. \A c \in Components : c # op.c => Kept(c)
    <3> SUFFICES ASSUME NEW c \in Components, c # op.c PROVE Kept(c)
      OBVIOUS
    <3>1. contract'[c] = contract[c]
      BY <2>4
    <3>2. /\ contract[c].owner # "none" => contract[c].exists
          /\ contract[c].tuned => contract[c].owner # "none"
      BY <1>3
    <3> QED BY <3>1, <3>2 DEF Kept
  <2>6. Kept(op.c)
    BY <1>8, <2>2, <2>3, <2>4 DEF Kept
  <2> QED BY <1>1, <1>2, <1>8, <1>6, <2>2, <2>3, <2>4, <2>5, <2>6 DEF Instance
<1>7. CASE op.kind = "configure"
  <2> DEFINE new == [k EXCEPT !.parts = k.parts \union {op.part}, !.tuned = FALSE]
  <2>1. contract' = [contract EXCEPT ![op.c] = new]
    BY <1>2, <1>7 DEF Apply
  <2>2. k.exists /\ k.owner = "deployer"
    BY <1>7 DEF Applies
  <2>3. /\ new \in Instance /\ new.exists = k.exists /\ new.owner = k.owner
        /\ new.parts = k.parts \union {op.part} /\ new.tuned = FALSE /\ new.initRun = k.initRun
    BY <1>1, <1>2 DEF Instance
  <2> HIDE DEF new
  <2>4. /\ contract' \in [Components -> Instance] /\ contract'[op.c] = new
        /\ \A c \in Components : c # op.c => contract'[c] = contract[c]
    BY <1>1, <1>2, <2>1, <2>3
  <2>5. \A c \in Components : c # op.c => Kept(c)
    <3> SUFFICES ASSUME NEW c \in Components, c # op.c PROVE Kept(c)
      OBVIOUS
    <3>1. contract'[c] = contract[c]
      BY <2>4
    <3>2. /\ contract[c].owner # "none" => contract[c].exists
          /\ contract[c].tuned => contract[c].owner # "none"
      BY <1>3
    <3> QED BY <3>1, <3>2 DEF Kept
  <2>6. Kept(op.c)
    BY <1>8, <2>2, <2>3, <2>4 DEF Kept
  <2> QED BY <1>1, <1>2, <1>8, <1>7, <2>2, <2>3, <2>4, <2>5, <2>6 DEF Instance
<1> QED BY <1>1, <1>4, <1>5, <1>6, <1>7 DEF Kinds

LEMMA IncludeKeeps ==
  ASSUME IInv, NEW e \in pool, Include(e), UNCHANGED runVars
  PROVE  /\ IInv'
         /\ \A c \in Stack : contract[c].tuned => contract'[c].tuned
<1> USE DEF IInv
<1>1. e \in Envs /\ UNCHANGED <<r, refs>> /\ acctSeq \in Nat /\ e.seq = acctSeq + 1
      /\ acctSeq' = acctSeq + 1 /\ pool' = {f \in pool : f.seq > e.seq}
  BY DEF TypeInv, Include, runVars
<1>2. pool' = {}
  <2>1. \A f \in pool : f.seq \in Nat /\ f.seq <= acctSeq + 1
    BY DEF TypeInv, Envs, PoolBounded
  <2> QED BY <1>1, <2>1
<1>3. PICK result \in {"success", "failed", "exceeded"} :
        /\ result = "success" => e.restore \/ Applies(e.op)
        /\ IF result = "success" /\ ~e.restore
             THEN Apply(e.op, e.run) ELSE UNCHANGED <<wasm, contract>>
        /\ d' = [d EXCEPT
             !.landed = IF e = d.env THEN result ELSE @,
             !.hits = IF e.mine /\ ~e.restore /\ result = "success" THEN @ + 1 ELSE @,
             !.missed = IF e.late /\ ~e.restore /\ result = "success" THEN @ + 1 ELSE @]
  BY DEF Include
<1> DEFINE applied == result = "success" /\ ~e.restore
<1>4. /\ d' \in Calls /\ d'.pc = d.pc /\ d'.op = d.op /\ d'.run = d.run /\ d'.env = d.env
      /\ d'.missed = IF e.late /\ applied THEN d.missed + 1 ELSE d.missed
      /\ d'.landed = IF e = d.env THEN result ELSE d.landed
      /\ d'.hits = IF e.mine /\ applied THEN d.hits + 1 ELSE d.hits
  <2>1. d \in Calls /\ d.hits + 1 \in Nat /\ d.hits \in Nat /\ d.missed + 1 \in Nat
    BY DEF TypeInv, Calls
  <2> QED BY <1>3, <2>1, ZenonT(60) DEF Calls
<1>5. e.op \in Ops /\ e.run \in Nat /\ e.op.c \in Components /\ e.mine \in BOOLEAN
      /\ e.late \in BOOLEAN /\ Stack \subseteq Components
  BY <1>1, StepFacts DEF Envs, Ops
<1>6. contract \in [Components -> Instance]
      /\ \A c \in Components : /\ contract[c].owner # "none" => contract[c].exists
                               /\ contract[c].tuned => contract[c].owner # "none"
  BY DEF TypeInv, InstancesSound
<1>7. /\ contract' \in [Components -> Instance]
      /\ \A c \in Components : Kept(c)
      /\ \A c \in Components : contract'[c].tuned => contract[c].tuned
      /\ \A c \in Components :
           \/ contract'[c].initRun = contract[c].initRun
           \/ c = e.op.c /\ e.op.kind = "initialize" /\ contract'[c].initRun = e.run
      /\ \A c \in Components :
           contract[c].tuned => contract'[c].tuned \/ (c = e.op.c /\ e.op.kind = "configure")
  <2>1. CASE applied
    <3>1. Applies(e.op) /\ Apply(e.op, e.run)
      BY <1>3, <2>1
    <3>2. /\ contract' \in [Components -> Instance]
          /\ \A c \in Components :
               Kept(c) /\ contract'[c].tuned \in {contract[c].tuned, FALSE}
          /\ \A c \in Components : c # e.op.c \/ e.op.kind # "configure" =>
               contract'[c].tuned = contract[c].tuned
          /\ \A c \in Components : c # e.op.c \/ e.op.kind # "initialize" =>
               contract'[c].initRun = contract[c].initRun
          /\ e.op.kind = "initialize" => contract'[e.op.c].initRun = e.run
      BY <1>5, <3>1, ApplyFacts
    <3>3. \A c \in Components : contract'[c].tuned => contract[c].tuned
      BY <3>2
    <3>4. \A c \in Components :
            contract[c].tuned => contract'[c].tuned \/ (c = e.op.c /\ e.op.kind = "configure")
      BY <3>2
    <3> QED BY <3>2, <3>3, <3>4
  <2>2. CASE ~applied
    <3>1. contract' = contract
      BY <1>3, <2>2
    <3> QED BY <1>6, <3>1 DEF Kept
  <2> QED BY <2>1, <2>2
<1>8. applied =>
        /\ e.op.kind = "create" => contract'[e.op.c].exists /\ ~contract'[e.op.c].tuned
        /\ e.op.kind = "initialize" => /\ contract'[e.op.c].exists /\ ~contract'[e.op.c].tuned
                                       /\ contract'[e.op.c].owner = "deployer"
        /\ e.op.kind = "configure" => e.op.part \in contract'[e.op.c].parts
  BY <1>3, <1>5, ApplyFacts
<1>9. /\ e.late => e.mine /\ e # d.env
      /\ e.mine => e.op = d.op /\ d.pc \notin {"idle", "ok"} /\ d.landed = "no"
      /\ e.mine /\ ~e.late => e = d.env /\ d.pc \in {"wait", "err"}
  BY DEF OwnEnvelopes
<1>10. d.pc \in {"send", "wait", "ok"} => (e = d.env <=> e.mine /\ ~e.late)
  BY <1>9 DEF OwnEnvelopes
<1> HIDE DEF applied
<1>11. TypeInv'
  BY <1>1, <1>2, <1>4, <1>7 DEF TypeInv
<1>12. r.pc \in Calling \union {"owner"} => C \in Components /\ C = C' /\ Step = Step'
  BY <1>1, StepFacts DEF CallOfRun, C, Step
<1>13. CallOfRun'
  <2>1. r.pc = "owner" => contract'[C].exists
    BY <1>7, <1>12 DEF CallOfRun, Kept
  <2> QED BY <1>1, <1>4, <2>1 DEF CallOfRun, C, Step
<1>14. OwnEnvelopes'
  <2>1. d.env \in Envs => d.env.seq \in Nat
    BY DEF Envs
  <2> QED BY <1>1, <1>2, <1>4, <1>9, <1>10, <2>1 DEF OwnEnvelopes
<1>15. HitsCounted'
  <2>1. d.hits \in Nat /\ d.missed \in Nat
    BY DEF TypeInv, Calls
  <2>2. CASE e.mine
    BY <1>2, <1>4, <1>9, <2>1, <2>2 DEF HitsCounted, Before, applied
  <2>3. CASE ~e.mine
    BY <1>2, <1>4, <1>10, <2>1, <2>3 DEF HitsCounted, Before
  <2> QED BY <1>5, <2>2, <2>3
<1>16. Landed'
  <2> SUFFICES ASSUME d.pc \in {"wait", "ok"}, d'.landed = "success", ~d.env.restore
               PROVE
        /\ r.pc = "create" => contract'[C].exists /\ ~contract'[C].tuned
        /\ r.pc = "init" => /\ contract'[C].exists /\ ~contract'[C].tuned
                            /\ contract'[C].owner \in {"deployer", "timelock"}
        /\ r.pc = "config" => Step.part \in contract'[C].parts
    BY <1>1, <1>4 DEF Landed, C, Step
  <2>1. CASE e = d.env
    <3>1. applied /\ e.op = d.op
      BY <1>4, <1>9, <1>10, <2>1 DEF applied
    <3>2. r.pc \in Calling => e.op.kind = KindOf[r.pc] /\ e.op.c = C /\ e.op.part = Step.part
      BY <3>1 DEF CallOfRun
    <3> QED BY <1>8, <3>1, <3>2 DEF KindOf, Calling
  <2>2. CASE e # d.env
    <3>1. d.landed = "success"
      BY <1>4, <2>2
    <3> QED BY <1>7, <1>12, <3>1 DEF Landed, Kept, Calling
  <2> QED BY <2>1, <2>2
<1>17. PoolBounded'
  BY <1>2 DEF PoolBounded
<1>18. InstancesSound'
  <2>1. e.run <= r.run
    BY DEF PoolBounded
  <2>2. \A c \in Components : contract'[c].initRun <= r.run
    BY <1>7, <2>1 DEF InstancesSound
  <2>3. Active => \A c \in r.made : ~contract'[c].tuned
    <3>1. r.made \subseteq Components
      BY <1>5 DEF TypeInv, RunStates
    <3> QED BY <1>7, <3>1 DEF InstancesSound
  <2> QED BY <1>1, <1>7, <2>2, <2>3 DEF InstancesSound, Kept, Active
<1>19. RecordedIsOurs'
  <2>1. refs \union r.refs \subseteq Components
    BY <1>5 DEF TypeInv, RunStates
  <2> QED BY <1>1, <1>7, <2>1 DEF RecordedIsOurs, Kept
<1>20. ConfiguredSoFar'
  <2> SUFFICES ASSUME Active \/ r.pc = "done", NEW c \in Stack, contract'[c].initRun = r.run
               PROVE
        \/ r.pc = "init" /\ C = c
        \/ /\ c \in r.made
           /\ \A j \in DOMAIN Plan :
                j < r.i /\ Plan[j].c = c /\ Plan[j].part # "-" =>
                  Plan[j].part \in contract'[c].parts
    BY <1>1 DEF ConfiguredSoFar, Active, C, Step
  <2>1. c \in Components
    BY <1>5
  <2>2. CASE contract'[c].initRun = contract[c].initRun
    BY <1>7, <2>1, <2>2 DEF ConfiguredSoFar, Kept
  <2>3. CASE c = e.op.c /\ e.op.kind = "initialize" /\ contract'[c].initRun = e.run
    <3>1. e.mine
      BY <2>3 DEF PoolBounded, Active
    <3>2. r.pc \in Calling /\ d.op = [kind |-> KindOf[r.pc], c |-> C, part |-> Step.part]
      BY <1>9, <3>1 DEF CallOfRun
    <3> QED BY <1>9, <2>3, <3>1, <3>2 DEF KindOf, Calling
  <2> QED BY <1>7, <2>1, <2>2, <2>3
<1>21. \A c \in Stack : contract[c].tuned => contract'[c].tuned
  BY <1>5, <1>7 DEF PoolBounded
<1> QED BY <1>11, <1>13, <1>14, <1>15, <1>16, <1>17, <1>18, <1>19, <1>20, <1>21

\* An envelope is dropped.
LEMMA ExpireKeeps ==
  ASSUME IInv, NEW e \in pool, Expire(e), UNCHANGED runVars
  PROVE  IInv'
<1> USE DEF IInv
<1>1. UNCHANGED <<d, acctSeq, contract, r, refs>> /\ pool' \subseteq pool
  BY DEF Expire, runVars
<1>2. TypeInv' /\ CallOfRun'
  BY <1>1 DEF TypeInv, CallOfRun, C, Step
<1>3. OwnEnvelopes' /\ HitsCounted'
  BY <1>1 DEF OwnEnvelopes, HitsCounted
<1>4. Landed' /\ PoolBounded'
  BY <1>1 DEF Landed, PoolBounded, C, Step
<1>5. InstancesSound' /\ RecordedIsOurs' /\ ConfiguredSoFar'
  BY <1>1 DEF InstancesSound, RecordedIsOurs, ConfiguredSoFar, Active, C, Step
<1> QED BY <1>2, <1>3, <1>4, <1>5

\* The operator's transactions kill what the network still holds of the deployer's.
LEMMA OperatorKills ==
  ASSUME IInv, OperatorTransaction
  PROVE  pool' = {} /\ acctSeq \in Nat /\ acctSeq' = acctSeq + 1
<1>1. \A f \in pool : f.seq \in Nat /\ f.seq <= acctSeq + 1
  BY DEF IInv, TypeInv, Envs, PoolBounded
<1> QED BY <1>1 DEF OperatorTransaction, IInv, TypeInv

LEMMA OtherSteps ==
  ASSUME IInv, NEW c0 \in Stack,
         Tune(c0) \/ HandOver(c0) \/ Upgrade(c0) \/ ForeignInitialize(c0)
  PROVE  /\ IInv'
         /\ \A c \in Stack : contract[c].tuned => contract'[c].tuned
<1> USE DEF IInv
<1>1. UNCHANGED <<d, r, refs>>
  BY DEF Tune, HandOver, Upgrade, ForeignInitialize, runVars
<1>2. c0 \in Components /\ Stack \subseteq Components /\ contract \in [Components -> Instance]
      /\ contract[c0] \in Instance
  BY StepFacts DEF TypeInv
<1>3. \A c \in Components :
        /\ contract[c].owner # "none" => contract[c].exists
        /\ contract[c].tuned => contract[c].owner # "none"
        /\ contract[c].initRun <= r.run
  BY DEF InstancesSound
<1>4. CASE (Tune(c0) \/ HandOver(c0) \/ Upgrade(c0)) /\ ~Active
  <2>1. pool' = {} /\ acctSeq \in Nat /\ acctSeq' = acctSeq + 1
    BY <1>4, OperatorKills DEF Tune, HandOver, Upgrade
  <2>2. /\ contract' \in [Components -> Instance]
        /\ \A c \in Components : Kept(c) /\ contract'[c].initRun = contract[c].initRun
        /\ \A c \in Components : contract[c].tuned => contract'[c].tuned
    <3>1. CASE Tune(c0)
      <4>1. contract' = [contract EXCEPT ![c0].tuned = TRUE] /\ contract[c0].owner = "deployer"
        BY <3>1 DEF Tune
      <4> QED BY <1>2, <1>3, <4>1 DEF Kept, Instance
    <3>2. CASE HandOver(c0)
      <4>1. contract' = [contract EXCEPT ![c0].owner = "timelock"]
            /\ contract[c0].owner = "deployer"
        BY <3>2 DEF HandOver
      <4> QED BY <1>2, <1>3, <4>1 DEF Kept, Instance
    <3>3. CASE Upgrade(c0)
      BY <1>2, <1>3, <3>3 DEF Upgrade, Kept
    <3> QED BY <1>4, <3>1, <3>2, <3>3
  <2>3. r.pc \in {"idle", "failed", "done"}
    BY <1>4 DEF Active
  <2>4. TypeInv'
    BY <1>1, <2>1, <2>2 DEF TypeInv
  <2>5. CallOfRun'
    BY <1>1, <2>3 DEF CallOfRun, Calling
  <2>6. OwnEnvelopes'
    <3>1. d.env \in Envs => d.env.seq \in Nat
      BY DEF Envs
    <3> QED BY <1>1, <2>1, <3>1 DEF OwnEnvelopes
  <2>7. HitsCounted' /\ Landed' /\ PoolBounded'
    BY <1>1, <2>1, <2>3 DEF HitsCounted, Landed, PoolBounded
  <2>8. InstancesSound'
    BY <1>1, <1>3, <2>2, <2>3 DEF InstancesSound, Kept, Active
  <2>9. RecordedIsOurs'
    <3>1. refs \union r.refs \subseteq Components
      BY <1>2 DEF TypeInv, RunStates
    <3> QED BY <1>1, <2>2, <3>1 DEF RecordedIsOurs, Kept
  <2>10. ConfiguredSoFar'
    BY <1>1, <1>2, <2>2, <2>3 DEF ConfiguredSoFar, Kept, Active
  <2> QED BY <1>2, <2>2, <2>4, <2>5, <2>6, <2>7, <2>8, <2>9, <2>10
<1>5. CASE ForeignInitialize(c0)
  <2>1. /\ UNCHANGED <<acctSeq, pool>> /\ contract' = [contract EXCEPT ![c0].owner = "other"]
        /\ contract[c0].exists /\ contract[c0].owner = "none"
    BY <1>5 DEF ForeignInitialize
  <2>2. /\ contract' \in [Components -> Instance]
        /\ \A c \in Components :
             /\ contract'[c].exists = contract[c].exists
             /\ contract'[c].tuned = contract[c].tuned
             /\ contract'[c].parts = contract[c].parts
             /\ contract'[c].initRun = contract[c].initRun
             /\ contract[c].owner # "none" => contract'[c].owner = contract[c].owner
    BY <1>2, <2>1 DEF Instance
  <2>3. \A c \in Components : contract'[c].owner # "none" => contract'[c].exists
    BY <1>2, <1>3, <2>1, <2>2
  <2>4. TypeInv'
    BY <1>1, <2>1, <2>2 DEF TypeInv
  <2>5. r.pc \in Calling \union {"owner"} => C \in Components /\ C = C' /\ Step = Step'
    BY <1>1, <1>2, StepFacts DEF CallOfRun, C, Step
  <2>6. CallOfRun'
    <3>1. r.pc = "owner" => contract'[C].exists
      BY <2>2, <2>5 DEF CallOfRun
    <3> QED BY <1>1, <3>1 DEF CallOfRun, C, Step
  <2>7. OwnEnvelopes' /\ HitsCounted'
    BY <1>1, <2>1 DEF OwnEnvelopes, HitsCounted
  <2>8. Landed'
    BY <1>1, <2>2, <2>5 DEF Landed, Calling
  <2>9. PoolBounded'
    <3>1. \A e \in pool : e.op.c \in Components
      BY <1>2 DEF TypeInv, Envs, Ops
    <3> QED BY <1>1, <2>1, <2>2, <3>1 DEF PoolBounded
  <2>10. InstancesSound'
    <3>1. r.made \subseteq Components
      BY <1>2 DEF TypeInv, RunStates
    <3> QED BY <1>1, <1>3, <2>2, <2>3, <3>1 DEF InstancesSound, Active
  <2>11. RecordedIsOurs'
    <3>1. refs \union r.refs \subseteq Components
      BY <1>2 DEF TypeInv, RunStates
    <3> QED BY <1>1, <2>2, <3>1 DEF RecordedIsOurs
  <2>12. ConfiguredSoFar'
    BY <1>1, <1>2, <2>2 DEF ConfiguredSoFar, Active, C, Step
  <2> QED BY <1>2, <2>2, <2>4, <2>6, <2>7, <2>8, <2>9, <2>10, <2>11, <2>12
<1> QED BY <1>4, <1>5 DEF Tune, HandOver, Upgrade

-----------------------------------------------------------------------------
LEMMA IInvInit == Init => IInv
<1> SUFFICES ASSUME Init PROVE IInv
  OBVIOUS
<1>1. /\ d = NoCall /\ acctSeq = 0 /\ pool = {} /\ refs = {}
      /\ r = [pc |-> "idle", i |-> 1, run |-> 0, refs |-> {}, made |-> {}]
      /\ contract = [c \in Components |-> [exists |-> FALSE, owner |-> "none",
                       parts |-> {}, tuned |-> FALSE, initRun |-> 0]]
  BY DEF Init, DeployerInit
<1>2. TypeInv
  BY <1>1 DEF TypeInv, NoCall, Calls, RunStates, Instance
<1>3. CallOfRun /\ OwnEnvelopes /\ HitsCounted /\ Landed /\ PoolBounded
  BY <1>1 DEF CallOfRun, OwnEnvelopes, HitsCounted, Landed, PoolBounded, NoCall, NoEnv, Calling
<1>4. InstancesSound /\ RecordedIsOurs /\ ConfiguredSoFar
  BY <1>1 DEF InstancesSound, RecordedIsOurs, ConfiguredSoFar, Active
<1> QED BY <1>2, <1>3, <1>4 DEF IInv

LEMMA IInvNext ==
  ASSUME IInv, [Next]_vars
  PROVE  /\ IInv'
         /\ \A c \in Stack : contract[c].tuned => contract'[c].tuned
<1>1. CASE Run
  <2>1. contract' = contract
    BY <1>1 DEF Run, StartRun, Resolve, Uploaded, Created, ReadOwner, Initialized,
                ConfigureStep, Configured, RunFails, Finish, NoCallFrame, Still
  <2> QED BY <1>1, <2>1, RunSteps
<1>2. CASE Deploying /\ UNCHANGED runVars
  <2>1. contract' = contract
    BY <1>2 DEF Deploying, ledgerVars, Simulate, Assemble, SendAccepted, SendRefused,
                SendError, PollSuccess, PollFailed, TimedOut, CallError
  <2> QED BY <1>2, <2>1, CallSteps
<1>3. CASE Network /\ UNCHANGED runVars
  <2>1. PICK e \in pool : Include(e) \/ Expire(e)
    BY <1>3 DEF Network
  <2>2. CASE Include(e)
    BY <1>3, <2>2, IncludeKeeps
  <2>3. CASE Expire(e)
    BY <1>3, <2>3, ExpireKeeps DEF Expire
  <2> QED BY <2>1, <2>2, <2>3
<1>4. CASE Others
  BY <1>4, OtherSteps DEF Others
<1>5. CASE UNCHANGED vars
  <2> USE <1>5 DEF vars, IInv
  <2>1. TypeInv' /\ CallOfRun' /\ OwnEnvelopes'
    BY DEF TypeInv, CallOfRun, OwnEnvelopes, C, Step
  <2>2. HitsCounted' /\ Landed' /\ PoolBounded'
    BY DEF HitsCounted, Landed, PoolBounded, C, Step
  <2>3. InstancesSound' /\ RecordedIsOurs' /\ ConfiguredSoFar'
    BY DEF InstancesSound, RecordedIsOurs, ConfiguredSoFar, Active, C, Step
  <2> QED BY <2>1, <2>2, <2>3
<1> QED BY <1>1, <1>2, <1>3, <1>4, <1>5 DEF Next

\* A call of the deployer takes effect again only after its wait timed out on an
\* envelope that took effect, for any stack and any number of rounds.
THEOREM RetriesAreUnexecuted == Spec => []RetriesUnexecuted
<1>1. IInv => RetriesUnexecuted
  BY DEF IInv, HitsCounted, RetriesUnexecuted
<1> QED BY <1>1, IInvInit, IInvNext, PTL DEF Spec

\* Every component a run records, in memory or in the datastore, is one it deployed
\* and initialized or found initialized by its own account, however late envelopes
\* land and whoever initializes first.
THEOREM RecordedAreOurs == Spec => []RecordedIsOurs
<1>1. IInv => RecordedIsOurs
  BY DEF IInv
<1> QED BY <1>1, IInvInit, IInvNext, PTL DEF Spec

\* A completed run has configured everything it initialized, in every part the
\* plan has for it.
THEOREM InitializedAreConfigured == Spec => []InitializedIsConfigured
<1>1. IInv => InitializedIsConfigured
  <2> SUFFICES ASSUME IInv, r.pc = "done", NEW c \in Stack, contract[c].initRun = r.run,
                      NEW p \in PartsOf(c)
               PROVE  p \in contract[c].parts
    BY DEF InitializedIsConfigured
  <2>1. PICK j \in DOMAIN Plan : Plan[j].c = c /\ Plan[j].part = p /\ p # "-"
    BY DEF PartsOf
  <2>2. r.i = End /\ j < End
    BY PlanDomain DEF IInv, CallOfRun, End
  <2> QED BY <2>1, <2>2 DEF IInv, ConfiguredSoFar
<1> QED BY <1>1, IInvInit, IInvNext, PTL DEF Spec

\* No step, of a rerun or of an envelope of an earlier run that lands late,
\* overwrites settings the operator changed.
THEOREM SettingsAreKept == Spec => SettingsKept
<1>1. IInv /\ [Next]_vars => [\A c \in Stack : contract[c].tuned => contract'[c].tuned]_vars
  BY IInvNext
<1>2. Spec => []IInv
  BY IInvInit, IInvNext, PTL DEF Spec
<1> QED BY <1>1, <1>2, PTL DEF Spec, SettingsKept
=============================================================================
