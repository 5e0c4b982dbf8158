----------------------------- MODULE FullDeploy -----------------------------
(***************************************************************************)
(* RunStellarCCIPFullDeploy and the component sequences it runs through    *)
(* the Deployer: skip-if-exists resolution, initialisation, and the        *)
(* configuration of what this run made. A run fails or is killed anywhere  *)
(* and is started again, while its last envelope may still land; refs are  *)
(* kept only by a run that completes. Between runs the operator changes    *)
(* settings, upgrades and hands contracts over.                            *)
(*                                                                         *)
(* Qualified executors, committees and receivers repeat the steps of the   *)
(* default ones and are left out, like the fee token of the devenv.        *)
(***************************************************************************)
EXTENDS Deployer, Sequences

CONSTANTS
  Stack,     \* the components of this instance
  MaxRuns    \* bound: runs of the deployment

VARIABLES
  r,         \* the run: its place in the plan, refs in memory, what it made
  refs,      \* the datastore: components with a recorded address
  upgraded   \* components whose code on the ledger is not the local build

runVars == <<r, refs, upgraded>>
vars    == <<d, acctSeq, pool, wasm, contract, r, refs, upgraded>>

Deploy(c)       == [c |-> c, part |-> "-"]
Configure(c, p) == [c |-> c, part |-> p]

\* The order of the pipeline.
Foundation ==
  <<Deploy("rmn-remote"), Deploy("rmn-proxy"), Deploy("fee-quoter"),
    Deploy("token-admin-registry"), Deploy("onramp")>>
Verification ==
  <<Deploy("vvr"), Deploy("committee-verifier"), Deploy("executor"),
    Configure("executor", "destChains"),
    Configure("vvr", "outbound"), Configure("vvr", "inbound")>>
Fees ==
  <<Configure("fee-quoter", "destChains"), Configure("fee-quoter", "prices"),
    Configure("fee-quoter", "testTokenPrice"), Configure("fee-quoter", "tokenFees")>>
Ramps ==
  <<Deploy("offramp"), Deploy("router"),
    Configure("committee-verifier", "remoteChains"),
    Configure("router", "ramps"), Deploy("ramp-registry"),
    Configure("ramp-registry", "onramps"), Configure("ramp-registry", "offramps")>>
Receiver == <<Deploy("receiver"), Configure("receiver", "remoteChains")>>

Plan == Foundation \o Verification \o Fees \o Ramps \o Receiver

AllComponents == {Plan[i].c : i \in DOMAIN Plan}
AllParts      == {Plan[i].part : i \in DOMAIN Plan} \ {"-"}

ASSUME FullDeployAssumption ==
  /\ Components = AllComponents /\ Parts = AllParts
  /\ Stack \subseteq Components /\ MaxRuns \in Nat

\* The steps of this instance, and the one after step i.
Steps      == {i \in DOMAIN Plan : Plan[i].c \in Stack}
End        == Len(Plan) + 1
After(i)   == CHOOSE j \in Steps \union {End} : j > i /\ \A k \in Steps : k > i => j <= k
PartsOf(c) == {Plan[i].part : i \in {j \in DOMAIN Plan : Plan[j].c = c}} \ {"-"}

\* --------------------------------------------------------------------------

Active   == r.pc \notin {"idle", "failed", "done"}
Step     == Plan[r.i]
C        == Step.c
Goto(pc) == r' = [r EXCEPT !.pc = pc]
Advance(run) == r' = [run EXCEPT !.pc = "step", !.i = After(@)]
Fail     == Goto("failed")
Invoke(kind) ==
  /\ Call([kind |-> kind, c |-> C, part |-> Step.part], r.run)
  /\ pool' = Disown
Still    == UNCHANGED <<acctSeq, wasm, contract, refs, upgraded>>
NoCallFrame == UNCHANGED <<d, pool>> /\ Still

\* A run starts from the datastore (MergeExistingAddressRefs).
StartRun ==
  /\ ~Active /\ r.run < MaxRuns
  /\ r' = [pc |-> "step", i |-> After(0), run |-> r.run + 1, refs |-> refs, made |-> {}]
  /\ d' = NoCall /\ pool' = Disown /\ Still

\* resolveComponentContract: a ref wins, then the predicted address.
Resolve ==
  /\ r.pc = "step" /\ r.i \in Steps /\ Step.part = "-"
  /\ \/ (C \in r.refs \/ (contract[C].exists /\ C \notin upgraded)) /\ Goto("owner")
          /\ UNCHANGED <<d, pool>>
     \/ C \notin r.refs /\ contract[C].exists /\ C \in upgraded /\ Fail
          /\ UNCHANGED <<d, pool>>
     \/ C \notin r.refs /\ ~contract[C].exists /\ Goto("upload") /\ Invoke("upload")
  /\ Still

\* DeployContract: the upload, then the instance.
Uploaded ==
  /\ r.pc = "upload" /\ d.pc = "ok"
  /\ Goto("create") /\ Invoke("create") /\ Still

Created ==
  /\ r.pc = "create" /\ d.pc = "ok"
  /\ r' = [r EXCEPT !.pc = "owner", !.made = @ \union {C}]
  /\ NoCallFrame

AdoptAnyOwner ==             \* mutant: a set owner is taken for ours
  /\ r.pc = "owner"
  /\ IF contract[C].owner = "none" THEN Goto("init") /\ Invoke("initialize")
       ELSE Advance([r EXCEPT !.refs = @ \union {C}]) /\ UNCHANGED <<d, pool>>
  /\ Still

\* shouldInitialize: no owner, initialize; an owner on a recorded contract is
\* trusted, on an adopted one it must be the deployer.
ReadOwner ==
  /\ r.pc = "owner"
  /\ \/ contract[C].owner = "none" /\ Goto("init") /\ Invoke("initialize")
     \/ /\ contract[C].owner # "none"
        /\ IF C \in r.refs \/ contract[C].owner = "deployer"
             THEN Advance([r EXCEPT !.refs = @ \union {C}]) ELSE Fail
        /\ UNCHANGED <<d, pool>>
  /\ Still

InitializedForgotten ==      \* mutant: only a deployed contract is configured
  /\ r.pc = "init" /\ d.pc = "ok"
  /\ Advance([r EXCEPT !.refs = @ \union {C}])
  /\ NoCallFrame

Initialized ==
  /\ r.pc = "init" /\ d.pc = "ok"
  /\ Advance([r EXCEPT !.refs = @ \union {C}, !.made = @ \union {C}])
  /\ NoCallFrame

ConfigureAlways ==           \* mutant: existing contracts are configured too
  /\ r.pc = "step" /\ r.i \in Steps /\ Step.part # "-"
  /\ Goto("config") /\ Invoke("configure") /\ Still

\* Configuration applies to what this run deployed or initialized.
ConfigureStep ==
  /\ r.pc = "step" /\ r.i \in Steps /\ Step.part # "-"
  /\ IF C \in r.made THEN Goto("config") /\ Invoke("configure")
       ELSE Advance(r) /\ UNCHANGED <<d, pool>>
  /\ Still

Configured ==
  /\ r.pc = "config" /\ d.pc = "ok"
  /\ Advance(r) /\ NoCallFrame

\* An error of the call (d.pc = "err"), an error of a read, or the death of the
\* process, which can come anywhere: the refs in memory are lost.
RunFails ==
  /\ Active
  /\ Fail /\ d' = NoCall /\ pool' = Disown /\ Still

Finish ==
  /\ r.pc = "step" /\ r.i = End
  /\ Goto("done") /\ refs' = r.refs
  /\ UNCHANGED <<d, pool, acctSeq, wasm, contract, upgraded>>

\* --------------------------------------------------------------------------
\* Others. Between two runs the operator uses the deployer's account.

OperatorTransaction ==
  acctSeq' = acctSeq + 1 /\ pool' = {f \in pool : f.seq > acctSeq + 1}

Tune(c) ==
  /\ ~Active /\ contract[c].owner = "deployer" /\ ~contract[c].tuned
  /\ OperatorTransaction
  /\ contract' = [contract EXCEPT ![c].tuned = TRUE]
  /\ UNCHANGED <<d, wasm, runVars>>

HandOver(c) ==
  /\ ~Active /\ contract[c].owner = "deployer"
  /\ OperatorTransaction
  /\ contract' = [contract EXCEPT ![c].owner = "timelock"]
  /\ UNCHANGED <<d, wasm, runVars>>

Upgrade(c) ==
  /\ ~Active /\ contract[c].owner = "deployer" /\ c \notin upgraded
  /\ OperatorTransaction
  /\ upgraded' = upgraded \union {c}
  /\ UNCHANGED <<d, wasm, contract, r, refs>>

\* Anyone may initialize an instance that has no owner yet.
ForeignInitialize(c) ==
  /\ contract[c].exists /\ contract[c].owner = "none"
  /\ contract' = [contract EXCEPT ![c].owner = "other"]
  /\ UNCHANGED <<d, acctSeq, pool, wasm, runVars>>

Run == StartRun \/ Resolve \/ Uploaded \/ Created \/ ReadOwner \/ Initialized
       \/ ConfigureStep \/ Configured \/ RunFails \/ Finish

Others == \E c \in Stack : Tune(c) \/ HandOver(c) \/ Upgrade(c) \/ ForeignInitialize(c)

Init ==
  /\ DeployerInit
  /\ r = [pc |-> "idle", i |-> 1, run |-> 0, refs |-> {}, made |-> {}]
  /\ refs = {} /\ upgraded = {}

Next == Run \/ (Deploying /\ UNCHANGED runVars) \/ (Network /\ UNCHANGED runVars)
        \/ Others

Spec == Init /\ [][Next]_vars

\* --------------------------------------------------------------------------
\* Properties

\* No component is recorded that is missing, was never initialized, or was
\* initialized by somebody else, whatever landed late and whoever was faster.
RecordedIsOurs ==
  \A c \in refs \union r.refs :
    contract[c].exists /\ contract[c].owner \in {"deployer", "timelock"}

\* A run that completes has applied every part of the configuration of each
\* component it initialized. (Of a component that an earlier, failed run
\* initialized it applies nothing.)
InitializedIsConfigured ==
  r.pc = "done" =>
    \A c \in Stack : contract[c].initRun = r.run => PartsOf(c) \subseteq contract[c].parts

\* Settings changed by the operator are never overwritten: neither by a rerun
\* nor by a configuration envelope of an earlier run that lands late.
SettingsKept == [][\A c \in Stack : contract[c].tuned => contract'[c].tuned]_vars
=============================================================================
