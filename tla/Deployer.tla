------------------------------ MODULE Deployer ------------------------------
(***************************************************************************)
(* The Deployer of deployment/deployer.go: every write of the deployment   *)
(* tooling is one call of buildAndSubmitTransaction, which simulates,      *)
(* restores archived entries, assembles, sends and waits, and retries the  *)
(* classes of failure it takes for harmless. One process, one account; the *)
(* network includes, drops or never sees an envelope, and answers or not.  *)
(*                                                                         *)
(* A call is one operation on a contract of the stack. Fees and resource   *)
(* budgets are abstracted to "the declared budget was exceeded".           *)
(***************************************************************************)
EXTENDS Naturals, FiniteSets

CONSTANTS
  Components,        \* the contracts of the stack, by their salt label
  Parts,             \* the configuration operations
  SubmitMaxAttempts  \* rounds of one call

ASSUME DeployerAssumption == SubmitMaxAttempts \in Nat \ {0}

VARIABLES
  d,         \* the call in progress: its locals
  acctSeq,   \* sequence of the deployer's account on the ledger
  pool,      \* envelopes the network holds and may still include
  wasm,      \* components whose code is uploaded
  contract   \* [Components -> the instance on the ledger]

ledgerVars == <<acctSeq, pool, wasm, contract>>

NoOp == [kind |-> "none", c |-> "-", part |-> "-"]

\* seq is the sequence the envelope uses, run the deployment that signed it. Ghosts:
\* mine, the call that signed it has not returned yet; late, its wait timed out.
NoEnv == [restore |-> FALSE, op |-> NoOp, seq |-> 0, run |-> 0, mine |-> FALSE,
          late |-> FALSE]

\* hits and missed are ghosts: how often the call took effect, and how often by an
\* envelope whose wait timed out, before or after it was included.
NoCall == [pc |-> "idle", op |-> NoOp, run |-> 0, attempt |-> 0,
           restored |-> FALSE, env |-> NoEnv, landed |-> "no", hits |-> 0,
           missed |-> 0]

\* --------------------------------------------------------------------------
\* The ledger: what an operation needs, and what it does.

Applies(op) ==
  LET k == contract[op.c] IN
  CASE op.kind = "upload"     -> TRUE
    [] op.kind = "create"     -> op.c \in wasm /\ ~k.exists
    [] op.kind = "initialize" -> k.exists /\ k.owner = "none"
    [] op.kind = "configure"  -> k.exists /\ k.owner = "deployer"

Apply(op, run) ==
  /\ wasm' = IF op.kind = "upload" THEN wasm \union {op.c} ELSE wasm
  /\ LET k == contract[op.c] IN contract' = [contract EXCEPT ![op.c] =
       CASE op.kind = "upload"     -> k
         [] op.kind = "create"     -> [k EXCEPT !.exists = TRUE]
         [] op.kind = "initialize" -> [k EXCEPT !.owner = "deployer", !.initRun = run]
         [] op.kind = "configure"  -> [k EXCEPT !.parts = @ \union {op.part},
                                                !.tuned = FALSE]]

Alive(e) == e.seq > acctSeq

\* A ledger closes with envelope e. Those with the same sequence are dead.
Include(e) ==
  /\ e \in pool /\ e.seq = acctSeq + 1
  /\ acctSeq' = acctSeq + 1 /\ pool' = {f \in pool : f.seq > e.seq}
  /\ \E result \in {"success", "failed", "exceeded"} :
       /\ result = "success" => e.restore \/ Applies(e.op)
       /\ result = "failed" => ~e.restore /\ ~Applies(e.op)
       /\ IF result = "success" /\ ~e.restore
            THEN Apply(e.op, e.run) ELSE UNCHANGED <<wasm, contract>>
       /\ d' = [d EXCEPT
            !.landed = IF e = d.env THEN result ELSE @,
            !.hits = IF e.mine /\ ~e.restore /\ result = "success" THEN @ + 1 ELSE @,
            !.missed = IF e.late /\ ~e.restore /\ result = "success" THEN @ + 1 ELSE @]

\* MaxTime passes, or the network drops the envelope.
Expire(e) ==
  /\ e \in pool
  /\ pool' = pool \ {e}
  /\ UNCHANGED <<d, acctSeq, wasm, contract>>

\* --------------------------------------------------------------------------
\* buildAndSubmitTransaction

Call(op, run) == d' = [NoCall EXCEPT !.pc = "simulate", !.op = op, !.run = run,
                                     !.attempt = 1]

Disown == {[e EXCEPT !.mine = FALSE, !.late = FALSE] : e \in pool}

ReturnError == d' = [d EXCEPT !.pc = "err"]

\* The next round, from a fresh simulation, or the error when none is left; n
\* envelopes that took effect are given up.
Retry(n) ==
  d' = IF d.attempt = SubmitMaxAttempts THEN [d EXCEPT !.pc = "err"]
         ELSE [d EXCEPT !.pc = "simulate", !.attempt = @ + 1, !.restored = FALSE,
                        !.env = NoEnv, !.landed = "no", !.missed = @ + n]

Simulate ==
  /\ d.pc = "simulate"
  /\ \/ Applies(d.op) /\ d' = [d EXCEPT !.pc = "assemble"]
     \/ ~d.restored /\ d' = [d EXCEPT !.pc = "restore"]
  /\ UNCHANGED ledgerVars

\* The sequence is read again just before the envelope is signed.
Envelope(restore) == [restore |-> restore, op |-> d.op, seq |-> acctSeq + 1,
                      run |-> d.run, mine |-> TRUE, late |-> FALSE]

Assemble ==
  /\ d.pc \in {"assemble", "restore"}
  /\ d' = [d EXCEPT !.pc = "send", !.landed = "no", !.env = Envelope(d.pc = "restore")]
  /\ UNCHANGED ledgerVars

SendAccepted ==
  /\ d.pc = "send" /\ Alive(d.env)
  /\ pool' = pool \union {d.env}
  /\ d' = [d EXCEPT !.pc = "wait"]
  /\ UNCHANGED <<acctSeq, wasm, contract>>

\* TRY_AGAIN_LATER and txInsufficientFee: the network did not take it.
SendRefused ==
  /\ d.pc = "send" /\ Retry(0)
  /\ UNCHANGED ledgerVars

SendErrorRetries ==          \* mutant: a transport error is retried as well
  /\ d.pc = "send"
  /\ pool' \in {pool, pool \union {e \in {d.env} : Alive(e)}}
  /\ Retry(0) /\ UNCHANGED <<acctSeq, wasm, contract>>

\* The request fails, after or before the network took the envelope; or the
\* network rejects it for good (a sequence that was used meanwhile).
SendError ==
  /\ d.pc = "send"
  /\ pool' \in {pool, pool \union {e \in {d.env} : Alive(e)}}
  /\ ReturnError /\ UNCHANGED <<acctSeq, wasm, contract>>

\* waitForTransaction: the status as of the last poll before the deadline.
PollSuccess ==
  /\ d.pc = "wait" /\ d.landed = "success"
  /\ d' = [d EXCEPT !.pc = IF d.env.restore THEN "simulate" ELSE "ok",
                    !.restored = TRUE]
  /\ UNCHANGED ledgerVars

PollFailed ==
  /\ d.pc = "wait" /\ d.landed \in {"failed", "exceeded"}
  /\ IF d.landed = "exceeded" THEN Retry(0) ELSE ReturnError
  /\ UNCHANGED ledgerVars

\* The local timer fires; no poll answered SUCCESS or FAILED until then. MaxTime is
\* compared with the close time of a ledger, not with this clock: the envelope may
\* have been included, be dead, or be included later.
TimedOut ==
  /\ d.pc = "wait"
  /\ Retry(IF ~d.env.restore /\ d.landed = "success" THEN 1 ELSE 0)
  /\ pool' = {[e EXCEPT !.late = @ \/ e = d.env] : e \in pool}
  /\ UNCHANGED <<acctSeq, wasm, contract>>

\* An RPC call fails, the simulation fails, asks for a second restore, the
\* context is cancelled, or the deadline passed before the first poll.
CallError ==
  /\ d.pc \in {"simulate", "assemble", "restore", "wait"}
  /\ ReturnError /\ UNCHANGED ledgerVars

Deploying ==
  \/ Simulate \/ Assemble \/ SendAccepted \/ SendRefused \/ SendError
  \/ PollSuccess \/ PollFailed \/ TimedOut \/ CallError

Network == \E e \in pool : Include(e) \/ Expire(e)

DeployerInit ==
  /\ d = NoCall /\ acctSeq = 0 /\ pool = {} /\ wasm = {}
  /\ contract = [c \in Components |-> [exists |-> FALSE, owner |-> "none",
                   parts |-> {}, tuned |-> FALSE, initRun |-> 0]]

\* --------------------------------------------------------------------------
\* Properties

\* A call takes effect again only after its wait timed out on an envelope that took
\* effect, before the timer fired or later: none of the other retried failures
\* (refused sends, fees, budgets, restores) can have executed the operation.
RetriesUnexecuted == d.hits <= 1 + d.missed

\* A call takes effect at most once (an upload may be repeated: the code is
\* stored under its hash). deployer.go:963 takes this for granted of a wait that
\* timed out.
EffectOncePerCall == d.op.kind # "upload" => d.hits <= 1
=============================================================================
