------------------------------- MODULE Contracts -----------------------------
(***************************************************************************)
(* Six contracts whose state nobody else writes: the forwarder, the data   *)
(* feeds cache, the rate limiter and the lock boxes of a pool, the OnRamp, *)
(* and the committee verifier with its resolver. They share only the       *)
(* ledger, so a behaviour has one of them:                                 *)
(* contract says which. Each meets anything the others could do to it: the *)
(* forwarder's receivers and the OnRamp's pools answer anything, the cache *)
(* takes reports from any caller.                                          *)
(***************************************************************************)
EXTENDS Forwarder, DataFeedsCache, RateLimiter, SiloedPool, OnRamp,
        CommitteeVerifier

VARIABLE contract

others == <<siloVars, onrampVars, verifierVars>>
vars == <<ledgerVars, forwarderVars, cacheVars, limiterVars, others, contract>>

Init ==
  /\ LedgerInit /\ ForwarderInit /\ CacheInit /\ LimiterInit /\ SiloInit /\ OnRampInit
  /\ CommitteeInit
  /\ contract \in {"forwarder", "cache", "limiter", "silo", "onramp", "verifier"}
  /\ contract # "cache" => netTtl = CHOOSE t \in NetTtls : TRUE   \* Only the cache reads it.

Close ==
  /\ contract \in {"cache", "limiter"}
  /\ CloseLedger \/ (contract = "cache" /\ Upgrade)
  /\ UNCHANGED <<forwarderVars, cacheVars, limiterVars, others, contract>>

Forwarding ==
  /\ contract = "forwarder"
  /\ ForwarderNext
  /\ UNCHANGED <<ledgerVars, cacheVars, limiterVars, others, contract>>

Caching ==
  /\ contract = "cache"
  /\ CacheNext
  /\ UNCHANGED <<ledgerVars, forwarderVars, limiterVars, others, contract>>

Limiting ==
  /\ contract = "limiter"
  /\ LimiterNext
  /\ UNCHANGED <<ledgerVars, forwarderVars, cacheVars, others, contract>>

Siloing ==
  /\ contract = "silo"
  /\ SiloNext
  /\ UNCHANGED <<ledgerVars, forwarderVars, cacheVars, limiterVars, onrampVars,
                 verifierVars, contract>>

Sending ==
  /\ contract = "onramp"
  /\ OnRampNext
  /\ UNCHANGED <<ledgerVars, forwarderVars, cacheVars, limiterVars, siloVars,
                 verifierVars, contract>>

Verifying ==
  /\ contract = "verifier"
  /\ CommitteeNext
  /\ UNCHANGED <<ledgerVars, forwarderVars, cacheVars, limiterVars, siloVars,
                 onrampVars, contract>>

Next == Close \/ Forwarding \/ Caching \/ Limiting \/ Siloing \/ Sending \/ Verifying

Spec == Init /\ [][Next]_vars
=============================================================================
