----------------------------- MODULE RateLimiter -----------------------------
(***************************************************************************)
(* The token buckets of a pool's remote chains: a default bucket and one   *)
(* for fast-finality transfers, which falls back to the default one while  *)
(* it is disabled. Outbound and inbound buckets run the same code under    *)
(* keys of their own, so a chain's two buckets here are either direction.  *)
(* Amounts are far below 2^128, so the saturating sums are sums.           *)
(*                                                                         *)
(* meter is an auditor's: it counts what a bucket let through since from.  *)
(***************************************************************************)
EXTENDS Ledger

CONSTANTS Chains, Amounts, Limits
                  \* Limits: the pairs of capacity and rate an admin may try.

ASSUME LimiterAssumption ==
  Amounts \in SUBSET Nat /\ Limits \in SUBSET [capacity : Nat, rate : Nat]

VARIABLES buckets, meter

limiterVars == <<buckets, meter>>

Keys == Chains \X {"std", "ftf"}

Disabled == [tokens |-> 0, updated |-> 0, enabled |-> FALSE, capacity |-> 0, rate |-> 0]

LimiterInit ==
  /\ buckets = [k \in Keys |-> Disabled]
  /\ meter = [k \in Keys |-> [from |-> now, used |-> 0]]

calculate_refill_uncapped(b) ==   \* mutant: beyond the capacity
   b.tokens + (now - b.updated) * b.rate

calculate_refill(b) ==
  LET filled == b.tokens + (now - b.updated) * b.rate
  IN  IF filled <= b.capacity THEN filled ELSE b.capacity

\* An error of the caller's changes nothing, and a disabled bucket lets every
\* amount through.
consume(k, amount) ==
  LET b == buckets[k]
      filled == IF now > b.updated THEN calculate_refill(b) ELSE b.tokens
  IN  /\ b.enabled
      /\ amount # 0
      /\ now > b.updated => b.tokens <= b.capacity
      /\ amount <= b.capacity /\ amount <= filled
      /\ buckets' = [buckets EXCEPT ![k].tokens = filled - amount, ![k].updated = now]
      /\ meter' = [meter EXCEPT ![k].used = @ + amount]

\* The bucket a transfer is charged to: consume_ftf_* falls back to the default.
Charged(c, fast) ==
  IF fast /\ buckets[<<c, "ftf">>].enabled THEN <<c, "ftf">> ELSE <<c, "std">>

Transfer(c, fast, amount) == consume(Charged(c, fast), amount)

\* A configuration resets the bucket to full and starts a new count.
set_bucket_config(k, limit, enabled) ==
  /\ IF enabled THEN limit.rate <= limit.capacity
     ELSE limit.rate = 0 /\ limit.capacity = 0
  /\ buckets' = [buckets EXCEPT ![k] =
                   [tokens |-> limit.capacity, updated |-> now, enabled |-> enabled,
                    capacity |-> limit.capacity, rate |-> limit.rate]]
  /\ meter' = [meter EXCEPT ![k] = [from |-> now, used |-> 0]]

remove_buckets(c) ==
  /\ buckets' = [k \in Keys |-> IF k[1] = c THEN Disabled ELSE buckets[k]]
  /\ UNCHANGED meter

\* The auditor starts counting at any time.
StartMeter(k) ==
  /\ meter' = [meter EXCEPT ![k] = [from |-> now, used |-> 0]]
  /\ UNCHANGED buckets

LimiterNext ==
  \/ \E c \in Chains, fast \in BOOLEAN, amount \in Amounts : Transfer(c, fast, amount)
  \/ \E k \in Keys, limit \in Limits, enabled \in BOOLEAN : set_bucket_config(k, limit, enabled)
  \/ \E c \in Chains : remove_buckets(c)
  \/ \E k \in Keys : StartMeter(k)

Bucket == [tokens : Nat, updated : Nat, enabled : BOOLEAN, capacity : Nat, rate : Nat]

LimiterTypeOK ==
  /\ buckets \in [Keys -> Bucket]
  /\ meter \in [Keys -> [from : Nat, used : Nat]]

\* Over every span of time between two configurations a bucket lets through at
\* most its capacity and what its rate adds in that span.
RateBound ==
  \A k \in Keys :
    LET b == buckets[k] IN
    b.enabled => meter[k].used <= b.capacity + b.rate * (now - meter[k].from)
=============================================================================
