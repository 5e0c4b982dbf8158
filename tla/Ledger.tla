-------------------------------- MODULE Ledger -------------------------------
(***************************************************************************)
(* The Stellar network as the contracts see it: the ledger's number, which *)
(* stands for its close time too, and the longest life the network gives a *)
(* stored entry, which the validators may change from ledger to ledger.    *)
(***************************************************************************)
EXTENDS Naturals

CONSTANTS MaxLedger,  \* Bound: the last ledger of a behaviour.
          NetTtls     \* The lives the validators may choose.

ASSUME LedgerAssumption == MaxLedger \in Nat /\ NetTtls \in SUBSET Nat /\ NetTtls # {}

VARIABLES now, netTtl

ledgerVars == <<now, netTtl>>

LedgerInit == now = 1 /\ netTtl \in NetTtls

CloseLedger ==
  /\ now < MaxLedger
  /\ now' = now + 1
  /\ UNCHANGED netTtl

Upgrade ==
  /\ netTtl' \in NetTtls
  /\ UNCHANGED now
=============================================================================
