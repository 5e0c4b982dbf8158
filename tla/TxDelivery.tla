----------------------------- MODULE TxDelivery -----------------------------
(***************************************************************************)
(* What the transaction manager promises for a request, whatever it does   *)
(* with sequences, retries and restarts of its loops: the payload takes    *)
(* effect on chain at most once, only while the request is open, and the   *)
(* request is closed with the outcome the chain has, or as unknown.        *)
(***************************************************************************)
EXTENDS Naturals

CONSTANT Requests

VARIABLES
  effects,  \* [Requests -> Nat]: times the payload took effect
  outcome   \* [Requests -> open, or how the request was closed]

vars == <<effects, outcome>>

Init == /\ effects = [r \in Requests |-> 0]
        /\ outcome = [r \in Requests |-> "none"]

\* A ledger may hold the payloads of several requests.
TakeEffect(rs) ==
  /\ \A r \in rs : effects[r] = 0 /\ outcome[r] = "none"
  /\ effects' = [r \in Requests |-> IF r \in rs THEN 1 ELSE effects[r]]
  /\ UNCHANGED outcome

Close(r, o) ==
  /\ outcome[r] = "none"
  /\ \/ o = "Finalized" /\ effects[r] = 1
     \/ o = "Failed" /\ effects[r] = 0
     \/ o = "Unknown"
  /\ outcome' = [outcome EXCEPT ![r] = o]
  /\ UNCHANGED effects

Next == \/ \E rs \in SUBSET Requests : TakeEffect(rs)
        \/ \E r \in Requests, o \in {"Finalized", "Failed", "Unknown"} : Close(r, o)

Spec == Init /\ [][Next]_vars
=============================================================================
