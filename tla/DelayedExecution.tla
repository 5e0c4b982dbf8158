-------------------------- MODULE DelayedExecution --------------------------
(***************************************************************************)
(* What a timelock promises about a batch: it is performed once at most,   *)
(* after the notice in force when it was announced, after its predecessor, *)
(* and never after it was withdrawn.                                       *)
(***************************************************************************)
EXTENDS Integers

CONSTANTS Batches, PredOf, NoPred,
          Horizon     \* a notice is never longer than to the end of time

VARIABLES status, earliest, performed, notice, now

vars == <<status, earliest, performed, notice, now>>

Init ==
  /\ status = [b \in Batches |-> "unset"] /\ earliest = [b \in Batches |-> 0]
  /\ performed = [b \in Batches |-> 0]
  /\ notice \in Nat /\ now \in Nat

Announce(b, at) ==
  /\ status[b] = "unset"
  /\ at >= now + notice \/ at = Horizon
  /\ status' = [status EXCEPT ![b] = "pending"]
  /\ earliest' = [earliest EXCEPT ![b] = at]
  /\ UNCHANGED <<performed, notice, now>>

Withdraw(b) ==
  /\ status[b] = "pending"
  /\ status' = [status EXCEPT ![b] = "unset"]
  /\ earliest' = [earliest EXCEPT ![b] = 0]
  /\ UNCHANGED <<performed, notice, now>>

\* A batch may change the notice of the ones announced after it.
Perform(b) ==
  /\ status[b] = "pending" /\ earliest[b] <= now
  /\ PredOf[b] # NoPred => status[PredOf[b]] = "done"
  /\ status' = [status EXCEPT ![b] = "done"]
  /\ earliest' = [earliest EXCEPT ![b] = 0]
  /\ performed' = [performed EXCEPT ![b] = @ + 1]
  /\ notice' \in Nat /\ UNCHANGED now

ChangeNotice == notice' \in Nat /\ UNCHANGED <<status, earliest, performed, now>>

PassTime == now' \in Nat /\ now' > now /\ UNCHANGED <<status, earliest, performed, notice>>

Next ==
  \/ \E b \in Batches : Withdraw(b) \/ Perform(b)
  \/ \E b \in Batches : Announce(b, earliest'[b])
  \/ ChangeNotice \/ PassTime

Spec == Init /\ [][Next]_vars
=============================================================================
