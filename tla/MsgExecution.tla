---------------------------- MODULE MsgExecution ----------------------------
(***************************************************************************)
(* What the destination chain promises about a CCIP message: it succeeds   *)
(* at most once, its tokens and its delivery happen exactly when it does,  *)
(* and a failure is reported once and can still become a success.          *)
(***************************************************************************)
EXTENDS Naturals

CONSTANTS Messages,
          Carrying,    \* the messages with a token transfer
          Routed       \* the messages delivered to a receiver

VARIABLES state, released, delivered, reports

vars == <<state, released, delivered, reports>>

Init ==
  /\ state = [m \in Messages |-> "Untouched"]
  /\ released = [m \in Messages |-> 0] /\ delivered = [m \in Messages |-> 0]
  /\ reports = [m \in Messages |-> 0]

Fail(m) ==
  /\ state[m] = "Untouched"
  /\ state' = [state EXCEPT ![m] = "Failure"]
  /\ reports' = [reports EXCEPT ![m] = @ + 1]
  /\ UNCHANGED <<released, delivered>>

Succeed(m) ==
  /\ state[m] \in {"Untouched", "Failure"}
  /\ state' = [state EXCEPT ![m] = "Success"]
  /\ released'  = [released  EXCEPT ![m] = IF m \in Carrying THEN @ + 1 ELSE @]
  /\ delivered' = [delivered EXCEPT ![m] = IF m \in Routed THEN @ + 1 ELSE @]
  /\ UNCHANGED reports

Next == \E m \in Messages : Fail(m) \/ Succeed(m)

Spec == Init /\ [][Next]_vars
=============================================================================
