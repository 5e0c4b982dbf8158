------------------------------ MODULE Forwarder ------------------------------
(***************************************************************************)
(* The CRE forwarder: quorum-signed reports and self-verified relays, each *)
(* delivered to a receiver contract under a replay key of its own.         *)
(*                                                                         *)
(* A key is a receiver and the hash of what is delivered to it; reports    *)
(* and relays have separate key spaces. A call that fails writes nothing.  *)
(* The forwarder's registration of itself is left out: it never transmits. *)
(***************************************************************************)
EXTENDS Naturals, FiniteSets

CONSTANTS Nodes,       \* The DON's transmitters.
          Receivers,
          Conforming,  \* The receivers that return nothing, as the protocol says.
          Payloads,    \* Execution and report, or execution and payload hash.
          Versions,    \* DON and configuration version.
          Signers, Faults, MaxOracles

ASSUME ForwarderAssumption == Conforming \subseteq Receivers /\ Faults \in SUBSET Nat

VARIABLES forwarders, relayers, config, deployed, tx, effects

forwarderVars == <<forwarders, relayers, config, deployed, tx, effects>>

Spaces == {"report", "relay"}
TxKeys == Spaces \X Receivers \X Payloads

NoConfig == [f |-> 0, signers |-> {}]

ForwarderInit ==
  /\ forwarders = {} /\ relayers = {}
  /\ config = [v \in Versions |-> NoConfig]
  /\ deployed = {}
  /\ tx = [k \in TxKeys |-> "NotAttempted"]
  /\ effects = [k \in TxKeys |-> 0]

Terminal(state) == state \in {"Succeeded", "InvalidReceiver"}

add_forwarder(n) ==
  forwarders' = forwarders \union {n} /\ UNCHANGED <<relayers, config, deployed, tx, effects>>
remove_forwarder(n) ==
  forwarders' = forwarders \ {n} /\ UNCHANGED <<relayers, config, deployed, tx, effects>>
add_relayer(n) ==
  relayers' = relayers \union {n} /\ UNCHANGED <<forwarders, config, deployed, tx, effects>>
remove_relayer(n) ==
  relayers' = relayers \ {n} /\ UNCHANGED <<forwarders, config, deployed, tx, effects>>

\* f faults need at least 3f + 1 signers.
validate_config(f, signers) == f > 0 /\ Cardinality(signers) \in 3 * f + 1 .. MaxOracles

set_config(v, f, signers) ==
  /\ validate_config(f, signers)
  /\ config' = [config EXCEPT ![v] = [f |-> f, signers |-> signers]]
  /\ UNCHANGED <<forwarders, relayers, deployed, tx, effects>>

clear_config(v) ==
  /\ config' = [config EXCEPT ![v] = NoConfig]
  /\ UNCHANGED <<forwarders, relayers, deployed, tx, effects>>

\* What try_invoke_contract reports: the call returned nothing, returned some
\* value, failed, or failed with an error that cannot be read. A call that
\* returns has taken effect; one that fails has not.
Outcomes(r) ==
  {"returned", "failed", "unreadable"} \union (IF r \in Conforming THEN {} ELSE {"value"})

StateAfter(outcome) ==
  CASE outcome = "returned" -> "Succeeded"
    [] outcome \in {"value", "failed"} -> "Failed"
    [] outcome = "unreadable" -> "InvalidReceiver"

\* The effects under a key, counted up to two: several.
Counted(k, outcome) ==
  IF outcome \in {"returned", "value"} /\ effects[k] < 2 THEN effects[k] + 1 ELSE effects[k]

deliver_again(k, outcome) ==      \* mutant: whatever the state was
  /\ tx' = [tx EXCEPT ![k] = StateAfter(outcome)]
  /\ effects' = [effects EXCEPT ![k] = Counted(k, outcome)]

\* The state machine that reports and relays share.
deliver(k, outcome) ==
  /\ ~Terminal(tx[k])
  /\ tx' = [tx EXCEPT ![k] = StateAfter(outcome)]
  /\ effects' = [effects EXCEPT ![k] = Counted(k, outcome)]

\* A receiver that is no Wasm contract ends the transmission of a report.
dispatch_to_receiver(k) ==
  IF k[2] \in deployed
  THEN \E outcome \in Outcomes(k[2]) : deliver(k, outcome)
  ELSE /\ ~Terminal(tx[k])
       /\ tx' = [tx EXCEPT ![k] = "InvalidReceiver"]
       /\ UNCHANGED effects

report(n, r, x, v, signatures) ==
  LET k == <<"report", r, x>> IN
  /\ ~Terminal(tx[k])
  /\ config[v] # NoConfig
  /\ Cardinality(signatures) = config[v].f + 1
  /\ signatures \subseteq config[v].signers
  /\ n \in forwarders
  /\ dispatch_to_receiver(k)
  /\ UNCHANGED <<forwarders, relayers, config, deployed>>

\* No signatures, and a receiver that is no contract writes nothing.
relay(n, r, x) ==
  /\ n \in relayers
  /\ r \in deployed
  /\ \E outcome \in Outcomes(r) : deliver(<<"relay", r, x>>, outcome)
  /\ UNCHANGED <<forwarders, relayers, config, deployed>>

\* A contract comes into being at a receiver's address.
Deploy(r) ==
  /\ r \notin deployed
  /\ deployed' = deployed \union {r}
  /\ UNCHANGED <<forwarders, relayers, config, tx, effects>>

ForwarderNext ==
  \/ \E n \in Nodes : add_forwarder(n) \/ remove_forwarder(n)
                      \/ add_relayer(n) \/ remove_relayer(n)
  \/ \E v \in Versions, f \in Faults, signers \in SUBSET Signers : set_config(v, f, signers)
  \/ \E v \in Versions : clear_config(v)
  \/ \E n \in Nodes, r \in Receivers, x \in Payloads, v \in Versions,
        signatures \in SUBSET Signers : report(n, r, x, v, signatures)
  \/ \E n \in Nodes, r \in Receivers, x \in Payloads : relay(n, r, x)
  \/ \E r \in Receivers : Deploy(r)

\* What a key carries takes effect at a conforming receiver at most once, and
\* the forwarder then says so for good: retries by any node after failures,
\* new configurations and late deployments included.
EffectsOnce ==
  \A k \in TxKeys : k[2] \in Conforming =>
    effects[k] = IF tx[k] = "Succeeded" THEN 1 ELSE 0
=============================================================================
