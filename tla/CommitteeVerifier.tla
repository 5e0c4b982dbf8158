--------------------------- MODULE CommitteeVerifier -------------------------
(***************************************************************************)
(* How the OffRamp's question to a CCV is answered: the resolver picks the *)
(* verifier by the version in front of the results, and the committee      *)
(* verifier counts signatures of the committee its owner set for the       *)
(* message's source chain. Owners point versions at any verifier and       *)
(* replace committees at any time.                                         *)
(*                                                                         *)
(* Signer addresses are numbers, for their order. A signature recovers its *)
(* signer from the payload it was made for and nobody from another. Curses *)
(* and malformed results only refuse and are left out.                     *)
(***************************************************************************)
EXTENDS Naturals, Sequences, FiniteSets, Functions

CONSTANTS Verifiers, NoVerifier,
          Tags, TagOf,         \* Version tags, and that of each verifier.
          Sources, SourceOf,   \* Source chains, and that of each message.
          InMessages,
          Addresses,           \* Of those who sign.
          Committees,          \* What an owner may configure: signers, threshold.
          MaxSignatures        \* Bound: signatures in one result.

ASSUME VerifierAssumption ==
  /\ NoVerifier \notin Verifiers /\ Addresses \subseteq Nat \ {0}
  /\ TagOf \in [Verifiers -> Tags] /\ SourceOf \in [InMessages -> Sources]
  /\ Committees \subseteq [signers : Seq(Addresses), threshold : Nat]
  /\ MaxSignatures \in Nat

VARIABLES committees, inbound, verdict

verifierVars == <<committees, inbound, verdict>>

NoCommittee == [signers |-> <<>>, threshold |-> 0]
NoVerdict == [asked |-> 0, backers |-> {}]

\* verdict is the reader's record of the last message verified: the threshold
\* asked for, and the members who signed that message for that verifier.
CommitteeInit ==
  /\ committees = [v \in Verifiers |-> [c \in Sources |-> NoCommittee]]
  /\ inbound = [t \in Tags |-> NoVerifier]
  /\ verdict = NoVerdict

Ascending(s) == \A i \in 1 .. Len(s) - 1 : s[i] < s[i + 1]

validate_committee(k) == k.threshold \in 1 .. Len(k.signers) /\ Ascending(k.signers)

\* Removals come first. One invalid update undoes the call.
apply_signature_configs(v, removed, updated, k) ==
  /\ updated # {} => validate_committee(k)
  /\ committees' = [committees EXCEPT ![v] =
       [c \in Sources |-> IF c \in updated THEN k
                          ELSE IF c \in removed THEN NoCommittee ELSE @[c]]]
  /\ UNCHANGED <<inbound, verdict>>

\* The list of the versions in use is for views only.
apply_inbound_impl_updates(t, v) ==
  /\ inbound' = [inbound EXCEPT ![t] = v]
  /\ UNCHANGED <<committees, verdict>>

-----------------------------------------------------------------------------
Signature == [signer : Addresses, tag : Tags, msg : InMessages]
Results == [tag : Tags, sigs : UNION {[1 .. n -> Signature] : n \in 0 .. MaxSignatures}]

identify_signer(sig, tag, m) == IF sig.tag = tag /\ sig.msg = m THEN sig.signer ELSE 0

validate_signatures_any_order(k, tag, m, sigs) ==   \* mutant: repetitions count
  /\ k.threshold # 0 /\ Len(sigs) >= k.threshold
  /\ \A i \in DOMAIN sigs : identify_signer(sigs[i], tag, m) \in Range(k.signers)

\* Enough signatures, all of members, in the order of their addresses.
validate_signatures(k, tag, m, sigs) ==
  LET who == [i \in DOMAIN sigs |-> identify_signer(sigs[i], tag, m)]
  IN  /\ k.threshold # 0 /\ Len(sigs) >= k.threshold
      /\ Ascending(who) /\ Range(who) \subseteq Range(k.signers)

verify_message(v, m, results) ==
  /\ results.tag = TagOf[v]
  /\ validate_signatures(committees[v][SourceOf[m]], results.tag, m, results.sigs)

\* What the OffRamp does for each CCV: resolve, then verify.
Attest(m, results) ==
  LET v == inbound[results.tag] IN
  /\ v # NoVerifier
  /\ verify_message(v, m, results)
  /\ LET k == committees[v][SourceOf[m]] IN
       verdict' = [asked |-> k.threshold,
                   backers |-> {s \in Range(k.signers) :
                                  [signer |-> s, tag |-> TagOf[v], msg |-> m] \in Range(results.sigs)}]
  /\ UNCHANGED <<committees, inbound>>

CommitteeNext ==
  \/ \E v \in Verifiers, removed, updated \in SUBSET Sources, k \in Committees :
       apply_signature_configs(v, removed, updated, k)
  \/ \E t \in Tags, v \in Verifiers \union {NoVerifier} : apply_inbound_impl_updates(t, v)
  \/ \E m \in InMessages, results \in Results : Attest(m, results)

\* A message is attested only if as many different members as the threshold
\* asks for, of the committee then in force for its source chain, signed this
\* message for the very verifier that was asked: repeated signatures, those of
\* other chains' committees, of another version or of former members never
\* count, wherever the resolver points.
OnlyCommitteeAttests ==
  verdict # NoVerdict => verdict.asked > 0 /\ Cardinality(verdict.backers) >= verdict.asked
=============================================================================
