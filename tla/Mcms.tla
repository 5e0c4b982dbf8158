-------------------------------- MODULE Mcms --------------------------------
(***************************************************************************)
(* The many-chain multisig (contracts/mcms), as operators on the state of  *)
(* one instance:                                                           *)
(*   config   signers and group tree       version  CONFIG_VERSION         *)
(*   tree     EXPIRING_ROOT.root           until    its valid_until        *)
(*   count    its op_count                 meta     ROOT_META_STORE        *)
(*   seen     the signed hashes                                            *)
(* and three histories no code reads: the roots accepted, the operations   *)
(* executed, and the signers behind the current root.                      *)
(*                                                                         *)
(* A Merkle root is the set of its leaves, so a proof is membership, and a *)
(* signed hash is the pair of root and valid_until. Signers are numbered   *)
(* in the order of their addresses, and a strictly increasing list is the  *)
(* set of its elements.                                                    *)
(***************************************************************************)
EXTENDS Integers, Sequences, FiniteSets

CONSTANTS
  NumSigners, NumGroups, MaxRootValidity,
  VersionMax,              \* the largest u64, for the configuration version
  Instances,               \* the MCMS contracts
  Proposals                \* the roots the signers may sign: [tree, until]

Signers == 1 .. NumSigners
Groups  == 0 .. NumGroups - 1

\* `group` maps the signers to their groups.
Configs ==
  [group  : UNION {[S -> Groups] : S \in (SUBSET Signers) \ {{}}},
   quorum : [Groups -> Nat], parent : [Groups -> Groups]]

ASSUME McmsAssumption ==
  /\ NumSigners \in Nat \ {0} /\ NumGroups \in Nat \ {0}
  /\ MaxRootValidity \in Nat /\ VersionMax \in Nat
  /\ \A p \in Proposals :
       /\ p.until \in Nat
       /\ \A meta \in p.tree.metas : {meta.pre, meta.post, meta.version} \subseteq Nat

\* --------------------------------------------------------------------------
\* The group tree

Members(c, g)  == {s \in DOMAIN c.group : c.group[s] = g}
Children(c, g) == {h \in Groups \ {0} : c.parent[h] = g /\ c.quorum[h] > 0}

\* validate_group_tree, and the bounds apply_config checks
ValidateSignersOnly(c) ==    \* mutant: a quorum above what its group can reach
  /\ \A g \in Groups : IF g = 0 THEN c.parent[g] = 0 ELSE c.parent[g] < g
  /\ \A g \in Groups : c.quorum[g] = 0 => Members(c, g) = {}
  /\ c.quorum[0] > 0

ValidateGroupTree(c) ==
  \A g \in Groups :
    LET n == Cardinality(Members(c, g)) + Cardinality(Children(c, g)) IN
    /\ IF g = 0 THEN c.parent[g] = 0 ELSE c.parent[g] < g
    /\ IF c.quorum[g] = 0 THEN n = 0 ELSE n >= c.quorum[g]

\* The groups one vote in group g counts for: up the tree as long as the vote
\* is the one that makes the quorum.
Reached(c, votes, g) ==
  LET up[h \in Groups] ==
        {h} \union (IF votes[h] + 1 = c.quorum[h] /\ h # 0
                      THEN up[c.parent[h]] ELSE {})
  IN  up[g]

CountVote(c, votes, s) ==
  LET reached == Reached(c, votes, c.group[s])
  IN  [h \in Groups |-> votes[h] + IF h \in reached THEN 1 ELSE 0]

\* The votes after the signatures of the signers up to i.
GroupVotes(c, signed) ==
  LET votes[i \in 0 .. NumSigners] ==
        IF i = 0 THEN [h \in Groups |-> 0]
          ELSE IF i \in signed THEN CountVote(c, votes[i - 1], i) ELSE votes[i - 1]
  IN  votes[NumSigners]

VerifySignatures(c, signed) ==
  /\ c.quorum[0] # 0 /\ signed \subseteq DOMAIN c.group
  /\ GroupVotes(c, signed)[0] >= c.quorum[0]

\* What the tree means: a group is for a root when as many of its members and
\* of its child groups are as its quorum says.
Agrees(c, signed) ==
  LET for[g \in Groups] ==
        /\ c.quorum[g] > 0
        /\ Cardinality(Members(c, g) \intersect signed)
             + Cardinality({h \in Children(c, g) : for[h]}) >= c.quorum[g]
  IN  for[0]

\* --------------------------------------------------------------------------
\* One instance

NoTree == [metas |-> {}, ops |-> {}]

NewMcms(c) ==
  [config |-> c, version |-> 1, tree |-> NoTree, until |-> 0, count |-> 0,
   meta |-> [pre |-> 0, post |-> 0, version |-> 1], seen |-> {},
   accepted |-> <<>>, executed |-> <<>>, backers |-> {}]

ProposedOps == UNION {p.tree.ops : p \in Proposals}

McmsRecord ==
  [config : Configs, version : Nat, count : Nat, until : Nat,
   tree : {p.tree : p \in Proposals} \union {NoTree},
   meta : [pre : Nat, post : Nat, version : Nat], seen : SUBSET Proposals,
   accepted : Seq(Proposals), executed : Seq(ProposedOps),
   backers : SUBSET Signers]

CanApplyConfig(m, c) == ValidateGroupTree(c) /\ m.version < VersionMax

ApplyConfigFromZero(m, c, clear) ==   \* mutant: clearing forgets the operations
  IF clear
    THEN [m EXCEPT !.config = c, !.version = @ + 1, !.tree = NoTree, !.until = 0,
                   !.count = 0, !.meta = [pre |-> 0, post |-> 0, version |-> m.version + 1]]
    ELSE [m EXCEPT !.config = c, !.version = @ + 1]
ApplyConfigSameVersion(m, c, clear) == \* mutant: the version is not raised
  [m EXCEPT !.config = c]

ApplyConfig(m, c, clear) ==
  IF clear
    THEN [m EXCEPT !.config = c, !.version = @ + 1, !.tree = NoTree, !.until = 0,
                   !.meta = [pre |-> m.count, post |-> m.count,
                             version |-> m.version + 1]]
    ELSE [m EXCEPT !.config = c, !.version = @ + 1]

CanSetRootAgain(n, m, p, meta, signed, now) ==  \* mutant: the hash is not looked up
  /\ meta \in p.tree.metas /\ meta.multisig = n /\ meta.version = m.version
  /\ meta.pre <= meta.post /\ VerifySignatures(m.config, signed)
  /\ now <= p.until /\ p.until <= now + MaxRootValidity
  /\ m.count = m.meta.post \/ meta.override
  /\ m.count = meta.pre

CanSetRoot(n, m, p, meta, signed, now) ==
  /\ meta \in p.tree.metas /\ meta.multisig = n /\ meta.version = m.version
  /\ meta.pre <= meta.post
  /\ p \notin m.seen
  /\ VerifySignatures(m.config, signed)
  /\ now <= p.until /\ p.until <= now + MaxRootValidity
  /\ m.count = m.meta.post \/ meta.override
  /\ m.count = meta.pre

SetRoot(m, p, meta, signed) ==
  [m EXCEPT !.seen = @ \union {p}, !.tree = p.tree, !.until = p.until,
            !.count = meta.pre,
            !.meta = [pre |-> meta.pre, post |-> meta.post, version |-> meta.version],
            !.accepted = Append(@, p), !.backers = signed]

CanExecute(n, m, op, now) ==
  /\ m.count < m.meta.post /\ op.multisig = n
  /\ m.meta.version = m.version /\ now <= m.until
  /\ op.nonce = m.count /\ op \in m.tree.ops

\* The nonce is used before the target is called.
UseNonce(m, op) == [m EXCEPT !.count = @ + 1, !.executed = Append(@, op)]
=============================================================================
