------------------------------ MODULE SiloedPool -----------------------------
(***************************************************************************)
(* The liquidity of the siloed lock-release pool: lanes mapped to lock     *)
(* boxes, shared or not, which the owner may change at any time, and       *)
(* tokens of other decimals on the remote chains. The rate limits are in   *)
(* RateLimiter; curses, hooks, callers and finality only refuse and are    *)
(* left out. Fees stay with the pool itself and never reach a box.         *)
(***************************************************************************)
EXTENDS Naturals, FiniteSets, FiniteSetsExt

CONSTANTS SiloLanes, Boxes, NoBox,
          Finer,        \* The lanes whose remote token has more decimals.
          Pow,          \* Ten to the difference of a lane's decimals.
          LockAmounts, ReleaseAmounts, Bps,
          BpsDivider,
          MaxHeld       \* Bound: tokens in the boxes.

ASSUME SiloAssumption ==
  /\ NoBox \notin Boxes /\ Finer \subseteq SiloLanes
  /\ IsFiniteSet(SiloLanes) /\ Pow \in [SiloLanes -> Nat \ {0}]
  /\ LockAmounts \subseteq Nat /\ ReleaseAmounts \subseteq Nat
  /\ Bps \subseteq Nat /\ BpsDivider \in Nat \ {0}

VARIABLES boxOf, held, abroad, users, moved

siloVars == <<boxOf, held, abroad, users, moved>>

\* abroad is what exists of the token on the remote chain, in its units; users
\* and moved remember the lanes ever pointed at a box, and pointed elsewhere.
SiloInit ==
  /\ boxOf = [c \in SiloLanes |-> NoBox]
  /\ held = [b \in Boxes |-> 0]
  /\ abroad = [c \in SiloLanes |-> 0]
  /\ users = [b \in Boxes |-> {}]
  /\ moved = {}

calculate_local_amount_up(c, amount) ==      \* mutant: rounds up
  IF c \in Finer THEN (amount + Pow[c] - 1) \div Pow[c] ELSE amount * Pow[c]

calculate_local_amount(c, amount) ==
  IF c \in Finer THEN amount \div Pow[c] ELSE amount * Pow[c]

\* The remote pool mints by the same rule.
RemoteAmount(c, amount) == IF c \in Finer THEN amount * Pow[c] ELSE amount \div Pow[c]

_get_fee(amount, bps) == (amount * bps) \div BpsDivider

Total == MapThenSumSet(LAMBDA b : held[b], Boxes)

configure_lock_box(c, b) ==
  /\ boxOf' = [boxOf EXCEPT ![c] = b]
  /\ users' = [users EXCEPT ![b] = @ \union {c}]
  /\ moved' = IF boxOf[c] \in {b, NoBox} THEN moved ELSE moved \union {c}
  /\ UNCHANGED <<held, abroad>>

\* A lock box moves no zero and gives no more than it has.
deposit(b, amount) ==
  /\ amount > 0
  /\ held' = [held EXCEPT ![b] = @ + amount]

withdraw(b, amount) ==
  /\ amount > 0 /\ amount <= held[b]
  /\ held' = [held EXCEPT ![b] = @ - amount]

\* The amount without the fee goes into the lane's box.
lock_or_burn(c, amount, bps) ==
  LET dest_token_amount == amount - _get_fee(amount, bps) IN
  /\ boxOf[c] # NoBox
  /\ Total + dest_token_amount <= MaxHeld
  /\ deposit(boxOf[c], dest_token_amount)
  /\ abroad' = [abroad EXCEPT ![c] = @ + RemoteAmount(c, dest_token_amount)]
  /\ UNCHANGED <<boxOf, users, moved>>

\* The remote chain burnt `amount` of its units; what rounds to zero is
\* released without a withdrawal.
release_or_mint(c, amount) ==
  LET local_amount == calculate_local_amount(c, amount) IN
  /\ boxOf[c] # NoBox
  /\ amount <= abroad[c]
  /\ \/ withdraw(boxOf[c], local_amount)
     \/ local_amount = 0 /\ UNCHANGED held
  /\ abroad' = [abroad EXCEPT ![c] = @ - amount]
  /\ UNCHANGED <<boxOf, users, moved>>

SiloNext ==
  \/ \E c \in SiloLanes, b \in Boxes : configure_lock_box(c, b)
  \/ \E c \in SiloLanes, amount \in LockAmounts, bps \in Bps : lock_or_burn(c, amount, bps)
  \/ \E c \in SiloLanes, amount \in ReleaseAmounts : release_or_mint(c, amount)

\* What can still come back on a lane, in the pool's units.
Owing == [c \in SiloLanes |-> calculate_local_amount(c, abroad[c])]

\* A box whose lanes were never pointed elsewhere holds enough for everything
\* that can still come back on them, shared or not, whatever the other lanes
\* do and however amounts are split and rounded.
SilosCovered ==
  \A b \in Boxes : users[b] \intersect moved = {} =>
    MapThenSumSet(LAMBDA c : Owing[c], users[b]) <= held[b]
=============================================================================
