-------------------------------- MODULE OnRamp -------------------------------
(***************************************************************************)
(* The send path: Router.ccip_send quotes the fee, pulls it and forwards   *)
(* the message to the OnRamp, which merges the CCV lists, takes a number,  *)
(* pays the fees out and emits the message. One transaction, which changes *)
(* nothing if anything on the way refuses: curses, verifiers, the pool,    *)
(* authorization and address widths only refuse and are left out.          *)
(*                                                                         *)
(* One fee token. Its price is in hundredths of the scale of fee_math: the *)
(* factors of ten cancel.                                                  *)
(***************************************************************************)
EXTENDS Naturals, Sequences, SequencesExt, Functions, FiniteSetsExt

CONSTANTS DestChains, Ccvs,
          CcvLists,          \* The lists an owner may configure.
          OutMessages,       \* What users send: token, bare, noexec and ccvs.
          PoolAnswers,       \* What a pool's get_required_ccvs may answer.
          Quotes,            \* What verifiers, pool, executor and fee quoter charge.
          MaxUsdCents,       \* max_usd_cents_per_message
          MaxMessages        \* Bound: messages sent.

\* A price of zero is refused by fee_math.
ASSUME OnRampAssumption ==
  /\ CcvLists \subseteq Seq(Ccvs)
  /\ OutMessages \subseteq [token : BOOLEAN, bare : BOOLEAN, noexec : BOOLEAN, ccvs : Seq(Ccvs)]
  /\ PoolAnswers \subseteq [ccvs : Seq(Ccvs), defaults : BOOLEAN]
  /\ Quotes \subseteq [ccv : [Ccvs -> Nat], pool : Nat, flat : Nat, gas : Nat, network : Nat,
                       premium : Nat, price : Nat \ {0}]

VARIABLES lanes, sent, last, fees, owed

onrampVars == <<lanes, sent, last, fees, owed>>

NoLane == [set |-> FALSE, number |-> 0, defaults |-> <<>>, mandated |-> <<>>]
NoMessage == [ccvs |-> <<>>, must |-> {}]

\* fees is the OnRamp's balance; owed, sent and last are the reader's record:
\* network fees of receipts not swept yet, numbers emitted, the last CCV plan.
OnRampInit ==
  /\ lanes = [c \in DestChains |-> NoLane]
  /\ sent = [c \in DestChains |-> <<>>]
  /\ last = NoMessage
  /\ fees = 0 /\ owed = 0

validate(defaults, mandated) ==
  /\ defaults # <<>> \/ mandated # <<>>
  /\ IsInjective(defaults) /\ IsInjective(mandated)
  /\ Range(defaults) \intersect Range(mandated) = {}

apply_dest_chain_config_afresh(c, defaults, mandated) ==   \* mutant: a new number
  /\ validate(defaults, mandated)
  /\ lanes' = [lanes EXCEPT ![c] = [set |-> TRUE, number |-> 0,
                                    defaults |-> defaults, mandated |-> mandated]]
  /\ UNCHANGED <<sent, last, fees, owed>>

\* A configuration replaces everything but the number.
apply_dest_chain_config_update(c, defaults, mandated) ==
  /\ validate(defaults, mandated)
  /\ lanes' = [lanes EXCEPT ![c] = [set |-> TRUE, number |-> lanes[c].number,
                                    defaults |-> defaults, mandated |-> mandated]]
  /\ UNCHANGED <<sent, last, fees, owed>>

-----------------------------------------------------------------------------
\* The CCV plan of a message

append_unique(list, more) ==
  LET upTo[n \in 0 .. Len(more)] ==
        IF n = 0 THEN list
        ELSE IF Contains(upTo[n - 1], more[n]) THEN upTo[n - 1] ELSE Append(upTo[n - 1], more[n])
  IN  upTo[Len(more)]

merge_ccv_lists(user, mandated, fallback) ==
  IF user = <<>> /\ mandated = <<>> THEN fallback ELSE append_unique(user, mandated)

\* A transfer that calls nobody and carries no data does not fall back to the
\* lane's defaults for its sender; a pool that names no CCV asks for them.
build_merged_outbound_ccv_lists(lane, m, pool) ==
  LET bareTransfer == m.token /\ m.bare
      merged == merge_ccv_lists(m.ccvs, lane.mandated,
                                IF bareTransfer THEN <<>> ELSE lane.defaults)
      pooled == append_unique(merged, pool.ccvs)
  IN  IF ~m.token THEN merged
      ELSE IF pool.defaults \/ pool.ccvs = <<>> THEN append_unique(pooled, lane.defaults)
      ELSE pooled

\* What each party may count on: the user, the lane and the pool.
Demanded(lane, m, pool) ==
  UNION {Range(m.ccvs), Range(lane.mandated),
         IF m.token THEN Range(pool.ccvs) ELSE {},
         IF m.token /\ (pool.defaults \/ pool.ccvs = <<>>) THEN Range(lane.defaults) ELSE {}}

-----------------------------------------------------------------------------
\* Fees

Percent == 100
usd_cents_to_fee_token(cents, percent, price) == (cents * percent) \div price

\* What the CCVs of a list take together, each its charge.
SumOf(charge, l) ==
  LET upTo[n \in 0 .. Len(l)] == IF n = 0 THEN 0 ELSE upTo[n - 1] + charge[l[n]]
  IN  upTo[Len(l)]

Discounted(q, cents) == usd_cents_to_fee_token(cents, q.premium, q.price)
GasTokens(q, m) == IF m.noexec THEN 0 ELSE usd_cents_to_fee_token(q.gas, Percent, q.price)
Flat(q, m) == IF m.noexec THEN 0 ELSE q.flat
PoolCents(q, m) == IF m.token THEN q.pool ELSE 0
NetworkTokens(q) == Discounted(q, q.network)

total_fee_discounted(q, m, l) ==      \* mutant: the discount is on the gas too
  LET ccvCents == SumOf(q.ccv, l)
      gas == IF m.noexec THEN 0 ELSE q.gas
  IN  NetworkTokens(q) + Discounted(q, ccvCents + PoolCents(q, m) + Flat(q, m) + gas)

\* One conversion of the sum of the slices; the gas is not discounted.
total_fee(q, m, l) ==
  NetworkTokens(q) + Discounted(q, SumOf(q.ccv, l) + PoolCents(q, m) + Flat(q, m))
    + GasTokens(q, m)

\* One conversion per receipt: CCVs, pool and executor. The network fee stays.
distributed(q, m, l) ==
  SumOf([c \in Ccvs |-> Discounted(q, q.ccv[c])], l)
    + Discounted(q, PoolCents(q, m)) + Discounted(q, Flat(q, m)) + GasTokens(q, m)

-----------------------------------------------------------------------------
forward_from_router(c, m, pool, q, fee) ==
  LET lane  == lanes[c]
      l     == build_merged_outbound_ccv_lists(lane, m, pool)
      total == total_fee(q, m, l)
      paid  == IF fee > 0 THEN distributed(q, m, l) ELSE 0
  IN  /\ IsInjective(m.ccvs) /\ l # <<>>
      /\ total <= usd_cents_to_fee_token(MaxUsdCents, Percent, q.price)
      /\ total <= fee
      /\ paid <= fees + fee
      /\ lanes' = [lanes EXCEPT ![c].number = @ + 1]
      /\ sent' = [sent EXCEPT ![c] = Append(@, lane.number + 1)]
      /\ last' = [ccvs |-> l, must |-> Demanded(lane, m, pool)]
      /\ fees' = (fees + fee) - paid
      /\ owed' = owed + NetworkTokens(q)

get_fee(c, m, pool, q) == total_fee(q, m, build_merged_outbound_ccv_lists(lanes[c], m, pool))

ccip_send(c, m, pool, q) ==
  /\ lanes[c].set
  /\ MapThenSumSet(LAMBDA d : Len(sent[d]), DestChains) < MaxMessages
  /\ \E fee \in {get_fee(c, m, pool, q)} : forward_from_router(c, m, pool, q, fee)

\* Anyone may sweep the balance to the aggregator.
withdraw_fee_tokens ==
  /\ fees > 0
  /\ fees' = 0 /\ owed' = 0
  /\ UNCHANGED <<lanes, sent, last>>

OnRampNext ==
  \/ \E c \in DestChains, defaults, mandated \in CcvLists :
       apply_dest_chain_config_update(c, defaults, mandated)
  \/ \E c \in DestChains, m \in OutMessages, pool \in PoolAnswers, q \in Quotes :
       ccip_send(c, m, pool, q)
  \/ withdraw_fee_tokens

\* The messages of a lane are numbered without gap or repetition, across its
\* reconfigurations; and every message is sent with at least one CCV, with none
\* twice, and with all that its sender, the lane and the pool asked for.
MessagesSound ==
  /\ \A c \in DestChains : \A i \in DOMAIN sent[c] : sent[c][i] = i
  /\ last # NoMessage => last.ccvs # <<>>
  /\ IsInjective(last.ccvs) /\ last.must \subseteq Range(last.ccvs)

\* Paying the receipts of one message never draws on the network fees of
\* earlier ones: what the OnRamp holds covers the receipts not swept yet.
FeesKept == fees >= owed
=============================================================================
