------------------------------ MODULE Timelock ------------------------------
(***************************************************************************)
(* The role-based timelock (contracts/timelock), as operators on its       *)
(* state:                                                                  *)
(*   ready    OpTime of each operation id: 0 unset, 1 done, or the time    *)
(*            at which it becomes executable                               *)
(*   delay    MIN_DELAY                                                    *)
(*   roles    the members of each role                                     *)
(*   blocked  the (target, function) pairs that cannot be scheduled        *)
(*                                                                         *)
(* An operation id is the hash of calls, predecessor and salt: it names a  *)
(* batch, and CallsOf and PredOf say what was hashed. A call is a record   *)
(* of target, fn and the arguments. Times are u64: TimeMax is the largest. *)
(***************************************************************************)
EXTENDS Integers, Sequences

CONSTANTS
  Batches, CallsOf, PredOf, NoPred,
  Accounts,                \* everyone a role can be given to
  Self,                    \* the timelock itself
  Selectors,               \* (target, function) pairs
  TimeMax

Roles == {"ADMIN", "PROPOSER", "CANCELLER", "BYPASSER"}
Times == 0 .. TimeMax
DONE_TIMESTAMP == 1

AdminFns == {"grant_role", "revoke_role", "update_delay", "block_function",
             "unblock_function"}

ASSUME TimelockAssumption ==
  /\ TimeMax \in Nat \ {0, 1} /\ Self \in Accounts
  /\ PredOf \in [Batches -> Batches \union {NoPred}] /\ NoPred \notin Batches
  /\ \A b \in Batches : Len(CallsOf[b]) \in Nat \ {0}

TlRecord ==
  [ready : [Batches -> Times], delay : Times, roles : [Roles -> SUBSET Accounts],
   blocked : SUBSET Selectors]

\* grant_all, for the holders the deployment names
Initialize(minDelay, holders) ==
  [ready   |-> [b \in Batches |-> 0], delay |-> minDelay, blocked |-> {},
   roles   |-> [r \in Roles |-> IF r = "ADMIN" THEN {Self} ELSE holders[r]]]

\* --------------------------------------------------------------------------
\* Administration

AdminCallOK(k) ==
  CASE k.fn \in {"grant_role", "revoke_role"} ->
         k.role \in Roles /\ k.account \in Accounts
    [] k.fn = "update_delay" -> k.delay \in Times
    [] k.fn \in {"block_function", "unblock_function"} -> k.selector \in Selectors
    [] OTHER -> FALSE

Administer(t, k) ==
  CASE k.fn = "grant_role"     -> [t EXCEPT !.roles[k.role] = @ \union {k.account}]
    [] k.fn = "revoke_role"    -> [t EXCEPT !.roles[k.role] = @ \ {k.account}]
    [] k.fn = "update_delay"   -> [t EXCEPT !.delay = k.delay]
    [] k.fn = "block_function" -> [t EXCEPT !.blocked = @ \union {k.selector}]
    [] OTHER                   -> [t EXCEPT !.blocked = @ \ {k.selector}]

RenounceRole(t, role, account) == [t EXCEPT !.roles[role] = @ \ {account}]

\* --------------------------------------------------------------------------
\* Operations

SaturatingAdd(x, y) == IF x + y > TimeMax THEN TimeMax ELSE x + y

CanSchedule(t, caller, b, delay) ==
  /\ caller \in t.roles["PROPOSER"]
  /\ t.ready[b] = 0 /\ delay >= t.delay
  /\ \A i \in 1 .. Len(CallsOf[b]) :
       <<CallsOf[b][i].target, CallsOf[b][i].fn>> \notin t.blocked

Schedule(t, b, delay, now) ==
  LET at == SaturatingAdd(now, delay)
  IN  [t EXCEPT !.ready[b] = IF at > DONE_TIMESTAMP THEN at ELSE DONE_TIMESTAMP + 1]

CanExecuteAgain(t, b, now) ==          \* mutant: a done batch looks ready
  /\ t.ready[b] > 0 /\ t.ready[b] <= now
  /\ PredOf[b] # NoPred => t.ready[PredOf[b]] = DONE_TIMESTAMP

CanExecuteBatch(t, b, now) ==
  /\ t.ready[b] > DONE_TIMESTAMP /\ t.ready[b] <= now
  /\ PredOf[b] # NoPred => t.ready[PredOf[b]] = DONE_TIMESTAMP

MarkDone(t, b) == [t EXCEPT !.ready[b] = DONE_TIMESTAMP]

CanCancel(t, caller, b) ==
  caller \in t.roles["CANCELLER"] /\ t.ready[b] > DONE_TIMESTAMP

Cancel(t, b) == [t EXCEPT !.ready[b] = 0]

CanBypass(t, caller) == caller \in t.roles["BYPASSER"]
=============================================================================
