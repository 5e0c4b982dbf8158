---------------------------- MODULE MCGovernance ----------------------------
(***************************************************************************)
(* A proposer MCMS, a bypasser MCMS, one account of an operator, and three *)
(* signers. The roots cover a proposal, its cancellation by an overriding  *)
(* root, one for the next configuration, and a bypass.                     *)
(***************************************************************************)
EXTENDS Governance, TLC

\* Signer 1 in the root group, 2 and 3 in a group of which one is enough.
Tree2 == [group  |-> 1 :> 0 @@ 2 :> 1 @@ 3 :> 1,
          quorum |-> 0 :> 2 @@ 1 :> 1 @@ 2 :> 0, parent |-> [g \in Groups |-> 0]]
\* Signers 2 and 3, both needed, two groups below the root.
Inner == [group  |-> 2 :> 2 @@ 3 :> 2,
          quorum |-> 0 :> 1 @@ 1 :> 1 @@ 2 :> 2, parent |-> 0 :> 0 @@ 1 :> 0 @@ 2 :> 1]
\* Refused: two votes asked of a root group with one child and no member.
Brick == [Inner EXCEPT !.quorum[0] = 2]

MCFirstConfig == [n \in Instances |-> IF n = "prop" THEN Tree2 ELSE Inner]

Touch == [target |-> "app", fn |-> "touch"]
SetConfig(n, c, clear) ==
  [target |-> n, fn |-> "set_config", config |-> c, clear |-> clear]
Admin(fn, x) == [target |-> Self, fn |-> fn] @@ x
Grant(fn, r, a) == Admin(fn, [role |-> r, account |-> a])

MCCallsOf == [b \in Batches |->
  CASE b = "A" -> <<Touch, SetConfig("prop", Inner, FALSE)>>
    [] b = "B" -> <<Admin("update_delay", [delay |-> 0]),
                    Grant("grant_role", "ADMIN", "eoa")>>
    [] b = "C" -> <<Admin("block_function", [selector |-> <<"app", "touch">>]),
                    SetConfig("byp", Tree2, TRUE)>>
    [] b = "D" -> <<SetConfig("prop", Brick, FALSE)>>]

MCPredOf == [b \in Batches |-> IF b = "B" THEN "A" ELSE "zero"]

Meta(n, pre, post, version, override) ==
  [multisig |-> n, pre |-> pre, post |-> post, version |-> version,
   override |-> override]
Op(n, nonce, k) == [multisig |-> n, nonce |-> nonce, call |-> k]
Entry(fn, b) == Admin(fn, [batch |-> b])
ScheduleCall(b, d) == Entry("schedule_batch", b) @@ [delay |-> d]

Proposal(metas, ops, until) ==
  [tree |-> [metas |-> metas, ops |-> ops], until |-> until]

Plan == Proposal({Meta("prop", 0, 2, 1, FALSE)},
                 {Op("prop", 0, ScheduleCall("A", 1)), Op("prop", 1, ScheduleCall("B", 1))}, 3)
Undo == Proposal({Meta("prop", c, c + 1, 1, TRUE) : c \in 0 .. 1},
                 {Op("prop", c, Entry("cancel", "A")) : c \in 0 .. 1}, 3)
Later == Proposal({Meta("prop", c, c + 1, 2, TRUE) : c \in 0 .. 2},
                  {Op("prop", c, ScheduleCall("C", TimeMax)) : c \in 0 .. 2}, 4)
Urgent == Proposal({Meta("byp", 0, 2, 1, FALSE)},
                   {Op("byp", 0, Entry("bypasser_execute_batch", "A")),
                    Op("byp", 1, Entry("bypasser_execute_batch", "C"))}, 3)
MCProposals == {Plan, Undo, Later, Urgent}

MCFirstHolders == [r \in Roles |->
  CASE r = "PROPOSER" -> {"prop"} [] r = "CANCELLER" -> {"prop", "eoa"}
    [] r = "BYPASSER" -> {"byp"} [] OTHER -> {}]

MCCalls == {ScheduleCall("C", 0), ScheduleCall("D", 1), Entry("cancel", "A"),
            Grant("grant_role", "PROPOSER", "eoa"), Grant("grant_role", "BYPASSER", "eoa"),
            Grant("revoke_role", "ADMIN", Self),
            Admin("unblock_function", [selector |-> <<"app", "touch">>]),
            Grant("renounce_role", "CANCELLER", "eoa")}
MCSelectors == {<<"app", "touch">>, <<"byp", "set_config">>}
=============================================================================
