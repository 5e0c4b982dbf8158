------------------------------ MODULE MCOffRamp ------------------------------
(***************************************************************************)
(* A small destination chain: one source lane and two verifiers. The       *)
(* configurations offered include the ones the contracts must refuse.      *)
(***************************************************************************)
EXTENDS OffRamp

CONSTANTS a, b, src, ramp, rogue

Msg(tokens, payload, receiver, elsewhere) ==
  [source |-> src, onramp |-> ramp, tokens |-> tokens, payload |-> payload,
   receiver |-> receiver, elsewhere |-> elsewhere]

MCMessages ==
  { Msg(TRUE, TRUE, "contract", FALSE),    \* tokens and data
    Msg(FALSE, TRUE, "contract", FALSE),   \* data only
    Msg(TRUE, FALSE, "padded", FALSE),     \* tokens only, a receiver of 33 bytes
    Msg(TRUE, TRUE, "zero", TRUE) }        \* tokens, the zero receiver

Lane(onramps, defaults, mandated) ==
  [enabled |-> TRUE, onramps |-> onramps, defaults |-> defaults, mandated |-> mandated]

MCLaneConfigs ==
  { Lane({ramp}, {a}, {}), Lane({ramp}, {a}, {b}), Lane({rogue}, {a}, {}),
    [Lane({ramp}, {a}, {}) EXCEPT !.enabled = FALSE],
    Lane({ramp}, {}, {}) }                              \* refused: no defaults

Pool(registered, ccvs) ==
  [registered |-> registered, ccvs |-> ccvs, includeDefaults |-> FALSE]

MCPoolAnswers ==
  { Pool(FALSE, {}), Pool(TRUE, {}), Pool(TRUE, {b}),
    [Pool(TRUE, {b}) EXCEPT !.includeDefaults = TRUE] }

Receiver(kind, req, opt, thr) ==
  [kind |-> kind, answers |-> TRUE, finalityOk |-> TRUE,
   config |-> [req |-> req, opt |-> opt, thr |-> thr]]

MCReceiverAnswers ==
  { Receiver("none", <<>>, <<>>, 0), Receiver("wasm", <<>>, <<>>, 0),
    [Receiver("wasm", <<>>, <<>>, 0) EXCEPT !.finalityOk = FALSE],
    Receiver("wasm", <<a>>, <<b>>, 1), Receiver("wasm", <<>>, <<b, a>>, 1),
    Receiver("wasm", <<>>, <<b, b>>, 2) }              \* refused: a duplicate
=============================================================================
