------------------------------- MODULE MCTxm -------------------------------
(* Instances of Txm for TLC.                                               *)
EXTENDS Txm

\* Two independent requests of one account.
TwoIds      == [c \in Calls |-> IF c = 1 THEN "i1" ELSE "i2"]
\* Two requests with one id, and the requests between them.
SharedId    == [c \in Calls |-> IF c \in {1, 3} THEN "i1" ELSE "i2"]
OnePayload  == [c \in Calls |-> "p"]
OneAccount  == [c \in Calls |-> "a"]
=============================================================================
