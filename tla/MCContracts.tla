------------------------------ MODULE MCContracts ----------------------------
EXTENDS Contracts

CONSTANTS va, vb, l3, q1, t1, t2, g1, p1, p2

\* No limit, a usable one, and one whose rate is above its capacity.
MCLimits == {[capacity |-> c, rate |-> r] : <<c, r>> \in {<<0, 0>>, <<3, 2>>, <<1, 2>>}}

\* A lane with more decimals, one with fewer, and one with the pool's own.
MCPow == [c \in SiloLanes |-> IF c = l3 THEN 1 ELSE 2]

\* Also a list with a repetition.
MCCcvLists == {<<>>, <<va>>, <<vb>>, <<va, vb>>, <<vb, vb>>}

MCOutMessages ==
  [token : {TRUE}, bare : BOOLEAN, noexec : {FALSE}, ccvs : {<<>>, <<va>>, <<vb, va>>}]
    \union [token : {FALSE}, bare : {FALSE}, noexec : BOOLEAN, ccvs : {<<>>, <<vb>>, <<va, va>>}]

MCPoolAnswers ==
  [ccvs : {<<>>, <<vb>>, <<vb, vb>>}, defaults : {FALSE}]
    \union [ccvs : {<<va>>}, defaults : {TRUE}]

\* A discounted token whose slices round, and a pool whose fee is above the cap.
MCQuotes ==
  [ccv : {[v \in {va, vb} |-> IF v = va THEN 1 ELSE 2]}, pool : {1}, flat : {1}, gas : {2},
   network : {1}, premium : {50}, price : {30}]
    \union [ccv : {[v \in {va, vb} |-> 0]}, pool : {9}, flat : {0}, gas : {0},
            network : {1}, premium : {100}, price : {100}]

MCTagOf == [v \in Verifiers |-> IF v = q1 THEN t1 ELSE t2]
MCSourceOf == [m \in InMessages |-> IF m = g1 THEN p1 ELSE p2]

\* Committees, and lists that are refused: unordered, repeated, too few, none asked.
MCCommittees ==
  {[signers |-> s, threshold |-> n] :
     <<s, n>> \in {<<<<1, 2>>, 2>>, <<<<1, 2>>, 1>>, <<<<2>>, 1>>, <<<<2, 1>>, 1>>,
                  <<<<1, 1>>, 2>>, <<<<1>>, 2>>, <<<<1>>, 0>>}}
=============================================================================
