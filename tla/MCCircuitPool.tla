--------------------------- MODULE MCCircuitPool ---------------------------
(* Instances of CircuitPool for TLC.                                       *)
EXTENDS CircuitPool

CONSTANTS c1, c2, c3, x1, x2

\* Three low latency circuits, or two and an anonymous one.
LowOnly == [c \in Circuits |-> "low_latency"]
Mixed == [c \in Circuits |-> IF c = c3 THEN "anonymous" ELSE "low_latency"]

OneLimit == {<<1, 1>>}
TwoLimits == {<<1, 1>>, <<1, 2>>}
=============================================================================
