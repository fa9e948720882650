------------------------------ MODULE MCStreams -------------------------------
(* Two writers at end "a" of a connection and one at end "b".                *)
EXTENDS Streams

Sides == [w \in {"a1", "a2", "b1"} |-> IF w = "b1" THEN "b" ELSE "a"]
OneOfEach == [w \in {"a1", "b1"} |-> IF w = "b1" THEN "b" ELSE "a"]

\* A short body, one with a zero byte and one over the limit.
Sizes == {<<1>>, <<0, 2>>, <<1, 1, 1, 1>>}

=============================================================================
