----------------------------- MODULE MCFragments -----------------------------
EXTENDS Fragments

CONSTANTS m1, m2

MCSize == [m \in Messages |-> IF m = m1 THEN 4 ELSE 2]

Stray(s, seq, total, data) ==
  [stream |-> s, seq |-> seq, total |-> total, data |-> data]

(* On a stream of its own: two that are too much together.  On a stream of *)
(* the sender: one out of range, and one of another total.                 *)
MCStrays == {Stray(0, 0, 2, <<<<m1, 1>>, <<m1, 2>>, <<m1, 3>>>>),
             Stray(0, 1, 2, <<<<m1, 3>>, <<m1, 4>>>>),
             Stray(1, 1, 1, <<>>),
             Stray(1, 1, 3, <<<<m1, 1>>, <<m1, 2>>>>)}
NoStrays == {}

ASSUME StraysAreHarmless == HarmlessStrays
=============================================================================
