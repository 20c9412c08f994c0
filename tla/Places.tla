------------------------------- MODULE Places --------------------------------
(* Loops that go through a list once and keep some of its elements.          *)
EXTENDS Integers, Sequences

\* The elements of s at the places K, in their order.
ElementsAt(s, K) ==
  LET kept[n \in 0 .. Len(s)] ==
        IF n = 0 THEN <<>>
        ELSE IF n \in K THEN Append(kept[n - 1], s[n]) ELSE kept[n - 1]
  IN  kept[Len(s)]
==============================================================================
