---------------------------- MODULE MCMemoryRpc ----------------------------
(* Two cores that want the same service, one of them a second one too; the *)
(* first message goes to the contested service, the others to the second.  *)
EXTENDS MemoryRpc, TLC

CONSTANTS s1, s2, x, y, m1, m2

TwoProvide == (s1 :> {x, y}) @@ (s2 :> {x})

AllTo == [m \in Msg |-> IF m = m1 THEN x ELSE y]
=============================================================================
