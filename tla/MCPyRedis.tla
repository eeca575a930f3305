----------------------------- MODULE MCPyRedis ------------------------------
(* Instances of PyRedisRpc for TLC: the handler of the call `outer` awaits  *)
(* the call `inner` of the same service.                                    *)
EXTENDS PyRedisRpc, TLC

CONSTANTS outer, inner

NestedInner == outer :> inner
FlatInner == <<>>

Symmetry == Permutations(Server)
=============================================================================
