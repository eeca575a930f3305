----------------------------- MODULE MCRedisRpc -----------------------------
(* Small instances of RedisRpc for TLC. *)
EXTENDS RedisRpc, TLC

Symmetry == Permutations(Call)

\* the client does not stop, and at most one message fails at it, by JSON or by its timer
ClientRuns ==
  /\ client = "started"
  /\ Cardinality({m \in Call \cup Note : status[m] \in {"refused", "timeout"}}) <= 1
=============================================================================
