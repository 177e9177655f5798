-------------------------- MODULE MCProxyBridge --------------------------
(* Small instances of ProxyBridge.                                         *)
EXTENDS ProxyBridge, FiniteSets, TLC

\* Calls are interchangeable.
CallSymmetry == Permutations(Call)

\* Either two calls or a lost connection: what follows both is not explored.
CallsOrLoss == flaps > 0 => Cardinality({k \in Call : caller[k] # "idle"}) <= 1
=============================================================================
