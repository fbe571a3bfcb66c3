------------------------------ MODULE MCProxy ------------------------------
(* The proxy with two workers, one or two pairs and a few connections. *)
EXTENDS Proxy, TLC

CONSTANTS w1, w2, c1, c2, c3, c4, k1, k2, k3, k4

MCWorkers2 == {w1, w2}
MCConns2 == {c1, c2}
MCConns4 == {c1, c2, c3, c4}
MCKeys2 == {k2, k3}
MCKeys3 == {k1, k2, k3}
MCKeys4 == {k1, k2, k3, k4}

(* Objects that are short, that just fit, and one that does not fit. *)
MCLength2 == k2 :> 2 @@ k3 :> 3
MCLength3 == k1 :> 1 @@ k2 :> 2 @@ k3 :> 3
MCLength4 == k1 :> 1 @@ k2 :> 2 @@ k3 :> 3 @@ k4 :> 1

NoKeys == {}
OneBinary == {k2}

NoFaults == {}
OriginsReset == {"origin resets"}
EveryFault == AllFaults

Symmetry == Permutations(MCWorkers2) \cup Permutations(MCConns4)
=============================================================================
