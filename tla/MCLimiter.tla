------------------------------ MODULE MCLimiter ------------------------------
(* Instances of Limiter for TLC. *)
EXTENDS Limiter, TLC

NoLimit == [u \in User |-> 0]
OneDevice == [u \in User |-> 1]

Symmetry == Permutations(Conn) \cup Permutations(IP)
=============================================================================
