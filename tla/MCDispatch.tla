------------------------------ MODULE MCDispatch -----------------------------
(* Instances of Dispatch for TLC. *)
EXTENDS Dispatch, TLC

Symmetry == Permutations(Conn) \cup Permutations(IP) \cup Permutations(Map)

\* Bound: what follows a race is not explored, see MCConnLimiter.
UntilRaced == ~raced
=============================================================================
