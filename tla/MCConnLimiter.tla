---------------------------- MODULE MCConnLimiter ----------------------------
(* Instances of ConnLimiter for TLC. *)
EXTENDS ConnLimiter, TLC

Symmetry == Permutations(Conn) \cup Permutations(IP) \cup Permutations(Map)

\* Bound: what follows a race is not explored.  Entries of addresses may then grow
\* without end, and no property says anything more about them.
UntilRaced == ~raced
=============================================================================
