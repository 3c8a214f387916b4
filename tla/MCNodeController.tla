-------------------------- MODULE MCNodeController --------------------------
(* Instances of NodeController for TLC. *)
EXTENDS NodeController, TLC

\* Each configuration has a tag of its own (an unnamed node).
TagPerConfig == [c \in Config |-> IF c = "n1" THEN "t1" ELSE "t2"]
=============================================================================
