--------------------------- MODULE MCOnlineReport ---------------------------
(* Instances of OnlineReport for TLC. *)
EXTENDS OnlineReport, TLC

\* Two users behind one address.
SharedAddress == User \X IP

\* One request and one more, a single one for ppanel: the third endpoint, and the other
\* forms of ppanel's body, add nothing new.
Requests == [p \in Panels |-> IF p = "uniproxy" THEN 2 ELSE 1]
=============================================================================
