-------------------------------- MODULE Conf --------------------------------
(***************************************************************************)
(* What Server and SplitConfig share of the configuration file (conf/):    *)
(* what decoding a file leaves, and how the type of a core is spelled.     *)
(***************************************************************************)

\* What is in a file is the Conf that decoding it leaves and whether that went to the
\* end.  It is decoded in place: a value that cannot be decoded leaves what came before
\* it, a file that cannot be read, or is cut off, the zero Conf.
NoConf == [cores |-> <<>>, nodes |-> <<>>, whole |-> FALSE]

\* The Selector and the split command compare types whatever their case, the decoding
\* of a core does not.  One spelling per type stands for those not in lower case.
CoreTypes == {"xray", "sing", "hysteria2"}
MixedCase == [Xray |-> "xray", Sing |-> "sing", Hysteria2 |-> "hysteria2"]

ToLower(s) == IF s \in DOMAIN MixedCase THEN MixedCase[s] ELSE s
EqualFold(s, t) == ToLower(s) = ToLower(t)
=============================================================================
