----------------------------- MODULE SplitServer -----------------------------
(***************************************************************************)
(* The split command and a process together: the operator splits a         *)
(* configuration (or not), then a process is started on it or on one of    *)
(* the files, whole or of a run that failed.  Once the process runs, what  *)
(* the command has read and written is of no interest and is forgotten.    *)
(***************************************************************************)
EXTENDS Server, SplitConfig

ASSUME SourceAssumption ==
    \A m \in Sources : IsList(m.nodes) /\ DistinctTags(m) /\ TagsOf(m) \subseteq Tag

systemVars == <<vars, splitVars>>

SystemInit == Init /\ SplitInit

Split ==
    /\ proc = "off" /\ SplitNext
    /\ UNCHANGED vars

Boot ==
    /\ run.state # "running"
    /\ \E c \in {source, NoConf} \cup {f.conf : f \in configs} : RunServer(c)
    /\ source' = NoConf /\ configs' = {} /\ dnsFiles' = {} /\ run' = NoRun

System ==
    \/ Split \/ Boot
    \/ Running /\ UNCHANGED splitVars

SystemSpec == SystemInit /\ [][System]_systemVars /\ Fairness

-----------------------------------------------------------------------------
(* Properties; those of Server and SplitConfig hold here as well. *)

KeyOf(cores, n) ==
    LET s == [NoSelector EXCEPT !.entries = cores]
    IN  IF Pick(s, n) = 0 THEN "none" ELSE cores[Pick(s, n)].key

\* split.go:177-182, "the rules the core Selector applies": the Selector of the
\* process of one node finds the core for it that it found among all of them, or
\* finds none either.  (A node that names no core may have been put on one that ran
\* for another node; by itself it goes to the first.)
SplitKeepsCore ==
    \A f \in {g \in configs : g.conf.whole} : \E i \in DOMAIN source.nodes :
        /\ f.conf.nodes = <<source.nodes[i]>>
        /\ KeyOf(f.conf.cores, source.nodes[i]) = KeyOf(source.cores, source.nodes[i])
=============================================================================
