----------------------------- MODULE SplitConfig -----------------------------
(***************************************************************************)
(* The split command (cmd/split.go): from a configuration of several nodes *)
(* to one configuration file per node, each with the cores its node can    *)
(* end up on and with DNS and log files of its own, for one process each.  *)
(*                                                                         *)
(* A file name is the sequence of the pieces it is put together from.  The *)
(* name of a node is its Name, or one made of host, type and id, after the *)
(* characters a file name cannot carry were replaced (sanitizeSplitName):  *)
(* two nodes may have the same.  The names of cores have no such           *)
(* characters.  The log file of a node is named after it like its DNS      *)
(* files, and everything else is copied as it is.                          *)
(*                                                                         *)
(* An operator that nothing uses is a mistake the code could have made,    *)
(* named for it: the checks make sure that a property would notice.        *)
(***************************************************************************)
EXTENDS Naturals, Sequences, FiniteSets, Conf

CONSTANTS
    Sources,         \* the configurations of several nodes to consider
    Suffix,          \* "-1", "-2" and so on: the pieces that make names unique
    MaxSplits,       \* bound on the runs of the command
    MaxSplitFails    \* bound on the file operations that fail

\* A core: key (the Name, or the Type when it is not named), type, whether it has
\* inbounds of its own, DnsConfigPath.
CoreConfig ==
    [key : STRING, typ : STRING, owns : BOOLEAN, named : BOOLEAN, dns : Seq(STRING)]

ASSUME SplitAssumption ==
    /\ {MaxSplits, MaxSplitFails} \subseteq Nat
    /\ Suffix \in Seq(STRING)
    /\ \A a, b \in DOMAIN Suffix : Suffix[a] = Suffix[b] => a = b
    /\ \A m \in Sources :
          /\ m.cores \in Seq(CoreConfig)
          /\ DOMAIN m.nodes \subseteq DOMAIN Suffix
          /\ \A i \in DOMAIN m.nodes : m.nodes[i].name \in Seq(STRING)

VARIABLES source,    \* the configuration to split, never written
          configs,   \* <outDir>/*.json, each with its path
          dnsFiles,  \* <outDir>/dns/*.json, each with the file it is a copy of
          run        \* the command

splitVars == <<source, configs, dnsFiles, run>>

NoRun == [state |-> "none", force |-> FALSE, at |-> 1, copied |-> 0, checked |-> FALSE,
          splits |-> 0, fails |-> 0]

SplitInit ==
    /\ source \in Sources
    /\ configs = {} /\ dnsFiles = {} /\ run = NoRun

-----------------------------------------------------------------------------
(* buildSplitConfigs *)

NamesAsConfigured(m) == [i \in DOMAIN m.nodes |-> m.nodes[i].name]

\* uniqueSplitName: the second node of a name gets "-2", and so on.
SplitNames(m) ==
    LET Name(i) == m.nodes[i].name
        Nth(i) == Cardinality({j \in 1..i : Name(j) = Name(i)})
    IN  [i \in DOMAIN m.nodes |->
            IF Nth(i) > 1 THEN Append(Name(i), Suffix[Nth(i)]) ELSE Name(i)]

\* The entries of a list at the given places, in their order
Sublist(list, places) ==
    LET Place(k) == CHOOSE i \in places : Cardinality({j \in places : j <= i}) = k
    IN  [k \in 1..Cardinality(places) |-> list[Place(k)]]

\* The indexes that splitNodeCores picks: CoreName matches the key, Core the type.
Picked(n, cores) ==
    {e \in DOMAIN cores : IF n.coreName # "" THEN cores[e].key = n.coreName
                          ELSE n.core # "" /\ EqualFold(cores[e].typ, n.core)}

MatchingCores(n, cores) == Sublist(cores, Picked(n, cores))

\* splitNodeCores: those picked; all of them when the node names none, when its
\* settings are in an Include file, when none matches.
SplitNodeCores(n, cores) ==
    IF n.include \/ Picked(n, cores) = {} THEN cores ELSE MatchingCores(n, cores)

\* splitDnsFileName: the Name of a core that has one is part of it.
SplitDnsFileName(name, core) == name \o (IF core.named THEN <<core.key>> ELSE <<>>)

BuildSplitConfig(m, i) ==
    LET name == SplitNames(m)[i]
        cores == SplitNodeCores(m.nodes[i], m.cores)
        target(core) == <<"dns">> \o SplitDnsFileName(name, core)
        own == Sublist(cores, {e \in DOMAIN cores : cores[e].dns # <<>>})
    IN  [path |-> name,
         conf |-> [cores |-> [e \in DOMAIN cores |->
                                 IF cores[e].dns = <<>> THEN cores[e]
                                 ELSE [cores[e] EXCEPT !.dns = target(cores[e])]],
                   nodes |-> <<m.nodes[i]>>, whole |-> TRUE],
         dns  |-> [e \in DOMAIN own |-> [of |-> own[e].dns, path |-> target(own[e])]]]

BuildSplitConfigs(m) == [i \in DOMAIN m.nodes |-> BuildSplitConfig(m, i)]

-----------------------------------------------------------------------------
(* runSplit.  An error ends the command and leaves what it has written.    *)

File == BuildSplitConfig(source, run.at)
Has(files, path) == \E f \in files : f.path = path
Put(files, f) == {g \in files : g.path # f.path} \cup {f}
Ends(state) == run' = [run EXCEPT !.state = state]

RunSplit(force) ==
    /\ run.state # "running" /\ run.splits < MaxSplits
    /\ run' = [NoRun EXCEPT !.state = IF source.nodes = <<>> THEN "failed" ELSE "running",
                            !.force = force, !.splits = run.splits + 1, !.fails = run.fails]
    /\ UNCHANGED <<source, configs, dnsFiles>>

\* A file that exists is not overwritten without -f.
CheckSplitFile ==
    /\ run.state = "running" /\ ~run.checked
    /\ IF ~run.force /\ Has(configs, File.path) THEN Ends("failed")
       ELSE run' = [run EXCEPT !.checked = TRUE]
    /\ UNCHANGED <<source, configs, dnsFiles>>

\* copySplitFile: one that exists is kept without -f, and no error.
CopySplitFile ==
    /\ run.state = "running" /\ run.checked /\ run.copied < Len(File.dns)
    /\ LET dns == File.dns[run.copied + 1]
       IN  dnsFiles' = IF ~run.force /\ Has(dnsFiles, dns.path) THEN dnsFiles
                       ELSE Put(dnsFiles, dns)
    /\ run' = [run EXCEPT !.copied = @ + 1]
    /\ UNCHANGED <<source, configs>>

WriteSplitFile ==
    /\ run.state = "running" /\ run.checked /\ run.copied = Len(File.dns)
    /\ configs' = Put(configs, [path |-> File.path, conf |-> File.conf])
    /\ IF run.at = Len(source.nodes) THEN Ends("ok")
       ELSE run' = [run EXCEPT !.at = @ + 1, !.copied = 0, !.checked = FALSE]
    /\ UNCHANGED <<source, dnsFiles>>

\* What os.WriteFile leaves of a copy when it fails: it has truncated the file.
HalfCopy(dns) == [dns EXCEPT !.of = <<>>]

\* A file operation fails, before it has changed anything or in the middle of a copy or
\* of a configuration file.
SplitFails ==
    LET dns == File.dns[run.copied + 1]
    IN  /\ run.state = "running" /\ run.fails < MaxSplitFails
        /\ run' = [run EXCEPT !.state = "failed", !.fails = @ + 1]
        /\ \/ UNCHANGED <<configs, dnsFiles>>
           \/ /\ run.checked /\ run.copied < Len(File.dns)
              /\ run.force \/ ~Has(dnsFiles, dns.path)
              /\ dnsFiles' = Put(dnsFiles, HalfCopy(dns)) /\ UNCHANGED configs
           \/ /\ run.checked /\ run.copied = Len(File.dns)
              /\ configs' = Put(configs, [path |-> File.path, conf |-> NoConf])
              /\ UNCHANGED dnsFiles
        /\ UNCHANGED source

SplitNext ==
    \/ \E force \in BOOLEAN : RunSplit(force)
    \/ CheckSplitFile \/ CopySplitFile \/ WriteSplitFile \/ SplitFails

-----------------------------------------------------------------------------
(* Properties *)

\* No name that a node was given is what another one's would become, and none is
\* another one's with the name of a core.
PlainNames(m) ==
    \A i, j \in DOMAIN m.nodes :
        /\ \A k \in DOMAIN Suffix : m.nodes[i].name # Append(m.nodes[j].name, Suffix[k])
        /\ \A e \in DOMAIN m.cores :
              m.cores[e].named => SplitNames(m)[i] # Append(SplitNames(m)[j], m.cores[e].key)

\* Of two cores with DNS files, one at least is named, and not like the other.
PlainCores(m) ==
    \A d, e \in {c \in DOMAIN m.cores : m.cores[c].dns # <<>>} :
        d # e /\ m.cores[d].named = m.cores[e].named =>
            m.cores[d].named /\ m.cores[d].key # m.cores[e].key

\* The files of the nodes, and the DNS files of each, as they were to be written
Files == BuildSplitConfigs(source)
DnsOf(i) == {Files[i].dns[e] : e \in DOMAIN Files[i].dns}
IsWritten(i) == [path |-> Files[i].path, conf |-> Files[i].conf] \in configs

\* split.go:327-328, "cannot make two nodes write the same file", and
\* split_test.go:76-78: after a split that reports success every node has a file
\* with itself alone in it, and its cores have DNS files no other node's core has,
\* copied from their own, whatever earlier runs have left behind, as far as names and
\* cores are plain and it overwrites (-f) what a run that failed has left half done.
\* The three properties after this one are what becomes of it where they are not.
SplitIsolates ==
    /\ run.state = "ok" /\ (run.force \/ run.fails = 0)
    /\ PlainNames(source) /\ PlainCores(source)
    => \A i \in DOMAIN Files :
          /\ IsWritten(i) /\ DnsOf(i) \subseteq dnsFiles
          /\ Cardinality(DnsOf(i)) = Len(Files[i].dns)
          /\ \A j \in DOMAIN Files \ {i} :
                {d.path : d \in DnsOf(i)} \cap {d.path : d \in DnsOf(j)} = {}

\* split.go:327-328, "so an empty or duplicated Name cannot make two nodes write the
\* same file": after a split that reports success every node has its file.
NodesHaveFiles == run.state = "ok" => \A i \in DOMAIN Files : IsWritten(i)

\* split.go:265-267, "several cores of one node cannot end up with one file (their DNS
\* formats differ)": after a split that reports success there is one for each.
CoresHaveOwnDns ==
    run.state = "ok" => \A i \in DOMAIN Files :
        Cardinality({d \in dnsFiles : d.path \in {e.path : e \in DnsOf(i)}}) = Len(Files[i].dns)

\* split.go:425-427, "copies the DNS config next to the generated configs": after a
\* split that reports success the DNS file of a core is a copy, or an earlier one.
CopiesAreWhole ==
    run.state = "ok" => \A i \in DOMAIN Files, d \in dnsFiles :
        d.path \in {e.path : e \in DnsOf(i)} => d.of # <<>>
=============================================================================
