---------------------------- MODULE MCSplitServer ----------------------------
(* Instances of SplitServer for TLC. *)
EXTENDS SplitServer, TLC

Core(key, typ, owns, named, dns) ==
    [key |-> key, typ |-> typ, owns |-> owns, named |-> named, dns |-> dns]
Dns == <<"dns.json">>
Xray == Core("xray", "xray", FALSE, FALSE, Dns)
Edge == Core("edge", "xray", FALSE, TRUE, <<"edge.json">>)
Sing == Core("sing", "sing", FALSE, FALSE, <<>>)
Relay == Core("relay", "sing", TRUE, TRUE, <<>>)
Shouted == Core("Xray", "Xray", TRUE, FALSE, <<>>)

Node(tag, type, coreName, name) ==
    [tag |-> tag, type |-> type, core |-> "", coreName |-> coreName, include |-> FALSE,
     name |-> name, panics |-> {}]
Whole(cs, ns) == [cores |-> cs, nodes |-> ns, whole |-> TRUE]

\* The unnamed vmess node of the first may go to xray, which panics over it, but sing
\* runs already, and the nodes share a name; the second has a core that runs without
\* nodes, two that keep DNS files and a node with an Include; the third has a node that
\* names a core that is not there, and a core whose type is not in lower case beside one
\* that is; of the fourth the second node could not be decoded; over the node of the
\* fifth its core panics.
Mixed == Whole(<<Xray, Sing>>,
               <<Node("a", "tuic", "", <<"n">>),
                 [Node("b", "vmess", "", <<"n">>) EXCEPT !.panics = {"xray"}]>>)
Named == Whole(<<Relay, Edge, Xray>>,
               <<Node("a", "vmess", "xray", <<"n">>),
                 [Node("c", "trojan", "", <<"m">>) EXCEPT !.core = "xray", !.include = TRUE]>>)
Spelled == Whole(<<Shouted, Edge>>,
                 <<Node("a", "vless", "other", <<"n">>),
                   [Node("b", "vless", "", <<"m">>) EXCEPT !.core = "xray"]>>)
Half == [cores |-> <<Xray>>, nodes |-> <<Node("b", "vless", "", <<"n">>)>>, whole |-> FALSE]
Odd == Whole(<<Sing>>, <<[Node("a", "vless", "", <<"m">>) EXCEPT !.panics = {"sing"}]>>)

\* The names as they are after the second "n" became "n-2".
Numbered == Whole(<<Xray>>,
                  <<Node("a", "vless", "", <<"n", "-2">>), Node("b", "vless", "", <<"n">>),
                    Node("c", "vless", "", <<"n">>)>>)

\* Two cores that have no name, each with DNS (split_test.go gives sing one too).
Unnamed == Whole(<<Xray, [Sing EXCEPT !.dns = <<"sing_dns.json">>]>>,
                 <<Node("a", "vless", "", <<"n">>)>>)

MCSuffix == <<"-1", "-2", "-3", "-4">>
MCConfig == {Named, Half, Odd}
MCSources == {Mixed, Named, Spelled}

\* For the configurations about one thing
OnlyMixed == {Mixed}
OnlyNumbered == {Numbered}
OnlyUnnamed == {Unnamed}
=============================================================================
