---------------------------- MODULE MCNodeInbound ----------------------------
(* Instances of NodeInbound for TLC. *)
EXTENDS NodeInbound, TLC

Off == [enabled |-> FALSE, key |-> FALSE]
Complete == [target |-> "host", shortId |-> TRUE, ech |-> Off]

Cert(mode, state) == [certMode |-> mode, files |-> state, fallback |-> "off", hy2 |-> "fine",
                     xray |-> "fine"]

\* Every transport with every pair of network settings and every fallback.
Transports ==
    [panel : {"ppanel", "uniproxy"}, type : V2ray \cup {"trojan"}, tls : {"tls"},
     network : Network, network_settings : Json, networkSettings : Json,
     tls_settings : {Complete}, tlsSettings : {Absent}, ech : {Off}, decryption : {""}]
    \X {[Cert("file", "there") EXCEPT !.fallback = f] : f \in {"off", "empty", "listed"}}

\* Every protection with every pair of TLS settings and ECH in either place.
SomeTls == [target : {"host"}, shortId : {TRUE}, ech : Ech]
             \cup [target : {"", "socket"}, shortId : {TRUE}, ech : {Off}]
             \cup [target : {"host"}, shortId : {FALSE}, ech : {Off}]
Protections ==
    [panel : {"ppanel", "uniproxy"}, type : Type, tls : {"none", "tls", "reality"},
     network : {"tcp"}, network_settings : {"right"}, networkSettings : {"absent"},
     tls_settings : SomeTls, tlsSettings : {NoSettings, Complete, Absent}, ech : Ech, decryption : Decryption]
    \X {Cert("file", "there")}

\* Every type with every certificate and a step of xray that fails.
Certificates ==
    [panel : {"ppanel", "uniproxy"}, type : Type, tls : {"none", "tls", "reality"},
     network : {"tcp"}, network_settings : {"right"}, networkSettings : {"absent"},
     tls_settings : {Complete}, tlsSettings : {Absent}, ech : {Off}, decryption : {""}]
    \X [certMode : {"none", "file", "dns", "self", "other"}, files : {"unset", "missing", "there"},
        fallback : {"off"}, hy2 : {"fine"}, xray : {"fine", "dns", "outbound"}]

\* Every type with a hysteria2 file that fails each of the steps.
Hysteria2Files ==
    [panel : {"ppanel", "uniproxy"}, type : Type, tls : {"tls"},
     network : {"tcp"}, network_settings : {"right"}, networkSettings : {"absent"},
     tls_settings : {Complete}, tlsSettings : {Absent}, ech : {Off}, decryption : {""}]
    \X {[Cert("file", state) EXCEPT !.hy2 = h] : state \in {"missing", "there"}, h \in HyFault}

\* An outbound address that xray does not accept.
MCBrokenOutbound == {c \in Certificates : c[2].xray = "outbound"}

MCCase == Transports \cup Protections \cup Certificates \cup Hysteria2Files
=============================================================================
