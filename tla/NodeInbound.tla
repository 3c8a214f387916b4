----------------------------- MODULE NodeInbound -----------------------------
(***************************************************************************)
(* From what the panel says about a node to an inbound that listens.       *)
(*                                                                         *)
(* The answer of the panel is decoded (api/panel/node.go, in one way for   *)
(* ppanel and in another for the others), the controller gets a            *)
(* certificate for a TLS node (node/cert.go), and the core builds an       *)
(* inbound: xray (core/xray/inbound.go), sing (core/sing/node.go) or       *)
(* hysteria2 (core/hy2/node.go, config.go).  The three were written apart  *)
(* and the same node may be moved from one to another by its options.      *)
(*                                                                         *)
(* Of a string only what the code tells apart is kept: whether it is there *)
(* and whether it decodes.  A core that panics takes the process down.     *)
(***************************************************************************)
EXTENDS Naturals, FiniteSets

CONSTANT Case    \* pairs of an answer of the panel and the options of the operator

Core == {"xray", "sing", "hysteria2"}
V2ray == {"vmess", "vless"}
Type == V2ray \cup {"trojan", "shadowsocks", "tuic", "anytls", "naive",
                    "hysteria", "hysteria2", "unknown"}
Network == {"", "tcp", "ws", "grpc", "httpupgrade", "xhttp", "other"}

\* A raw field: missing, of another shape, usable; and usable with an HTTP header
\* for tcp, whose request has a path or none.
Json == {"absent", "wrong", "right", "header", "pathless"}
HttpHeader == {"header", "pathless"}

Ech == [enabled : BOOLEAN, key : BOOLEAN]

\* Where REALITY forwards to: a host (dest or server_name), a socket path
\* without a server_name, or nothing.
TlsSettings == [target : {"", "host", "socket"}, shortId : BOOLEAN, ech : Ech]
NoSettings == [target |-> "", shortId |-> FALSE,
               ech |-> [enabled |-> FALSE, key |-> FALSE]]
Absent == [NoSettings EXCEPT !.target = "absent"]

\* VLESS encryption of the inbound: none, a key or a structured value, anything else.
Decryption == {"", "key", "other"}

\* An answer, by the names of its fields.
Answers == [panel : {"ppanel", "uniproxy"}, type : Type, tls : {"none", "tls", "reality"},
            network : Network, network_settings : Json, networkSettings : Json,
            tls_settings : TlsSettings, tlsSettings : TlsSettings \cup {Absent}, ech : Ech,
            decryption : Decryption]

HyFault == {"unread", "window", "obfs", "hook", "outbound", "masq", "server"}

\* CertConfig with the state of its two files, EnableFallback with its list, which
\* step of hysteria2's AddNode its config file (the answer, for obfs) fails, and
\* which of xray's AddNode: its DNS file, or the SendIP or DNSType of its outbound.
Options == [certMode : {"none", "file", "dns", "self", "other"},
            files : {"unset", "missing", "there"},
            fallback : {"off", "empty", "listed"},
            hy2 : {"fine"} \cup HyFault, xray : {"fine", "dns", "outbound"}]

NodeInfo == [type : Type, security : {"none", "tls", "reality"}, network : Network,
             settings : Json, tls : TlsSettings, decryption : Decryption]

Result == [outcome : {"none", "error", "panic", "recorded"}]
            \cup [outcome : {"up"}, security : {"none", "tls", "reality"},
                  transport : (Network \ {""}) \cup {"http"}, ech : BOOLEAN, decrypt : BOOLEAN]

ASSUME CaseAssumption == Case \subseteq Answers \X Options

VARIABLES
    answer, option,   \* given
    stage,            \* how far Controller.Start or a reload has come
    info,             \* the decoded NodeInfo
    files,            \* the certificate files now
    inbound,          \* per core, what became of AddNode
    left,             \* per core, the step where AddNode failed and left an inbound
                      \*   or a socket open, "" for none
    naiveUsers        \* naiveInboundState of the sing core has users

vars == <<answer, option, stage, info, files, inbound, left, naiveUsers>>

TypeOK ==
    /\ answer \in Answers /\ option \in Options
    /\ stage \in {"pulled", "decoded", "ready", "failed"}
    /\ info \in NodeInfo
    /\ files \in {"unset", "missing", "there"}
    /\ inbound \in [Core -> Result]
    /\ left \in [Core -> HyFault \cup {"", "start"}]
    /\ naiveUsers \in BOOLEAN

Init ==
    /\ \E c \in Case : answer = c[1] /\ option = c[2]
    /\ stage = "pulled"
    /\ info = [type |-> "unknown", security |-> "none", network |-> "",
               settings |-> "absent", tls |-> NoSettings, decryption |-> ""]
    /\ files = option.files
    /\ inbound = [c \in Core |-> [outcome |-> "none"]]
    /\ left = [c \in Core |-> ""]
    /\ naiveUsers = FALSE

-----------------------------------------------------------------------------
(* api/panel/node.go *)

MergeECHSettings(primary, fallback) ==
    [enabled |-> primary.enabled \/ fallback.enabled,
     key     |-> primary.key \/ fallback.key]

\* tlsSettings, when it is there, replaces tls_settings altogether.
DecodeTlsSettings(a) ==
    IF a.tlsSettings # Absent THEN a.tlsSettings ELSE a.tls_settings

\* Without the check that the field is there.
CamelCaseOnly(a) ==
    IF a.type \in V2ray /\ a.panel = "uniproxy" THEN a.networkSettings
    ELSE IF a.type \in V2ray \cup {"trojan"} THEN a.network_settings ELSE "absent"

\* Either spelling of the network settings; which one wins depends on the type,
\* and for vmess and vless ppanel knows only one of them.
NetworkSettings(a) ==
    LET Prefer(x, y) == IF x # "absent" THEN x ELSE y
    IN  CASE a.type \in V2ray /\ a.panel = "uniproxy" ->
                 Prefer(a.networkSettings, a.network_settings)
          [] a.type \in V2ray /\ a.panel = "ppanel" -> a.network_settings
          [] a.type = "trojan" -> Prefer(a.network_settings, a.networkSettings)
          [] OTHER -> "absent"

Decoded(a, security) ==
    LET tls == DecodeTlsSettings(a)
    IN  [type |-> a.type, security |-> security,
         network |-> IF a.type \in V2ray \cup {"trojan"} THEN a.network ELSE "",
         settings |-> NetworkSettings(a),
         decryption |-> IF a.type \in V2ray THEN a.decryption ELSE "",
         tls |-> IF a.type \in V2ray \cup {"trojan"}
                 THEN [tls EXCEPT !.ech = MergeECHSettings(tls.ech, a.ech)]
                 ELSE IF a.type \in {"anytls", "naive"} THEN tls ELSE NoSettings]

TrojanKeepsTheTlsField(a) ==
    IF a.type \in V2ray \cup {"anytls", "naive", "trojan"} THEN a.tls
    ELSE IF a.type = "shadowsocks" THEN "none" ELSE "tls"

UniproxySecurity(a) ==
    CASE a.type \in V2ray \cup {"anytls", "naive"} -> a.tls
      [] a.type \in {"trojan", "tuic", "hysteria", "hysteria2"} -> "tls"
      [] OTHER -> "none"

\* tuic, hysteria2 and shadowsocks keep the zero value.
PPanelSecurity(a) ==
    CASE a.type \in V2ray \cup {"anytls", "naive"} -> a.tls
      [] a.type = "trojan" -> "tls"
      [] OTHER -> "none"

\* hysteria is unknown to ppanel.
GetNodeInfo ==
    /\ stage = "pulled"
    /\ IF answer.type = "unknown" \/ (answer.panel = "ppanel" /\ answer.type = "hysteria")
       THEN stage' = "failed" /\ UNCHANGED info
       ELSE /\ stage' = "decoded"
            /\ info' = Decoded(answer, IF answer.panel = "ppanel" THEN PPanelSecurity(answer)
                                       ELSE UniproxySecurity(answer))
    /\ UNCHANGED <<answer, option, files, inbound, left, naiveUsers>>

-----------------------------------------------------------------------------
(* node/cert.go: only a TLS node asks for a certificate.  "file" trusts    *)
(* the paths; the others make files that are missing, or fail to.          *)

RequestCert ==
    /\ stage = "decoded"
    /\ UNCHANGED <<answer, option, info, inbound, left, naiveUsers>>
    /\ \/ /\ info.security # "tls" \/ option.certMode = "none"
          /\ stage' = "ready" /\ UNCHANGED files
       \/ /\ info.security = "tls" /\ option.certMode \in {"file", "dns", "self"}
          /\ files # "unset"
          /\ stage' = "ready"
          /\ files' = IF option.certMode = "file" THEN files ELSE "there"
       \/ /\ info.security = "tls" /\ option.certMode # "none"
          /\ \/ option.certMode = "other" \/ files = "unset"
             \/ option.certMode \in {"dns", "self"} /\ files = "missing"
          /\ stage' = "failed" /\ UNCHANGED files

-----------------------------------------------------------------------------
Error == [outcome |-> "error"]
Panic == [outcome |-> "panic"]
Up(security, transport, ech, decrypt) ==
    [outcome |-> "up", security |-> security, transport |-> transport,
     ech |-> ech, decrypt |-> decrypt]

\* TLS that the operator does not want here (a proxy in front terminates it).
TlsMode == IF option.certMode = "none" THEN "none" ELSE "tls"

-----------------------------------------------------------------------------
(* core/xray/inbound.go *)

\* tcp with an HTTP header is a transport of its own to the client.
Framing(network, settings) ==
    IF network = "tcp" /\ settings \in HttpHeader THEN "http" ELSE network

\* buildVlessFallbacks, buildTrojanFallbacks: a list, with a dest in every entry.
BuildFallbacks == option.fallback # "empty"

\* resolveVlessInboundDecryption: a bare key gets its mode, the rest is passed on.
ResolveVlessInboundDecryption(n) == IF n.type = "vless" THEN n.decryption ELSE ""

\* buildV2ray: without network settings it returns before there is a stream
\* setting, which buildInbound dereferences.
BuildV2ray(n) ==
    IF n.type = "vless" /\ ~BuildFallbacks THEN Error
    ELSE IF n.settings = "absent" THEN Panic
    ELSE IF n.settings = "wrong" \/ n.network \in {"", "other"} THEN Error
    ELSE [outcome |-> "up", transport |-> Framing(n.network, n.settings)]

\* buildTrojan: an absent setting does not decode.
BuildTrojan(n) ==
    IF \/ ~BuildFallbacks \/ n.settings \in {"absent", "wrong"}
       \/ n.network \notin {"", "tcp", "ws", "grpc"}
    THEN Error
    ELSE [outcome |-> "up",
          transport |-> Framing(IF n.network = "" THEN "tcp" ELSE n.network, n.settings)]

BuildShadowsocks(n) == [outcome |-> "up", transport |-> "tcp"]

BuildSettings(n) ==
    CASE n.type \in V2ray -> BuildV2ray(n)
      [] n.type = "trojan" -> BuildTrojan(n)
      [] n.type = "shadowsocks" -> BuildShadowsocks(n)
      [] OTHER -> Error

RealityUsable(n) == n.tls.target = "host" /\ n.tls.shortId

\* getInboundECHServerKeys
ECHServerKeys(n) == n.tls.ech.enabled /\ n.tls.ech.key

\* in.Build of xray fails for certificate files that cannot be read and for a
\* decryption it does not know.
BuildInbound(n) ==
    LET in == BuildSettings(n)
        decryption == ResolveVlessInboundDecryption(n)
        Listen(security, ech) == Up(security, in.transport, ech, decryption = "key")
    IN  IF in.outcome # "up" THEN in
        ELSE CASE decryption = "other" -> Error
               [] decryption # "other" /\ n.security = "none" -> Listen("none", FALSE)
               [] decryption # "other" /\ n.security = "tls" /\ TlsMode = "none" ->
                      Listen("none", FALSE)
               [] decryption # "other" /\ n.security = "tls" /\ TlsMode = "tls"
                     /\ files = "there" -> Listen("tls", ECHServerKeys(n))
               [] decryption # "other" /\ n.security = "reality" /\ RealityUsable(n) ->
                      Listen("reality", FALSE)
               [] OTHER -> Error

-----------------------------------------------------------------------------
(* core/sing/node.go *)

\* The tls variable.  REALITY reads VAllss for every type but anytls; a naive
\* node has none.
SingTls(n) ==
    CASE n.security = "none" -> "none"
      [] n.security = "tls" -> TlsMode
      [] n.security = "reality" /\ n.type = "naive" -> "panic"
      [] OTHER -> "reality"

\* vmess and vless.  Network settings may be absent.  The first path of the HTTP
\* header is taken without asking whether there is one.
SingV2ray(n) ==
    CASE n.settings = "wrong" /\ n.network \in {"tcp", "ws", "grpc", "httpupgrade"} -> "error"
      [] n.settings = "pathless" /\ n.network = "tcp" -> "panic"
      [] OTHER -> IF n.network = "" THEN "tcp" ELSE Framing(n.network, n.settings)

TrojanIgnoresTransport(n) == "tcp"

\* A trojan node has no HTTP header, and unknown networks are served over plain tcp.
SingTrojan(n) ==
    CASE n.network \notin {"ws", "grpc"} -> "tcp"
      [] n.network \in {"ws", "grpc"} /\ n.settings = "wrong" -> "error"
      [] OTHER -> n.network

\* Manager.Create, before anything listens: QUIC protocols need TLS, certificate
\* files must be readable, and there is no xhttp transport.
Creatable(n, tls, transport) ==
    /\ n.type \in {"tuic", "hysteria", "hysteria2"} => tls = "tls"
    /\ tls = "tls" => files = "there"
    /\ transport \notin {"xhttp", "other"}

\* Neither ECH nor the decryption of a VLESS node is looked at.
GetInboundOptions(n) ==
    LET tls == SingTls(n)
        transport == CASE n.type \in V2ray -> SingV2ray(n)
                       [] n.type = "trojan" -> SingTrojan(n)
                       [] OTHER -> "tcp"
    IN  IF "panic" \in {tls, transport} THEN Panic
        ELSE IF transport # "error" /\ Creatable(n, tls, transport) THEN Up(tls, transport, FALSE, FALSE)
        ELSE Error

-----------------------------------------------------------------------------
(* core/hy2/node.go, config.go.  Every node is taken for a hysteria2 one:  *)
(* info.Hysteria2 of another type is nil.                                  *)

GetTLSConfig == TlsMode = "tls" /\ files = "there"

\* Every window, the idle timeout and the streams at least the minimum, or 0.
GetQUICConfig == option.hy2 # "window"

\* getConn dereferences info.Hysteria2.
GetConn(n) ==
    IF n.type # "hysteria2" THEN "panic" ELSE IF option.hy2 = "obfs" THEN "error" ELSE "ok"

GetRequestHook == option.hy2 # "hook"
GetOutboundConfig == option.hy2 # "outbound"
GetMasqHandler == option.hy2 # "masq"

GetHyConfig(n) ==
    IF option.hy2 = "unread" \/ ~GetTLSConfig \/ ~GetQUICConfig THEN Error
    ELSE IF GetConn(n) = "panic" THEN Panic
    ELSE IF GetConn(n) = "ok" /\ GetRequestHook /\ GetOutboundConfig /\ GetMasqHandler
         THEN Up("tls", "tcp", FALSE, FALSE) ELSE Error

\* AddNode: server.NewServer checks what getHyConfig does not (the UDP idle timeout).
NewServer(n) ==
    IF GetHyConfig(n).outcome = "up" /\ option.hy2 = "server" THEN Error ELSE GetHyConfig(n)

\* The steps that come after the socket is open: the end of getConn (the
\* obfuscation) and what follows it.
SocketOpen == {"obfs", "hook", "outbound", "masq", "server"}

-----------------------------------------------------------------------------
(* Core.AddNode.  Each core is tried by itself, as if the process ran that *)
(* core alone.  What does not depend on the node (a taken port, a listen   *)
(* address) may fail any of them.  A failed AddNode is tried again at the  *)
(* next pull; the Selector does not know the tag, so DelNode does nothing  *)
(* in between, and what was left open is in the way (the same tag in xray, *)
(* the same port in the others).                                           *)

\* updateDNSConfig: a DNS object that cannot be saved fails the node.  (The error
\* of saving a list of servers is lost in a shadowed variable.)
UpdateDNSConfig == option.xray # "dns"

\* buildOutbound, addOutbound: after the inbound is up.
BuildOutbound == option.xray # "outbound"

Built(core, n) ==
    CASE core = "xray" -> IF UpdateDNSConfig THEN BuildInbound(n) ELSE Error
      [] core = "sing" -> GetInboundOptions(n)
      [] OTHER -> NewServer(n)

Outcomes(result) == IF result.outcome = "up" THEN {result, Error} ELSE {result}

XrayLeaves(n) ==
    IF Built("xray", n).outcome = "up" /\ ~BuildOutbound THEN "outbound" ELSE ""

Hysteria2Leaves(n) ==
    IF option.hy2 \in SocketOpen /\ GetTLSConfig THEN option.hy2 ELSE ""

Leaves(core, n) ==
    CASE core = "xray" -> XrayLeaves(n)
      [] core = "hysteria2" -> Hysteria2Leaves(n)
      [] OTHER -> ""

\* Manager.Create does not close an inbound whose start failed: shadowsocks has its
\* TCP port when the UDP port is taken, and the QUIC protocols have their socket
\* when their server does not start.
StartLeaves(core, n) ==
    core = "sing" /\ n.type \in {"shadowsocks", "tuic", "hysteria", "hysteria2"}

\* sing only records a naive node: its inbound needs users.
AddNode(core) ==
    /\ stage = "ready" /\ inbound[core].outcome \in {"none", "error"}
    /\ \/ /\ core = "sing" /\ info.type = "naive"
          /\ inbound' = [inbound EXCEPT ![core] = [outcome |-> "recorded"]]
          /\ UNCHANGED left
       \/ /\ ~(core = "sing" /\ info.type = "naive")
          /\ left[core] # "" \/ Leaves(core, info) # ""
          /\ inbound' = [inbound EXCEPT ![core] =
                            IF Built(core, info).outcome = "panic" THEN Panic ELSE Error]
          /\ left' = [left EXCEPT ![core] = IF @ # "" THEN @ ELSE Leaves(core, info)]
       \/ /\ ~(core = "sing" /\ info.type = "naive")
          /\ left[core] = "" /\ Leaves(core, info) = ""
          /\ \E result \in Outcomes(Built(core, info)) :
                 inbound' = [inbound EXCEPT ![core] = result]
          /\ UNCHANGED left
       \/ /\ StartLeaves(core, info) /\ Built(core, info).outcome = "up" /\ left[core] = ""
          /\ inbound' = [inbound EXCEPT ![core] = Error]
          /\ left' = [left EXCEPT ![core] = "start"]
    /\ UNCHANGED <<answer, option, stage, info, files, naiveUsers>>

\* The runtime closes a socket that nothing refers to any more, some time after a
\* garbage collection.  xray runs the inbound, and a goroutine accepts on the TCP
\* port of shadowsocks: those stay.
Collect(core) ==
    /\ left[core] # "" /\ core # "xray" /\ info.type # "shadowsocks"
    /\ left' = [left EXCEPT ![core] = ""]
    /\ UNCHANGED <<answer, option, stage, info, files, inbound, naiveUsers>>

\* The node is changed at the panel and reloaded: DelNode of the core that has it.
DelNode(core) ==
    /\ inbound[core].outcome \in {"up", "recorded"}
    /\ inbound' = [inbound EXCEPT ![core] = [outcome |-> "none"]]
    /\ naiveUsers' = IF core = "sing" THEN FALSE ELSE naiveUsers
    /\ UNCHANGED <<answer, option, stage, info, files, left>>

\* The hysteria2 file, read at every AddNode, or the answer is put right.
Correct ==
    /\ stage = "ready" /\ option.hy2 # "fine"
    /\ option' = [option EXCEPT !.hy2 = "fine"]
    /\ UNCHANGED <<answer, stage, info, files, inbound, left, naiveUsers>>

\* addNaiveUsers and delNaiveUsers: the inbound is made anew for every change of
\* the users (and is gone when that fails), and removed with the last one.
ApplyNaiveInbound(users) ==
    /\ info.type = "naive" /\ inbound["sing"].outcome \in {"recorded", "up", "error"}
    /\ naiveUsers' = users
    /\ \E result \in IF users THEN Outcomes(GetInboundOptions(info))
                      ELSE {[outcome |-> "recorded"]} :
           inbound' = [inbound EXCEPT !["sing"] = result]
    /\ UNCHANGED <<answer, option, stage, info, files, left>>

Next ==
    \/ GetNodeInfo \/ RequestCert
    \/ \E core \in Core : AddNode(core) \/ Collect(core) \/ DelNode(core)
    \/ Correct
    \/ \E users \in BOOLEAN : ApplyNaiveInbound(users)

Spec == Init /\ [][Next]_vars

-----------------------------------------------------------------------------
(* Properties *)

IsUp(core) == inbound[core].outcome = "up"

Supports == [xray |-> V2ray \cup {"trojan", "shadowsocks"},
             sing |-> Type \ {"unknown"},
             hysteria2 |-> {"hysteria2"}]

\* What the panel asks for, read off its answer alone.
AskedSecurity ==
    CASE answer.type \in {"trojan", "tuic", "hysteria", "hysteria2"} -> "tls"
      [] answer.type = "shadowsocks" -> "none"
      [] OTHER -> answer.tls

\* No inbound listens with another protection than the panel asked for: a TLS or
\* REALITY node is never served in the clear (unless the operator has set
\* CertMode to none for TLS), whichever panel, field spelling and core.
SecurityAsAsked ==
    \A core \in Core : IsUp(core) =>
        \/ inbound[core].security = AskedSecurity
        \/ AskedSecurity = "tls" /\ option.certMode = "none" /\ inbound[core].security = "none"

\* What only xray knows of: the HTTP header of a trojan node, ECH, and the
\* decryption of a VLESS node.  sing takes no notice and serves the node without.
OnlyXrayKnows ==
    \/ answer.type = "trojan" /\ info.settings \in HttpHeader
    \/ ECHServerKeys(info)
    \/ answer.type = "vless" /\ answer.decryption # ""

\* A node that asks for none of these looks the same to its clients on xray and on
\* sing, to which it may be moved by its options: same transport, TLS or REALITY,
\* and no encryption inside or beside it that the other would not have.
CoresAgree ==
    IsUp("xray") /\ IsUp("sing") /\ ~OnlyXrayKnows => inbound["xray"] = inbound["sing"]

\* What the panels send: network settings in a spelling the panel's own decoder
\* reads, a path in every HTTP header, and REALITY only where there is a client.
WellFormed ==
    /\ answer.type \in V2ray =>
           \/ answer.network_settings # "absent"
           \/ answer.panel = "uniproxy" /\ answer.networkSettings # "absent"
    /\ "pathless" \notin {answer.network_settings, answer.networkSettings}
    /\ ~(answer.type = "naive" /\ answer.tls = "reality")

\* A core that is given a well-formed node of a type it supports never panics,
\* whatever else the answer, the options and the certificate files say: a panic in
\* AddNode ends every node of the process.
SupportedNeverPanics ==
    WellFormed =>
        \A core \in Core : answer.type \in Supports[core] => inbound[core].outcome # "panic"

\* node/node.go:22-24, "a broken configuration cannot leak goroutines, timers or
\* limiter entries": a node whose AddNode fails leaves nothing open behind it.
FailedAddIsClean == \A core \in Core : left[core] = ""
=============================================================================
