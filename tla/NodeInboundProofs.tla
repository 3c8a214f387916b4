-------------------------- MODULE NodeInboundProofs --------------------------
(***************************************************************************)
(* Proofs about NodeInbound, for any answers of the panel and any options. *)
(*                                                                         *)
(* An inbound that is up is what its core builds from the decoded node, so *)
(* that the properties come down to what the three cores build.            *)
(***************************************************************************)
EXTENDS NodeInbound, TLAPS

DecodedSecurity(a) ==
    IF a.panel = "ppanel" THEN PPanelSecurity(a) ELSE UniproxySecurity(a)

\* The node that the core is given is what the answer says, and of a known type.
InfoFollows ==
    stage \in {"decoded", "ready"} =>
        info = Decoded(answer, DecodedSecurity(answer)) /\ answer.type # "unknown"

\* A listener with neither ECH nor decryption
Plain(security, transport) == Up(security, transport, FALSE, FALSE)

\* The listener of xray
Listens(n, security, transport) ==
    Up(security, transport, security = "tls" /\ ECHServerKeys(n),
       ResolveVlessInboundDecryption(n) = "key")

\* What the core has made of it
IsResult(r, result) ==
    /\ r.outcome = "up" => r = result
    /\ r.outcome = "panic" => result.outcome = "panic"

\* What became of AddNode is what the core makes of the node.  The hysteria2 file
\* may have been put right since, so of that core only the outcome is kept.
InboundFollows ==
    /\ \A core \in Core : inbound[core].outcome # "none" => stage = "ready"
    /\ IsResult(inbound["xray"], Built("xray", info))
    /\ IsResult(inbound["sing"], GetInboundOptions(info))
    /\ inbound["hysteria2"].outcome = "up" =>
          info.type = "hysteria2" /\ inbound["hysteria2"].security = "tls"
    /\ inbound["hysteria2"].outcome = "panic" => info.type # "hysteria2"

Shape ==
    /\ answer \in Answers /\ option \in Options
    /\ inbound = [c \in Core |-> inbound[c]] /\ left \in [Core -> HyFault \cup {"", "start"}]

IndInv == Shape /\ InfoFollows /\ InboundFollows

-----------------------------------------------------------------------------
(* What the cores build *)

\* The fields of the decoded node
LEMMA DecodedFields ==
  ASSUME NEW a, NEW security
  PROVE  LET n == Decoded(a, security)
         IN  /\ n.type = a.type /\ n.security = security /\ n.settings = NetworkSettings(a)
             /\ a.type \in V2ray \cup {"trojan"} => n.network = a.network
BY DEF Decoded

\* What the listener of xray has
LEMMA ListensSecurity ==
  ASSUME NEW n, NEW security, NEW transport
  PROVE  Listens(n, security, transport).security = security
BY DEF Listens, Up

\* It is plain without ECH and decryption.
LEMMA ListensPlain ==
  ASSUME NEW n, NEW security, NEW transport,
         ECHServerKeys(n) = FALSE, ResolveVlessInboundDecryption(n) = ""
  PROVE  Listens(n, security, transport) = Plain(security, transport)
<1> DEFINE ech == security = "tls" /\ ECHServerKeys(n)
           keyed == ResolveVlessInboundDecryption(n) = "key"
<1>1. ech = FALSE
  BY Zenon
<1>2. keyed = FALSE
  OBVIOUS
<1>3. Listens(n, security, transport) = Up(security, transport, ech, keyed)
  BY Zenon DEF Listens
<1> HIDE DEF ech, keyed
<1> QED BY <1>1, <1>2, <1>3, Zenon DEF Plain

\* buildInbound: a node that is up has the protection that was decoded, or none if the
\* operator terminates TLS elsewhere.
LEMMA XrayBuilds ==
  ASSUME NEW n, n.security \in {"none", "tls", "reality"}, Built("xray", n).outcome = "up"
  PROVE  /\ BuildSettings(n).outcome = "up"
         /\ Built("xray", n) = Listens(n, IF n.security = "tls" THEN TlsMode ELSE n.security,
                                       BuildSettings(n).transport)
<1>1. Built("xray", n) = BuildInbound(n)
  BY DEF Built, Error
<1> DEFINE in == BuildSettings(n)
           decryption == ResolveVlessInboundDecryption(n)
           clear == Up("none", in.transport, FALSE, decryption = "key")
           tls == Up("tls", in.transport, ECHServerKeys(n), decryption = "key")
           reality == Up("reality", in.transport, FALSE, decryption = "key")
<1>2. BuildInbound(n) =
         IF in.outcome # "up" THEN in
         ELSE CASE decryption = "other" -> Error
                [] decryption # "other" /\ n.security = "none" -> clear
                [] decryption # "other" /\ n.security = "tls" /\ TlsMode = "none" -> clear
                [] decryption # "other" /\ n.security = "tls" /\ TlsMode = "tls"
                      /\ files = "there" -> tls
                [] decryption # "other" /\ n.security = "reality" /\ RealityUsable(n) -> reality
                [] OTHER -> Error
  BY Zenon DEF BuildInbound
<1>3. TlsMode \in {"none", "tls"}
  BY DEF TlsMode
<1>4. /\ clear = Listens(n, "none", in.transport)
      /\ tls = Listens(n, "tls", in.transport)
      /\ reality = Listens(n, "reality", in.transport)
  <2>1. /\ ("none" = "tls" /\ ECHServerKeys(n)) = FALSE
        /\ ("tls" = "tls" /\ ECHServerKeys(n)) = ECHServerKeys(n)
        /\ ("reality" = "tls" /\ ECHServerKeys(n)) = FALSE
    BY DEF ECHServerKeys
  <2> QED BY <2>1, Zenon DEF Listens
<1> HIDE DEF in, decryption, clear, tls, reality
<1>5. in.outcome = "up" /\ decryption # "other"
  BY <1>1, <1>2 DEF Error
<1>6. \/ n.security = "none" /\ BuildInbound(n) = clear
      \/ n.security = "tls" /\ TlsMode = "none" /\ BuildInbound(n) = clear
      \/ n.security = "tls" /\ TlsMode = "tls" /\ BuildInbound(n) = tls
      \/ n.security = "reality" /\ BuildInbound(n) = reality
  BY <1>1, <1>2, <1>3, <1>5 DEF Error
<1> QED BY <1>1, <1>4, <1>5, <1>6 DEF in

\* getInboundOptions: the same for sing, and a QUIC node has TLS.
LEMMA SingBuilds ==
  ASSUME NEW n, n.security \in {"none", "tls", "reality"}, GetInboundOptions(n).outcome = "up"
  PROVE  LET r == GetInboundOptions(n)
         IN  /\ r.security = IF n.security = "tls" THEN TlsMode ELSE n.security
             /\ r = Plain(r.security, r.transport)
             /\ n.type \in {"tuic", "hysteria", "hysteria2"} => r.security = "tls"
             /\ n.type \in V2ray =>
                   /\ r.transport = SingV2ray(n)
                   /\ SingV2ray(n) \notin {"error", "panic", "xhttp", "other"}
             /\ n.type = "trojan" => r.transport = SingTrojan(n)
             /\ n.type \notin V2ray \cup {"trojan"} => r.transport = "tcp"
<1> DEFINE tls == SingTls(n)
           transport == CASE n.type \in V2ray -> SingV2ray(n)
                       [] n.type = "trojan" -> SingTrojan(n)
                       [] OTHER -> "tcp"
<1> HIDE DEF tls, transport
<1>1. GetInboundOptions(n) = IF "panic" \in {tls, transport} THEN Panic
        ELSE IF transport # "error" /\ Creatable(n, tls, transport) THEN Plain(tls, transport)
        ELSE Error
  BY DEF GetInboundOptions, tls, transport, Plain
<1>2. /\ GetInboundOptions(n) = Plain(tls, transport) /\ tls # "panic"
      /\ transport \notin {"panic", "error"} /\ Creatable(n, tls, transport)
  BY <1>1 DEF Panic, Error, Plain, Up
<1>3. GetInboundOptions(n).security = tls /\ GetInboundOptions(n).transport = transport
  BY <1>2 DEF Plain, Up
<1>4. tls = IF n.security = "tls" THEN TlsMode ELSE n.security
  BY <1>2 DEF tls, SingTls
<1>5. /\ n.type \in {"tuic", "hysteria", "hysteria2"} => tls = "tls"
      /\ transport \notin {"xhttp", "other"}
  BY <1>2 DEF Creatable
<1>6. /\ n.type \in V2ray => transport = SingV2ray(n)
      /\ n.type = "trojan" => transport = SingTrojan(n)
      /\ n.type \notin V2ray \cup {"trojan"} => transport = "tcp"
  BY DEF transport, V2ray
<1> QED BY <1>2, <1>3, <1>4, <1>5, <1>6

\* A panic of sing: REALITY for naive, or an HTTP header without a path.
LEMMA SingPanics ==
  ASSUME NEW n, n.security \in {"none", "tls", "reality"}, n.network \in Network,
         GetInboundOptions(n).outcome = "panic"
  PROVE  (n.security = "reality" /\ n.type = "naive") \/ n.settings = "pathless"
<1>1. SingTls(n) = "panic" \/ (n.type \in V2ray /\ SingV2ray(n) = "panic")
              \/ (n.type = "trojan" /\ SingTrojan(n) = "panic")
  BY DEF GetInboundOptions, Panic, Up, Error
<1>2. SingTls(n) = "panic" => n.security = "reality" /\ n.type = "naive"
  BY DEF SingTls, TlsMode
<1>3. SingV2ray(n) = "panic" => n.settings = "pathless"
  BY DEF SingV2ray, Framing, Network
<1>4. SingTrojan(n) # "panic"
  BY DEF SingTrojan
<1> QED BY <1>1, <1>2, <1>3, <1>4

\* A panic of xray: vmess or vless without network settings.
LEMMA XrayPanics ==
  ASSUME NEW n, Built("xray", n).outcome = "panic"
  PROVE  n.type \in V2ray /\ n.settings = "absent"
<1>1. BuildInbound(n).outcome = "panic"
  BY DEF Built, Error
<1>2. BuildSettings(n).outcome = "panic"
  BY <1>1 DEF BuildInbound, Up, Error
<1>3. n.type \in V2ray /\ BuildV2ray(n).outcome = "panic"
  BY <1>2 DEF BuildSettings, BuildTrojan, BuildShadowsocks, Error
<1> QED BY <1>3 DEF BuildV2ray, Error, Panic

\* What xray serves
LEMMA XrayTypes ==
  ASSUME NEW n, BuildSettings(n).outcome = "up"
  PROVE  /\ n.type \in V2ray \cup {"trojan", "shadowsocks"}
         /\ n.type \in V2ray =>
               /\ BuildSettings(n).transport = Framing(n.network, n.settings)
               /\ n.settings \notin {"absent", "wrong"} /\ n.network \notin {"", "other"}
         /\ n.type = "trojan" =>
               /\ n.network \in {"", "tcp", "ws", "grpc"} /\ n.settings \notin {"absent", "wrong"}
               /\ BuildSettings(n).transport =
                     Framing(IF n.network = "" THEN "tcp" ELSE n.network, n.settings)
         /\ n.type = "shadowsocks" => BuildSettings(n).transport = "tcp"
<1>1. n.type \in V2ray \cup {"trojan", "shadowsocks"}
  BY DEF BuildSettings, Error
<1>2. CASE n.type \in V2ray
  <2>1. BuildSettings(n) = BuildV2ray(n)
    BY <1>2 DEF BuildSettings, V2ray
  <2>2. BuildV2ray(n).outcome = "up"
    BY <2>1
  <2>3. n.settings \notin {"absent", "wrong"} /\ n.network \notin {"", "other"}
    BY <2>2 DEF BuildV2ray, Error, Panic
  <2>4. BuildV2ray(n).transport = Framing(n.network, n.settings)
    BY <2>2 DEF BuildV2ray, Error, Panic
  <2> QED BY <1>2, <2>1, <2>3, <2>4 DEF V2ray
<1>3. CASE n.type = "trojan"
  <2>1. BuildSettings(n) = BuildTrojan(n)
    BY <1>3 DEF BuildSettings, V2ray
  <2>2. BuildTrojan(n).outcome = "up"
    BY <2>1
  <2>3. n.settings \notin {"absent", "wrong"} /\ n.network \in {"", "tcp", "ws", "grpc"}
    BY <2>2 DEF BuildTrojan, Error
  <2>4. BuildTrojan(n).transport = Framing(IF n.network = "" THEN "tcp" ELSE n.network, n.settings)
    BY <2>2 DEF BuildTrojan, Error
  <2> QED BY <1>3, <2>1, <2>3, <2>4 DEF V2ray
<1>4. CASE n.type = "shadowsocks"
  BY <1>4 DEF BuildSettings, BuildShadowsocks, V2ray
<1> QED BY <1>1, <1>2, <1>3, <1>4

-----------------------------------------------------------------------------
(* The steps *)

\* What xray and sing build does not depend on the hysteria2 file.
LEMMA SameBuilt ==
  ASSUME UNCHANGED <<info, files>>, option'.certMode = option.certMode,
         option'.fallback = option.fallback, option'.xray = option.xray
  PROVE  /\ Built("xray", info)' = Built("xray", info)
         /\ GetInboundOptions(info)' = GetInboundOptions(info)
<1>1. TlsMode' = TlsMode
  BY DEF TlsMode
<1>2. BuildSettings(info)' = BuildSettings(info)
  BY DEF BuildSettings, BuildV2ray, BuildTrojan, BuildShadowsocks, BuildFallbacks, Error, Panic,
         Framing
<1>3. BuildInbound(info)' = BuildInbound(info)
  BY <1>1, <1>2
  DEF BuildInbound, Up, Error, ECHServerKeys, RealityUsable, ResolveVlessInboundDecryption
<1>4. Built("xray", info)' = Built("xray", info)
  BY <1>3 DEF Built, UpdateDNSConfig, Error
<1>5. SingTls(info)' = SingTls(info)
  BY <1>1 DEF SingTls
<1>6. GetInboundOptions(info)' = GetInboundOptions(info)
  BY <1>5 DEF GetInboundOptions, SingV2ray, SingTrojan, Framing, Creatable, Up, Panic, Error
<1> QED BY <1>4, <1>6

\* AddNode of hysteria2: only a hysteria2 node is ever up, with TLS, and only another
\* panics.
LEMMA Hysteria2Builds ==
  ASSUME NEW n
  PROVE  /\ NewServer(n).outcome = "up" => n.type = "hysteria2" /\ NewServer(n).security = "tls"
         /\ NewServer(n).outcome = "panic" => n.type # "hysteria2"
<1>1. NewServer(n).outcome \in {"up", "panic"} => NewServer(n) = GetHyConfig(n)
  BY DEF NewServer, Error
<1>2. /\ GetHyConfig(n).outcome = "up" => n.type = "hysteria2" /\ GetHyConfig(n).security = "tls"
      /\ GetHyConfig(n).outcome = "panic" => n.type # "hysteria2"
  BY DEF GetHyConfig, GetConn, Up, Error, Panic
<1> QED BY <1>1, <1>2

\* Every step keeps the shapes.
LEMMA ShapeStep ==
  ASSUME Shape, [Next]_vars
  PROVE  Shape'
<1> USE DEF Shape
<1>1. CASE GetNodeInfo
  BY <1>1 DEF GetNodeInfo
<1>2. CASE RequestCert
  BY <1>2 DEF RequestCert
<1>3. ASSUME NEW core \in Core, AddNode(core) PROVE Shape'
  <2>1. Leaves(core, info) \in HyFault \cup {"", "start"}
    BY DEF Leaves, XrayLeaves, Hysteria2Leaves, SocketOpen, HyFault
  <2>2. left' \in [Core -> HyFault \cup {"", "start"}]
    BY <1>3, <2>1 DEF AddNode
  <2>3. inbound' = [c \in Core |-> inbound'[c]]
    BY <1>3 DEF AddNode
  <2> QED BY <1>3, <2>2, <2>3 DEF AddNode
<1>4. ASSUME NEW core \in Core, DelNode(core) PROVE Shape'
  BY <1>4 DEF DelNode
<1>5. CASE Correct
  BY <1>5 DEF Correct, Options
<1>6. ASSUME NEW users \in BOOLEAN, ApplyNaiveInbound(users) PROVE Shape'
  BY <1>6 DEF ApplyNaiveInbound
<1>7. CASE UNCHANGED vars
  BY <1>7 DEF vars
<1>8. ASSUME NEW core \in Core, Collect(core) PROVE Shape'
  BY <1>8 DEF Collect
<1> QED
  BY <1>1, <1>2, <1>3, <1>4, <1>5, <1>6, <1>7, <1>8
  DEF Next

\* The node is decoded once.
LEMMA InfoStep ==
  ASSUME InfoFollows, [Next]_vars
  PROVE  InfoFollows'
<1> USE DEF InfoFollows
<1>1. CASE GetNodeInfo
  <2>1. CASE stage' = "failed"
    BY <2>1
  <2>2. CASE /\ answer.type # "unknown" /\ UNCHANGED answer
             /\ info' = Decoded(answer, DecodedSecurity(answer))
    BY <2>2
  <2> QED BY <1>1, <2>1, <2>2 DEF GetNodeInfo, DecodedSecurity
<1>2. CASE RequestCert
  BY <1>2 DEF RequestCert
<1>3. ASSUME NEW core \in Core, AddNode(core) PROVE InfoFollows'
  BY <1>3 DEF AddNode
<1>4. ASSUME NEW core \in Core, DelNode(core) PROVE InfoFollows'
  BY <1>4 DEF DelNode
<1>5. CASE Correct
  BY <1>5 DEF Correct
<1>6. ASSUME NEW users \in BOOLEAN, ApplyNaiveInbound(users) PROVE InfoFollows'
  BY <1>6 DEF ApplyNaiveInbound
<1>7. CASE UNCHANGED vars
  BY <1>7 DEF vars
<1>8. ASSUME NEW core \in Core, Collect(core) PROVE InfoFollows'
  BY <1>8 DEF Collect
<1> QED
  BY <1>1, <1>2, <1>3, <1>4, <1>5, <1>6, <1>7, <1>8
  DEF Next

\* What listens is what the core has built.
LEMMA InboundStep ==
  ASSUME Shape, InboundFollows, [Next]_vars
  PROVE  InboundFollows'
<1> USE DEF InboundFollows
<1>1. CASE GetNodeInfo
  <2>1. UNCHANGED inbound /\ \A core \in Core : inbound[core].outcome = "none"
    BY <1>1 DEF GetNodeInfo
  <2> QED BY <2>1 DEF Core, IsResult
<1>2. CASE RequestCert
  <2>1. UNCHANGED inbound /\ \A core \in Core : inbound[core].outcome = "none"
    BY <1>2 DEF RequestCert
  <2> QED BY <2>1 DEF Core, IsResult
<1>3. ASSUME NEW core \in Core, AddNode(core) PROVE InboundFollows'
  <2>0. /\ Built("xray", info)' = Built("xray", info)
        /\ GetInboundOptions(info)' = GetInboundOptions(info)
    BY <1>3, SameBuilt DEF AddNode
  <2>1. /\ stage = "ready" /\ UNCHANGED <<stage, info>>
        /\ \A c \in Core \ {core} : inbound'[c] = inbound[c]
    BY <1>3 DEF AddNode, Shape
  <2>2. IsResult(inbound'[core], Built(core, info))
    <3>1. CASE core = "sing" /\ info.type = "naive"
      <4>1. inbound' = [inbound EXCEPT ![core] = [outcome |-> "recorded"]]
        BY <1>3, <3>1 DEF AddNode, StartLeaves
      <4>2. inbound'[core].outcome = "recorded"
        BY <4>1 DEF Shape
      <4> QED BY <4>2 DEF IsResult
    <3>2. CASE inbound' = [inbound EXCEPT ![core] =
                            IF Built(core, info).outcome = "panic" THEN Panic ELSE Error]
      BY <3>2 DEF Shape, Error, Panic, IsResult
    <3>3. ASSUME NEW result \in Outcomes(Built(core, info)),
                 inbound' = [inbound EXCEPT ![core] = result]
          PROVE  IsResult(inbound'[core], Built(core, info))
      <4>1. result = Built(core, info) \/ result.outcome = "error"
        BY <3>3 DEF Outcomes, Error
      <4> QED BY <3>3, <4>1 DEF Shape, IsResult
    <3>4. CASE inbound' = [inbound EXCEPT ![core] = Error]
      BY <3>4 DEF Shape, Error, IsResult
    <3> QED BY <1>3, <3>1, <3>2, <3>3, <3>4 DEF AddNode
  <2>3. CASE core = "xray"
    BY <2>0, <2>1, <2>2, <2>3 DEF Core, IsResult
  <2>4. CASE core = "sing"
    <3>1. Built(core, info) = GetInboundOptions(info)
      BY <2>4 DEF Built
    <3> QED BY <2>0, <2>1, <2>2, <2>4, <3>1 DEF Core
  <2>5. CASE core = "hysteria2"
    <3>1. Built(core, info) = NewServer(info)
      BY <2>5 DEF Built
    <3> QED BY <2>0, <2>1, <2>2, <2>5, <3>1, Hysteria2Builds DEF Core, IsResult
  <2> QED BY <2>3, <2>4, <2>5 DEF Core
<1>4. ASSUME NEW core \in Core, DelNode(core) PROVE InboundFollows'
  <2>0. /\ Built("xray", info)' = Built("xray", info)
        /\ GetInboundOptions(info)' = GetInboundOptions(info)
    BY <1>4, SameBuilt DEF DelNode
  <2>1. /\ UNCHANGED <<stage, info>> /\ inbound'[core].outcome = "none"
        /\ \A c \in Core \ {core} : inbound'[c] = inbound[c]
    BY <1>4 DEF DelNode, Shape
  <2> QED BY <2>0, <2>1 DEF Core, IsResult
<1>5. CASE Correct
  <2>1. /\ UNCHANGED <<info, files, inbound, stage>> /\ option'.certMode = option.certMode
        /\ option'.fallback = option.fallback /\ option'.xray = option.xray
    BY <1>5 DEF Correct, Shape, Options
  <2> QED BY <2>1, SameBuilt
<1>6. ASSUME NEW users \in BOOLEAN, ApplyNaiveInbound(users) PROVE InboundFollows'
  <2>0. /\ Built("xray", info)' = Built("xray", info)
        /\ GetInboundOptions(info)' = GetInboundOptions(info)
    BY <1>6, SameBuilt DEF ApplyNaiveInbound
  <2>1. /\ UNCHANGED <<stage, info>>
        /\ \A c \in Core \ {"sing"} : inbound'[c] = inbound[c]
    BY <1>6 DEF ApplyNaiveInbound, Shape
  <2>2. IsResult(inbound'["sing"], GetInboundOptions(info))
    <3>1. PICK result \in IF users THEN Outcomes(GetInboundOptions(info))
                          ELSE {[outcome |-> "recorded"]} :
                 inbound' = [inbound EXCEPT !["sing"] = result]
      BY <1>6 DEF ApplyNaiveInbound
    <3>2. result = GetInboundOptions(info) \/ result.outcome \in {"error", "recorded"}
      BY <3>1 DEF Outcomes, Error
    <3> QED BY <3>1, <3>2 DEF Shape, Core, IsResult
  <2>3. stage = "ready"
    BY <1>6 DEF ApplyNaiveInbound, Core
  <2> QED BY <2>0, <2>1, <2>2, <2>3 DEF Core
<1>7. CASE UNCHANGED vars
  <2>1. /\ UNCHANGED <<info, files, inbound, stage>> /\ option'.certMode = option.certMode
        /\ option'.fallback = option.fallback /\ option'.xray = option.xray
    BY <1>7 DEF vars
  <2> QED BY <2>1, SameBuilt
<1>8. ASSUME NEW core \in Core, Collect(core) PROVE InboundFollows'
  <2>1. /\ UNCHANGED <<info, files, inbound, stage>> /\ option'.certMode = option.certMode
        /\ option'.fallback = option.fallback /\ option'.xray = option.xray
    BY <1>8 DEF Collect
  <2> QED BY <2>1, SameBuilt
<1> QED
  BY <1>1, <1>2, <1>3, <1>4, <1>5, <1>6, <1>7, <1>8
  DEF Next

\* IndInv is an invariant.
LEMMA IndInvariant == Spec => []IndInv
<1>1. Init => IndInv
  <2> SUFFICES ASSUME Init PROVE IndInv
    OBVIOUS
  <2>1. Shape
    BY CaseAssumption DEF CaseAssumption, Init, Shape
  <2>2. InfoFollows
    BY DEF Init, InfoFollows
  <2>3. \A core \in Core : inbound[core].outcome = "none"
    BY DEF Init
  <2>4. InboundFollows
    BY <2>3 DEF InboundFollows, IsResult, Core
  <2> QED BY <2>1, <2>2, <2>4 DEF IndInv
<1>2. IndInv /\ [Next]_vars => IndInv'
  BY ShapeStep, InfoStep, InboundStep DEF IndInv
<1> QED BY <1>1, <1>2, PTL DEF Spec

\* The decoded protection is what the panel asks for, except for the QUIC protocols of
\* ppanel, where the field is not filled in.
LEMMA SecurityDecoded ==
  ASSUME answer \in Answers, answer.type # "unknown"
  PROVE  /\ DecodedSecurity(answer) \in {"none", "tls", "reality"}
         /\ \/ DecodedSecurity(answer) = AskedSecurity
            \/ answer.type \in {"tuic", "hysteria", "hysteria2"} /\ DecodedSecurity(answer) = "none"
<1>1. answer.type \in Type /\ answer.tls \in {"none", "tls", "reality"}
  BY DEF Answers
<1>2. CASE answer.type \in V2ray \cup {"anytls", "naive"}
  BY <1>1, <1>2 DEF DecodedSecurity, PPanelSecurity, UniproxySecurity, AskedSecurity, V2ray
<1>3. CASE answer.type \in {"trojan", "tuic", "hysteria", "hysteria2"}
  BY <1>1, <1>3 DEF DecodedSecurity, PPanelSecurity, UniproxySecurity, AskedSecurity, V2ray
<1>4. CASE answer.type = "shadowsocks"
  BY <1>1, <1>4 DEF DecodedSecurity, PPanelSecurity, UniproxySecurity, AskedSecurity, V2ray
<1> QED BY <1>1, <1>2, <1>3, <1>4 DEF Type

\* The fields of the node that a core has settled on
LEMMA InfoFields ==
  ASSUME IndInv, NEW core \in Core, inbound[core].outcome # "none"
  PROVE  /\ info.type = answer.type /\ info.settings = NetworkSettings(answer)
         /\ info = Decoded(answer, DecodedSecurity(answer))
         /\ info.security = DecodedSecurity(answer) /\ answer.type # "unknown"
         /\ info.security \in {"none", "tls", "reality"} /\ answer \in Answers
<1>1. /\ info = Decoded(answer, DecodedSecurity(answer)) /\ answer.type # "unknown"
      /\ answer \in Answers
  BY DEF IndInv, InboundFollows, InfoFollows, Shape
<1> QED BY <1>1, DecodedFields, SecurityDecoded

\* What an inbound of xray or sing that is up has
LEMMA UpSecurity ==
  ASSUME IndInv
  PROVE  /\ IsUp("xray") =>
               inbound["xray"].security = IF info.security = "tls" THEN TlsMode ELSE info.security
         /\ IsUp("sing") =>
               inbound["sing"].security = IF info.security = "tls" THEN TlsMode ELSE info.security
         /\ IsUp("sing") /\ info.type \in {"tuic", "hysteria", "hysteria2"} =>
               inbound["sing"].security = "tls"
<1>1. ASSUME IsUp("xray")
      PROVE  inbound["xray"].security = IF info.security = "tls" THEN TlsMode ELSE info.security
  <2>1. info.security \in {"none", "tls", "reality"}
    BY <1>1, InfoFields DEF IsUp, Core
  <2>2. inbound["xray"] = Built("xray", info) /\ Built("xray", info).outcome = "up"
    BY <1>1 DEF IndInv, InboundFollows, IsResult, IsUp
  <2> QED BY <2>1, <2>2, XrayBuilds, ListensSecurity
<1>2. ASSUME IsUp("sing")
      PROVE  /\ inbound["sing"].security = IF info.security = "tls" THEN TlsMode ELSE info.security
             /\ info.type \in {"tuic", "hysteria", "hysteria2"} => inbound["sing"].security = "tls"
  <2>1. info.security \in {"none", "tls", "reality"}
    BY <1>2, InfoFields DEF IsUp, Core
  <2>2. inbound["sing"] = GetInboundOptions(info) /\ GetInboundOptions(info).outcome = "up"
    BY <1>2 DEF IndInv, InboundFollows, IsResult, IsUp
  <2> QED BY <2>1, <2>2, SingBuilds
<1> QED BY <1>1, <1>2

\* No inbound listens with another protection than the panel asked for, whichever panel,
\* spelling of the fields and core (node.go, inbound.go).
THEOREM SecurityAlwaysAsAsked == Spec => []SecurityAsAsked
<1>1. ASSUME IndInv, NEW core \in Core, IsUp(core)
      PROVE  \/ inbound[core].security = AskedSecurity
             \/ /\ AskedSecurity = "tls" /\ option.certMode = "none"
                /\ inbound[core].security = "none"
  <2>1. /\ info.type = answer.type /\ info.security = DecodedSecurity(answer)
        /\ answer.type # "unknown" /\ answer \in Answers
    BY <1>1, InfoFields DEF IsUp
  <2>2. \/ info.security = AskedSecurity
        \/ answer.type \in {"tuic", "hysteria", "hysteria2"} /\ info.security = "none"
    BY <2>1, SecurityDecoded
  <2>3. info.type \in {"tuic", "hysteria", "hysteria2"} => AskedSecurity = "tls"
    BY <2>1 DEF AskedSecurity
  <2>4. CASE core = "xray"
    <3>1. info.type \in V2ray \cup {"trojan", "shadowsocks"}
      <4>1. Built("xray", info).outcome = "up" /\ info.security \in {"none", "tls", "reality"}
        BY <1>1, <2>4, InfoFields DEF IndInv, InboundFollows, IsResult, IsUp
      <4>2. BuildSettings(info).outcome = "up"
        BY <4>1, XrayBuilds
      <4> QED BY <4>2, XrayTypes
    <3> QED BY <1>1, <2>1, <2>2, <2>4, <3>1, UpSecurity DEF TlsMode, V2ray
  <2>5. CASE core = "sing"
    <3>1. inbound["sing"].security = IF info.security = "tls" THEN TlsMode ELSE info.security
      BY <1>1, <2>5, UpSecurity
    <3>2. info.type \in {"tuic", "hysteria", "hysteria2"} => inbound["sing"].security = "tls"
      BY <1>1, <2>5, UpSecurity
    <3> QED BY <2>1, <2>2, <2>3, <2>5, <3>1, <3>2 DEF TlsMode
  <2>6. CASE core = "hysteria2"
    BY <1>1, <2>1, <2>3, <2>6 DEF IndInv, InboundFollows, IsUp
  <2> QED BY <2>4, <2>5, <2>6 DEF Core
<1>2. IndInv => SecurityAsAsked
  BY <1>1 DEF SecurityAsAsked
<1> QED BY <1>2, IndInvariant, PTL

\* A node without ECH, decryption and trojan header looks the same to its clients on xray
\* and on sing, though the two were written apart (inbound.go of xray, node.go of sing).
THEOREM CoresAlwaysAgree == Spec => []CoresAgree
<1>1. IndInv => CoresAgree
  <2> SUFFICES ASSUME IndInv, IsUp("xray"), IsUp("sing"), ~OnlyXrayKnows
               PROVE  inbound["xray"] = inbound["sing"]
    BY DEF CoresAgree
  <2>1. /\ info.type = answer.type /\ info.security \in {"none", "tls", "reality"}
        /\ info = Decoded(answer, DecodedSecurity(answer))
    BY InfoFields DEF IsUp, Core
  <2>2. inbound["xray"] = Built("xray", info) /\ inbound["sing"] = GetInboundOptions(info)
    BY DEF IndInv, InboundFollows, IsResult, IsUp
  <2>3. Built("xray", info).outcome = "up" /\ GetInboundOptions(info).outcome = "up"
    BY <2>2 DEF IsUp
  <2>4. ECHServerKeys(info) = FALSE
    BY Zenon DEF OnlyXrayKnows, ECHServerKeys
  <2>5. ResolveVlessInboundDecryption(info) = ""
    <3>1. info.type = "vless" => info.decryption = answer.decryption
      BY <2>1 DEF Decoded, V2ray
    <3>2. info.type = "vless" => answer.decryption = ""
      BY <2>1 DEF OnlyXrayKnows
    <3> QED BY <3>1, <3>2 DEF ResolveVlessInboundDecryption
  <2> DEFINE security == IF info.security = "tls" THEN TlsMode ELSE info.security
  <2>a. /\ BuildSettings(info).outcome = "up"
        /\ inbound["xray"] = Plain(security, BuildSettings(info).transport)
    <3>1. /\ BuildSettings(info).outcome = "up"
          /\ inbound["xray"] = Listens(info, security, BuildSettings(info).transport)
      BY <2>1, <2>2, <2>3, XrayBuilds
    <3>2. Listens(info, security, BuildSettings(info).transport)
             = Plain(security, BuildSettings(info).transport)
      BY <2>4, <2>5, ListensPlain, Zenon
    <3> QED BY <3>1, <3>2
  <2>b. inbound["sing"] = Plain(security, inbound["sing"].transport)
    BY <2>1, <2>2, <2>3, SingBuilds
  <2>c. SUFFICES BuildSettings(info).transport = inbound["sing"].transport
    BY <2>a, <2>b
  <2>d. ~(info.type = "trojan" /\ info.settings \in HttpHeader)
    BY <2>1 DEF OnlyXrayKnows
  <2> HIDE DEF security
  <2>6. CASE info.type \in V2ray
    <3>1. /\ BuildSettings(info).transport = Framing(info.network, info.settings)
          /\ info.settings \notin {"absent", "wrong"} /\ info.network \notin {"", "other"}
      BY <2>a, <2>6, XrayTypes
    <3>2. inbound["sing"].transport = SingV2ray(info) /\ SingV2ray(info) # "panic"
      BY <2>1, <2>2, <2>3, <2>6, SingBuilds
    <3>3. SingV2ray(info) = Framing(info.network, info.settings)
      BY <3>1, <3>2 DEF SingV2ray
    <3> QED BY <3>1, <3>2, <3>3
  <2>7. CASE info.type = "trojan"
    <3>1. /\ info.network \in {"", "tcp", "ws", "grpc"} /\ info.settings \notin {"absent", "wrong"}
          /\ BuildSettings(info).transport =
                Framing(IF info.network = "" THEN "tcp" ELSE info.network, info.settings)
      BY <2>a, <2>7, XrayTypes
    <3>2. inbound["sing"].transport = SingTrojan(info)
      BY <2>1, <2>2, <2>3, <2>7, SingBuilds
    <3>3. SingTrojan(info) =
             Framing(IF info.network = "" THEN "tcp" ELSE info.network, info.settings)
      BY <2>d, <2>7, <3>1 DEF SingTrojan, Framing
    <3> QED BY <3>1, <3>2, <3>3
  <2>8. CASE info.type = "shadowsocks"
    <3>1. BuildSettings(info).transport = "tcp"
      BY <2>a, <2>8, XrayTypes
    <3>2. inbound["sing"].transport = "tcp"
      BY <2>1, <2>2, <2>3, <2>8, SingBuilds DEF V2ray
    <3> QED BY <3>1, <3>2
  <2> QED BY <2>a, <2>6, <2>7, <2>8, XrayTypes
<1> QED BY <1>1, IndInvariant, PTL

\* A well-formed node of a type the core supports does not panic in AddNode (buildV2ray,
\* getInboundOptions, getConn).
THEOREM SupportedAlwaysSafe == Spec => []SupportedNeverPanics
<1>1. IndInv => SupportedNeverPanics
  <2> SUFFICES ASSUME IndInv, WellFormed, NEW core \in Core, answer.type \in Supports[core],
                      inbound[core].outcome = "panic"
               PROVE  FALSE
    BY DEF SupportedNeverPanics
  <2>1. /\ info.type = answer.type /\ info.security \in {"none", "tls", "reality"}
        /\ info.settings = NetworkSettings(answer) /\ answer \in Answers
        /\ info.security = DecodedSecurity(answer)
        /\ info = Decoded(answer, DecodedSecurity(answer))
    BY InfoFields
  <2>2. CASE core = "xray"
    <3>1. Built("xray", info).outcome = "panic"
      BY <2>2 DEF IndInv, InboundFollows, IsResult
    <3>2. answer.type \in V2ray /\ NetworkSettings(answer) = "absent"
      BY <2>1, <3>1, XrayPanics
    <3>3. answer.panel \in {"ppanel", "uniproxy"}
      BY <2>1 DEF Answers
    <3> QED BY <3>2, <3>3 DEF NetworkSettings, WellFormed, V2ray
  <2>3. CASE core = "sing"
    <3>1. GetInboundOptions(info).outcome = "panic"
      BY <2>3 DEF IndInv, InboundFollows, IsResult
    <3>2. info.network \in Network
      BY <2>1 DEF Decoded, Answers, Network
    <3>3. \/ info.security = "reality" /\ answer.type = "naive"
          \/ NetworkSettings(answer) = "pathless"
      BY <2>1, <3>1, <3>2, SingPanics
    <3>4. NetworkSettings(answer) # "pathless"
      BY <2>1 DEF NetworkSettings, WellFormed, Answers, V2ray
    <3>5. answer.type = "naive" => DecodedSecurity(answer) = answer.tls
      BY DEF DecodedSecurity, PPanelSecurity, UniproxySecurity
    <3> QED BY <2>1, <3>3, <3>4, <3>5 DEF WellFormed
  <2>4. CASE core = "hysteria2"
    BY <2>1, <2>4 DEF IndInv, InboundFollows, Supports
  <2> QED BY <2>2, <2>3, <2>4 DEF Core
<1> QED BY <1>1, IndInvariant, PTL
=============================================================================
