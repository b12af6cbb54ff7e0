----------------------------- MODULE NodesProofs -----------------------------
(***************************************************************************)
(* Theorems about Nodes: what holds of every URI, all settings and every   *)
(* sequence of requests and edits.  First what the parsers return, one     *)
(* lemma per protocol; then what the renderer's output reads back as; then *)
(* the invariant of the machine, which says that a config.json of ours     *)
(* holds the node of state.json.                                           *)
(***************************************************************************)
EXTENDS Nodes, WellFoundedInduction, TLAPS

(* A node as the parsers return it: its display tells what its outbound    *)
(* does, and its outbound is fit to be used.                               *)
NodeOf(pn, protocol) ==
  /\ pn.outbound.tag = "proxy"
  /\ OutboundSound(pn.outbound)
  /\ protocolLabel(pn.outbound.type) = protocol
  /\ pn.display.protocol = protocol
  /\ pn.display.server = pn.outbound.server
  /\ pn.display.port = pn.outbound.server_port
  /\ pn.display.tls_verify <=> pn.outbound.tls.enabled /\ ~pn.outbound.tls.insecure
  /\ pn.display.sni = pn.outbound.tls.server_name
  /\ pn.outbound.type = "vless" =>
       (pn.display.transport \notin {pn.outbound.transport.type, "tcp"}
          <=> "mapped" \in pn.display.notes)

(* Trimming leaves the word, and nothing at all if there was no word.      *)
LEMMA CleanTexts ==
  ASSUME NEW t \in Text
  PROVE  /\ TrimSpace(t).word = t.word /\ Clean(t).word = t.word
         /\ TrimSpace(t) = Empty <=> t.word = ""
         /\ Clean(t) = Empty <=> t.word = ""
<1>1. /\ t.word \in STRING /\ t.upper \in BOOLEAN
      /\ t.word = "" => t.upper = FALSE
  BY DEF Text
<1>2. TrimSpace(t) = [word |-> t.word, upper |-> t.upper, padded |-> FALSE]
  BY DEF TrimSpace
<1>3. Clean(t) = [word |-> t.word, upper |-> FALSE, padded |-> FALSE]
  BY <1>2 DEF Clean, ToLower
<1>4. TrimSpace(t).word = t.word /\ Clean(t).word = t.word
  BY <1>2, <1>3
<1>5. Empty = [word |-> "", upper |-> FALSE, padded |-> FALSE] /\ Empty.word = ""
  BY DEF Empty, Plain
<1>6. ASSUME t.word = ""
      PROVE  TrimSpace(t) = Empty /\ Clean(t) = Empty
  BY <1>1, <1>2, <1>3, <1>5, <1>6
<1> QED
  BY <1>4, <1>5, <1>6

(* Server names: the parameter, or the host in its place.                  *)
LEMMA SniGiven ==
  ASSUME NEW t \in Text, NEW host \in STRING, host # ""
  PROVE  OrHost(t, host).word # ""
  BY CleanTexts DEF OrHost, Plain

-----------------------------------------------------------------------------
(* Every query parameter is a text.                                        *)
LEMMA URITyped ==
  ASSUME NEW u \in URI
  PROVE  u.host \in STRING /\ \A p \in Params : u.q[p] \in Text
  BY DEF URI

(* The zero values.                                                        *)
LEMMA Zeros ==
  /\ NoTLS.enabled = FALSE /\ NoTLS.insecure = FALSE
  /\ NoTLS.public_key = Empty /\ NoTLS.server_name = Empty
  /\ NoObfs.type = "" /\ NoTransport.type = ""
  BY DEF NoTLS, NoObfs, NoTransport

(* What ParseHysteria2 accepts is a sound node.                            *)
LEMMA Hysteria2Node ==
  ASSUME NEW u \in URI, Hysteria2Accepts(u)
  PROVE  NodeOf(ParseHysteria2(u), "Hysteria2")
<1> DEFINE o == hysteria2Outbound(u)
<1> HIDE DEF o
<1>1. ParseHysteria2(u) = ParsedNode(o, UnescapedLabel(u.frag),
                                     hysteria2Display(u))
  BY DEF o, ParseHysteria2
<1>2. OrHost(u.q["sni"], u.host).word # ""
<2>1. u.host \in STRING /\ u.q["sni"] \in Text
  BY URITyped DEF Params
<2>2. u.host # ""
  BY DEF Hysteria2Accepts, HasEndpoint
<2> QED
  BY ONLY <2>1, <2>2, SniGiven
<1>3. /\ o.tag = "proxy" /\ o.type = "hysteria2"
      /\ o.server = u.host /\ o.server_port = u.port
      /\ o.password = hysteria2Password(u.user)
      /\ o.version = "" /\ o.transport.type = ""
      /\ o.tls = hysteria2TLS(u) /\ o.obfs = hysteria2Obfs(u)
  BY DEF o, hysteria2Outbound, ZeroOutbound, NoTransport
<1>4. /\ o.tls.enabled = TRUE
      /\ o.tls.server_name = OrHost(u.q["sni"], u.host)
      /\ o.tls.insecure = parseBoolFlag(u.q["insecure"])
      /\ o.tls.public_key = Empty
  BY <1>3 DEF hysteria2TLS, NoTLS
<1>5. o.obfs.type # "" => o.obfs.password # Empty
<2>1. CASE Clean(u.q["obfs"]) = Empty
<3>1. hysteria2Obfs(u) = NoObfs
  BY <2>1 DEF hysteria2Obfs
<3> QED
  BY <1>3, <3>1, Zeros
<2>2. CASE Clean(u.q["obfs"]) # Empty
<3>1. u.q["obfs-password"] # Empty
  BY <2>2 DEF Hysteria2Accepts
<3>2. hysteria2Obfs(u) = [type |-> "salamander",
                          password |-> u.q["obfs-password"]]
  BY <2>2 DEF hysteria2Obfs
<3>3. hysteria2Obfs(u).password = u.q["obfs-password"]
  BY <3>2
<3> QED
  BY <1>3, <3>1, <3>3
<2> QED
  BY <2>1, <2>2
<1>6. OutboundSound(o)
<2>1. /\ HasEndpoint(u)
      /\ hysteria2Password(u.user) # Secret("", FALSE, "")
  BY DEF Hysteria2Accepts
<2> QED
  BY <1>2, <1>3, <1>4, <1>5, <2>1 DEF OutboundSound, HasEndpoint
<1>7. hysteria2Display(u).tls_verify <=> o.tls.enabled /\ ~o.tls.insecure
<2>1. hysteria2Display(u).tls_verify = ~parseBoolFlag(u.q["insecure"])
  BY DEF hysteria2Display
<2> QED
  BY ONLY <1>4, <2>1, Zenon
<1>8. protocolLabel(o.type) = "Hysteria2"
  BY <1>3 DEF protocolLabel
<1>9. /\ hysteria2Display(u).protocol = "Hysteria2"
      /\ hysteria2Display(u).server = u.host
      /\ hysteria2Display(u).port = u.port
      /\ hysteria2Display(u).sni = OrHost(u.q["sni"], u.host)
  BY DEF hysteria2Display
<1>10. /\ ParseHysteria2(u).outbound = o
       /\ ParseHysteria2(u).display = hysteria2Display(u)
  BY <1>1 DEF ParsedNode
<1> QED
  BY <1>3, <1>4, <1>6, <1>7, <1>8, <1>9, <1>10 DEF NodeOf

(* The same of ParseSOCKS.                                                 *)
LEMMA SOCKSNode ==
  ASSUME NEW u \in URI, SOCKSAccepts(u)
  PROVE  NodeOf(ParseSOCKS(u), "SOCKS")
<1> DEFINE o == socksOutbound(u)
<1> HIDE DEF o
<1>1. ParseSOCKS(u) = ParsedNode(o, u.frag, socksDisplay(u))
  BY DEF o, ParseSOCKS
<1>2. /\ o.tag = "proxy" /\ o.type = "socks"
      /\ o.server = u.host /\ o.server_port = u.port
      /\ o.version = socksVersion(u.scheme)
      /\ o.username = IF WithAuth(u) THEN u.user.name ELSE ""
      /\ o.password = IF WithAuth(u) THEN Secret(u.user.pass, FALSE, "")
                      ELSE Secret("", FALSE, "")
      /\ o.tls = NoTLS /\ o.obfs = NoObfs /\ o.transport = NoTransport
  BY DEF o, socksOutbound, ZeroOutbound
<1>3. /\ o.tls.enabled = FALSE /\ o.tls.public_key = Empty
      /\ o.tls.server_name = Empty
      /\ o.obfs.type = "" /\ o.transport.type = ""
  BY <1>2, Zeros
<1>4. OutboundSound(o)
<2>1. HasEndpoint(u)
  BY DEF SOCKSAccepts
<2>2. o.version \in {"4", "4a"} => ~WithAuth(u)
  BY <1>2 DEF WithAuth
<2> QED
  BY <1>2, <1>3, <2>1, <2>2 DEF OutboundSound, HasEndpoint
<1>5. /\ socksDisplay(u).protocol = "SOCKS"
      /\ socksDisplay(u).server = u.host
      /\ socksDisplay(u).port = u.port
      /\ socksDisplay(u).sni = Empty
      /\ socksDisplay(u).tls_verify = FALSE
  BY DEF socksDisplay
<1>6. protocolLabel(o.type) = "SOCKS"
  BY <1>2 DEF protocolLabel
<1>7. /\ ParseSOCKS(u).outbound = o
      /\ ParseSOCKS(u).display = socksDisplay(u)
  BY <1>1 DEF ParsedNode
<1> QED
  BY <1>2, <1>3, <1>4, <1>5, <1>6, <1>7 DEF NodeOf

----------------------------------------------------------------

(* What VLESS puts into its TLS block.  REALITY has a key and a            *)
(* fingerprint, and no way to switch verification off.                     *)
LEMMA VLESSTLSSound ==
  ASSUME NEW u \in URI, VLESSAccepts(u)
  PROVE  /\ vlessTLS(u).enabled => vlessTLS(u).server_name.word # ""
         /\ vlessTLS(u).public_key # Empty =>
              /\ vlessTLS(u).enabled /\ ~vlessTLS(u).insecure
              /\ vlessTLS(u).fingerprint.word # ""
<1> DEFINE security == pickVLESSSecurity(u.q["security"])
<1> HIDE DEF security
<1>1. OrHost(u.q["sni"], u.host).word # ""
<2>1. u.host \in STRING /\ u.q["sni"] \in Text
  BY URITyped DEF Params
<2>2. u.host # ""
  BY DEF VLESSAccepts, HasEndpoint
<2> QED
  BY ONLY <2>1, <2>2, SniGiven
<1>2. CASE security = "tls"
<2>1. vlessTLS(u) = buildVLESSTLS(u)
  BY <1>2 DEF vlessTLS, security
<2>2. /\ buildVLESSTLS(u).server_name = OrHost(u.q["sni"], u.host)
      /\ buildVLESSTLS(u).public_key = Empty
  BY DEF buildVLESSTLS, NoTLS
<2>3. vlessTLS(u).server_name = buildVLESSTLS(u).server_name
  BY ONLY <2>1, Zenon
<2>4. vlessTLS(u).public_key = buildVLESSTLS(u).public_key
  BY ONLY <2>1, Zenon
<2>5. vlessTLS(u).public_key = Empty
  BY ONLY <2>2, <2>4
<2>6. vlessTLS(u).server_name.word # ""
  BY ONLY <1>1, <2>2, <2>3
<2> QED
  BY ONLY <2>5, <2>6, Zenon
<1>3. CASE security = "reality"
<2>1. vlessTLS(u) = buildVLESSReality(u)
  BY <1>3 DEF vlessTLS, security
<2>2. /\ buildVLESSReality(u).server_name = OrHost(u.q["sni"], u.host)
      /\ buildVLESSReality(u).enabled = TRUE
      /\ buildVLESSReality(u).insecure = FALSE
      /\ buildVLESSReality(u).fingerprint = TrimSpace(u.q["fp"])
  BY DEF buildVLESSReality, NoTLS
<2>3. TrimSpace(u.q["fp"]) # Empty /\ u.q["fp"] \in Text
<3>1. TrimSpace(u.q["fp"]) # Empty
  BY <1>3 DEF VLESSAccepts, security
<3>2. u.q["fp"] \in Text
  BY URITyped DEF Params
<3> QED
  BY <3>1, <3>2
<2>4. TrimSpace(u.q["fp"]).word # ""
  BY <2>3, CleanTexts
<2> QED
  BY <1>1, <2>1, <2>2, <2>4
<1>4. CASE security \notin {"tls", "reality"}
<2>1. vlessTLS(u) = NoTLS
  BY <1>4 DEF vlessTLS, security
<2> QED
  BY <2>1, Zeros
<1> QED
  BY <1>2, <1>3, <1>4

(* The transport is one of sing-box's, with a path where it needs one; it  *)
(* differs from what the URI names exactly if there is a note of it.       *)
LEMMA VLESSTransportSound ==
  ASSUME NEW u \in URI, VLESSAccepts(u)
  PROVE  LET tr   == vlessTransport(u)
             type == pickVLESSTransport(u.q["type"])
         IN  /\ tr.type \in {"", "ws", "grpc", "h2", "httpupgrade"}
             /\ tr.type \in {"ws", "h2", "httpupgrade"} => tr.path.word # ""
             /\ type \notin {tr.type, "tcp"} <=> "mapped" \in VLESSNotes(type)
<1> DEFINE tr   == vlessTransport(u)
           type == pickVLESSTransport(u.q["type"])
<1> HIDE DEF tr, type
<1>1. type \in {"tcp", "ws", "grpc", "h2", "httpupgrade", "xhttp", "splithttp"}
  BY DEF VLESSAccepts, type
<1>2. "mapped" \in VLESSNotes(type) <=> type \in {"xhttp", "splithttp"}
  BY DEF VLESSNotes
<1>3. CASE type = "tcp"
<2>1. tr = NoTransport
  BY <1>3 DEF vlessTransport, tr, type
<2> QED
  BY <1>2, <1>3, <2>1, Zeros DEF tr, type
<1>4. CASE type # "tcp"
<2>1. tr = buildVLESSTransport(type, u.q)
  BY <1>4 DEF vlessTransport, tr, type
<2>2. tr.type = nativeTransport(type)
  BY <2>1 DEF buildVLESSTransport, NoTransport
<2>3. /\ nativeTransport(type) \in {"ws", "grpc", "h2", "httpupgrade"}
      /\ type # nativeTransport(type) <=> type \in {"xhttp", "splithttp"}
  BY <1>1, <1>4 DEF nativeTransport
<2>4. ASSUME nativeTransport(type) # "grpc"
      PROVE  tr.path.word # ""
<3>1. tr.path = OrRoot(TrimSpace(u.q["path"]))
  BY <2>1, <2>4 DEF buildVLESSTransport, NoTransport
<3>2. u.q["path"] \in Text
  BY URITyped DEF Params
<3>3. TrimSpace(u.q["path"]) = Empty \/ TrimSpace(u.q["path"]).word # ""
  BY <3>2, CleanTexts
<3>4. Plain("/").word # ""
  BY DEF Plain
<3> QED
  BY <3>1, <3>3, <3>4 DEF OrRoot
<2> QED
  BY <1>2, <1>4, <2>2, <2>3, <2>4 DEF tr, type
<1> QED
  BY <1>3, <1>4

(* And of ParseVLESS.                                                      *)
LEMMA VLESSNode ==
  ASSUME NEW u \in URI, VLESSAccepts(u)
  PROVE  NodeOf(ParseVLESS(u), "VLESS")
<1> DEFINE o == vlessOutbound(u)
           d == vlessDisplay(u)
<1> HIDE DEF o, d
<1>1. ParseVLESS(u) = ParsedNode(o, UnescapedLabel(u.frag), d)
  BY DEF o, d, ParseVLESS
<1>2. /\ o.tag = "proxy" /\ o.type = "vless"
      /\ o.server = u.host /\ o.server_port = u.port
      /\ o.version = "" /\ o.obfs = NoObfs
      /\ o.tls = vlessTLS(u) /\ o.transport = vlessTransport(u)
  BY DEF o, vlessOutbound, ZeroOutbound
<1>3. OutboundSound(o)
<2>1. HasEndpoint(u)
  BY DEF VLESSAccepts
<2> QED
  BY <1>2, <2>1, Zeros, VLESSTLSSound, VLESSTransportSound
     DEF OutboundSound, HasEndpoint
<1>4. /\ d.protocol = "VLESS" /\ d.server = u.host /\ d.port = u.port
      /\ d.sni = vlessTLS(u).server_name
      /\ d.transport = pickVLESSTransport(u.q["type"])
      /\ d.notes = VLESSNotes(pickVLESSTransport(u.q["type"]))
  BY DEF d, vlessDisplay
<1>5. d.tls_verify = (vlessTLS(u).enabled /\ ~vlessTLS(u).insecure)
  BY DEF d, vlessDisplay
<1>6. protocolLabel(o.type) = "VLESS"
  BY <1>2 DEF protocolLabel
<1>7. ParseVLESS(u).outbound = o /\ ParseVLESS(u).display = d
  BY <1>1 DEF ParsedNode
<1>8. d.transport \notin {o.transport.type, "tcp"} <=> "mapped" \in d.notes
  BY <1>2, <1>4, VLESSTransportSound
<1>9. d.tls_verify <=> o.tls.enabled /\ ~o.tls.insecure
  BY ONLY <1>2, <1>5, Zenon
<1> QED
  BY <1>2, <1>3, <1>4, <1>6, <1>7, <1>8, <1>9 DEF NodeOf

----------------------------------------------------------------

(* Whatever a user may paste: the parsers refuse it, or return a node that *)
(* is fit to be used and displayed as what it is.                          *)
THEOREM ParsedNodesSound ==
  ASSUME NEW u \in URI, Parse(u).ok
  PROVE  NodeOf(Parse(u), Parse(u).display.protocol)
<1>0. Reject.ok = FALSE
  BY DEF Reject
<1>1. ASSUME NEW protocol, NodeOf(Parse(u), protocol)
      PROVE  NodeOf(Parse(u), Parse(u).display.protocol)
<2>1. Parse(u).display.protocol = protocol
  BY <1>1 DEF NodeOf
<2> QED
  BY <1>1, <2>1
<1>2. CASE u.scheme \in {"hysteria2", "hy2"}
<2>1. Parse(u) = ParseHysteria2(u)
  BY <1>2 DEF Parse, socksSchemes
<2>2. Hysteria2Accepts(u)
  BY <1>0, <2>1 DEF ParseHysteria2
<2> QED
  BY <1>1, <2>1, <2>2, Hysteria2Node
<1>3. CASE u.scheme = "vless"
<2>1. Parse(u) = ParseVLESS(u)
  BY <1>3 DEF Parse, socksSchemes
<2>2. VLESSAccepts(u)
  BY <1>0, <2>1 DEF ParseVLESS
<2> QED
  BY <1>1, <2>1, <2>2, VLESSNode
<1>4. CASE u.scheme \in socksSchemes
<2>1. Parse(u) = ParseSOCKS(u)
  BY <1>4 DEF Parse, socksSchemes
<2>2. SOCKSAccepts(u)
  BY <1>0, <2>1 DEF ParseSOCKS
<2> QED
  BY <1>1, <2>1, <2>2, SOCKSNode
<1>5. CASE u.scheme \notin {"hysteria2", "hy2", "vless"} \cup socksSchemes
<2>1. Parse(u) = Reject
  BY <1>5 DEF Parse
<2> QED
  BY <1>0, <2>1
<1> QED
  BY <1>2, <1>3, <1>4, <1>5

-----------------------------------------------------------------------------
(* A set of numbers that is not empty has a least one.                     *)
LEMMA SmallestIn ==
  ASSUME NEW S \in SUBSET Nat, S # {}
  PROVE  \E x \in S : \A y \in S : x <= y
<1> DEFINE R == OpToRel(<, Nat)
<1>1. \A x, y \in S : <<y, x>> \in R <=> y < x
  BY DEF OpToRel
<1>2. IsWellFoundedOn(R, Nat)
  BY NatLessThanWellFounded
<1> HIDE DEF R
<1>3. \E x \in S : \A y \in S : ~ (<<y, x>> \in R)
  BY <1>2, WFMin
<1>4. \A x, y \in S : x <= y \/ y < x
  OBVIOUS
<1> QED
  BY <1>1, <1>3, <1>4, Zenon

(* The node comes first among the outbounds and is the only one with the   *)
(* tag that is looked for.                                                 *)
LEMMA ReadBack ==
  ASSUME NEW d, NEW o, o.tag = "proxy", d.outbounds = <<o, DirectOutbound>>
  PROVE  /\ readCurrentOutbound(d) = 1
         /\ d.outbounds[1] = o /\ d.outbounds[2].tag = "direct"
         /\ DOMAIN d.outbounds = {1, 2}
<1> DEFINE I == {i \in 1..Len(d.outbounds) : d.outbounds[i].tag = "proxy"}
<1>1. /\ Len(d.outbounds) = 2 /\ DOMAIN d.outbounds = 1..2
      /\ d.outbounds[1] = o /\ d.outbounds[2] = DirectOutbound
  OBVIOUS
<1>2. DirectOutbound.tag = "direct"
  BY DEF DirectOutbound, ZeroOutbound
<1>3. I = {1}
  BY <1>1, <1>2
<1>4. Min({1}) = 1
  BY DEF Min
<1>5. SelectInSeq(d.outbounds, LAMBDA x : x.tag = "proxy") = 1
  BY <1>3, <1>4 DEF SelectInSeq
<1> QED
  BY <1>1, <1>2, <1>5 DEF readCurrentOutbound

----------------------------------------------------------------

(* "auto" never comes out of the resolution, nor does an empty address;    *)
(* blanks do when they went in.                                            *)
LEMMA ListenFound ==
  ASSUME NEW out \in Outputs, NEW t \in Text
  PROVE  \/ Clean(ResolveMixedListen(t, out)) \notin {Empty, Plain("auto")}
         \/ /\ ResolveMixedListen(t, out) = t
            /\ t # Empty /\ Clean(t) # Plain("auto")
<1> DEFINE ip == parseIPInetLine(out)
           I  == {i \in 1..Len(out) : out[i].inet /\ out[i].addr # ""}
<1> HIDE DEF ip
<1>1. \A w : Plain(w).word = w
  BY DEF Plain
<1>6. \A w : Clean(Plain(w)) = Plain(w)
  BY DEF Clean, TrimSpace, ToLower, Plain
<1>7. \A w : w \notin {"", "auto"} => Clean(Plain(w)) \notin {Empty, Plain("auto")}
<2>1. Empty.word = "" /\ Plain("auto").word = "auto"
  BY ONLY <1>1 DEF Empty
<2> QED
  BY ONLY <1>1, <1>6, <2>1, Zenon
<1>8. Clean(t) = Plain("auto") => t # Empty
<2>1. Clean(Empty).word = "" /\ Plain("auto").word = "auto"
  BY ONLY <1>1, <1>6 DEF Empty
<2>2. "" # "auto"
  OBVIOUS
<2> QED
  BY ONLY <2>1, <2>2, Zenon
<1>2. ip # "auto"
<2>1. out \in Seq(Line)
  BY InputsAssumption
<2>2. SelectInSeq(out, LAMBDA l : l.inet /\ l.addr # "")
        = IF I # {} THEN Min(I) ELSE 0
  BY DEF SelectInSeq
<2>3. CASE I = {}
  BY <2>2, <2>3 DEF ip, parseIPInetLine
<2>4. CASE I # {}
<3>1. Min(I) \in I
<4>1. I \subseteq Nat
<5>1. Len(out) \in Nat
  BY <2>1
<5>2. I \subseteq 1..Len(out)
  BY Zenon
<5> HIDE DEF I
<5>3. 1..Len(out) \subseteq Nat
  BY <5>1
<5> QED
  BY <5>2, <5>3
<4>2. \E x \in I : \A y \in I : x <= y
  BY <2>4, <4>1, SmallestIn
<4> QED
  BY <4>2 DEF Min
<3>5. Min(I) \in 1..Len(out)
  BY <3>1
<3> HIDE DEF I
<3>2. out[Min(I)] \in Line /\ Min(I) # 0
  BY <2>1, <3>5
<3>3. out[Min(I)].addr \in Addresses \cup {""}
  BY <3>2 DEF Line
<3>4. ip = out[Min(I)].addr
  BY <2>2, <2>4, <3>2 DEF ip, parseIPInetLine
<3> QED
  BY <3>3, <3>4, InputsAssumption
<2> QED
  BY <2>3, <2>4
<1>3. CASE Clean(t) = Plain("auto")
<2> DEFINE found == IF ip = "" THEN AnyAddress ELSE ip
<2>1. ResolveMixedListen(t, out) = Plain(found)
  BY <1>3, <1>8 DEF ResolveMixedListen, ip
<2>2. found \notin {"", "auto"}
  BY <1>2 DEF AnyAddress
<2> QED
  BY <1>7, <2>1, <2>2, Zenon
<1>4. CASE Clean(t) # Plain("auto") /\ t = Empty
<2>1. ResolveMixedListen(t, out) = Plain(AnyAddress)
  BY <1>4 DEF ResolveMixedListen
<2>2. AnyAddress \notin {"", "auto"}
  BY DEF AnyAddress
<2> QED
  BY <1>7, <2>1, <2>2, Zenon
<1>5. CASE Clean(t) # Plain("auto") /\ t # Empty
<2>1. ResolveMixedListen(t, out) = t
  BY <1>5 DEF ResolveMixedListen
<2> QED
  BY <1>5, <2>1
<1> QED
  BY <1>3, <1>4, <1>5

-----------------------------------------------------------------------------
(* The invariant: a config.json that the helper wrote last holds the node  *)
(* of state.json; settings that only the form wrote have been validated.   *)
OursHoldsKept ==
  ours => /\ \A u \in kept :
               doc.outbounds = <<Parse(u).outbound, DirectOutbound>>
          /\ doc.final = "proxy"

NodesInv ==
  /\ TypeOK
  /\ checked => validateSettings(settings)
  /\ OursHoldsKept
  /\ ListenResolved
  /\ DocUsable

(* What a rendering leaves behind.                                         *)
LEMMA Rendered ==
  ASSUME NodesInv, NEW u \in URI, NEW s \in Posted \cup {DefaultSettings},
         doc' = RenderDoc(Parse(u), s, lan), kept' = {u}, ours' = TRUE,
         checked' => validateSettings(s)
  PROVE  OursHoldsKept' /\ ListenResolved' /\ DocUsable' /\ doc'.ok \in BOOLEAN
<1>1. s.mixed_listen \in Text /\ lan \in Outputs
  BY InputsAssumption DEF Settings, NodesInv, TypeOK
<1>2. /\ doc'.outbounds = <<Parse(u).outbound, DirectOutbound>>
      /\ doc'.final = "proxy" /\ doc'.ok = TRUE /\ doc'.dns = s.upstream_dns
      /\ doc'.tun = [interface_name |-> s.tun_name,
                     address |-> s.tun_address, mtu |-> s.tun_mtu]
      /\ doc'.mixed = IF s.enable_mixed
                      THEN [listen |-> ResolveMixedListen(s.mixed_listen, lan),
                            listen_port |-> s.mixed_port]
                      ELSE NoMixed
  BY DEF RenderDoc
<1>3. OursHoldsKept'
  BY <1>2 DEF OursHoldsKept
<1> DEFINE l == ResolveMixedListen(s.mixed_listen, lan)
<1>4. /\ l # Empty
      /\ Clean(l) # Plain("auto")
      /\ Clean(l) = Empty => l = s.mixed_listen
<2>1. \/ Clean(l) \notin {Empty, Plain("auto")}
      \/ /\ l = s.mixed_listen
         /\ s.mixed_listen # Empty /\ Clean(s.mixed_listen) # Plain("auto")
  BY <1>1, ListenFound
<2>2. Clean(Empty) = Empty
  BY DEF Clean, TrimSpace, ToLower, Empty, Plain
<2> HIDE DEF l
<2>3. CASE Clean(l) \notin {Empty, Plain("auto")}
  BY <2>2, <2>3, Zenon
<2>4. CASE /\ l = s.mixed_listen
           /\ s.mixed_listen # Empty /\ Clean(s.mixed_listen) # Plain("auto")
  BY <2>4, Zenon
<2> QED
  BY <2>1, <2>3, <2>4
<1>5. doc'.mixed # NoMixed =>
        /\ doc'.mixed.listen = ResolveMixedListen(s.mixed_listen, lan)
        /\ doc'.mixed.listen_port = s.mixed_port
  BY <1>2
<1>6. ListenResolved'
<2>1. doc'.mixed # NoMixed => doc'.mixed.listen = l
  BY <1>5
<2> HIDE DEF l
<2>2. Clean(l) = Empty => \E t \in {DefaultSettings} \cup Posted : t.mixed_listen = l
  BY <1>4
<2> QED
  BY <1>4, <2>1, <2>2, Zenon DEF ListenResolved
<1>7. /\ doc'.tun.interface_name = s.tun_name
      /\ doc'.tun.address = s.tun_address /\ doc'.tun.mtu = s.tun_mtu
  BY <1>2
<1>8. DocUsable'
  BY <1>2, <1>5, <1>7 DEF DocUsable, validateSettings
<1> QED
  BY <1>2, <1>3, <1>6, <1>8

(* Nothing has been rendered yet.                                          *)
LEMMA NodesInvStarts == Init => NodesInv
<1> SUFFICES ASSUME Init PROVE NodesInv
  OBVIOUS
<1>1. doc.ok \in BOOLEAN
<2>1. NoDoc.ok = FALSE
  BY DEF NoDoc
<2> QED
  BY <2>1, InputsAssumption, Zenon DEF Init
<1>2. TypeOK
  BY <1>1, InputsAssumption DEF Init, TypeOK
<1> QED
  BY <1>2, InputsAssumption
     DEF Init, NodesInv, OursHoldsKept, ListenResolved, DocUsable

(* What Apply and SaveSettings render is sound; hand edits are not ours.   *)
LEMMA NodesInvStays == NodesInv /\ [Next]_vars => NodesInv'
<1> SUFFICES ASSUME NodesInv, [Next]_vars PROVE NodesInv'
  OBVIOUS
<1> USE DEF NodesInv
<1>1. ASSUME NEW u \in box, Apply(u)
      PROVE  NodesInv'
<2>1. u \in URI /\ settings \in Posted \cup {DefaultSettings}
  BY DEF TypeOK
<2>2. OursHoldsKept' /\ ListenResolved' /\ DocUsable' /\ doc'.ok \in BOOLEAN
  BY <1>1, <2>1, Rendered DEF Apply
<2>3. TypeOK'
  BY <1>1, <2>2 DEF TypeOK, Apply
<2> QED
  BY <1>1, <2>2, <2>3 DEF Apply
<1>2. ASSUME NEW s \in Posted, SaveSettings(s)
      PROVE  NodesInv'
<2>1. CASE kept = {}
<3>1. TypeOK' /\ ~ours'
  BY <1>2, <2>1 DEF TypeOK, SaveSettings
<3> QED
  BY <1>2, <3>1 DEF SaveSettings, OursHoldsKept, ListenResolved, DocUsable
<2>2. CASE kept # {}
<3>1. PICK u \in kept : doc' = RenderDoc(Parse(u), s, lan) /\ ours' = TRUE
  BY <1>2, <2>2 DEF SaveSettings
<3>2. u \in URI /\ kept' = {u}
  BY <1>2 DEF TypeOK, SaveSettings
<3>3. OursHoldsKept' /\ ListenResolved' /\ DocUsable' /\ doc'.ok \in BOOLEAN
  BY <1>2, <3>1, <3>2, Rendered DEF SaveSettings
<3>4. TypeOK'
  BY <1>2, <3>1, <3>2, <3>3 DEF TypeOK, SaveSettings
<3> QED
  BY <1>2, <3>3, <3>4 DEF SaveSettings
<2> QED
  BY <2>1, <2>2
<1>3. ASSUME NEW s \in Posted, EditYaml(s)
      PROVE  NodesInv'
<2>1. TypeOK'
  BY <1>3 DEF TypeOK, EditYaml
<2> QED
  BY <1>3, <2>1 DEF EditYaml, OursHoldsKept, ListenResolved, DocUsable
<1>4. ASSUME NEW d \in {NoDoc} \cup HandDocs, EditConfig(d)
      PROVE  NodesInv'
<2>1. d.ok \in BOOLEAN
<3>1. NoDoc.ok = FALSE
  BY DEF NoDoc
<3> QED
  BY <3>1, InputsAssumption, Zenon
<2>2. TypeOK' /\ ~ours'
  BY <1>4, <2>1 DEF TypeOK, EditConfig
<2> QED
  BY <1>4, <2>2 DEF EditConfig, OursHoldsKept, ListenResolved, DocUsable
<1>5. ASSUME NEW out \in Outputs, LanChanges(out)
      PROVE  NodesInv'
  BY <1>5 DEF TypeOK, LanChanges, OursHoldsKept, ListenResolved, DocUsable
<1>6. CASE UNCHANGED vars
  BY <1>6 DEF TypeOK, vars, OursHoldsKept, ListenResolved, DocUsable
<1> QED
  BY <1>1, <1>2, <1>3, <1>4, <1>5, <1>6 DEF Next

(* The invariant holds throughout.                                         *)
LEMMA NodesInvAlways == Spec => []NodesInv
  BY NodesInvStarts, NodesInvStays, PTL DEF Spec

(* While the settings come from the form, every rendered configuration is  *)
(* inside the limits that the form is checked for, for every order of      *)
(* posts, applies, edits and restarts.                                     *)
THEOREM RenderedUsable == Spec => [](DocUsable /\ ListenResolved)
<1>1. NodesInv => DocUsable /\ ListenResolved
  BY DEF NodesInv
<1> QED
  BY <1>1, NodesInvAlways, PTL

(* The test proxy never gets an empty address or "auto" to listen on, nor  *)
(* blanks that nobody set: whatever is posted, edited, applied or restarted*)
(* and whatever the LAN interface has.                                     *)
THEOREM ProxyListens == Spec => []ListenResolved
BY RenderedUsable, PTL

(* What the page shows after an apply is the applied node, whatever its    *)
(* URI, and it is the node that config.json routes to.                     *)
THEOREM AppliedShown == Spec => [](AppliedIsShown /\ ShownIsRouted)
<1>1. ASSUME NodesInv
      PROVE  AppliedIsShown /\ ShownIsRouted
<2> SUFFICES ASSUME ours PROVE AppliedIsShown /\ ShownIsRouted
  BY DEF AppliedIsShown, ShownIsRouted
<2>1. PICK u \in kept : kept = {u} /\ u \in URI /\ Parse(u).ok
  BY <1>1 DEF NodesInv, TypeOK
<2> DEFINE o == Parse(u).outbound
           d == Parse(u).display
<2> HIDE DEF o, d
<2>2. /\ o.tag = "proxy" /\ protocolLabel(o.type) = d.protocol
      /\ d.server = o.server /\ d.port = o.server_port
  BY <2>1, ParsedNodesSound DEF NodeOf, o, d
<2>3. /\ readCurrentOutbound(doc) = 1
      /\ doc.outbounds[1] = o /\ doc.outbounds[2].tag = "direct"
      /\ DOMAIN doc.outbounds = {1, 2}
  BY <1>1, <2>1, <2>2, ReadBack DEF NodesInv, OursHoldsKept, o
<2>4. ShownIsRouted
  BY <1>1, <2>2, <2>3 DEF ShownIsRouted, NodesInv, OursHoldsKept
<2>5. IsManaged(o, kept)
  BY <2>1 DEF IsManaged, o
<2>6. {Parse(v).label : v \in kept} = {Parse(u).label}
  BY <2>1
<2>7. Status = [shown |-> TRUE, protocol |-> protocolLabel(o.type),
                server |-> o.server, port |-> o.server_port,
                managed |-> TRUE, labels |-> {Parse(u).label}]
<3>1. IsManaged(o, kept) = TRUE
  BY <2>5, Zenon DEF IsManaged
<3>2. Status = [shown |-> TRUE, protocol |-> protocolLabel(o.type),
                server |-> o.server, port |-> o.server_port,
                managed |-> IsManaged(o, kept),
                labels |-> IF IsManaged(o, kept)
                           THEN {Parse(v).label : v \in kept} ELSE {}]
  BY <2>3 DEF Status, handleStatus
<3> QED
  BY ONLY <2>6, <3>1, <3>2, Zenon
<2>8. AppliedIsShown
  BY <2>1, <2>2, <2>7 DEF AppliedIsShown, d
<2> QED
  BY <2>4, <2>8
<1> QED
  BY <1>1, NodesInvAlways, PTL

(* The node on the page is the only one that config.json routes to.        *)
THEOREM ShownRouted == Spec => []ShownIsRouted
BY AppliedShown, PTL

(* The node that config.json routes to is fit for use and displayed as     *)
(* what it is.                                                             *)
THEOREM NodesSound == Spec => [](NodeSound /\ DisplayHonest)
<1>1. ASSUME NodesInv
      PROVE  NodeSound /\ DisplayHonest
<2> SUFFICES ASSUME ours PROVE NodeSound /\ DisplayHonest
  BY DEF NodeSound, DisplayHonest
<2>1. PICK u \in kept : kept = {u} /\ u \in URI /\ Parse(u).ok
  BY <1>1 DEF NodesInv, TypeOK
<2>2. NodeOf(Parse(u), Parse(u).display.protocol)
  BY <2>1, ParsedNodesSound
<2>3. doc.outbounds[readCurrentOutbound(doc)] = Parse(u).outbound
<3>1. /\ Parse(u).outbound.tag = "proxy"
      /\ doc.outbounds = <<Parse(u).outbound, DirectOutbound>>
  BY <1>1, <2>1, <2>2 DEF NodeOf, NodesInv, OursHoldsKept
<3> QED
  BY <3>1, ReadBack
<2>4. NodeSound
  BY <2>2, <2>3 DEF NodeSound, NodeOf
<2>5. DisplayHonest
  BY <2>1, <2>2, <2>3 DEF DisplayHonest, NodeOf
<2> QED
  BY <2>4, <2>5
<1> QED
  BY <1>1, NodesInvAlways, PTL

(* No card tells that a certificate is verified when it is not, or hides   *)
(* that the transport was replaced.                                        *)
THEOREM NodesHonest == Spec => []DisplayHonest
BY NodesSound, PTL

(* Saving settings, and applying the same URI again, leave the outbounds   *)
(* of config.json as they are.                                             *)
THEOREM SettingsLeaveNode == Spec => SettingsKeepNode
<1>1. ASSUME NodesInv, [Next]_vars
      PROVE  [ours /\ ours' /\ kept' = kept => doc'.outbounds = doc.outbounds]_vars
<2> SUFFICES ASSUME ours, ours', kept' = kept
             PROVE  doc'.outbounds = doc.outbounds
  OBVIOUS
<2>1. \A u \in kept : doc.outbounds = <<Parse(u).outbound, DirectOutbound>>
  BY <1>1 DEF NodesInv, OursHoldsKept
<2>2. \A u, s : RenderDoc(Parse(u), s, lan).outbounds
                  = <<Parse(u).outbound, DirectOutbound>>
  BY DEF RenderDoc
<2>3. ASSUME NEW u \in box, Apply(u) PROVE doc'.outbounds = doc.outbounds
  BY <2>1, <2>2, <2>3 DEF Apply
<2>4. ASSUME NEW s \in Posted, SaveSettings(s)
      PROVE  doc'.outbounds = doc.outbounds
  BY <2>1, <2>2, <2>4 DEF SaveSettings
<2>5. ASSUME NEW s \in Posted, EditYaml(s) PROVE doc'.outbounds = doc.outbounds
  BY <2>5 DEF EditYaml
<2>6. ASSUME NEW d \in {NoDoc} \cup HandDocs, EditConfig(d)
      PROVE  doc'.outbounds = doc.outbounds
  BY <2>6 DEF EditConfig
<2>7. ASSUME NEW out \in Outputs, LanChanges(out)
      PROVE  doc'.outbounds = doc.outbounds
  BY <2>7 DEF LanChanges
<2>8. CASE UNCHANGED vars
  BY <2>8 DEF vars
<2> QED
  BY <1>1, <2>3, <2>4, <2>5, <2>6, <2>7, <2>8 DEF Next
<1> QED
  BY <1>1, NodesInvAlways, PTL DEF Spec, SettingsKeepNode

-----------------------------------------------------------------------------
(* Looking for the first of some positions finds none only if there are    *)
(* none.                                                                   *)
LEMMA FirstFound ==
  ASSUME NEW n \in Nat, NEW I \in SUBSET (1..n)
  PROVE  (IF I # {} THEN Min(I) ELSE 0) = 0 <=> I = {}
<1>1. ASSUME I # {} PROVE Min(I) # 0
  <2>1. I \in SUBSET Nat
    OBVIOUS
  <2>2. \E x \in I : \A y \in I : x <= y
    BY <1>1, <2>1, SmallestIn
  <2>3. Min(I) \in I
    BY <2>2, Zenon DEF Min
  <2> QED
    BY <2>3
<1> QED
  BY <1>1

(* What either way of looking for a node finds: the first one tagged       *)
(* "proxy", or one of a known type; the two tables of types agree.         *)
LEMMA BothFind ==
  ASSUME NEW d, Len(d.outbounds) \in Nat
  PROVE  summarise(d) = 0 <=> readCurrentOutbound(d) = 0
<1> DEFINE n == Len(d.outbounds)
           tagged == {i \in 1..n : d.outbounds[i].tag = "proxy"}
           known  == {i \in 1..n : d.outbounds[i].type \in proxyOutboundTypes}
           either == {i \in 1..n : d.outbounds[i].tag = "proxy"
                                     \/ isProxyType(d.outbounds[i].type)}
           At(I)  == IF I # {} THEN Min(I) ELSE 0
<1>1. summarise(d) = At(either)
  BY Zenon DEF summarise, SelectInSeq
<1>2. readCurrentOutbound(d) = IF At(tagged) # 0 THEN At(tagged) ELSE At(known)
  BY Zenon DEF readCurrentOutbound, SelectInSeq
<1>3. \A t : isProxyType(t) <=> t \in proxyOutboundTypes
  BY DEF isProxyType, proxyOutboundTypes
<1>4. either = tagged \cup known
  BY <1>3
<1>5. /\ tagged \in SUBSET (1..n) /\ known \in SUBSET (1..n)
      /\ either \in SUBSET (1..n) /\ n \in Nat
  OBVIOUS
<1> HIDE DEF n, tagged, known, either
<1>6. /\ At(tagged) = 0 <=> tagged = {}
      /\ At(known) = 0 <=> known = {}
      /\ At(either) = 0 <=> either = {}
  BY <1>5, FirstFound
<1> HIDE DEF At
<1> QED
  BY <1>1, <1>2, <1>4, <1>6

(* Of what the helper rendered both name the node.                         *)
LEMMA BothName ==
  ASSUME NEW d, NEW o, o.tag = "proxy", d.outbounds = <<o, DirectOutbound>>
  PROVE  summarise(d) = readCurrentOutbound(d)
<1> DEFINE I == {i \in 1..Len(d.outbounds) : d.outbounds[i].tag = "proxy"
                                               \/ isProxyType(d.outbounds[i].type)}
<1>1. /\ Len(d.outbounds) = 2
      /\ d.outbounds[1] = o /\ d.outbounds[2] = DirectOutbound
  OBVIOUS
<1>2. DirectOutbound.tag = "direct" /\ DirectOutbound.type = "direct"
  BY DEF DirectOutbound, ZeroOutbound
<1>3. ~isProxyType("direct")
  BY DEF isProxyType
<1>4. I = {1}
  BY <1>1, <1>2, <1>3
<1>5. Min({1}) = 1
  BY DEF Min
<1>6. summarise(d) = IF I # {} THEN Min(I) ELSE 0
  BY Zenon DEF summarise, SelectInSeq
<1> HIDE DEF I
<1>7. summarise(d) = 1
  BY <1>4, <1>5, <1>6
<1> QED
  BY <1>7, ReadBack

(* The outbounds of a config.json are a list.                              *)
HasList == Len(doc.outbounds) \in Nat

LEMMA HasListAlways == Spec => []HasList
<1>1. Len(NoDoc.outbounds) \in Nat /\ \A d \in HandDocs : Len(d.outbounds) \in Nat
  BY InputsAssumption DEF NoDoc
<1>2. Init => HasList
  BY <1>1 DEF Init, HasList
<1>3. \A pn, s, out : Len(RenderDoc(pn, s, out).outbounds) \in Nat
  BY DEF RenderDoc
<1>4. HasList /\ [Next]_vars => HasList'
  BY <1>1, <1>3 DEF HasList, Next, Apply, SaveSettings, EditYaml, EditConfig,
                    LanChanges, vars
<1> QED
  BY <1>2, <1>4, PTL DEF Spec

(* The list of backups names a node exactly when the status page would     *)
(* show one of the same config.json, written by hand or by the helper, and *)
(* of what the helper wrote it names the same.                             *)
THEOREM SummaryShown == Spec => []SummaryIsShown
<1>1. ASSUME NodesInv, HasList PROVE SummaryIsShown
  <2>1. summarise(doc) = 0 <=> readCurrentOutbound(doc) = 0
    BY <1>1, BothFind DEF HasList
  <2>2. ASSUME ours PROVE summarise(doc) = readCurrentOutbound(doc)
    <3>1. PICK u \in kept : u \in URI /\ Parse(u).ok
      BY <1>1, <2>2 DEF NodesInv, TypeOK
    <3>2. Parse(u).outbound.tag = "proxy"
      BY <3>1, ParsedNodesSound DEF NodeOf
    <3>3. doc.outbounds = <<Parse(u).outbound, DirectOutbound>>
      BY <1>1, <2>2 DEF NodesInv, OursHoldsKept
    <3> QED
      BY <3>2, <3>3, BothName
  <2> QED
    BY <2>1, <2>2 DEF SummaryIsShown
<1> QED
  BY <1>1, NodesInvAlways, HasListAlways, PTL

=============================================================================
