------------------------------- MODULE MCNodes -------------------------------
(* An instance of Nodes for TLC: URIs of every kind the parsers tell apart. *)
EXTENDS Nodes

MCAddresses  == {"10.0.0.1", "192.168.1.1"}
MCLocalHosts == {"localhost", "127.0.0.1"}
MCUUIDs      == {"uuid"}

NoQuery == [p \in Params |-> Empty]
NoUser  == [given |-> FALSE, name |-> "", hasPass |-> FALSE, pass |-> ""]
Named(n)      == [NoUser EXCEPT !.given = TRUE, !.name = n]
WithPass(n, p) == [Named(n) EXCEPT !.hasPass = TRUE, !.pass = p]

MakeURI(scheme, user, host, port, frag, q) ==
  [scheme |-> scheme, user |-> user, host |-> host, port |-> port,
   frag |-> frag, q |-> q]

(* A word in capitals, with blanks around it.                              *)
Loud(w) == [word |-> w, upper |-> TRUE, padded |-> TRUE]
Blank   == [word |-> "", upper |-> FALSE, padded |-> TRUE]

Users == {NoUser, Named(""), Named("uuid"), Named("bob"),
          WithPass("bob", "pw"), WithPass("", "pw"), WithPass("", "")}
PortValues == {NoPort, 0, 1, 65535, 65536}

Schemes == {"vless", "hysteria2", "hy2", "vmess"} \cup socksSchemes

(* Every scheme with every user-info, and with every host and port.        *)
Authorities ==
  {MakeURI(s, u, "srv", 443, "", NoQuery) : s \in Schemes, u \in Users} \cup
  {MakeURI(s, Named("uuid"), h, p, "", NoQuery) :
     s \in Schemes, h \in {"", "localhost", "srv"}, p \in PortValues}

VlessQueries ==
  {[NoQuery EXCEPT !["type"] = type, !["security"] = sec, !["sni"] = sni,
      !["allowInsecure"] = ins, !["fp"] = fp, !["pbk"] = pbk] :
     type \in {Empty, Plain("ws"), Loud("xhttp"), Plain("quic")},
     sec  \in {Empty, Plain("tls"), Loud("reality"), Plain("xtls")},
     sni  \in {Empty, Loud("cdn")},
     ins \in {Empty, Loud("true")},
     fp   \in {Blank, Plain("chrome")}, pbk \in {Blank, Plain("key")}}

MoreVless ==
  {[NoQuery EXCEPT !["type"] = Plain(type), !["flow"] = flow, !["host"] = host,
      !["path"] = path, !["serviceName"] = name,
      !["service-name"] = Plain("kebab"), !["insecure"] = Plain("1"),
      !["security"] = Plain("tls"),
      !["sid"] = Plain("01"), !["alpn"] = Plain("h2")] :
     type \in {"tcp", "h2", "httpupgrade", "splithttp", "grpc"},
     flow \in {Blank, Plain("xtls-rprx-vision"), Plain("other")},
     host \in {Empty, Plain("cdn")}, path \in {Blank, Plain("/x")},
     name \in {Blank, Plain("svc")}}

HysteriaQueries ==
  {[NoQuery EXCEPT !["sni"] = sni, !["insecure"] = ins, !["obfs"] = obfs,
      !["obfs-password"] = pw, !["alpn"] = alpn] :
     sni \in {Empty, Plain("cdn")}, ins \in {Empty, Loud("yes"), Plain("0")},
     obfs \in {Empty, Loud("salamander"), Plain("xor")},
     pw \in {Empty, Plain("pw")}, alpn \in {Empty, Plain("h3")}}

MCURIs ==
  Authorities
  \cup {MakeURI("vless", Named("uuid"), "srv", 443, "", q) :
          q \in VlessQueries \cup MoreVless}
  \cup {MakeURI("hy2", Named("bob"), "srv", 443, "plus", q) :
          q \in HysteriaQueries}
  \cup {MakeURI(s, Named("uuid"), "srv", 443, f, NoQuery) :
          s \in {"vless", "hy2"}, f \in Fragments}
  \cup {MakeURI("socks4", NoUser, "srv", 443, f, NoQuery) : f \in Fragments}
  \cup {MakeURI("socks4a", Named("bob"), "localhost", 1, "", NoQuery),
        MakeURI("hy2", Named("bob"), "srv", 443, "escaped", NoQuery)}

(* Every URI on its own, and two that differ in all that a node has.       *)
MCSubscriptions ==
  {{u} : u \in MCURIs} \cup
  {{MakeURI("socks4a", Named("bob"), "localhost", 1, "", NoQuery),
    MakeURI("hy2", Named("bob"), "srv", 443, "escaped", NoQuery)}}

MCDefault ==
  [mixed_listen |-> Plain("0.0.0.0"), mixed_port |-> 7891,
   enable_mixed |-> TRUE, tun_name |-> "singtun",
   tun_address |-> "198.18.0.1/30", tun_mtu |-> 1500,
   upstream_dns |-> "1.1.1.1", enable_clash |-> TRUE]

MCPosted ==
  {[MCDefault EXCEPT !.mixed_listen = Loud("auto"), !.tun_mtu = 576],
   [MCDefault EXCEPT !.mixed_listen = Empty, !.mixed_port = 65536],
   [MCDefault EXCEPT !.enable_mixed = FALSE, !.tun_mtu = 9001],
   [MCDefault EXCEPT !.upstream_dns = "", !.mixed_listen = Blank],
   [MCDefault EXCEPT !.mixed_listen = Blank]}

MCOutputs ==
  {NoOutput,
   <<[inet |-> FALSE, addr |-> ""], [inet |-> TRUE, addr |-> ""],
     [inet |-> TRUE, addr |-> "10.0.0.1"],
     [inet |-> TRUE, addr |-> "192.168.1.1"]>>}

(* Configurations that were there before the helper: with a node, with two *)
(* of which the second has the helper's tag, and with none that is known.  *)
Hand(outs) ==
  [RenderDoc([outbound |-> ZeroOutbound], MCDefault, NoOutput)
     EXCEPT !.outbounds = outs]
Outbound(type, tag) ==
  [ZeroOutbound EXCEPT !.type = type, !.tag = tag, !.server = "srv", !.server_port = 443]
MCHandDocs ==
  {Hand(<<DirectOutbound, Outbound("trojan", "my")>>),
   Hand(<<DirectOutbound, Outbound("trojan", "my"), Outbound("tuic", "proxy")>>),
   Hand(<<DirectOutbound, Outbound("wireguard", "wg")>>)}

=============================================================================
