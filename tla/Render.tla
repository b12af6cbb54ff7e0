------------------------------- MODULE Render -------------------------------
(***************************************************************************)
(* internal/config's renderer and what reads its output back: the          *)
(* config.json made of a parsed node and the settings, the outbound that   *)
(* /api/status finds in a config.json, and the metadata it adds from       *)
(* state.json.  Of the settings, those are kept that something decides on; *)
(* the others are copied to config.json as they are.                       *)
(***************************************************************************)
EXTENDS Parser, SequencesExt

CONSTANTS
  Addresses     (* IPv4 addresses of interfaces, without "0.0.0.0"         *)

Settings == [mixed_listen: Text, mixed_port: Int, enable_mixed: BOOLEAN,
             tun_name: STRING, tun_address: STRING, tun_mtu: Int,
             upstream_dns: STRING, enable_clash: BOOLEAN]

(* validateSettings, called by POST /api/settings only.                    *)
MTUs == 576..9000

(* Mutant of it: the upper bound of the port is off by one.                *)
MutValidateSettings(s) ==
  /\ s.mixed_port \in 1..65536
  /\ s.tun_mtu \in MTUs
  /\ "" \notin {s.tun_name, s.tun_address, s.upstream_dns}

validateSettings(s) ==
  /\ s.mixed_port \in Ports
  /\ s.tun_mtu \in MTUs
  /\ "" \notin {s.tun_name, s.tun_address, s.upstream_dns}

(* What `ip -4 addr show br0` prints, a line being what parseIPInetLine    *)
(* tells of it: an "inet" line or not, and its address if it is one with a *)
(* prefix length ("" otherwise).  NoOutput: the command failed.            *)
Line     == [inet: BOOLEAN, addr: Addresses \cup {""}]
NoOutput == <<>>

parseIPInetLine(out) ==
  LET i == SelectInSeq(out, LAMBDA l : l.inet /\ l.addr # "")
  IN  IF i = 0 THEN "" ELSE out[i].addr

AnyAddress == "0.0.0.0"

(* Mutant of ResolveMixedListen: "auto" is not found in other spellings.   *)
MutResolveMixedListen(configured, out) ==
  CASE configured = Plain("auto") ->
         Plain(IF parseIPInetLine(out) = "" THEN AnyAddress
               ELSE parseIPInetLine(out))
    [] configured = Empty -> Plain(AnyAddress)
    [] OTHER -> configured

(* The effective listen address; "auto" asks the LAN interface.            *)
ResolveMixedListen(configured, out) ==
  CASE Clean(configured) = Plain("auto") ->
         Plain(IF parseIPInetLine(out) = "" THEN AnyAddress
               ELSE parseIPInetLine(out))
    [] configured = Empty -> Plain(AnyAddress)
    [] OTHER -> configured

NoMixed == [listen |-> Empty, listen_port |-> 0]

(* Mutant of DirectOutbound: it has the node's tag.                        *)
MutDirectOutbound == [ZeroOutbound EXCEPT !.type = "direct"]

DirectOutbound ==
  [ZeroOutbound EXCEPT !.type = "direct", !.tag = "direct"]

(* A config.json that is there and is JSON; NoDoc stands for the others.   *)
NoDoc == [ok |-> FALSE, outbounds |-> <<>>]

(* Mutant of RenderDoc: the direct outbound goes with the test proxy.      *)
MutRenderDoc(pn, s, out) ==
  [ok |-> TRUE,
   dns |-> s.upstream_dns,
   tun |-> [interface_name |-> s.tun_name, address |-> s.tun_address,
            mtu |-> s.tun_mtu],
   mixed |-> IF s.enable_mixed
             THEN [listen |-> ResolveMixedListen(s.mixed_listen, out),
                   listen_port |-> s.mixed_port]
             ELSE NoMixed,
   outbounds |-> IF s.enable_mixed THEN <<pn.outbound, DirectOutbound>>
                 ELSE <<pn.outbound>>,
   final |-> "proxy",
   clash |-> s.enable_clash]

RenderDoc(pn, s, out) ==
  [ok |-> TRUE,
   dns |-> s.upstream_dns,
   tun |-> [interface_name |-> s.tun_name, address |-> s.tun_address,
            mtu |-> s.tun_mtu],
   mixed |-> IF s.enable_mixed
             THEN [listen |-> ResolveMixedListen(s.mixed_listen, out),
                   listen_port |-> s.mixed_port]
             ELSE NoMixed,
   outbounds |-> <<pn.outbound, DirectOutbound>>,
   final |-> "proxy",
   clash |-> s.enable_clash]

proxyOutboundTypes == {"hysteria2", "hysteria", "vless", "vmess", "trojan",
                       "shadowsocks", "tuic", "anytls", "socks", "http"}

(* The index in doc.outbounds of the outbound that is reported, 0 if none. *)
readCurrentOutbound(doc) ==
  LET tagged == SelectInSeq(doc.outbounds, LAMBDA o : o.tag = "proxy")
      known  == SelectInSeq(doc.outbounds,
                            LAMBDA o : o.type \in proxyOutboundTypes)
  IN  IF tagged # 0 THEN tagged ELSE known

(* Mutant of isProxyType: a type that only the other table knows.          *)
MutIsProxyType(t) ==
  t \in {"hysteria2", "hysteria", "vless", "vmess", "shadowsocks", "tuic",
         "anytls", "socks", "http"}

isProxyType(t) ==
  t \in {"hysteria2", "hysteria", "vless", "vmess", "trojan", "shadowsocks",
         "tuic", "anytls", "socks", "http"}

(* The index of the outbound that the list of backups names, 0 if none.    *)
summarise(doc) ==
  SelectInSeq(doc.outbounds, LAMBDA o : o.tag = "proxy" \/ isProxyType(o.type))

protocolLabel(type) ==
  CASE type = "hysteria2"   -> "Hysteria2"
    [] type = "hysteria"    -> "Hysteria"
    [] type = "vless"       -> "VLESS"
    [] type = "vmess"       -> "VMess"
    [] type = "trojan"      -> "Trojan"
    [] type = "shadowsocks" -> "Shadowsocks"
    [] type = "tuic"        -> "TUIC"
    [] type = "anytls"      -> "AnyTLS"
    [] type = "socks"       -> "SOCKS"
    [] type = "http"        -> "HTTP-proxy"
    [] OTHER                -> type

(* state.json's URI, if there is one (kept has at most one element), is    *)
(* believed when its node has the server and the port of config.json's.    *)
IsManaged(current, kept) ==
  \E u \in kept :
    /\ Parse(u).ok
    /\ Parse(u).outbound.server = current.server
    /\ Parse(u).outbound.server_port = current.server_port

NoNode == [shown |-> FALSE]

handleStatus(doc, kept) ==
  LET i == readCurrentOutbound(doc)
      current == doc.outbounds[i]
  IN  IF i = 0 THEN NoNode
      ELSE [shown |-> TRUE,
            protocol |-> protocolLabel(current.type),
            server |-> current.server, port |-> current.server_port,
            managed |-> IsManaged(current, kept),
            labels |-> IF IsManaged(current, kept)
                       THEN {Parse(u).label : u \in kept} ELSE {}]

=============================================================================
