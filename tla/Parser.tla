------------------------------- MODULE Parser -------------------------------
(***************************************************************************)
(* internal/parser: the sing-box outbound a node URI stands for.           *)
(*                                                                         *)
(* A URI is what net/url makes of it.  A text in it is a word with its     *)
(* spelling: in upper case or not, with blanks around it or not; so        *)
(* strings.ToLower and strings.TrimSpace are operators on the spelling.    *)
(* A pointer that is nil is a record of zero values.                       *)
(***************************************************************************)
EXTENDS Integers

CONSTANTS
  UUIDs,        (* user names that uuidRegex matches                       *)
  LocalHosts    (* "localhost" and the loopback addresses, in any spelling *)

(* Blanks alone are no word, padded; they have no upper case.              *)
Text == {t \in [word: STRING, upper: BOOLEAN, padded: BOOLEAN] :
           t.word = "" => ~t.upper}

Plain(w)     == [word |-> w, upper |-> FALSE, padded |-> FALSE]
TrimSpace(t) == [word |-> t.word, upper |-> t.upper, padded |-> FALSE]
ToLower(t)   == [word |-> t.word, upper |-> FALSE, padded |-> t.padded]
Clean(t)     == ToLower(TrimSpace(t))
Empty        == Plain("")

(* Query parameters; one that is missing reads as Empty.                   *)
Params == {"type", "security", "flow", "sni", "allowInsecure", "insecure",
           "alpn", "fp", "pbk", "sid", "host", "path", "serviceName",
           "service-name", "obfs", "obfs-password"}

(* url.Parse: the scheme in lower case, User (given unless nil), Hostname, *)
(* Port (NoPort if ""), Fragment and Query.  What url.Parse refuses is a   *)
(* URI of an unknown scheme: both are rejected.                            *)
NoPort == -1
Ports  == 1..65535
User == [given: BOOLEAN, name: STRING, hasPass: BOOLEAN, pass: STRING]
Fragments == {"", "plain", "plus", "percent", "escaped"}
URI  == [scheme: STRING, user: User, host: STRING, port: Int,
         frag: Fragments, q: [Params -> Text]]

(* url.QueryUnescape on a fragment that url.Parse has already decoded: a   *)
(* '+' becomes a blank, "%41" is decoded once more, a lone '%' is an error *)
(* and the parsers then keep the fragment.                                 *)
UnescapedLabel(frag) ==
  CASE frag = "plus"    -> "blank"
    [] frag = "escaped" -> "decoded"
    [] OTHER            -> frag

NoTLS == [enabled |-> FALSE, server_name |-> Empty, insecure |-> FALSE,
          alpn |-> Empty, fingerprint |-> Empty, public_key |-> Empty,
          short_id |-> Empty]
NoTransport == [type |-> "", host |-> Empty, path |-> Empty,
                service_name |-> Empty]
NoObfs == [type |-> "", password |-> Empty]

(* A password in two parts, with a ':' between them or not.                *)
Secret(head, colon, tail) == [head |-> head, colon |-> colon, tail |-> tail]

ZeroOutbound ==
  [type |-> "", tag |-> "proxy", server |-> "", server_port |-> 0,
   password |-> Secret("", FALSE, ""), uuid |-> "", flow |-> Empty,
   version |-> "", username |-> "", tls |-> NoTLS, obfs |-> NoObfs, transport |-> NoTransport]

Reject == [ok |-> FALSE]
ParsedNode(out, label, display) ==
  [ok |-> TRUE, outbound |-> out, label |-> label, display |-> display]

HasEndpoint(u) == u.host # "" /\ u.port \in Ports

parseBoolFlag(t) == Clean(t).word \in {"1", "true", "yes", "on"}

OrHost(sni, host) ==
  IF TrimSpace(sni) = Empty THEN Plain(host) ELSE TrimSpace(sni)

-----------------------------------------------------------------------------
(* hysteria2://                                                            *)

(* url.Parse cuts the user-info at the first ':'; the parser joins it.     *)
hysteria2Password(user) == Secret(user.name, user.hasPass, user.pass)

hysteria2TLS(u) ==
  [NoTLS EXCEPT !.enabled = TRUE,
                !.server_name = OrHost(u.q["sni"], u.host),
                !.insecure = parseBoolFlag(u.q["insecure"]),
                !.alpn = TrimSpace(u.q["alpn"])]

hysteria2Obfs(u) ==
  IF Clean(u.q["obfs"]) = Empty THEN NoObfs
  ELSE [type |-> "salamander", password |-> u.q["obfs-password"]]

hysteria2Outbound(u) ==
  [ZeroOutbound EXCEPT
     !.type = "hysteria2", !.server = u.host, !.server_port = u.port,
     !.password = hysteria2Password(u.user),
     !.tls = hysteria2TLS(u), !.obfs = hysteria2Obfs(u)]

hysteria2Display(u) ==
  [protocol |-> "Hysteria2", server |-> u.host, port |-> u.port,
   sni |-> OrHost(u.q["sni"], u.host),
   tls_verify |-> ~parseBoolFlag(u.q["insecure"]),
   transport |-> "native", notes |-> {}]

Hysteria2Accepts(u) ==
  /\ u.user.given
  /\ hysteria2Password(u.user) # Secret("", FALSE, "")
  /\ HasEndpoint(u)
  /\ \/ Clean(u.q["obfs"]) = Empty
     \/ /\ Clean(u.q["obfs"]) = Plain("salamander")
        /\ u.q["obfs-password"] # Empty

ParseHysteria2(u) ==
  IF Hysteria2Accepts(u)
  THEN ParsedNode(hysteria2Outbound(u), UnescapedLabel(u.frag),
                  hysteria2Display(u))
  ELSE Reject

-----------------------------------------------------------------------------
(* vless://                                                                *)

WithDefault(t, d) == IF Clean(t) = Empty THEN Plain(d) ELSE Clean(t)

pickVLESSTransport(t) == WithDefault(t, "tcp").word
pickVLESSSecurity(t)  == WithDefault(t, "none").word

buildVLESSTLS(u) ==
  [NoTLS EXCEPT
     !.enabled = TRUE, !.server_name = OrHost(u.q["sni"], u.host),
     !.insecure = \/ parseBoolFlag(u.q["allowInsecure"])
                  \/ parseBoolFlag(u.q["insecure"]),
     !.alpn = TrimSpace(u.q["alpn"]),
     !.fingerprint = TrimSpace(u.q["fp"])]

(* Refused without a public key and a fingerprint: see ParseVLESS.         *)
buildVLESSReality(u) ==
  [NoTLS EXCEPT
     !.enabled = TRUE, !.server_name = OrHost(u.q["sni"], u.host),
     !.alpn = TrimSpace(u.q["alpn"]),
     !.fingerprint = TrimSpace(u.q["fp"]),
     !.public_key = TrimSpace(u.q["pbk"]),
     !.short_id = TrimSpace(u.q["sid"])]

nativeTransport(type) ==
  IF type \in {"xhttp", "splithttp"} THEN "httpupgrade" ELSE type

OrRoot(path) == IF path = Empty THEN Plain("/") ELSE path

(* Mutant of buildVLESSTransport: the default path is looked up before the *)
(* blanks are trimmed.                                                     *)
MutBuildVLESSTransport(type, q) ==
  [NoTransport EXCEPT !.type = nativeTransport(type),
     !.host = TrimSpace(q["host"]),
     !.path = TrimSpace(OrRoot(q["path"])),
     !.service_name = TrimSpace(q["serviceName"])]

buildVLESSTransport(type, q) ==
  LET native == nativeTransport(type)
      name   == TrimSpace(q["serviceName"])
  IN  IF native = "grpc"
      THEN [NoTransport EXCEPT !.type = native,
              !.service_name = IF name = Empty
                               THEN TrimSpace(q["service-name"]) ELSE name]
      ELSE [NoTransport EXCEPT !.type = native,
              !.host = TrimSpace(q["host"]),
              !.path = OrRoot(TrimSpace(q["path"]))]

(* Mutant of VLESSNotes: the second of xray's names is forgotten.          *)
MutVLESSNotes(type) == IF type = "xhttp" THEN {"mapped"} ELSE {}

(* The warning that the transport was replaced.                            *)
VLESSNotes(type) ==
  IF type \in {"xhttp", "splithttp"} THEN {"mapped"} ELSE {}

vlessTLS(u) ==
  CASE pickVLESSSecurity(u.q["security"]) = "tls"     -> buildVLESSTLS(u)
    [] pickVLESSSecurity(u.q["security"]) = "reality" -> buildVLESSReality(u)
    [] OTHER                                          -> NoTLS

vlessTransport(u) ==
  LET type == pickVLESSTransport(u.q["type"])
  IN  IF type = "tcp" THEN NoTransport ELSE buildVLESSTransport(type, u.q)

vlessOutbound(u) ==
  [ZeroOutbound EXCEPT
     !.type = "vless", !.server = u.host, !.server_port = u.port,
     !.uuid = u.user.name, !.flow = TrimSpace(u.q["flow"]),
     !.tls = vlessTLS(u), !.transport = vlessTransport(u)]

vlessDisplay(u) ==
  [protocol |-> "VLESS", server |-> u.host, port |-> u.port,
   sni |-> vlessTLS(u).server_name,
   tls_verify |-> vlessTLS(u).enabled /\ ~vlessTLS(u).insecure,
   transport |-> pickVLESSTransport(u.q["type"]),
   notes |-> VLESSNotes(pickVLESSTransport(u.q["type"]))]

VLESSAccepts(u) ==
  /\ u.user.given /\ ~u.user.hasPass /\ u.user.name \in UUIDs
  /\ HasEndpoint(u)
  /\ pickVLESSTransport(u.q["type"]) \in
       {"tcp", "ws", "grpc", "h2", "httpupgrade", "xhttp", "splithttp"}
  /\ pickVLESSSecurity(u.q["security"]) \in {"none", "tls", "reality"}
  /\ TrimSpace(u.q["flow"]) \in {Empty, Plain("xtls-rprx-vision")}
  /\ pickVLESSSecurity(u.q["security"]) = "reality" =>
       TrimSpace(u.q["pbk"]) # Empty /\ TrimSpace(u.q["fp"]) # Empty

ParseVLESS(u) ==
  IF VLESSAccepts(u)
  THEN ParsedNode(vlessOutbound(u), UnescapedLabel(u.frag), vlessDisplay(u))
  ELSE Reject

-----------------------------------------------------------------------------
(* socks://, socks4://, socks4a://, socks5://, socks5h://                  *)

socksSchemes == {"socks", "socks4", "socks4a", "socks5", "socks5h"}

socksVersion(scheme) ==
  CASE scheme = "socks4"  -> "4"
    [] scheme = "socks4a" -> "4a"
    [] OTHER              -> "5"

socksTransport == [v \in {"4", "4a", "5"} |->
  CASE v = "4" -> "SOCKS4" [] v = "4a" -> "SOCKS4a" [] OTHER -> "SOCKS5"]

locationHint(host) == IF host \in LocalHosts THEN "local" ELSE "plaintext"

(* SOCKS4 knows no credentials: they are dropped.                          *)
WithAuth(u) == u.user.given /\ socksVersion(u.scheme) = "5"

socksOutbound(u) ==
  [ZeroOutbound EXCEPT
     !.type = "socks", !.server = u.host, !.server_port = u.port,
     !.version = socksVersion(u.scheme),
     !.username = IF WithAuth(u) THEN u.user.name ELSE "",
     !.password = IF WithAuth(u) THEN Secret(u.user.pass, FALSE, "")
                  ELSE Secret("", FALSE, "")]

socksDisplay(u) ==
  [protocol |-> "SOCKS", server |-> u.host, port |-> u.port, sni |-> Empty,
   tls_verify |-> FALSE, transport |-> socksTransport[socksVersion(u.scheme)],
   notes |-> {locationHint(u.host)} \cup
             (IF u.user.given /\ ~WithAuth(u) THEN {"no auth"} ELSE {})]

SOCKSAccepts(u) ==
  /\ HasEndpoint(u)
  /\ WithAuth(u) /\ u.user.name # "" => u.user.hasPass

(* The label is the fragment as url.Parse left it.                         *)
ParseSOCKS(u) ==
  IF SOCKSAccepts(u)
  THEN ParsedNode(socksOutbound(u), u.frag, socksDisplay(u))
  ELSE Reject

-----------------------------------------------------------------------------
Parse(u) ==
  CASE u.scheme \in {"hysteria2", "hy2"} -> ParseHysteria2(u)
    [] u.scheme = "vless"                -> ParseVLESS(u)
    [] u.scheme \in socksSchemes         -> ParseSOCKS(u)
    [] OTHER                             -> Reject

=============================================================================
