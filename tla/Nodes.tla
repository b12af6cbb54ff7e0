-------------------------------- MODULE Nodes --------------------------------
(***************************************************************************)
(* From a node URI to what /api/status shows, one request at a time: which *)
(* config.json an apply and the settings form produce out of the URIs and  *)
(* settings that may come, what the read-back finds in it, and what a hand *)
(* edit of config.json or config.yaml does to that.  Helper has the same   *)
(* requests with their failures and interleavings, and abstracts the data  *)
(* that this module is about.                                              *)
(***************************************************************************)
EXTENDS Render

CONSTANTS
  URIs,         (* URIs that are posted                                    *)
  Subscriptions,(* what a user may have: sets of URIs                      *)
  Posted,       (* settings that the form and config.yaml may hold         *)
  DefaultSettings,
  Outputs,      (* what `ip -4 addr show br0` may print                    *)
  HandDocs      (* config.json as written by hand                          *)

ASSUME InputsAssumption ==
  /\ URIs \subseteq URI
  /\ Subscriptions \subseteq SUBSET URIs
  /\ Posted \subseteq Settings
  /\ DefaultSettings \in Settings
  /\ validateSettings(DefaultSettings)
  /\ Outputs \subseteq Seq(Line)
  /\ {"", "auto"} \cap Addresses = {}
  /\ \A d \in HandDocs : d.ok = TRUE /\ Len(d.outbounds) \in Nat

VARIABLES
  box,        (* the URIs of this user, who has no others                  *)
  doc,        (* config.json                                               *)
  kept,       (* {} or the URI in state.json                               *)
  settings,   (* Server.settings                                           *)
  lan,        (* what the LAN interface has                                *)
  ours,       (* history: doc is what an apply or the settings form wrote  *)
  checked     (* history: config.yaml held nothing the form would refuse,  *)
              (* at least since it was last posted                         *)

vars == <<box, doc, kept, settings, lan, ours, checked>>

TypeOK ==
  /\ box \subseteq URI
  /\ doc.ok \in BOOLEAN
  /\ \A u \in kept : u \in box /\ Parse(u).ok
  /\ \A u, v \in kept : u = v
  /\ settings \in {DefaultSettings} \cup Posted
  /\ lan \in Outputs
  /\ ours \in BOOLEAN /\ checked \in BOOLEAN
  /\ ours => kept # {}

Init ==
  /\ box \in Subscriptions
  /\ doc \in {NoDoc} \cup HandDocs
  /\ kept = {}
  /\ settings = DefaultSettings
  /\ lan \in Outputs
  /\ ours = FALSE
  /\ checked = TRUE

(* Mutant of Apply: state.json is written by the first apply only.         *)
MutApply(u) ==
  /\ Parse(u).ok
  /\ doc' = RenderDoc(Parse(u), settings, lan)
  /\ kept' = IF kept = {} THEN {u} ELSE kept
  /\ ours' = TRUE
  /\ UNCHANGED <<box, settings, lan, checked>>

(* POST /api/apply.  A URI that does not parse changes nothing (422).      *)
Apply(u) ==
  /\ Parse(u).ok
  /\ doc' = RenderDoc(Parse(u), settings, lan)
  /\ kept' = {u}
  /\ ours' = TRUE
  /\ UNCHANGED <<box, settings, lan, checked>>

(* POST /api/settings: with a URI in state.json, config.json is rendered   *)
(* anew, whatever it holds.                                                *)
SaveSettings(s) ==
  /\ validateSettings(s)
  /\ settings' = s
  /\ checked' = TRUE
  /\ IF kept = {} THEN UNCHANGED <<doc, ours>>
     ELSE \E u \in kept :
            doc' = RenderDoc(Parse(u), s, lan) /\ ours' = TRUE
  /\ UNCHANGED <<box, kept, lan>>

(* config.yaml is edited and the helper started again: LoadSettings, which *)
(* validates nothing.                                                      *)
EditYaml(s) ==
  /\ settings' = s
  /\ checked' = (checked /\ validateSettings(s))
  /\ UNCHANGED <<box, doc, kept, lan, ours>>

(* config.json is edited, or removed.                                      *)
EditConfig(d) ==
  /\ doc' = d
  /\ ours' = FALSE
  /\ UNCHANGED <<box, kept, settings, lan, checked>>

(* The LAN interface gets another address, or none.                        *)
LanChanges(out) ==
  /\ lan' = out
  /\ UNCHANGED <<box, doc, kept, settings, ours, checked>>

Next ==
  \/ \E u \in box : Apply(u)
  \/ \E s \in Posted : SaveSettings(s) \/ EditYaml(s)
  \/ \E d \in {NoDoc} \cup HandDocs : EditConfig(d)
  \/ \E out \in Outputs : LanChanges(out)

Spec == Init /\ [][Next]_vars

-----------------------------------------------------------------------------
Status == handleStatus(doc, kept)

(* After an apply, and as long as config.json is not edited, the status    *)
(* page shows the node of the URI in state.json as managed: protocol (a    *)
(* table of its own in readback.go), server, port and label are those the  *)
(* parser displayed when the user looked at the preview.                   *)
AppliedIsShown ==
  ours => \A u \in kept :
    LET page == Status
        pn   == Parse(u)
    IN  /\ page.shown
        /\ page.managed
        /\ page.labels = {pn.label}
        /\ page.protocol = pn.display.protocol
        /\ page.server = pn.display.server
        /\ page.port = pn.display.port

(* What the status page takes for the current node is the outbound that    *)
(* config.json routes to (route.final), and no other has its tag.          *)
ShownIsRouted ==
  ours => LET i == readCurrentOutbound(doc)
          IN  \A j \in DOMAIN doc.outbounds :
                doc.outbounds[j].tag = doc.final <=> j = i

(* The list of backups looks for the node in its own way, with a table of  *)
(* its own (backup.go): it names one exactly when the status page would    *)
(* show one after a restore, and of what the helper wrote it names the     *)
(* same.                                                                   *)
SummaryIsShown ==
  /\ summarise(doc) = 0 <=> readCurrentOutbound(doc) = 0
  /\ ours => summarise(doc) = readCurrentOutbound(doc)

(* What is sent where, in the node config.json routes to: REALITY comes    *)
(* with a key and a fingerprint and verifies; Hysteria2 has TLS and a      *)
(* password; SOCKS4 gets no credentials; obfuscation has a password; every *)
(* transport is one the code promises to sing-box, with a path where       *)
(* needed; TLS has a server name.                                          *)
OutboundSound(o) ==
  /\ o.server # "" /\ o.server_port \in Ports
  /\ o.tls.enabled => o.tls.server_name.word # ""
  /\ o.tls.public_key # Empty => o.tls.enabled /\ ~o.tls.insecure
                                 /\ o.tls.fingerprint.word # ""
  /\ o.type = "hysteria2" => /\ o.tls.enabled
                             /\ o.password # Secret("", FALSE, "")
  /\ o.obfs.type # "" => o.obfs.password # Empty
  /\ o.version \in {"4", "4a"} => /\ o.username = ""
                                  /\ o.password = Secret("", FALSE, "")
  /\ o.transport.type \in {"", "ws", "grpc", "h2", "httpupgrade"}
  /\ o.transport.type \in {"ws", "h2", "httpupgrade"} =>
       o.transport.path.word # ""

NodeSound == ours => OutboundSound(doc.outbounds[readCurrentOutbound(doc)])

(* The page never tells that the server's certificate is verified when the *)
(* configuration does not verify it, and warns whenever the transport was  *)
(* replaced by another.                                                    *)
DisplayHonest ==
  ours => \A u \in kept :
    LET o == doc.outbounds[readCurrentOutbound(doc)]
        d == Parse(u).display
    IN  /\ d.tls_verify <=> o.tls.enabled /\ ~o.tls.insecure
        /\ d.sni = o.tls.server_name
        /\ o.type = "vless" =>
             (d.transport \notin {o.transport.type, "tcp"} <=> "mapped" \in d.notes)

(* The listen address of the test proxy is an address: "auto" has been     *)
(* resolved, in any spelling, and an interface without one does not leave  *)
(* the field empty.  If it consists of blanks then somebody set it so: the *)
(* form trims it (app.js:406), the API and config.yaml do not.             *)
ListenResolved ==
  ours /\ doc.mixed # NoMixed =>
    /\ doc.mixed.listen # Empty
    /\ Clean(doc.mixed.listen) # Plain("auto")
    /\ Clean(doc.mixed.listen) = Empty =>
         \E s \in {DefaultSettings} \cup Posted : s.mixed_listen = doc.mixed.listen

(* "rejects values that would render an unusable config.json"              *)
(* (validateSettings): true of every config.json rendered while the        *)
(* settings come from the form, whatever was rendered before.              *)
DocUsable ==
  ours /\ checked =>
    /\ doc.tun.mtu \in MTUs
    /\ "" \notin {doc.tun.interface_name, doc.tun.address, doc.dns}
    /\ doc.mixed # NoMixed => doc.mixed.listen_port \in Ports

(* Saving settings changes the settings and not the node: unless another   *)
(* URI is applied, no step that renders anew touches the outbounds.        *)
SettingsKeepNode ==
  [][ours /\ ours' /\ kept' = kept => doc'.outbounds = doc.outbounds]_vars

=============================================================================
