----------------------------- MODULE Diagnostics ----------------------------
(***************************************************************************)
(* GET /api/test, the check of the tunnel in five steps, next to requests  *)
(* for GET /api/status, over a router, a network and servers that may      *)
(* change between any two steps.  Both handlers call CollectStatus, which  *)
(* looks for a process called sing-box and starts one of that name.        *)
(*                                                                         *)
(* A configuration stands for what the probes can tell of it: the type of  *)
(* its outbound, its TUN interface, and the address at which traffic comes *)
(* out.  Time is what a request has spent so far, in seconds.              *)
(***************************************************************************)
EXTENDS Integers

CONSTANTS
  Tests,          (* requests for /api/test that may be under way          *)
  Polls,          (* requests for /api/status that may be under way        *)
  Configs,        (* what config.json may hold                             *)
  TypeOf,         (* the type of a configuration's proxy outbound          *)
  TunOf,          (* its TUN interface                                     *)
  ExitOf,         (* where its TUN traffic comes out, or Around            *)
  TunNames,       (* values of tun_interface_name in the settings          *)
  Addrs,          (* addresses of the router on the Internet               *)
  Around,         (* TUN traffic is routed past the proxy                  *)
  NoConfig,       (* config.json is missing, empty or has no outbound      *)
  Down,           (* sing-box is not running                               *)
  Offline,        (* the router has no connection                          *)
  Page,           (* an error page of ipReporter: curl has no -f           *)
  NoAddr,         (* the error value of directIP: ""                       *)
  NoName,         (* the settings have not been read yet                   *)
  reachTimeout, directTimeout, tunnelTimeout,
  Grace,          (* what runCurl gives curl beyond --max-time             *)
  WriteTimeout,   (* of the http.Server                                    *)
  VersionTime     (* what is left for `sing-box version`, which has none   *)

Requests == Tests \cup Polls
Types    == {"vless", "hysteria2", "hysteria", "tuic", "socks"}
Exits    == UNION {{ExitOf[c]} : c \in Configs} \ {Around}
Seen     == Addrs \cup Exits \cup {Page}

ASSUME ConfigsAssumption ==
  /\ Tests \cap Polls = {}
  /\ NoConfig \notin Configs /\ Down \notin Configs
  /\ TypeOf \in [Configs -> Types]
  /\ TunOf \in [Configs -> TunNames]
  /\ DOMAIN ExitOf = Configs
  /\ Offline \notin Addrs
  /\ NoAddr \notin Seen
  /\ Page \notin Addrs \cup Exits
  /\ Around \notin Addrs

ASSUME TimesAssumption ==
  {reachTimeout, directTimeout, tunnelTimeout, Grace, WriteTimeout, VersionTime}
    \subseteq Nat

VARIABLES
  named,      (* the configuration in config.json                          *)
  running,    (* the one sing-box runs                                     *)
  tunName,    (* Server.settings.TunInterfaceName                          *)
  live,       (* the configurations whose node answers and forwards        *)
  wan,        (* the address of the router, or Offline                     *)
  pc,         (* where each request is                                     *)
  req         (* its local variables, and what properties read of it       *)

world == <<named, running, tunName, live, wan>>
vars  == <<named, running, tunName, live, wan, pc, req>>

Verdicts == {"none", "ok", "fail", "skip"}
Steps    == {"reach", "process", "tun", "direct", "tunnel"}

(* steps: testStep.Status of the five.  found: whose process findProcess   *)
(* returned.  calm: the world has not changed since the request began.     *)
(* odd: a probe met its limit, or was told something else than an address. *)
NewReq ==
  [steps |-> [s \in Steps |-> "none"], target |-> NoConfig, name |-> NoName,
   found |-> "none", direct |-> NoAddr, spent |-> 0,
   calm |-> TRUE, odd |-> FALSE]

Reqs == [steps: [Steps -> Verdicts], target: Configs \cup {NoConfig},
         name: TunNames \cup {NoName}, found: {"none", "service", "child"},
         direct: Seen \cup {NoAddr}, spent: Nat,
         calm: BOOLEAN, odd: BOOLEAN]

Labels == {"idle", "dial", "scan", "start", "version", "iface", "direct",
           "tunnel", "done"}

TypeOK ==
  /\ named \in Configs \cup {NoConfig}
  /\ running \in Configs \cup {Down}
  /\ tunName \in TunNames
  /\ live \in SUBSET Configs
  /\ wan \in Addrs \cup {Offline}
  /\ pc \in [Requests -> Labels]
  /\ req \in [Requests -> Reqs]
  /\ \A r \in Requests :
       pc[r] \notin {"idle", "dial"} => req[r].name \in TunNames

----------------------------------------------------------------------------
(* The world, as the probes find it.                                       *)

(* sing-box creates its TUN interface, which goes when the process ends.   *)
TunUp(n) == running # Down /\ TunOf[running] = n

(* Where traffic through sing-box's interface comes out.                   *)
Egress == IF ExitOf[running] = Around THEN wan ELSE ExitOf[running]

(* What carries it: sing-box, its node and the router's connection.        *)
TunnelCarries(n) ==
  /\ TunUp(n)
  /\ wan # Offline
  /\ ExitOf[running] # Around => running \in live

(* Mutant of ProtoNetwork: hysteria2 is missing from the list.             *)
MutProtoNetwork(t) == IF t \in {"hysteria", "tuic"} THEN "udp" ELSE "tcp"

ProtoNetwork(t) ==
  IF t \in {"hysteria2", "hysteria", "tuic"} THEN "udp" ELSE "tcp"

(* Nodes of these types listen on UDP only.                                *)
OverQuic == {"hysteria2", "hysteria", "tuic"}

(* net.DialTimeout: a handshake for TCP.  For UDP it "does NOT send any    *)
(* bytes to the server".                                                   *)
ReachOk(c) ==
  ProtoNetwork(TypeOf[c]) = "tcp" =>
    c \in live /\ TypeOf[c] \notin OverQuic /\ wan # Offline

(* Mutant of CurlLimit: without --max-time and the context's deadline.     *)
MutCurlLimit(timeout) == timeout + WriteTimeout

(* runCurl(timeout): curl gives up after timeout, and is killed Grace later*)
CurlLimit(timeout) == timeout + Grace

(* What a request keeps of an attempt that met its limit, or that did not  *)
(* get so far because a name could not be resolved.                        *)
CutOff(e, limit) == [e EXCEPT !.spent = @ + limit, !.odd = TRUE]

Add(e, s, v) == [e EXCEPT !.steps[s] = v]

(* One step of r: its variables become e, it goes on at l.                 *)
Continue(r, e, l) ==
  /\ req' = [req EXCEPT ![r] = e]
  /\ pc' = [pc EXCEPT ![r] = l]
  /\ UNCHANGED world

----------------------------------------------------------------------------
(* handleTest.  An attempt succeeds or fails by what the world is at that  *)
(* moment, or is cut off: nothing is assumed of how fast anybody answers.  *)

(* readCurrentOutbound; without a node the first step is skipped.          *)
BeginTest(r) ==
  /\ r \in Tests /\ pc[r] = "idle"
  /\ IF named = NoConfig
       THEN Continue(r, [Add(NewReq, "reach", "skip") EXCEPT !.name = tunName], "scan")
       ELSE Continue(r, [NewReq EXCEPT !.target = named], "dial")

(* probe.Reach, and s.Settings() after it.                                 *)
Dial(r) ==
  LET e == [req[r] EXCEPT !.name = tunName]
      v == IF ReachOk(e.target) THEN "ok" ELSE "fail"
  IN
  /\ pc[r] = "dial"
  /\ \/ Continue(r, Add(e, "reach", v), "scan")
     \/ Continue(r, Add(CutOff(e, reachTimeout), "reach", "fail"), "scan")

(* Mutant of BeginPoll: CollectStatus without the name in the settings.    *)
MutBeginPoll(r) ==
  r \in Polls /\ pc[r] = "idle" /\ Continue(r, NewReq, "scan")

(* handleStatus.                                                           *)
BeginPoll(r) ==
  /\ r \in Polls /\ pc[r] = "idle"
  /\ Continue(r, [NewReq EXCEPT !.name = tunName], "scan")

----------------------------------------------------------------------------
(* CollectStatus, for both.                                                *)

(* The processes that are called sing-box: the service, and the children   *)
(* of requests that wait for `sing-box version`.                           *)
Named ==
  (IF running # Down THEN {"service"} ELSE {}) \cup
  (IF \E q \in Requests : pc[q] = "version" THEN {"child"} ELSE {})

(* findProcess: the first of /proc, which is sorted as text, so any.       *)
FindProcess == IF Named = {} THEN {"none"} ELSE Named

Scan(r) ==
  /\ pc[r] = "scan"
  /\ \E f \in FindProcess :
       LET v == IF f = "none" THEN "fail" ELSE "ok" IN
       Continue(r, Add([req[r] EXCEPT !.found = f], "process", v), "start")

(* Mutant of StartVersion: one at a time, as the program is slow to start. *)
MutStartVersion(r) ==
  /\ pc[r] = "start"
  /\ \A q \in Requests : pc[q] # "version"
  /\ Continue(r, req[r], "version")

(* singBoxVersion starts a process, unless sing-box is not in PATH.        *)
StartVersion(r) ==
  /\ pc[r] = "start"
  /\ \E l \in {"version", "iface"} : Continue(r, req[r], l)

(* It ends, sooner or later or never: the command has no limit.            *)
VersionEnds(r) ==
  /\ pc[r] = "version"
  /\ Continue(r, req[r], "iface")

(* net.InterfaceByName.                                                    *)
FindInterface(r) ==
  LET v == IF TunUp(req[r].name) THEN "ok" ELSE "fail" IN
  /\ pc[r] = "iface"
  /\ Continue(r, Add(req[r], "tun", v), IF r \in Tests THEN "direct" ELSE "done")

----------------------------------------------------------------------------
(* The rest of handleTest.                                                 *)

(* What curl prints is whatever ipReporter answers.                        *)
Printed(addr) == {addr, Page}
Told(e, ip) == [e EXCEPT !.odd = @ \/ ip = Page]

(* probe.DirectIP.                                                         *)
Direct(r) ==
  /\ pc[r] = "direct"
  /\ \/ /\ wan # Offline
        /\ \E ip \in Printed(wan) :
             Continue(r, Add([Told(req[r], ip) EXCEPT !.direct = ip], "direct", "ok"),
                      "tunnel")
     \/ /\ wan = Offline
        /\ Continue(r, Add(req[r], "direct", "fail"), "tunnel")
     \/ Continue(r, Add(CutOff(req[r], CurlLimit(directTimeout)), "direct", "fail"), "tunnel")

(* Mutant of TunnelVerdict: any address will do.                           *)
MutTunnelVerdict(ip, direct) == "ok"

(* The address is to be another than the direct one.                       *)
TunnelVerdict(ip, direct) == IF ip = direct THEN "fail" ELSE "ok"

(* probe.TunnelIP.                                                         *)
Tunnel(r) ==
  /\ pc[r] = "tunnel"
  /\ \/ /\ TunnelCarries(req[r].name)
        /\ \E ip \in Printed(Egress) :
             Continue(r, Add(Told(req[r], ip), "tunnel", TunnelVerdict(ip, req[r].direct)),
                      "done")
     \/ /\ ~TunnelCarries(req[r].name)
        /\ Continue(r, Add(req[r], "tunnel", "fail"), "done")
     \/ Continue(r, Add(CutOff(req[r], CurlLimit(tunnelTimeout)), "tunnel", "fail"), "done")

Answer(r) == pc[r] = "done" /\ Continue(r, NewReq, "idle")

(* ListenAndServe: past WriteTimeout nothing is written any more.  The     *)
(* handler goes on to its end, but the page never gets what it answers.    *)
Delivered(spent) == spent <= WriteTimeout

----------------------------------------------------------------------------
(* The surroundings.                                                       *)

Disturb ==
  /\ req' = [r \in Requests |->
       IF pc[r] = "idle" THEN req[r] ELSE [req[r] EXCEPT !.calm = FALSE]]
  /\ UNCHANGED pc

(* An apply, a restore, the command or a hand edit.                        *)
ConfigWritten ==
  /\ named' \in Configs \cup {NoConfig}
  /\ Disturb /\ UNCHANGED <<running, tunName, live, wan>>

(* The init script starts sing-box with what is in config.json.            *)
ServiceStarts ==
  /\ named # NoConfig
  /\ running' = named
  /\ Disturb /\ UNCHANGED <<named, tunName, live, wan>>

ServiceStops ==
  /\ running' = Down
  /\ Disturb /\ UNCHANGED <<named, tunName, live, wan>>

SettingsPosted ==
  /\ tunName' \in TunNames
  /\ Disturb /\ UNCHANGED <<named, running, live, wan>>

NetworkChanges ==
  /\ \/ live' \in SUBSET Configs /\ UNCHANGED wan
     \/ wan' \in Addrs \cup {Offline} /\ UNCHANGED live
  /\ Disturb /\ UNCHANGED <<named, running, tunName>>

----------------------------------------------------------------------------
Init ==
  /\ named \in Configs \cup {NoConfig}
  /\ running \in Configs \cup {Down}
  /\ tunName \in TunNames
  /\ live \in SUBSET Configs
  /\ wan \in Addrs \cup {Offline}
  /\ pc = [r \in Requests |-> "idle"]
  /\ req = [r \in Requests |-> NewReq]

CollectStatus(r) ==
  Scan(r) \/ StartVersion(r) \/ VersionEnds(r) \/ FindInterface(r)

(* What a request does by itself, without waiting for a child.             *)
Step(r) ==
  \/ Dial(r) \/ Scan(r) \/ StartVersion(r) \/ FindInterface(r)
  \/ Direct(r) \/ Tunnel(r) \/ Answer(r)

Surroundings ==
  ConfigWritten \/ ServiceStarts \/ ServiceStops \/ SettingsPosted \/ NetworkChanges

Next ==
  \/ \E r \in Requests : BeginTest(r) \/ BeginPoll(r) \/ Step(r) \/ VersionEnds(r)
  \/ Surroundings

Spec == Init /\ [][Next]_vars

(* Dials and curls end at their limits, and goroutines are scheduled.      *)
(* Nothing is assumed of `sing-box version`.                               *)
FairSpec == Spec /\ \A r \in Requests : WF_vars(Step(r))

----------------------------------------------------------------------------
(* Properties.                                                             *)

Finished(r) == r \in Tests /\ pc[r] = "done"
AllOk(r) == \A s \in Steps : req[r].steps[s] = "ok"

(* "confirm the tunnel actually changes the egress": five times "ok" in a  *)
(* world that stood still means that sing-box runs, with the interface the *)
(* settings name, and that what goes into it comes out elsewhere - if what *)
(* ipReporter said were addresses.  The steps are taken at different       *)
(* moments by separate commands.                                           *)
OkMeansWorks ==
  \A r \in Requests : Finished(r) /\ AllOk(r) /\ req[r].calm /\ ~req[r].odd =>
    TunnelCarries(tunName) /\ Egress # wan

(* The other way round: on a router where everything works, with answers   *)
(* in time, no step fails.                                                 *)
WorksMeansOk ==
  \A r \in Requests :
    /\ Finished(r) /\ req[r].calm /\ ~req[r].odd
    /\ named # NoConfig /\ named = running
    /\ TunnelCarries(tunName) /\ Egress # wan
    /\ named \in live
    => AllOk(r)

(* A test is answered before the server closes the connection, whatever    *)
(* times out: what handleTest waits for itself leaves VersionTime seconds  *)
(* for the one command that has no limit.                                  *)
AnsweredInTime ==
  \A r \in Requests : pc[r] = "done" => Delivered(req[r].spent + VersionTime)

(* Every request is answered, or waits for `sing-box version`.             *)
EveryRequestEnds ==
  \A r \in Requests : pc[r] # "idle" ~> pc[r] \in {"idle", "version"}

=============================================================================
