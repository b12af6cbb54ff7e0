------------------------- MODULE DiagnosticsProofs --------------------------
(***************************************************************************)
(* What the verdicts of GET /api/test are worth, for any number of tests   *)
(* and polls at the same time, any configurations and addresses, and for   *)
(* any limits that add up.                                                 *)
(***************************************************************************)
EXTENDS Diagnostics, TLAPS

(* Every place a request can be in after its settings were read.           *)
Late == Labels \ {"idle", "dial"}

(* What has been waited for on the way to each place.                      *)
SpentBy(l) ==
  IF l \in {"idle", "dial"} THEN 0
  ELSE reachTimeout
       + (IF l \in {"tunnel", "done"} THEN CurlLimit(directTimeout) ELSE 0)
       + (IF l = "done" THEN CurlLimit(tunnelTimeout) ELSE 0)

(* A router on which everything works.                                     *)
Works ==
  /\ named # NoConfig /\ named = running
  /\ TunnelCarries(tunName) /\ Egress # wan
  /\ named \in live

(* In a world that stood still, what a request at l with the variables e   *)
(* remembers is still so.                                                  *)
Remembers(e, l) ==
  /\ e.target \in {named, NoConfig}
  /\ l \in Late => e.name = tunName

(* What the verdicts so far say of such a world.                           *)
Vouched(e, l) ==
  /\ l \in {"tunnel", "done"} /\ e.steps["direct"] = "ok" => e.direct = wan
  /\ l = "done" /\ e.steps["tunnel"] = "ok" =>
       TunnelCarries(tunName) /\ Egress # e.direct

(* The verdicts so far on a router on which everything works.              *)
Favourable(e, l) ==
  /\ e.target = named
  /\ l \in Late => e.steps["reach"] = "ok"
  /\ l \in Late \ {"scan"} => e.steps["process"] = "ok"
  /\ l \in {"direct", "tunnel", "done"} => e.steps["tun"] = "ok"
  /\ l \in {"tunnel", "done"} => e.steps["direct"] = "ok"
  /\ l = "done" => e.steps["tunnel"] = "ok"

Fits(r, e, l) ==
  /\ e.spent <= SpentBy(l)
  /\ l = "idle" => e = NewReq
  /\ l = "dial" => e.target \in Configs
  /\ l \in {"direct", "tunnel"} => r \in Tests
  /\ l # "idle" /\ e.calm => Remembers(e, l)
  /\ r \in Tests /\ l # "idle" /\ e.calm /\ ~e.odd =>
       Vouched(e, l) /\ (Works => Favourable(e, l))

IInv == TypeOK /\ \A r \in Requests : Fits(r, req[r], pc[r])

----------------------------------------------------------------------------
(* The limits add up along the way.                                        *)
LEMMA SpentByFacts ==
  /\ reachTimeout \in Nat
  /\ CurlLimit(directTimeout) \in Nat /\ CurlLimit(tunnelTimeout) \in Nat
  /\ SpentBy("idle") = 0 /\ SpentBy("dial") = 0
  /\ \A l \in Late \ {"tunnel", "done"} : SpentBy(l) = reachTimeout
  /\ SpentBy("tunnel") = reachTimeout + CurlLimit(directTimeout)
  /\ SpentBy("done") = reachTimeout + CurlLimit(directTimeout) + CurlLimit(tunnelTimeout)
BY TimesAssumption DEF SpentBy, CurlLimit, Late, Labels

(* A step of one request leaves the world, and so what others rely on.     *)
LEMMA Moved ==
  ASSUME IInv, NEW r \in Requests, NEW e \in Reqs, NEW l \in Labels,
         Continue(r, e, l), l \in Late => e.name \in TunNames, Fits(r, e, l)
  PROVE  IInv'
<1> USE DEF IInv, Continue, world
<1>1. pc'[r] = l /\ req'[r] = e
  BY DEF TypeOK
<1>2. ASSUME NEW q \in Requests, q # r PROVE pc'[q] = pc[q] /\ req'[q] = req[q]
  BY <1>2 DEF TypeOK
<1>3. TypeOK'
  BY <1>1, <1>2 DEF TypeOK, Late
<1>4. ASSUME NEW q \in Requests PROVE Fits(q, req[q], pc[q])'
  <2>1. Fits(q, req'[q], pc'[q])
    BY <1>1, <1>2
  <2> QED
    BY <2>1 DEF Fits, Remembers, Vouched, Works, Favourable, TunnelCarries, TunUp, Egress
<1> QED
  BY <1>3, <1>4

(* The world changes under the requests that are under way.                *)
LEMMA Disturbed ==
  ASSUME IInv, Disturb,
         named' \in Configs \cup {NoConfig}, running' \in Configs \cup {Down},
         tunName' \in TunNames, live' \in SUBSET Configs,
         wan' \in Addrs \cup {Offline}
  PROVE  IInv'
<1> USE DEF IInv, Disturb
<1>1. ASSUME NEW q \in Requests
      PROVE  /\ req'[q] \in Reqs
             /\ req'[q].name = req[q].name
             /\ Fits(q, req[q], pc[q])'
  <2>1. CASE pc[q] = "idle"
    <3>1. req'[q] = req[q] /\ pc'[q] = "idle"
      BY <2>1
    <3> QED
      BY <3>1 DEF TypeOK, Fits
  <2>2. CASE pc[q] # "idle"
    <3>1. req'[q] = [req[q] EXCEPT !.calm = FALSE] /\ pc'[q] = pc[q]
      BY <2>2
    <3>2. /\ req'[q] \in Reqs /\ req'[q].calm = FALSE
          /\ req'[q].name = req[q].name /\ req'[q].spent = req[q].spent
          /\ req'[q].target = req[q].target
      BY ZenonT(30), <3>1 DEF TypeOK, Reqs
    <3> QED
      BY <2>2, <3>1, <3>2 DEF Fits
  <2> QED
    BY <2>1, <2>2
<1>2. TypeOK'
  BY <1>1 DEF TypeOK
<1> QED
  BY <1>1, <1>2

(* What a new request is made of.                                          *)
LEMMA NewReqMade ==
  /\ NewReq \in Reqs /\ NewReq.steps = [s \in Steps |-> "none"]
  /\ NewReq.target = NoConfig /\ NewReq.name = NoName /\ NewReq.spent = 0
  /\ NewReq.calm = TRUE /\ NewReq.odd = FALSE
BY DEF NewReq, Reqs, Verdicts

(* A verdict replaces one of the five.                                     *)
LEMMA AddMade ==
  ASSUME NEW e \in Reqs, NEW s \in Steps, NEW v \in Verdicts
  PROVE  /\ Add(e, s, v) \in Reqs
         /\ Add(e, s, v).steps[s] = v
         /\ \A t \in Steps \ {s} : Add(e, s, v).steps[t] = e.steps[t]
         /\ Add(e, s, v).target = e.target /\ Add(e, s, v).name = e.name
         /\ Add(e, s, v).direct = e.direct /\ Add(e, s, v).spent = e.spent
         /\ Add(e, s, v).calm = e.calm /\ Add(e, s, v).odd = e.odd
<1> DEFINE f == [e.steps EXCEPT ![s] = v]
<1>1. f \in [Steps -> Verdicts] /\ f[s] = v /\ \A t \in Steps \ {s} : f[t] = e.steps[t]
  BY DEF Reqs
<1> HIDE DEF f
<1>2. [e EXCEPT !.steps = f] \in Reqs
  BY <1>1 DEF Reqs
<1>3. Add(e, s, v) = [e EXCEPT !.steps = f]
  BY DEF Add, Reqs, f
<1> QED
  BY <1>1, <1>2, <1>3 DEF Reqs

(* An attempt that is cut off costs its limit.                             *)
LEMMA CutOffMade ==
  ASSUME NEW e \in Reqs, NEW n \in Nat
  PROVE  /\ CutOff(e, n) \in Reqs
         /\ CutOff(e, n).spent = e.spent + n /\ CutOff(e, n).odd = TRUE
         /\ CutOff(e, n).target = e.target /\ CutOff(e, n).name = e.name
         /\ CutOff(e, n).calm = e.calm /\ CutOff(e, n).steps = e.steps
<1> DEFINE m == e.spent + n
<1>1. m \in Nat
  BY DEF Reqs
<1>2. CutOff(e, n) = [e EXCEPT !.spent = m, !.odd = TRUE]
  BY DEF CutOff, Reqs
<1> HIDE DEF m
<1>3. /\ CutOff(e, n) \in Reqs
      /\ CutOff(e, n).spent = m /\ CutOff(e, n).odd = TRUE
      /\ CutOff(e, n).target = e.target /\ CutOff(e, n).name = e.name
      /\ CutOff(e, n).calm = e.calm /\ CutOff(e, n).steps = e.steps
  BY <1>1, <1>2 DEF Reqs
<1> QED
  BY <1>3 DEF m

(* What ipReporter says is noted when it is no address.                    *)
LEMMA ToldMade ==
  ASSUME NEW e \in Reqs, NEW ip
  PROVE  /\ Told(e, ip) \in Reqs
         /\ ~Told(e, ip).odd => ~e.odd /\ ip # Page
         /\ Told(e, ip).steps = e.steps /\ Told(e, ip).direct = e.direct
         /\ Told(e, ip).target = e.target /\ Told(e, ip).name = e.name
         /\ Told(e, ip).spent = e.spent /\ Told(e, ip).calm = e.calm
<1> DEFINE b == e.odd \/ ip = Page
<1>1. b \in BOOLEAN /\ Told(e, ip) = [e EXCEPT !.odd = b]
  BY DEF Told, Reqs
<1> HIDE DEF b
<1>2. /\ Told(e, ip) \in Reqs /\ Told(e, ip).odd = b
      /\ Told(e, ip).steps = e.steps /\ Told(e, ip).direct = e.direct
      /\ Told(e, ip).target = e.target /\ Told(e, ip).name = e.name
      /\ Told(e, ip).spent = e.spent /\ Told(e, ip).calm = e.calm
  BY <1>1 DEF Reqs
<1>3. ~b => ~e.odd /\ ip # Page
  BY DEF b
<1> QED
  BY <1>2, <1>3

(* The settings are read into the request.                                 *)
LEMMA NameMade ==
  ASSUME NEW e \in Reqs, NEW n \in TunNames
  PROVE  /\ [e EXCEPT !.name = n] \in Reqs
         /\ [e EXCEPT !.name = n].name = n
         /\ [e EXCEPT !.name = n].target = e.target
         /\ [e EXCEPT !.name = n].spent = e.spent
         /\ [e EXCEPT !.name = n].calm = e.calm
         /\ [e EXCEPT !.name = n].odd = e.odd
BY DEF Reqs

(* A request begins.                                                       *)
LEMMA Begun ==
  ASSUME IInv, NEW r \in Requests, BeginTest(r) \/ BeginPoll(r)
  PROVE  IInv'
<1> USE DEF IInv
<1>1. CASE BeginTest(r) /\ named = NoConfig
  <2> DEFINE e == [Add(NewReq, "reach", "skip") EXCEPT !.name = tunName]
  <2>1. Continue(r, e, "scan")
    BY <1>1 DEF BeginTest
  <2>2. e \in Reqs /\ e.name = tunName /\ e.target = NoConfig /\ e.spent = 0
    <3>1. "reach" \in Steps /\ "skip" \in Verdicts /\ tunName \in TunNames
      BY DEF Steps, Verdicts, TypeOK
    <3> QED
      BY <3>1, NewReqMade, AddMade, NameMade
  <2> HIDE DEF e
  <2>3. Fits(r, e, "scan")
    BY <1>1, <2>2, SpentByFacts DEF Fits, Remembers, Vouched, Works, Late, Labels
  <2> QED
    BY <2>1, <2>2, <2>3, Moved DEF Labels, TypeOK
<1>2. CASE BeginTest(r) /\ named # NoConfig
  <2> DEFINE e == [NewReq EXCEPT !.target = named]
  <2>1. Continue(r, e, "dial")
    BY <1>2 DEF BeginTest
  <2>2. e \in Reqs /\ e.target = named /\ e.spent = 0
    BY NewReqMade DEF TypeOK, Reqs
  <2> HIDE DEF e
  <2>3. Fits(r, e, "dial")
    BY <1>2, <2>2, SpentByFacts DEF Fits, Remembers, Vouched, Favourable, Late, Labels, TypeOK
  <2> QED
    BY <2>1, <2>2, <2>3, Moved DEF Labels, Late
<1>3. CASE BeginPoll(r)
  <2> DEFINE e == [NewReq EXCEPT !.name = tunName]
  <2>1. Continue(r, e, "scan")
    BY <1>3 DEF BeginPoll
  <2>2. e \in Reqs /\ e.name = tunName /\ e.target = NoConfig /\ e.spent = 0
    BY NewReqMade, NameMade DEF TypeOK
  <2> HIDE DEF e
  <2>3. r \notin Tests
    BY <1>3, ConfigsAssumption DEF BeginPoll
  <2>4. Fits(r, e, "scan")
    BY <2>2, <2>3, SpentByFacts DEF Fits, Remembers, Late, Labels
  <2> QED
    BY <2>1, <2>2, <2>4, Moved DEF Labels, TypeOK
<1> QED
  BY <1>1, <1>2, <1>3

(* The dial, which is only as good as the protocol allows.                 *)
LEMMA Dialled ==
  ASSUME IInv, NEW r \in Requests, Dial(r)
  PROVE  IInv'
<1> USE DEF IInv
<1> DEFINE e == [req[r] EXCEPT !.name = tunName]
           v == IF ReachOk(e.target) THEN "ok" ELSE "fail"
<1>1. /\ e \in Reqs /\ e.name = tunName /\ e.target = req[r].target
      /\ e.spent = req[r].spent /\ e.calm = req[r].calm /\ e.odd = req[r].odd
  BY NameMade DEF TypeOK
<1>2. Fits(r, req[r], "dial") /\ pc[r] = "dial"
  <2>1. pc[r] = "dial"
    BY DEF Dial
  <2> QED
    BY <2>1
<1>3. \/ Continue(r, Add(e, "reach", v), "scan")
      \/ Continue(r, Add(CutOff(e, reachTimeout), "reach", "fail"), "scan")
  BY DEF Dial
<1>4. v \in Verdicts /\ "fail" \in Verdicts /\ "reach" \in Steps
  BY DEF Verdicts, Steps
<1>5. Works /\ e.target = named => v = "ok"
  BY DEF Works, TunnelCarries, ReachOk, ProtoNetwork, OverQuic
<1> HIDE DEF e, v
<1>6. CASE Continue(r, Add(e, "reach", v), "scan")
  <2>1. Fits(r, Add(e, "reach", v), "scan")
    <3>1. Add(e, "reach", v).spent <= SpentBy("scan")
      BY <1>1, <1>2, <1>4, AddMade, SpentByFacts DEF Fits, Late, Labels, Reqs
    <3> QED
      BY <1>1, <1>2, <1>4, <1>5, <3>1, AddMade
      DEF Fits, Remembers, Vouched, Favourable, Late, Labels
  <2> QED
    BY <1>1, <1>4, <1>6, <2>1, AddMade, Moved DEF Labels, TypeOK
<1>7. /\ CutOff(e, reachTimeout) \in Reqs /\ CutOff(e, reachTimeout).odd = TRUE
      /\ CutOff(e, reachTimeout).spent = e.spent + reachTimeout
      /\ CutOff(e, reachTimeout).target = e.target
      /\ CutOff(e, reachTimeout).name = e.name /\ CutOff(e, reachTimeout).calm = e.calm
  BY <1>1, CutOffMade, TimesAssumption
<1>8. CASE Continue(r, Add(CutOff(e, reachTimeout), "reach", "fail"), "scan")
  <2>1. Fits(r, Add(CutOff(e, reachTimeout), "reach", "fail"), "scan")
    <3>1. Add(CutOff(e, reachTimeout), "reach", "fail").spent <= SpentBy("scan")
      <4>1. e.spent \in Nat /\ e.spent <= 0
        BY <1>1, <1>2, SpentByFacts DEF Fits, Reqs
      <4>2. Add(CutOff(e, reachTimeout), "reach", "fail").spent = e.spent + reachTimeout
        BY <1>1, <1>4, <1>7, AddMade
      <4>3. SpentBy("scan") = reachTimeout /\ reachTimeout \in Nat
        BY SpentByFacts DEF Late, Labels
      <4> QED
        BY <4>1, <4>2, <4>3
    <3> QED
      BY <1>1, <1>2, <1>4, <1>7, <3>1, AddMade DEF Fits, Remembers
  <2> QED
    BY <1>1, <1>4, <1>7, <1>8, <2>1, AddMade, Moved DEF Labels, TypeOK
<1> QED
  BY <1>3, <1>6, <1>8

(* CollectStatus: nothing in it has a limit, and none adds to the time.    *)
LEMMA Collected ==
  ASSUME IInv, NEW r \in Requests, CollectStatus(r)
  PROVE  IInv'
<1> USE DEF IInv
<1>1. /\ req[r] \in Reqs /\ Fits(r, req[r], pc[r])
      /\ pc[r] \in {"scan", "start", "version", "iface"}
      /\ req[r].name \in TunNames /\ req[r].spent \in Nat
  BY DEF CollectStatus, Scan, StartVersion, VersionEnds, FindInterface, TypeOK, Reqs
<1>2. CASE Scan(r)
  <2>1. PICK f \in FindProcess :
          Continue(r, Add([req[r] EXCEPT !.found = f], "process",
                          IF f = "none" THEN "fail" ELSE "ok"), "start")
    BY <1>2 DEF Scan
  <2>2. pc[r] = "scan"
    BY <1>2 DEF Scan
  <2> DEFINE e == [req[r] EXCEPT !.found = f]
             v == IF f = "none" THEN "fail" ELSE "ok"
  <2>3. /\ e \in Reqs /\ e.name = req[r].name /\ e.target = req[r].target
        /\ e.steps = req[r].steps /\ e.direct = req[r].direct
        /\ e.spent = req[r].spent /\ e.calm = req[r].calm /\ e.odd = req[r].odd
    BY <1>1 DEF Reqs, FindProcess, Named
  <2>4. v \in Verdicts /\ "process" \in Steps /\ "reach" \in Steps
    BY DEF Verdicts, Steps
  <2>5. Works => v = "ok"
    BY DEF Works, TunnelCarries, TunUp, FindProcess, Named
  <2> HIDE DEF e, v
  <2>6. Fits(r, Add(e, "process", v), "start")
    BY <1>1, <2>2, <2>3, <2>4, <2>5, AddMade, SpentByFacts
    DEF Fits, Remembers, Vouched, Favourable, Late, Labels
  <2>7. Continue(r, Add(e, "process", v), "start")
    BY <2>1 DEF e, v
  <2> QED
    BY <1>1, <2>3, <2>4, <2>6, <2>7, AddMade, Moved DEF Labels
<1>3. CASE StartVersion(r) \/ VersionEnds(r)
  <2>1. PICK l \in {"version", "iface"} : Continue(r, req[r], l)
    BY <1>3 DEF StartVersion, VersionEnds
  <2>2. pc[r] \in {"start", "version"}
    BY <1>3 DEF StartVersion, VersionEnds
  <2>3. Fits(r, req[r], l)
    BY <1>1, <2>2, SpentByFacts DEF Fits, Remembers, Vouched, Favourable, Late, Labels
  <2> QED
    BY <1>1, <2>1, <2>3, Moved DEF Labels
<1>4. CASE FindInterface(r)
  <2> DEFINE v == IF TunUp(req[r].name) THEN "ok" ELSE "fail"
             l == IF r \in Tests THEN "direct" ELSE "done"
  <2>1. Continue(r, Add(req[r], "tun", v), l) /\ pc[r] = "iface"
    BY <1>4 DEF FindInterface
  <2>2. v \in Verdicts /\ "tun" \in Steps /\ "reach" \in Steps /\ "process" \in Steps
    BY DEF Verdicts, Steps
  <2>3. Works /\ req[r].name = tunName => v = "ok"
    BY DEF Works, TunnelCarries
  <2>4. l \in Labels
    BY DEF Labels
  <2>5. /\ l \in {"direct", "done"} /\ (l = "direct" => r \in Tests)
        /\ (r \in Tests => l = "direct")
    OBVIOUS
  <2> HIDE DEF v, l
  <2>6. Fits(r, Add(req[r], "tun", v), l)
    <3>1. Add(req[r], "tun", v).spent <= SpentBy(l)
      BY <1>1, <2>1, <2>2, <2>5, AddMade, SpentByFacts, TimesAssumption DEF Fits, Late, Labels
    <3> QED
      BY <1>1, <2>1, <2>2, <2>3, <2>5, <3>1, AddMade
      DEF Fits, Remembers, Vouched, Favourable, Late, Labels
  <2> QED
    BY <1>1, <2>1, <2>2, <2>4, <2>6, AddMade, Moved
<1> QED
  BY <1>2, <1>3, <1>4 DEF CollectStatus

(* directIP is what the tunnel's address is compared with.                 *)
LEMMA DirectDone ==
  ASSUME IInv, NEW r \in Requests, Direct(r)
  PROVE  IInv'
<1> USE DEF IInv
<1>1. /\ req[r] \in Reqs /\ Fits(r, req[r], "direct") /\ pc[r] = "direct"
      /\ req[r].name \in TunNames /\ r \in Tests
  <2>1. pc[r] = "direct"
    BY DEF Direct
  <2> QED
    BY <2>1 DEF TypeOK, Fits
<1>2. {"ok", "fail"} \subseteq Verdicts /\ Steps = {"reach", "process", "tun", "direct", "tunnel"}
  BY DEF Verdicts, Steps
<1>3. req[r].spent \in Nat /\ req[r].spent <= reachTimeout
  BY <1>1, SpentByFacts DEF Fits, Reqs, Late, Labels
<1>4. ASSUME NEW e \in Reqs, NEW v \in {"ok", "fail"},
             Continue(r, Add(e, "direct", v), "tunnel"),
             /\ e.steps = req[r].steps
             /\ e.target = req[r].target /\ e.name = req[r].name
             /\ e.calm = req[r].calm /\ (~e.odd => ~req[r].odd)
             /\ e.spent <= reachTimeout + CurlLimit(directTimeout),
             ~e.odd /\ v = "ok" => e.direct = wan,
             ~e.odd /\ v = "fail" => wan = Offline
      PROVE  IInv'
  <2> DEFINE a == Add(e, "direct", v)
  <2>1. "direct" \in Steps /\ v \in Verdicts
    BY <1>2
  <2>2. /\ a \in Reqs /\ a.steps["direct"] = v
        /\ a.steps["reach"] = e.steps["reach"] /\ a.steps["process"] = e.steps["process"]
        /\ a.steps["tun"] = e.steps["tun"] /\ a.steps["tunnel"] = e.steps["tunnel"]
        /\ a.target = e.target /\ a.name = e.name /\ a.direct = e.direct
        /\ a.spent = e.spent /\ a.calm = e.calm /\ a.odd = e.odd
    BY <1>2, <2>1, AddMade
  <2>3. Continue(r, a, "tunnel")
    BY <1>4
  <2> HIDE DEF a
  <2>4. a.spent <= SpentBy("tunnel")
    BY <1>4, <2>2, SpentByFacts
  <2>5. Works => wan # Offline
    BY DEF Works, TunnelCarries
  <2>6. Fits(r, a, "tunnel")
    BY <1>1, <1>4, <2>2, <2>4, <2>5
    DEF Fits, Remembers, Vouched, Favourable, Late, Labels
  <2> QED
    BY <1>1, <1>4, <2>2, <2>3, <2>6, Moved DEF Labels
<1>5. CASE /\ wan # Offline
           /\ \E ip \in Printed(wan) :
                Continue(r, Add([Told(req[r], ip) EXCEPT !.direct = ip], "direct", "ok"),
                         "tunnel")
  <2>1. PICK ip \in Printed(wan) :
             Continue(r, Add([Told(req[r], ip) EXCEPT !.direct = ip], "direct", "ok"),
                      "tunnel")
    BY <1>5
  <2> DEFINE t == Told(req[r], ip)
             e == [t EXCEPT !.direct = ip]
  <2>2. ip \in Seen
    BY <1>5 DEF Printed, Seen, TypeOK
  <2>3. /\ t \in Reqs /\ t.steps = req[r].steps /\ t.target = req[r].target
        /\ t.name = req[r].name /\ t.calm = req[r].calm /\ t.spent = req[r].spent
        /\ (~t.odd => ~req[r].odd /\ ip # Page)
    BY <1>1, ToldMade
  <2> HIDE DEF t
  <2>4. /\ e \in Reqs /\ e.direct = ip /\ e.steps = t.steps /\ e.target = t.target
        /\ e.name = t.name /\ e.calm = t.calm /\ e.spent = t.spent /\ e.odd = t.odd
    BY <2>2, <2>3 DEF Reqs
  <2>5. e.spent <= reachTimeout + CurlLimit(directTimeout)
    BY <1>3, <2>3, <2>4, SpentByFacts
  <2>6. Continue(r, Add(e, "direct", "ok"), "tunnel")
    BY <2>1 DEF t
  <2>7. ~e.odd => e.direct = wan
    BY <2>3, <2>4 DEF Printed
  <2> HIDE DEF e
  <2> QED
    BY <1>4, <2>3, <2>4, <2>5, <2>6, <2>7
<1>6. CASE wan = Offline /\ Continue(r, Add(req[r], "direct", "fail"), "tunnel")
  <2>1. req[r].spent <= reachTimeout + CurlLimit(directTimeout)
    BY <1>3, SpentByFacts
  <2> QED
    BY <1>1, <1>4, <1>6, <2>1
<1>7. CASE Continue(r, Add(CutOff(req[r], CurlLimit(directTimeout)), "direct", "fail"),
                    "tunnel")
  <2> DEFINE e == CutOff(req[r], CurlLimit(directTimeout))
  <2>1. /\ e \in Reqs /\ e.spent = req[r].spent + CurlLimit(directTimeout)
        /\ e.odd = TRUE /\ e.steps = req[r].steps /\ e.target = req[r].target
        /\ e.name = req[r].name /\ e.calm = req[r].calm
    BY <1>1, CutOffMade, SpentByFacts
  <2>2. Continue(r, Add(e, "direct", "fail"), "tunnel")
    BY <1>7
  <2> HIDE DEF e
  <2>3. e.spent <= reachTimeout + CurlLimit(directTimeout)
    BY <1>3, <2>1, SpentByFacts
  <2> QED
    BY <1>4, <2>1, <2>2, <2>3
<1> QED
  BY <1>5, <1>6, <1>7 DEF Direct

(* The tunnel's address is judged, and the test is over.                   *)
LEMMA TunnelDone ==
  ASSUME IInv, NEW r \in Requests, Tunnel(r)
  PROVE  IInv'
<1> USE DEF IInv
<1>1. /\ req[r] \in Reqs /\ Fits(r, req[r], "tunnel") /\ pc[r] = "tunnel"
      /\ req[r].name \in TunNames /\ r \in Tests
  <2>1. pc[r] = "tunnel"
    BY DEF Tunnel
  <2> QED
    BY <2>1 DEF TypeOK, Fits
<1>2. {"ok", "fail"} \subseteq Verdicts /\ Steps = {"reach", "process", "tun", "direct", "tunnel"}
  BY DEF Verdicts, Steps
<1>3. /\ req[r].spent \in Nat
      /\ req[r].spent <= reachTimeout + CurlLimit(directTimeout)
  BY <1>1, SpentByFacts DEF Fits, Reqs
<1>4. ASSUME NEW e \in Reqs, NEW v \in {"ok", "fail"},
             Continue(r, Add(e, "tunnel", v), "done"),
             /\ e.steps = req[r].steps
             /\ e.target = req[r].target /\ e.name = req[r].name
             /\ e.calm = req[r].calm /\ (~e.odd => ~req[r].odd)
             /\ e.spent <= reachTimeout + CurlLimit(directTimeout)
                             + CurlLimit(tunnelTimeout),
             ~e.odd => e.direct = req[r].direct,
             ~e.odd /\ v = "ok" =>
               TunnelCarries(req[r].name) /\ Egress # req[r].direct,
             ~e.odd /\ v = "fail" =>
               ~TunnelCarries(req[r].name) \/ Egress = req[r].direct
      PROVE  IInv'
  <2> DEFINE a == Add(e, "tunnel", v)
  <2>1. "tunnel" \in Steps /\ v \in Verdicts
    BY <1>2
  <2>2. /\ a \in Reqs /\ a.steps["tunnel"] = v
        /\ a.steps["reach"] = e.steps["reach"] /\ a.steps["process"] = e.steps["process"]
        /\ a.steps["tun"] = e.steps["tun"] /\ a.steps["direct"] = e.steps["direct"]
        /\ a.target = e.target /\ a.name = e.name /\ a.direct = e.direct
        /\ a.spent = e.spent /\ a.calm = e.calm /\ a.odd = e.odd
    BY <1>2, <2>1, AddMade
  <2>3. Continue(r, a, "done")
    BY <1>4
  <2> HIDE DEF a
  <2>4. a.spent <= SpentBy("done")
    BY <1>4, <2>2, SpentByFacts
  <2>5. Works => TunnelCarries(tunName) /\ Egress # wan
    BY DEF Works
  <2>6. Fits(r, a, "done")
    BY <1>1, <1>4, <2>2, <2>4, <2>5
    DEF Fits, Remembers, Vouched, Favourable, Late, Labels
  <2> QED
    BY <1>1, <1>4, <2>2, <2>3, <2>6, Moved DEF Labels
<1>5. CASE /\ TunnelCarries(req[r].name)
           /\ \E ip \in Printed(Egress) :
                Continue(r, Add(Told(req[r], ip), "tunnel",
                                TunnelVerdict(ip, req[r].direct)), "done")
  <2>1. PICK ip \in Printed(Egress) :
                Continue(r, Add(Told(req[r], ip), "tunnel",
                                TunnelVerdict(ip, req[r].direct)), "done")
    BY <1>5
  <2> DEFINE e == Told(req[r], ip)
             v == TunnelVerdict(ip, req[r].direct)
  <2>2. /\ e \in Reqs /\ e.steps = req[r].steps /\ e.target = req[r].target
        /\ e.name = req[r].name /\ e.calm = req[r].calm /\ e.spent = req[r].spent
        /\ e.direct = req[r].direct /\ (~e.odd => ~req[r].odd /\ ip # Page)
    BY <1>1, ToldMade
  <2>3. v \in {"ok", "fail"} /\ (v = "ok" <=> ip # req[r].direct)
    BY DEF TunnelVerdict
  <2>4. ~e.odd => ip = Egress
    BY <2>2 DEF Printed
  <2>5. Continue(r, Add(e, "tunnel", v), "done")
    BY <2>1
  <2> HIDE DEF e, v
  <2>6. e.spent <= reachTimeout + CurlLimit(directTimeout) + CurlLimit(tunnelTimeout)
    BY <1>3, <2>2, SpentByFacts
  <2> QED
    BY <1>4, <1>5, <2>2, <2>3, <2>4, <2>5, <2>6
<1>6. CASE /\ ~TunnelCarries(req[r].name)
           /\ Continue(r, Add(req[r], "tunnel", "fail"), "done")
  <2>1. req[r].spent <= reachTimeout + CurlLimit(directTimeout) + CurlLimit(tunnelTimeout)
    BY <1>3, SpentByFacts
  <2> QED
    BY <1>1, <1>4, <1>6, <2>1
<1>7. CASE Continue(r, Add(CutOff(req[r], CurlLimit(tunnelTimeout)), "tunnel", "fail"),
                    "done")
  <2> DEFINE e == CutOff(req[r], CurlLimit(tunnelTimeout))
  <2>1. /\ e \in Reqs /\ e.spent = req[r].spent + CurlLimit(tunnelTimeout)
        /\ e.odd = TRUE /\ e.steps = req[r].steps /\ e.target = req[r].target
        /\ e.name = req[r].name /\ e.calm = req[r].calm
    BY <1>1, CutOffMade, SpentByFacts
  <2>2. Continue(r, Add(e, "tunnel", "fail"), "done")
    BY <1>7
  <2> HIDE DEF e
  <2>3. e.spent <= reachTimeout + CurlLimit(directTimeout) + CurlLimit(tunnelTimeout)
    BY <1>3, <2>1, SpentByFacts
  <2> QED
    BY <1>4, <2>1, <2>2, <2>3
<1> QED
  BY <1>5, <1>6, <1>7 DEF Tunnel

(* The next request starts from nothing.                                   *)
LEMMA Answered ==
  ASSUME IInv, NEW r \in Requests, Answer(r)
  PROVE  IInv'
<1>1. Fits(r, NewReq, "idle")
  BY NewReqMade, SpentByFacts DEF Fits
<1> QED
  BY <1>1, NewReqMade, Moved DEF Answer, Labels, Late

(* Every step keeps what the verdicts rest on.                             *)
LEMMA NextIInv == ASSUME IInv, [Next]_vars PROVE IInv'
<1>1. ASSUME NEW r \in Requests, BeginTest(r) \/ BeginPoll(r) PROVE IInv'
  BY <1>1, Begun
<1>2. ASSUME NEW r \in Requests, Step(r) \/ VersionEnds(r) PROVE IInv'
  BY <1>2, Dialled, Collected, DirectDone, TunnelDone, Answered DEF Step, CollectStatus
<1>3. ASSUME Surroundings PROVE IInv'
  <2> USE DEF IInv, TypeOK
  <2>1. ConfigWritten => IInv'
    BY Disturbed DEF ConfigWritten
  <2>2. ServiceStarts => IInv'
    BY Disturbed DEF ServiceStarts
  <2>3. ServiceStops => IInv'
    BY Disturbed DEF ServiceStops
  <2>4. SettingsPosted => IInv'
    BY Disturbed DEF SettingsPosted
  <2>5. NetworkChanges => IInv'
    BY Disturbed DEF NetworkChanges
  <2> QED
    BY <1>3, <2>1, <2>2, <2>3, <2>4, <2>5 DEF Surroundings
<1>4. CASE UNCHANGED vars
  BY <1>4 DEF vars, IInv, TypeOK, Fits, Remembers, Vouched, Works, Favourable,
              TunnelCarries, TunUp, Egress
<1> QED
  BY <1>1, <1>2, <1>3, <1>4 DEF Next

(* Nobody has asked anything yet.                                          *)
LEMMA InitIInv == Init => IInv
BY NewReqMade, SpentByFacts DEF Init, IInv, TypeOK, Fits, Labels

(* All of it holds at all times.                                           *)
LEMMA AlwaysIInv == Spec => []IInv
BY InitIInv, NextIInv, PTL DEF Spec

(* The variables of a request are what handleTest and handleStatus make of *)
(* them, and the settings have been read where they are used.              *)
THEOREM TypeCorrect == Spec => []TypeOK
<1>1. IInv => TypeOK
  BY DEF IInv
<1> QED
  BY <1>1, AlwaysIInv, PTL

(* Five times "ok" means that the tunnel changes the egress.               *)
THEOREM TestOkMeansWorks == Spec => []OkMeansWorks
<1>1. ASSUME IInv, NEW r \in Requests,
             Finished(r), AllOk(r), req[r].calm, ~req[r].odd
      PROVE  TunnelCarries(tunName) /\ Egress # wan
  <2>1. Fits(r, req[r], "done") /\ r \in Tests
    BY <1>1 DEF IInv, Finished
  <2>2. Vouched(req[r], "done")
    BY <1>1, <2>1 DEF Fits
  <2>3. req[r].steps["direct"] = "ok" /\ req[r].steps["tunnel"] = "ok"
    BY <1>1 DEF AllOk, Steps
  <2> QED
    BY <2>2, <2>3 DEF Vouched
<1>2. IInv => OkMeansWorks
  BY <1>1 DEF OkMeansWorks
<1> QED
  BY <1>2, AlwaysIInv, PTL

(* A tunnel that works is never called broken.                             *)
THEOREM TestWorksMeansOk == Spec => []WorksMeansOk
<1>1. ASSUME IInv, NEW r \in Requests, Finished(r), req[r].calm, ~req[r].odd, Works
      PROVE  AllOk(r)
  <2>1. Fits(r, req[r], "done") /\ r \in Tests
    BY <1>1 DEF IInv, Finished
  <2>2. Favourable(req[r], "done")
    BY <1>1, <2>1 DEF Fits
  <2> QED
    BY <2>2 DEF Favourable, AllOk, Steps, Late, Labels
<1>2. IInv => WorksMeansOk
  BY <1>1 DEF WorksMeansOk, Works
<1> QED
  BY <1>2, AlwaysIInv, PTL

(* If the limits add up to less than WriteTimeout, and `sing-box version`  *)
(* takes no more than what they leave, every answer gets to the page.      *)
THEOREM TestAnswered ==
  ASSUME reachTimeout + CurlLimit(directTimeout) + CurlLimit(tunnelTimeout)
           + VersionTime <= WriteTimeout
  PROVE  Spec => []AnsweredInTime
<1>1. ASSUME IInv, NEW r \in Requests, pc[r] = "done"
      PROVE  Delivered(req[r].spent + VersionTime)
  <2>1. req[r].spent <= SpentBy("done") /\ req[r].spent \in Nat
    BY <1>1 DEF IInv, Fits, TypeOK, Reqs
  <2> QED
    BY <2>1, SpentByFacts, TimesAssumption DEF Delivered
<1>2. IInv => AnsweredInTime
  BY <1>1 DEF AnsweredInTime
<1> QED
  BY <1>2, AlwaysIInv, PTL

=============================================================================
