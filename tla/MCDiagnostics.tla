--------------------------- MODULE MCDiagnostics ----------------------------
(* Instances of Diagnostics for TLC.                                       *)
EXTENDS Diagnostics, TLC

CONSTANTS proxied, bypass, tun1, tun2, exit1

(* A rendered node, and a hand-written one that routes past its proxy.     *)
MCConfigs == {proxied, bypass}
MCTypeOf  == (proxied :> "hysteria2") @@ (bypass :> "vless")
MCTunOf   == (proxied :> tun1) @@ (bypass :> tun2)
MCExitOf  == (proxied :> exit1) @@ (bypass :> Around)

(* Bound: the world changes once in the life of a request.  What a test    *)
(* says of a changed world is not judged, and later tests find the rest.   *)
AllCalm == \A r \in Requests : pc[r] = "idle" \/ req[r].calm

MCNext ==
  \/ \E r \in Requests : BeginTest(r) \/ BeginPoll(r) \/ Step(r) \/ VersionEnds(r)
  \/ AllCalm /\ Surroundings

MCSpec == Init /\ [][MCNext]_vars

MCFairSpec == MCSpec /\ \A r \in Requests : WF_vars(Step(r))

=============================================================================
