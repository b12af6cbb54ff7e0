-------------------------------- MODULE Home --------------------------------
(***************************************************************************)
(* The home tab of the web UI (app.js).  A script in a browser runs to its *)
(* next await; what interleaves are the five-second polls of /api/status,  *)
(* the user's clicks, and the answers, which arrive in any order or not at *)
(* all.  A flow is a click on Preview, Apply or Test until its last answer *)
(* is shown.                                                               *)
(***************************************************************************)
CONSTANTS
  URIs,         (* what the user may paste                                 *)
  Times,        (* values of applied_at                                    *)
  Foreign,      (* nodes of config.json that state.json is not about       *)
  NoNode,       (* /api/status without a current_node                      *)
  Polls,        (* calls of refreshStatus that are under way at a time     *)
  Free, Sent, Failed, Ok,   (* where a call is                             *)
  Dash, Unset, None

(* What /api/status reports.  A managed node comes with the URI and the    *)
(* time of state.json.                                                     *)
Managed   == [uri: URIs, at: Times]
Unmanaged == Foreign \cup {NoNode}
Nodes     == Managed \cup Unmanaged

ASSUME HomeAssumption ==
  /\ Unmanaged \cap Managed = {}
  /\ {Free, Sent, Failed, Ok, Dash} \cap Nodes = {}
  /\ Sent \notin {Free, Failed, Ok} /\ Failed \notin {Free, Ok}
  /\ None \notin URIs
  /\ Unset \notin Unmanaged
  /\ ({Unset} \cup Unmanaged) \cap (URIs \X Times) = {}

VARIABLES
  node,     (* what /api/status would report now                           *)
  up,       (* the router and the helper can be reached                    *)
  poll,     (* calls of refreshStatus that nobody waits for                *)
  flows,    (* flows under way                                             *)
  busy,     (* the four buttons are disabled                               *)
  shown,    (* the node in the table; Dash: the API is unavailable         *)
  cache,    (* _lastNodeKey; Unset: null                                   *)
  open,     (* "Показать URI" has been unfolded                            *)
  display, applied, tested, error, (* the cards: of which URI, or hidden   *)
  json, jsonOpen, (* resultConfig: of which URI, hidden or not             *)
  last      (* history: the flow that was started last                     *)

page    == <<shown, cache, open>>
results == <<display, applied, tested, error, json, jsonOpen>>
vars    == <<node, up, poll, flows, busy, page, results, last>>

Kinds == {"preview", "apply", "test"}
Flow  == [kind: Kinds, uri: URIs \cup {None}, stage: {"post", "status", "test"},
          ans: {Sent, Failed, Ok} \cup Nodes]

TypeOK ==
  /\ node \in Nodes /\ up \in BOOLEAN
  /\ poll \in [Polls -> {Free, Sent, Failed} \cup Nodes]
  /\ flows \subseteq Flow
  /\ busy \in BOOLEAN
  /\ shown \in Nodes \cup {Dash}
  /\ open \in BOOLEAN /\ (open => shown \in Managed)
  /\ {display, applied, json} \subseteq URIs \cup {None}
  /\ {tested, error, jsonOpen} \subseteq BOOLEAN

(* The page has been loaded and has made its first poll.                   *)
Init ==
  /\ node \in Nodes /\ up \in BOOLEAN
  /\ \E p \in Polls :
       poll = [x \in Polls |-> IF x = p THEN Sent ELSE Free]
  /\ flows = {} /\ busy = FALSE
  /\ shown = Dash /\ cache = Unset /\ open = FALSE
  /\ display = None /\ applied = None /\ tested = FALSE /\ error = FALSE
  /\ json = None /\ jsonOpen = FALSE
  /\ last = None

-----------------------------------------------------------------------------
(* refreshStatus                                                           *)

(* What two nodes are compared by: every field that is rendered.           *)
nodeKey(n) == IF n \in Managed THEN <<n.uri, n.at>> ELSE n

(* Mutant of refreshFails: the cache is not reset.                         *)
MutRefreshFails ==
  /\ shown' = Dash /\ open' = FALSE
  /\ UNCHANGED cache

refreshFails ==
  /\ shown' = Dash /\ open' = FALSE
  /\ cache' = Unset

(* Mutant of renderCurrentNode: it redraws whatever it gets.               *)
MutRenderCurrentNode(n) ==
  /\ shown' = n /\ cache' = nodeKey(n) /\ open' = FALSE

(* Another mutant of it: an unfolded URI is left alone, whatever comes.    *)
MutKeepOpen(n) ==
  IF nodeKey(n) = cache \/ open THEN UNCHANGED page
  ELSE shown' = n /\ cache' = nodeKey(n) /\ open' = FALSE

(* A node is drawn, with its URI folded, unless it is the one drawn last.  *)
renderCurrentNode(n) ==
  IF nodeKey(n) = cache THEN UNCHANGED page
  ELSE shown' = n /\ cache' = nodeKey(n) /\ open' = FALSE

(* Mutant of refreshStatus: api does not look at res.ok.                   *)
MutRefreshStatus(ans) ==
  IF ans = Failed THEN shown' = Failed /\ cache' = NoNode /\ open' = FALSE
  ELSE renderCurrentNode(ans)

refreshStatus(ans) ==
  IF ans = Failed THEN refreshFails ELSE renderCurrentNode(ans)

(* The timer fires, or a button or a form asks for the status.             *)
Poll(p) ==
  /\ poll[p] = Free
  /\ poll' = [poll EXCEPT ![p] = Sent]
  /\ UNCHANGED <<node, up, flows, busy, page, results, last>>

(* handleStatus, or nobody, answers.                                       *)
StatusNow == IF up THEN node ELSE Failed

AnswerPoll(p) ==
  /\ poll[p] = Sent
  /\ poll' = [poll EXCEPT ![p] = StatusNow]
  /\ UNCHANGED <<node, up, flows, busy, page, results, last>>

EndPoll(p) ==
  /\ poll[p] \notin {Free, Sent}
  /\ refreshStatus(poll[p])
  /\ poll' = [poll EXCEPT ![p] = Free]
  /\ UNCHANGED <<node, up, flows, busy, results, last>>

ToggleURI ==
  /\ shown \in Managed
  /\ open' = ~open
  /\ UNCHANGED <<node, up, poll, flows, busy, shown, cache, results, last>>

-----------------------------------------------------------------------------
(* doPreview, doApply and runTest                                          *)

(* Mutant of clearResults: the card of the apply stays.                    *)
MutClearResults ==
  /\ display' = None /\ tested' = FALSE /\ jsonOpen' = FALSE
  /\ UNCHANGED <<applied, json>>

(* All but the error card, which a flow sets anew.                         *)
clearResults ==
  /\ display' = None /\ applied' = None /\ tested' = FALSE /\ jsonOpen' = FALSE
  /\ UNCHANGED json

Start(kind, u) ==
  /\ ~busy
  /\ (u = None) = (kind = "test")
  /\ clearResults /\ error' = FALSE
  /\ busy' = TRUE
  /\ flows' = flows \cup
       {[kind |-> kind, uri |-> u, ans |-> Sent,
         stage |-> IF kind = "test" THEN "test" ELSE "post"]}
  /\ last' = [kind |-> kind, uri |-> u]
  /\ UNCHANGED <<node, up, poll, page>>

(* readURI throws: the flow is over before it has sent anything.           *)
StartWithoutURI(kind) ==
  /\ ~busy /\ kind # "test"
  /\ clearResults /\ error' = TRUE
  /\ last' = [kind |-> kind, uri |-> None]
  /\ UNCHANGED <<node, up, poll, flows, busy, page>>

(* The server handles the call of a flow.  An apply that fails may have    *)
(* been carried out: its answer got lost.                                  *)
Answered(f, ans) == flows' = (flows \ {f}) \cup {[f EXCEPT !.ans = ans]}

AnswerFlow(f) ==
  /\ f.ans = Sent
  /\ \/ /\ f.stage = "status"
        /\ Answered(f, StatusNow) /\ UNCHANGED node
     \/ /\ f.stage # "status"
        /\ Answered(f, Failed) /\ UNCHANGED node
     \/ /\ f.stage = "test" \/ f.kind = "preview"
        /\ up /\ Answered(f, Ok) /\ UNCHANGED node
     \/ /\ f.stage = "post" /\ f.kind = "apply"
        /\ up /\ \E ans \in {Ok, Failed} : Answered(f, ans)
        /\ \E t \in Times : node' = [uri |-> f.uri, at |-> t]
  /\ UNCHANGED <<up, poll, busy, page, results, last>>

(* Mutant of Continue: the buttons are enabled before the flow has ended.  *)
MutContinue(f, stage) ==
  /\ flows' = (flows \ {f}) \cup {[f EXCEPT !.stage = stage, !.ans = Sent]}
  /\ busy' = FALSE

(* An await in the middle of a flow.                                       *)
Continue(f, stage) ==
  /\ flows' = (flows \ {f}) \cup {[f EXCEPT !.stage = stage, !.ans = Sent]}
  /\ UNCHANGED busy

(* The finally clause.                                                     *)
End(f) == flows' = flows \ {f} /\ busy' = FALSE

(* The post or the test fails; runTest catches for doApply.                *)
FlowFails(f) ==
  /\ f.ans = Failed /\ f.stage # "status"
  /\ error' = TRUE
  /\ End(f)
  /\ UNCHANGED <<node, up, poll, page, display, applied, tested, json,
                 jsonOpen, last>>

PreviewDone(f) ==
  /\ f.kind = "preview" /\ f.ans = Ok
  /\ display' = f.uri /\ json' = f.uri
  /\ End(f)
  /\ UNCHANGED <<node, up, poll, page, applied, tested, error, jsonOpen, last>>

(* The JSON stays as it is: an apply does not return it.                   *)
ApplyDone(f) ==
  /\ f.kind = "apply" /\ f.stage = "post" /\ f.ans = Ok
  /\ display' = f.uri /\ applied' = f.uri
  /\ Continue(f, "status")
  /\ UNCHANGED <<node, up, poll, page, tested, error, json, jsonOpen, last>>

StatusDone(f) ==
  /\ f.stage = "status" /\ f.ans # Sent
  /\ refreshStatus(f.ans)
  /\ Continue(f, "test")
  /\ UNCHANGED <<node, up, poll, results, last>>

TestDone(f) ==
  /\ f.stage = "test" /\ f.ans = Ok
  /\ tested' = TRUE
  /\ End(f)
  /\ UNCHANGED <<node, up, poll, page, display, applied, error, json, jsonOpen,
                 last>>

(* "Показать готовый JSON", in the card of the recognised parameters.      *)
ToggleJSON ==
  /\ display # None
  /\ jsonOpen' = ~jsonOpen
  /\ UNCHANGED <<node, up, poll, flows, busy, page, display, applied, tested,
                 error, json, last>>

-----------------------------------------------------------------------------
(* Another page, the command line or an editor changes the node; the       *)
(* network or the helper goes and comes.                                   *)
NodeChanges ==
  /\ node' \in Nodes
  /\ UNCHANGED <<up, poll, flows, busy, page, results, last>>

Reachability ==
  /\ up' = ~up
  /\ UNCHANGED <<node, poll, flows, busy, page, results, last>>

Next ==
  \/ \E p \in Polls : Poll(p) \/ AnswerPoll(p) \/ EndPoll(p)
  \/ ToggleURI
  \/ \E kind \in Kinds : \/ \E u \in URIs \cup {None} : Start(kind, u)
                         \/ StartWithoutURI(kind)
  \/ \E f \in flows : \/ AnswerFlow(f) \/ FlowFails(f) \/ PreviewDone(f)
                      \/ ApplyDone(f) \/ StatusDone(f) \/ TestDone(f)
  \/ ToggleJSON
  \/ NodeChanges
  \/ Reachability

Spec == Init /\ [][Next]_vars

(* The timer keeps firing, and a poll is answered or fails: this supposes  *)
(* that `sing-box version` returns, for which handleStatus sets no limit,  *)
(* or that the connection breaks.  Nothing is assumed of flows: an apply   *)
(* may wait for the init script for ever.                                  *)
FairSpec ==
  /\ Spec
  /\ WF_vars(\E p \in Polls : Poll(p))
  /\ \A p \in Polls : WF_vars(AnswerPoll(p)) /\ WF_vars(EndPoll(p))

-----------------------------------------------------------------------------
(* The redraw cache is about what is on the page: whenever it would make   *)
(* renderCurrentNode skip a node, that node is the one that is shown.      *)
CacheTrue == \A n \in Nodes : nodeKey(n) = cache <=> shown = n

(* A poll of the same node leaves an unfolded URI alone: while the node on *)
(* the page stays, no answer folds it ("preserve any UI state").           *)
PanelKept ==
  [][open /\ ~open' => shown' # shown \/ UNCHANGED <<poll, flows>>]_vars

(* The buttons are disabled exactly while a flow is under way, through all *)
(* three calls of an apply, and there is never a second one.               *)
OneAtATime ==
  /\ busy <=> flows # {}
  /\ \A f, g \in flows : f = g

(* The cards are those of the flow started last and, once it is over, tell *)
(* how it went: an error, or what the flow was for; an apply without error *)
(* has also been tested, and a preview has left its JSON.                  *)
OutcomeShown ==
  last # None =>
    /\ {display, applied} \subseteq {None, last.uri}
    /\ applied # None \/ tested => last.kind # "preview"
    /\ busy \/ error
       \/ /\ display = last.uri
          /\ last.kind = "preview" => json = display
          /\ last.kind = "apply" => applied = display
          /\ last.kind # "preview" => tested

(* Once the node stays and the API stays reachable, the page shows that    *)
(* node for good, whatever late answers there are and even if an apply is  *)
(* never answered.                                                         *)
NodeIsShown ==
  <>[][UNCHANGED node]_node /\ <>[]up => <>[](shown = node)

=============================================================================
