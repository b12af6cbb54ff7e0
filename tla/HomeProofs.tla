----------------------------- MODULE HomeProofs -----------------------------
(***************************************************************************)
(* Theorems about Home, for any URIs, times and number of polls under way. *)
(* The invariant adds to the properties what the code takes for granted    *)
(* between two awaits of a flow.                                           *)
(***************************************************************************)
EXTENDS Home, TLAPS

(* _lastNodeKey as a function of what is on the page.                      *)
CacheOfShown == cache = IF shown = Dash THEN Unset ELSE nodeKey(shown)

(* A flow under way is the one started last, and its cards are as its      *)
(* previous awaits have left them.                                         *)
FlowOK(f) ==
  /\ last = [kind |-> f.kind, uri |-> f.uri]
  /\ f.ans \in Nodes => f.stage = "status"
  /\ f.stage = "status" => f.ans # Ok
  /\ f.stage = "status" => f.kind = "apply"
  /\ f.kind = "preview" => f.stage = "post"
  /\ f.kind = "test" => f.stage = "test" /\ f.uri = None
  /\ f.kind # "test" => f.uri \in URIs
  /\ error = FALSE /\ tested = FALSE
  /\ display = (IF f.stage = "post" THEN None ELSE f.uri)
  /\ applied = display

IInv ==
  /\ TypeOK
  /\ CacheOfShown
  /\ OneAtATime
  /\ \A f \in flows : FlowOK(f)
  /\ OutcomeShown

(* Nodes that differ have different keys, and none has the key null.       *)
LEMMA KeysDiffer ==
  /\ \A m, n \in Nodes : nodeKey(m) = nodeKey(n) => m = n
  /\ \A n \in Nodes : nodeKey(n) # Unset
<1>1. \A n \in Managed : /\ n = [uri |-> n.uri, at |-> n.at]
                         /\ n.uri \in URIs /\ n.at \in Times
                         /\ nodeKey(n) = <<n.uri, n.at>>
                         /\ nodeKey(n) \in URIs \X Times
  BY HomeAssumption DEF Managed, nodeKey
<1>2. \A n \in Unmanaged : nodeKey(n) = n
  BY HomeAssumption DEF nodeKey
<1>3. \A m, n \in Managed : nodeKey(m) = nodeKey(n) => m = n
<2> SUFFICES ASSUME NEW m \in Managed, NEW n \in Managed, nodeKey(m) = nodeKey(n)
             PROVE  m = n
  OBVIOUS
<2>1. m.uri = n.uri /\ m.at = n.at
  BY <1>1
<2> QED
  BY <1>1, <2>1
<1>4. \A n \in Managed : nodeKey(n) \notin {Unset} \cup Unmanaged
  BY <1>1, HomeAssumption
<1> QED
  BY <1>2, <1>3, <1>4, HomeAssumption DEF Nodes

(* What the cache says, from what it is.                                   *)
LEMMA CacheIsTrue == TypeOK /\ CacheOfShown => CacheTrue
<1> SUFFICES ASSUME TypeOK, CacheOfShown, NEW n \in Nodes
             PROVE  nodeKey(n) = cache <=> shown = n
  BY DEF CacheTrue
<1>1. CASE shown = Dash
<2>1. cache = Unset /\ n # Dash
  BY <1>1, HomeAssumption DEF CacheOfShown
<2> QED
  BY <1>1, <2>1, KeysDiffer
<1>2. CASE shown # Dash
<2>1. shown \in Nodes /\ cache = nodeKey(shown)
  BY <1>2 DEF TypeOK, CacheOfShown
<2> QED
  BY <2>1, KeysDiffer
<1> QED
  BY <1>1, <1>2

(* What refreshStatus does to the page, whatever it gets.                  *)
LEMMA Redrawn ==
  ASSUME TypeOK, CacheOfShown, NEW ans \in Nodes \cup {Failed}, refreshStatus(ans)
  PROVE  /\ shown' \in Nodes \cup {Dash} /\ open' \in BOOLEAN
         /\ open' => shown' \in Managed
         /\ CacheOfShown'
         /\ open /\ ~open' => shown' # shown
<1>1. Dash \notin Nodes /\ Failed \notin Nodes /\ Managed \subseteq Nodes
  BY HomeAssumption DEF Nodes
<1>2. CASE ans = Failed
<2>1. shown' = Dash /\ open' = FALSE /\ cache' = Unset
  BY <1>2 DEF refreshStatus, refreshFails
<2> QED
  BY <1>1, <2>1 DEF TypeOK, CacheOfShown
<1>3. CASE ans \in Nodes /\ nodeKey(ans) = cache
<2>1. UNCHANGED page
  BY <1>1, <1>3 DEF refreshStatus, renderCurrentNode
<2> QED
  BY <2>1 DEF page, TypeOK, CacheOfShown
<1>4. CASE ans \in Nodes /\ nodeKey(ans) # cache
<2>1. shown' = ans /\ cache' = nodeKey(ans) /\ open' = FALSE
  BY <1>1, <1>4 DEF refreshStatus, renderCurrentNode
<2>2. shown # ans
  BY <1>4, CacheIsTrue DEF CacheTrue
<2> QED
  BY <1>1, <1>4, <2>1, <2>2 DEF CacheOfShown
<1> QED
  BY <1>2, <1>3, <1>4

(* The page as it is loaded.                                               *)
LEMMA IInvStarts == Init => IInv
<1> SUFFICES ASSUME Init PROVE IInv
  OBVIOUS
<1>1. TypeOK
<2>1. poll \in [Polls -> {Free, Sent, Failed} \cup Nodes]
  BY DEF Init
<2> QED
  BY <2>1 DEF Init, TypeOK
<1> QED
  BY <1>1 DEF Init, IInv, CacheOfShown, OneAtATime, OutcomeShown

-----------------------------------------------------------------------------
(* Steps that leave the flows and the cards alone.                         *)
LEMMA FlowsUntouched ==
  ASSUME IInv, UNCHANGED <<flows, busy, results, last>>
  PROVE  OneAtATime' /\ (\A f \in flows : FlowOK(f))' /\ OutcomeShown'
  BY DEF IInv, OneAtATime, FlowOK, OutcomeShown, results

(* The call of a poll goes on; so does that of a flow.                     *)
LEMMA StatusTyped == TypeOK => StatusNow \in Nodes \cup {Failed}
  BY DEF TypeOK, StatusNow

(* The one flow under way, and what follows from its invariant.            *)
LEMMA TheFlow ==
  ASSUME IInv, NEW f \in flows
  PROVE  flows = {f} /\ f \in Flow /\ FlowOK(f) /\ busy = TRUE
<1>1. flows = {f} /\ f \in Flow /\ FlowOK(f)
  BY DEF IInv, OneAtATime, TypeOK
<1>2. busy
  BY DEF IInv, OneAtATime
<1>3. busy \in BOOLEAN
  BY DEF IInv, TypeOK
<1> QED
  BY <1>1, <1>2, <1>3

(* A flow goes on with another call or another answer.                     *)
LEMMA FlowContinues ==
  ASSUME IInv, NEW f \in flows, NEW g \in Flow, flows' = (flows \ {f}) \cup {g},
         busy' = busy, FlowOK(g)', TypeOK', CacheOfShown'
  PROVE  IInv'
<1>1. flows' = {g} /\ busy' = TRUE
  BY TheFlow
<1>2. OneAtATime'
  BY <1>1 DEF OneAtATime
<1>3. last' = [kind |-> g.kind, uri |-> g.uri]
  BY DEF FlowOK
<1>4. /\ {display', applied'} \subseteq {None, g.uri}
      /\ tested' = FALSE
      /\ g.kind = "preview" => applied' = None
  BY DEF FlowOK
<1>5. OutcomeShown'
  BY <1>1, <1>3, <1>4 DEF OutcomeShown
<1> QED
  BY <1>1, <1>2, <1>5 DEF IInv

(* The end of a flow.                                                      *)
LEMMA FlowEnds ==
  ASSUME IInv, NEW f \in flows, End(f), TypeOK', CacheOfShown', last' = last,
         {display', applied'} \subseteq {None, f.uri},
         applied' # None \/ tested' => f.kind # "preview",
         error' \/ /\ display' = f.uri
                   /\ f.kind = "preview" => json' = display'
                   /\ f.kind = "apply" => applied' = display'
                   /\ f.kind # "preview" => tested'
  PROVE  IInv'
<1>1. flows' = {} /\ busy' = FALSE
  BY TheFlow DEF End
<1>2. OneAtATime'
  BY <1>1 DEF OneAtATime
<1>3. last' = [kind |-> f.kind, uri |-> f.uri]
  BY TheFlow DEF FlowOK
<1>4. OutcomeShown'
  BY <1>3 DEF OutcomeShown
<1> QED
  BY <1>1, <1>2, <1>4 DEF IInv

-----------------------------------------------------------------------------
(* Each event and each answer keeps it.                                    *)
LEMMA IInvStays == IInv /\ [Next]_vars => IInv'
<1> SUFFICES ASSUME IInv, [Next]_vars PROVE IInv'
  OBVIOUS
<1>0. TypeOK /\ CacheOfShown /\ StatusNow \in Nodes \cup {Failed}
  BY StatusTyped DEF IInv
<1>1. ASSUME NEW p \in Polls, Poll(p)
      PROVE  IInv'
<2>1. TypeOK' /\ CacheOfShown'
  BY <1>0, <1>1 DEF Poll, TypeOK, CacheOfShown, page, results
<2> QED
  BY <1>1, <2>1, FlowsUntouched DEF Poll, IInv
<1>2. ASSUME NEW p \in Polls, AnswerPoll(p)
      PROVE  IInv'
<2>1. TypeOK' /\ CacheOfShown'
  BY <1>0, <1>2 DEF AnswerPoll, TypeOK, CacheOfShown, page, results
<2> QED
  BY <1>2, <2>1, FlowsUntouched DEF AnswerPoll, IInv
<1>3. ASSUME NEW p \in Polls, EndPoll(p)
      PROVE  IInv'
<2>1. poll[p] \in Nodes \cup {Failed}
  BY <1>0, <1>3 DEF EndPoll, TypeOK
<2>2. /\ shown' \in Nodes \cup {Dash} /\ open' \in BOOLEAN
      /\ open' => shown' \in Managed
      /\ CacheOfShown'
  BY <1>0, <1>3, <2>1, Redrawn DEF EndPoll
<2>3. TypeOK'
  BY <1>0, <1>3, <2>2 DEF EndPoll, TypeOK, results
<2> QED
  BY <1>3, <2>2, <2>3, FlowsUntouched DEF EndPoll, IInv
<1>4. CASE ToggleURI
<2>1. TypeOK' /\ CacheOfShown'
  BY <1>0, <1>4 DEF ToggleURI, TypeOK, CacheOfShown, results
<2> QED
  BY <1>4, <2>1, FlowsUntouched DEF ToggleURI, IInv
<1>5. ASSUME NEW kind \in Kinds, NEW u \in URIs \cup {None}, Start(kind, u)
      PROVE  IInv'
<2> DEFINE f == [kind |-> kind, uri |-> u, ans |-> Sent,
                 stage |-> IF kind = "test" THEN "test" ELSE "post"]
<2>1. flows = {} /\ flows' = {f}
  BY <1>5 DEF Start, IInv, OneAtATime
<2>2. f \in Flow /\ f.kind = kind /\ f.uri = u /\ f.ans = Sent
      /\ f.stage = (IF kind = "test" THEN "test" ELSE "post")
  BY DEF Flow, Kinds
<2> HIDE DEF f
<2>3. TypeOK' /\ CacheOfShown'
  BY ZenonT(30), <1>0, <1>5, <2>1, <2>2
     DEF Start, clearResults, TypeOK, CacheOfShown, page
<2>4. u \in URIs <=> kind # "test"
  BY <1>5, HomeAssumption DEF Start
<2>5. FlowOK(f)'
  BY <1>5, <2>2, <2>4, HomeAssumption
     DEF FlowOK, Start, clearResults, Nodes, Kinds
<2>6. OneAtATime'
  BY <1>5, <2>1 DEF OneAtATime, Start
<2>7. OutcomeShown'
  BY <1>5 DEF OutcomeShown, Start, clearResults
<2> QED
  BY <2>1, <2>3, <2>5, <2>6, <2>7 DEF IInv
<1>6. ASSUME NEW kind \in Kinds, StartWithoutURI(kind)
      PROVE  IInv'
<2>1. flows = {} /\ flows' = {}
  BY <1>6 DEF StartWithoutURI, IInv, OneAtATime
<2>2. TypeOK' /\ CacheOfShown'
  BY <1>0, <1>6 DEF StartWithoutURI, clearResults, TypeOK, CacheOfShown, page
<2>3. OneAtATime'
  BY <1>6, <2>1 DEF OneAtATime, StartWithoutURI, IInv
<2>4. OutcomeShown'
  BY <1>6 DEF OutcomeShown, StartWithoutURI, clearResults
<2> QED
  BY <2>1, <2>2, <2>3, <2>4 DEF IInv
<1>7. ASSUME NEW f \in flows, AnswerFlow(f)
      PROVE  IInv'
<2>1. f \in Flow /\ FlowOK(f) /\ flows = {f}
  BY TheFlow
<2>2. \E ans \in {Failed, Ok} \cup Nodes :
        /\ Answered(f, ans)
        /\ IF f.stage = "status" THEN ans # Ok ELSE ans \notin Nodes
<3>1. Ok \notin Nodes /\ Failed \notin Nodes /\ Failed # Ok
  BY HomeAssumption
<3>2. CASE f.stage = "status"
<4>1. Answered(f, StatusNow) /\ StatusNow # Ok
  BY <1>0, <1>7, <2>1, <3>1, <3>2 DEF AnswerFlow, FlowOK
<4> QED
  BY <1>0, <3>2, <4>1
<3>3. CASE f.stage # "status"
<4>1. \E ans \in {Failed, Ok} : Answered(f, ans)
  BY <1>7, <3>3 DEF AnswerFlow
<4> QED
  BY <3>1, <3>3, <4>1
<3> QED
  BY <3>2, <3>3
<2>3. PICK ans \in {Failed, Ok} \cup Nodes :
        /\ Answered(f, ans)
        /\ IF f.stage = "status" THEN ans # Ok ELSE ans \notin Nodes
  BY <2>2
<2>10. PICK g \in Flow : g = [f EXCEPT !.ans = ans]
  BY <2>1 DEF Flow
<2>4. g.ans = ans /\ g.kind = f.kind /\ g.uri = f.uri /\ g.stage = f.stage
  BY <2>1, <2>10 DEF Flow
<2>5. flows' = (flows \ {f}) \cup {g}
  BY <2>3, <2>10 DEF Answered
<2>6. node' \in Nodes
<3>1. f.kind = "apply" => f.uri \in URIs
  BY <2>1 DEF FlowOK
<3> QED
  BY <1>0, <1>7, <3>1 DEF AnswerFlow, TypeOK, Nodes, Managed
<2>7. TypeOK' /\ CacheOfShown'
  BY <1>0, <1>7, <2>4, <2>5, <2>6
     DEF AnswerFlow, TypeOK, CacheOfShown, page, results
<2>8. FlowOK(g)'
  BY <1>7, <2>1, <2>3, <2>4 DEF AnswerFlow, FlowOK, results
<2>9. busy' = busy
  BY <1>7 DEF AnswerFlow
<2> QED
  BY <2>4, <2>5, <2>7, <2>8, <2>9, FlowContinues
<1>8. ASSUME NEW f \in flows, FlowFails(f)
      PROVE  IInv'
<2>1. f \in Flow /\ FlowOK(f)
  BY TheFlow
<2>2. TypeOK' /\ CacheOfShown'
  BY <1>0, <1>8 DEF FlowFails, End, TypeOK, CacheOfShown, page
<2>3. /\ {display', applied'} \subseteq {None, f.uri}
      /\ applied' # None \/ tested' => f.kind # "preview"
      /\ error' = TRUE /\ last' = last
  BY <1>8, <2>1 DEF FlowFails, FlowOK
<2> QED
  BY <1>8, <2>2, <2>3, FlowEnds DEF FlowFails
<1>9. ASSUME NEW f \in flows, PreviewDone(f)
      PROVE  IInv'
<2>1. f \in Flow /\ FlowOK(f) /\ f.uri \in URIs
  BY <1>9, TheFlow DEF FlowOK, PreviewDone
<2>2. TypeOK' /\ CacheOfShown'
  BY <1>0, <1>9, <2>1 DEF PreviewDone, End, TypeOK, CacheOfShown, page
<2>3. /\ display' = f.uri /\ json' = f.uri /\ applied' = None
      /\ tested' = FALSE /\ f.kind = "preview" /\ last' = last
  BY <1>9, <2>1 DEF PreviewDone, FlowOK
<2> QED
  BY <1>9, <2>2, <2>3, FlowEnds DEF PreviewDone
<1>10. ASSUME NEW f \in flows, ApplyDone(f)
       PROVE  IInv'
<2>1. f \in Flow /\ FlowOK(f) /\ f.uri \in URIs
  BY <1>10, TheFlow DEF FlowOK, ApplyDone
<2>2. PICK g \in Flow : g = [f EXCEPT !.stage = "status", !.ans = Sent]
  BY <2>1 DEF Flow
<2>3. g.ans = Sent /\ g.kind = f.kind /\ g.uri = f.uri /\ g.stage = "status"
  BY <2>1, <2>2 DEF Flow
<2>4. flows' = (flows \ {f}) \cup {g} /\ busy' = busy
  BY <1>10, <2>2 DEF ApplyDone, Continue
<2>5. TypeOK' /\ CacheOfShown'
  BY <1>0, <1>10, <2>1, <2>4 DEF ApplyDone, TypeOK, CacheOfShown, page
<2>6. FlowOK(g)'
  BY <1>10, <2>1, <2>3, HomeAssumption DEF ApplyDone, FlowOK
<2> QED
  BY <2>4, <2>5, <2>6, FlowContinues
<1>11. ASSUME NEW f \in flows, StatusDone(f)
       PROVE  IInv'
<2>1. f \in Flow /\ FlowOK(f) /\ f.stage = "status"
  BY <1>11, TheFlow DEF StatusDone
<2>2. f.ans \in Nodes \cup {Failed}
  BY <1>11, <2>1 DEF FlowOK, Flow, StatusDone
<2>3. /\ shown' \in Nodes \cup {Dash} /\ open' \in BOOLEAN
      /\ open' => shown' \in Managed
      /\ CacheOfShown'
  BY <1>0, <1>11, <2>2, Redrawn DEF StatusDone
<2>4. PICK g \in Flow : g = [f EXCEPT !.stage = "test", !.ans = Sent]
  BY <2>1 DEF Flow
<2>5. g.ans = Sent /\ g.kind = f.kind /\ g.uri = f.uri /\ g.stage = "test"
  BY <2>1, <2>4 DEF Flow
<2>6. flows' = (flows \ {f}) \cup {g} /\ busy' = busy
  BY <1>11, <2>4 DEF StatusDone, Continue
<2>7. TypeOK'
  BY <1>0, <1>11, <2>3, <2>6 DEF StatusDone, TypeOK, results
<2>8. FlowOK(g)'
  BY <1>11, <2>1, <2>5, HomeAssumption DEF StatusDone, FlowOK, results
<2> QED
  BY <2>3, <2>6, <2>7, <2>8, FlowContinues
<1>12. ASSUME NEW f \in flows, TestDone(f)
       PROVE  IInv'
<2>1. f \in Flow /\ FlowOK(f)
  BY TheFlow
<2>2. TypeOK' /\ CacheOfShown'
  BY <1>0, <1>12 DEF TestDone, End, TypeOK, CacheOfShown, page
<2>3. /\ display' = f.uri /\ applied' = display' /\ tested' = TRUE
      /\ f.kind # "preview" /\ last' = last
  BY <1>12, <2>1 DEF TestDone, FlowOK
<2> QED
  BY <1>12, <2>2, <2>3, FlowEnds DEF TestDone
<1>13. CASE ToggleJSON
<2>1. TypeOK' /\ CacheOfShown'
  BY <1>0, <1>13 DEF ToggleJSON, TypeOK, CacheOfShown, page
<2> QED
  BY <1>13, <2>1 DEF ToggleJSON, IInv, OneAtATime, FlowOK, OutcomeShown
<1>14. CASE NodeChanges
<2>1. TypeOK' /\ CacheOfShown'
  BY <1>0, <1>14 DEF NodeChanges, TypeOK, CacheOfShown, page, results
<2> QED
  BY <1>14, <2>1, FlowsUntouched DEF NodeChanges, IInv
<1>15. CASE Reachability
<2>1. TypeOK' /\ CacheOfShown'
  BY <1>0, <1>15 DEF Reachability, TypeOK, CacheOfShown, page, results
<2> QED
  BY <1>15, <2>1, FlowsUntouched DEF Reachability, IInv
<1>16. CASE UNCHANGED vars
<2>1. TypeOK' /\ CacheOfShown'
  BY <1>0, <1>16 DEF vars, TypeOK, CacheOfShown, page, results
<2> QED
  BY <1>16, <2>1, FlowsUntouched DEF vars, IInv
<1> QED
  BY <1>1, <1>2, <1>3, <1>4, <1>5, <1>6, <1>7, <1>8, <1>9, <1>10, <1>11,
     <1>12, <1>13, <1>14, <1>15, <1>16 DEF Next

(* So it holds throughout.                                                 *)
LEMMA IInvAlways == Spec => []IInv
  BY IInvStarts, IInvStays, PTL DEF Spec

(* The redraw cache never hides a change, and every variable of the page   *)
(* has a value of its type, for any number of URIs and polls.              *)
THEOREM PageTrue == Spec => [](TypeOK /\ CacheTrue)
<1>1. IInv => TypeOK /\ CacheTrue
  BY CacheIsTrue DEF IInv
<1> QED
  BY <1>1, IInvAlways, PTL

(* Every variable of the page has a value of its type, and the URI that is *)
(* unfolded is that of a node with one.                                    *)
THEOREM PageTyped == Spec => []TypeOK
BY PageTrue, PTL

(* One flow at a time, and the cards tell how the last one went.           *)
THEOREM FlowsTold == Spec => [](OneAtATime /\ OutcomeShown)
<1>1. IInv => OneAtATime /\ OutcomeShown
  BY DEF IInv
<1> QED
  BY <1>1, IInvAlways, PTL

(* The buttons that are disabled keep a second flow from starting.         *)
THEOREM FlowsExclude == Spec => []OneAtATime
BY FlowsTold, PTL

(* No answer folds the URI that the user has unfolded, unless the node has *)
(* changed.                                                                *)
THEOREM PanelStays == Spec => PanelKept
<1>1. ASSUME IInv, [Next]_vars
      PROVE  [open /\ ~open' => shown' # shown \/ UNCHANGED <<poll, flows>>]_vars
<2>0. TypeOK /\ CacheOfShown
  BY <1>1 DEF IInv
<2> SUFFICES ASSUME open, ~open' PROVE shown' # shown \/ UNCHANGED <<poll, flows>>
  OBVIOUS
<2>1. ASSUME NEW p \in Polls, EndPoll(p)
      PROVE  shown' # shown
<3>1. poll[p] \in Nodes \cup {Failed}
  BY <2>0, <2>1 DEF EndPoll, TypeOK
<3> QED
  BY <2>0, <2>1, <3>1, Redrawn DEF EndPoll
<2>2. ASSUME NEW f \in flows, StatusDone(f)
      PROVE  shown' # shown
<3>1. f \in Flow /\ FlowOK(f)
  BY <1>1, TheFlow
<3>2. f.ans \in Nodes \cup {Failed}
  BY <2>2, <3>1 DEF FlowOK, Flow, StatusDone
<3> QED
  BY <2>0, <2>2, <3>2, Redrawn DEF StatusDone
<2>3. ToggleURI => UNCHANGED <<poll, flows>>
  BY DEF ToggleURI
<2>4. ASSUME UNCHANGED open PROVE FALSE
  BY <2>4
<2> QED
  BY <1>1, <2>1, <2>2, <2>3, <2>4
     DEF Next, Poll, AnswerPoll, Start, StartWithoutURI, AnswerFlow, FlowFails,
         PreviewDone, ApplyDone, TestDone, ToggleJSON, NodeChanges,
         Reachability, vars, page
<1> QED
  BY <1>1, IInvAlways, PTL DEF Spec, PanelKept

=============================================================================
