----------------------------- MODULE TabsProofs -----------------------------
(***************************************************************************)
(* What holds of the settings form, the log view and the list of backups   *)
(* however many requests the user has under way, in whatever order they    *)
(* are handled and answered, and whichever get lost or are given up and     *)
(* handled later: types, the one timer of the log view, and that a form    *)
(* and a list that look up to date are.                                    *)
(***************************************************************************)
EXTENDS Tabs, TLAPS

TabNames == {"home", "settings", "logs", "backups"}

(* Slot s holds a request of tab t.                                        *)
Asked(s, t) == net[s] # Free /\ TabOf(net[s].kind) = t

(* A request for lines names a choice, and settings that the server        *)
(* answers with are some.                                                  *)
RequestsTyped ==
  \A s \in Slots : net[s] # Free =>
    /\ net[s].kind = "getLogs" => net[s].val \in Sources
    /\ net[s].at = "served" /\ TabOf(net[s].kind) = "settings" =>
         net[s].val \in Vals

TypeInv == TypeOK /\ RequestsTyped

(* A tab whose requests have not overlapped has at most one under way.     *)
OneAtATime ==
  \A t \in TabNames \ crossed :
    \A r, s \in Slots : Asked(r, t) /\ Asked(s, t) => r = s

(* Then an answer that is on its way tells what the server has: nothing of *)
(* the same tab has been handled since, and as long as the list of backups *)
(* is open no other request that makes or removes some.                    *)
AnswersTrue ==
  \A s \in Slots : net[s] # Free /\ net[s].at = "served" =>
    /\ TabOf(net[s].kind) = "settings" /\ "settings" \notin crossed =>
         net[s].val = stored
    /\ net[s].kind = "getBackups" /\ tab = "backups" /\ "backups" \notin crossed =>
         net[s].rows = kept

NoneElsewhere ==
  tab = "backups" /\ "backups" \notin crossed =>
    \A s \in Slots : Pending(s) => TabOf(net[s].kind) = "backups"

(* What the page has given up it has told the user.                        *)
LeftTold ==
  \A s \in Slots : net[s] # Free /\ net[s].at = "left" =>
    /\ TabOf(net[s].kind) = "settings" /\ "settings" \notin crossed =>
         note = "failed"
    /\ TabOf(net[s].kind) = "backups" /\ "backups" \notin crossed =>
         said = "failed"

TabsInv ==
  /\ TypeInv /\ OneTimer
  /\ OneAtATime /\ AnswersTrue /\ NoneElsewhere /\ LeftTold
  /\ FormTrue /\ ListTrue

----------------------------------------------------------------------------
(* What an action sends, if it sends anything.                             *)
Values == Vals \cup Sources \cup Files \cup {Blank, None}

LEMMA KindsAndTabs ==
  /\ \A k : TabOf(k) \in TabNames
  /\ \A k \in Kinds : /\ TabOf(k) = "settings" <=> k \in {"getSettings", "postSettings"}
                      /\ TabOf(k) = "logs" <=> k = "getLogs"
                      /\ TabOf(k) = "backups" <=> k \in {"getBackups", "restore", "delete"}
                      /\ TabOf(k) = "home" <=> k = "apply"
BY DEF TabOf, TabNames, Kinds, Gets, Changers

(* A new request.                                                          *)
LEMMA Requested ==
  ASSUME NEW k \in Kinds, NEW v \in Values
  PROVE  /\ Request(k, v) \in Requests /\ Request(k, v) # Free
         /\ Request(k, v).kind = k /\ Request(k, v).val = v
         /\ Request(k, v).at = "sent"
<1>1. Request(k, v) \in Requests
  BY DEF Request, Requests, Values
<1> QED
  BY <1>1, FreeAssumption DEF Request

(* Asking puts it into a slot that was empty.                              *)
LEMMA AskFills ==
  ASSUME TypeOK, NEW k \in Kinds, NEW v \in Values, Ask(k, v)
  PROVE  \E s \in Slots :
           /\ net[s] = Free /\ net'[s] = Request(k, v)
           /\ \A r \in Slots \ {s} : net'[r] = net[r]
           /\ net' \in [Slots -> Requests \cup {Free}]
<1>1. PICK s \in Slots : net[s] = Free /\ net' = [net EXCEPT ![s] = Request(k, v)]
  BY DEF Ask
<1> QED
  BY ZenonT(30), <1>1, Requested DEF TypeOK

(* Every click and every tick asks for at most one thing and leaves the    *)
(* server alone.  The list of backups does not open without a request for  *)
(* it, nothing else of the server is changed from its tab, and what the    *)
(* user was told is only cleared by asking for something new.              *)
Sends ==
  /\ UNCHANGED server
  /\ \/ AskNothing /\ UNCHANGED <<note, said>> /\ (tab' = "backups" => tab = "backups")
     \/ \E k \in Kinds, v \in Values :
          /\ Ask(k, v)
          /\ k = "getLogs" => v \in Sources
          /\ tab' = "backups" => TabOf(k) = "backups" \/ (tab = "backups" /\ k = "getLogs")
          /\ note' = note \/ TabOf(k) = "settings"
          /\ said' = said \/ TabOf(k) = "backups"

LEMMA UserSends ==
  ASSUME TypeOK, User \/ \E t \in Timers : Tick(t)
  PROVE  Sends
<1>1. /\ form \in Values /\ None \in Values /\ source \in Sources
      /\ Files \subseteq Values /\ Sources \subseteq Values
  BY DEF TypeOK, Values
<1>2. /\ {"getSettings", "getLogs", "getBackups", "postSettings", "apply",
          "restore", "delete"} \subseteq Kinds
      /\ TabOf("getSettings") = "settings" /\ TabOf("postSettings") = "settings"
      /\ \A k \in {"getBackups", "restore", "delete"} : TabOf(k) = "backups"
  BY DEF Kinds, Gets, Changers, TabOf
<1>3. ASSUME NEW t \in {"home", "settings", "logs", "backups"}, activateTab(t)
      PROVE  Sends
  BY <1>1, <1>2, <1>3 DEF activateTab, Sends
<1>4. ASSUME NEW v \in Vals, Type(v) PROVE Sends
  BY <1>4 DEF Type, Sends, backups
<1>5. CASE loadSettings
  BY <1>1, <1>2, <1>5 DEF loadSettings, Sends, backups
<1>6. CASE saveSettings
  BY <1>1, <1>2, <1>6 DEF saveSettings, Sends, backups
<1>7. ASSUME NEW c \in Sources, chooseLogs(c) PROVE Sends
  BY <1>1, <1>2, <1>7 DEF chooseLogs, Sends, settings, backups
<1>8. ASSUME NEW on \in BOOLEAN, toggleAutoRefresh(on) PROVE Sends
  BY <1>8 DEF toggleAutoRefresh, Sends, settings, backups
<1>9. CASE loadBackups
  BY <1>1, <1>2, <1>9 DEF loadBackups, Sends, settings
<1>10. ASSUME NEW f \in Files, restoreBackup(f) \/ deleteBackup(f) PROVE Sends
  BY <1>1, <1>2, <1>10 DEF restoreBackup, deleteBackup, Sends, settings, backups
<1>11. ASSUME NEW t \in Timers, Tick(t) PROVE Sends
  BY <1>1, <1>2, <1>11 DEF Tick, Sends, settings, backups
<1>12. CASE doApply
  BY <1>1, <1>2, <1>12 DEF doApply, Sends, settings, backups
<1> QED
  BY <1>3, <1>4, <1>5, <1>6, <1>7, <1>8, <1>9, <1>10, <1>11, <1>12 DEF User

LEMMA AnswerIs ==
  ASSUME NEW r, NEW k, NEW v, NEW w, NEW a,
         r = [kind |-> k, val |-> v, rows |-> w, at |-> a]
  PROVE  [r EXCEPT !.at = "served"]
           = [kind |-> k, val |-> v, rows |-> w, at |-> "served"]
OBVIOUS

(* What a handler does to what the server keeps.                           *)
LEMMA Handled ==
  ASSUME TypeOK, NEW q \in Requests, NEW ok \in BOOLEAN, Handle(q, ok)
  PROVE  /\ q.kind \in Changers
         /\ stored' \in Vals /\ kept' \subseteq Files
         /\ q.kind # "postSettings" => stored' = stored
         /\ ~ok => stored' = stored
         /\ q.kind = "postSettings" /\ ok => q.val = stored'
<1>1. stored \in Vals /\ kept \subseteq Files /\ \A K \in Snapshots : K \subseteq Files
  BY DEF TypeOK, Snapshots
<1>2. CASE q.kind = "postSettings" /\ handleSettingsPost(q.val, ok)
  BY <1>1, <1>2 DEF handleSettingsPost, server, Changers
<1>3. CASE q.kind = "apply" /\ handleApply(ok)
  <2>1. PICK K \in Snapshots : kept' \in SUBSET K \/ kept' = K
    BY <1>3 DEF handleApply
  <2> QED
    BY <1>1, <1>3, <2>1 DEF handleApply, Changers
<1>4. CASE q.kind = "restore" /\ handleBackupsRestore(q.val, ok)
  BY <1>1, <1>4 DEF handleBackupsRestore, Changers
<1>5. CASE q.kind = "delete" /\ handleBackupsDelete(q.val, ok)
  BY <1>1, <1>5 DEF handleBackupsDelete, Changers
<1> QED
  BY <1>2, <1>3, <1>4, <1>5 DEF Handle

(* What the server does to a request and to what it keeps.                 *)
LEMMA Served ==
  ASSUME TypeOK, NEW s \in Slots, Serve(s)
  PROVE  /\ net[s] # Free /\ net[s] \in Requests /\ net[s].at = "sent"
         /\ net'[s] # Free /\ net'[s] \in Requests
         /\ net'[s].kind = net[s].kind
         /\ \A r \in Slots \ {s} : net'[r] = net[r]
         /\ net' \in [Slots -> Requests \cup {Free}]
         /\ stored' \in Vals /\ kept' \subseteq Files
         /\ net'[s].kind # "postSettings" => stored' = stored
         /\ net'[s].at = "refused" => stored' = stored
         /\ kept' # kept => net[s].kind \in Changers
         /\ net'[s].at \in {"served", "refused"}
         /\ net'[s].at = "served" =>
              /\ TabOf(net'[s].kind) = "settings" => net'[s].val = stored'
              /\ net'[s].kind = "getBackups" => net'[s].rows = kept'
         /\ net'[s].kind = "getLogs" => net'[s].val = net[s].val
<1> DEFINE q == net[s]
<1>1. q # Free /\ q \in Requests /\ q.at = "sent"
  BY DEF Serve, TypeOK
<1>2. /\ q.kind \in Kinds /\ q.val \in Values /\ q.rows \in SUBSET Files
      /\ stored \in Vals /\ kept \subseteq Files /\ Vals \subseteq Values
      /\ net \in [Slots -> Requests \cup {Free}]
  BY <1>1 DEF Requests, TypeOK, Values
<1> DEFINE A(v, w) == [kind |-> q.kind, val |-> v, rows |-> w, at |-> "served"]
           R == [kind |-> q.kind, val |-> q.val, rows |-> q.rows, at |-> "refused"]
<1>3. q = [kind |-> q.kind, val |-> q.val, rows |-> q.rows, at |-> q.at]
  BY <1>1 DEF Requests
<1>4. /\ [[q EXCEPT !.val = stored] EXCEPT !.at = "served"] = A(stored, q.rows)
      /\ [q EXCEPT !.at = "served"] = A(q.val, q.rows)
      /\ [[q EXCEPT !.rows = kept] EXCEPT !.at = "served"] = A(q.val, kept)
      /\ [q EXCEPT !.at = "refused"] = R
  <2> HIDE DEF q
  <2>1. [[q EXCEPT !.val = stored] EXCEPT !.at = "served"] = A(stored, q.rows)
    <3>1. PICK r : r = [q EXCEPT !.val = stored]
      OBVIOUS
    <3>2. r = [kind |-> q.kind, val |-> stored, rows |-> q.rows, at |-> q.at]
      BY ONLY <1>3, <3>1
    <3>3. [r EXCEPT !.at = "served"]
            = [kind |-> q.kind, val |-> stored, rows |-> q.rows, at |-> "served"]
      BY ONLY <3>2, AnswerIs
    <3> QED
      BY ONLY <3>1, <3>3
  <2>2. [q EXCEPT !.at = "served"] = A(q.val, q.rows)
    BY ONLY <1>3
  <2>3. [[q EXCEPT !.rows = kept] EXCEPT !.at = "served"] = A(q.val, kept)
    <3>1. PICK r : r = [q EXCEPT !.rows = kept]
      OBVIOUS
    <3>2. r = [kind |-> q.kind, val |-> q.val, rows |-> kept, at |-> q.at]
      BY ONLY <1>3, <3>1
    <3>3. [r EXCEPT !.at = "served"]
            = [kind |-> q.kind, val |-> q.val, rows |-> kept, at |-> "served"]
      BY ONLY <3>2, AnswerIs
    <3> QED
      BY ONLY <3>1, <3>3
  <2>4. [q EXCEPT !.at = "refused"] = R
    BY ONLY <1>3
  <2> QED
    BY <2>1, <2>2, <2>3, <2>4
<1>5. \A v \in Values, w \in SUBSET Files : A(v, w) \in Requests
  BY <1>2 DEF Requests, Values
<1>6. R \in Requests
  BY <1>2 DEF Requests, Values
<1> DEFINE Outcome(e) ==
      /\ net' = [net EXCEPT ![s] = e]
      /\ e.kind = q.kind
      /\ stored' \in Vals /\ kept' \subseteq Files
      /\ e.kind # "postSettings" => stored' = stored
      /\ e.at = "refused" => stored' = stored
      /\ kept' # kept => e.kind \in Changers
      /\ e.at \in {"served", "refused"}
      /\ e.at = "served" =>
           /\ e.kind \in {"getSettings", "postSettings"} => e.val = stored'
           /\ e.kind = "getBackups" => e.rows = kept'
      /\ e.kind = "getLogs" => e.val = q.val
<1>7. \E e \in Requests : Outcome(e)
  <2>1. CASE q.kind = "getSettings"
    <3>1. net' = [net EXCEPT ![s] = A(stored, q.rows)] /\ UNCHANGED server
      BY <1>4, <2>1 DEF Serve, Changers
    <3> QED
      BY <1>2, <1>5, <2>1, <3>1 DEF server
  <2>2. CASE q.kind = "getLogs"
    <3>1. net' = [net EXCEPT ![s] = A(q.val, q.rows)] /\ UNCHANGED server
      BY <1>4, <2>2 DEF Serve, Changers
    <3> QED
      BY <1>2, <1>5, <2>2, <3>1 DEF server
  <2>3. CASE q.kind = "getBackups"
    <3>1. net' = [net EXCEPT ![s] = A(q.val, kept)] /\ UNCHANGED server
      BY <1>4, <2>3 DEF Serve, Changers
    <3>2. /\ A(q.val, kept) \in Requests
          /\ A(q.val, kept).kind = "getBackups" /\ A(q.val, kept).rows = kept
          /\ A(q.val, kept).at = "served"
      BY <1>2, <1>5, <2>3
    <3> HIDE DEF A
    <3> QED
      BY <1>2, <2>3, <3>1, <3>2 DEF server
  <2>4. ASSUME q.kind \in Changers, Handle(q, TRUE),
               net' = [net EXCEPT ![s] = A(q.val, q.rows)]
        PROVE  \E e \in Requests : Outcome(e)
    <3>1. /\ stored' \in Vals /\ kept' \subseteq Files
          /\ q.kind # "postSettings" => stored' = stored
          /\ q.kind = "postSettings" => q.val = stored'
      BY <1>1, <2>4, Handled
    <3>2. q.kind \notin {"getSettings", "getBackups"}
      BY <2>4 DEF Changers
    <3> QED
      BY <1>2, <1>5, <2>4, <3>1, <3>2
  <2>5. ASSUME q.kind \in Changers, Handle(q, FALSE), net' = [net EXCEPT ![s] = R]
        PROVE  \E e \in Requests : Outcome(e)
    <3>1. stored' \in Vals /\ kept' \subseteq Files /\ stored' = stored
      BY <1>1, <2>5, Handled
    <3> QED
      BY <1>2, <1>6, <2>5, <3>1
  <2>6. \/ q.kind \in Gets
        \/ /\ q.kind \in Changers /\ Handle(q, TRUE)
           /\ net' = [net EXCEPT ![s] = A(q.val, q.rows)]
        \/ q.kind \in Changers /\ Handle(q, FALSE) /\ net' = [net EXCEPT ![s] = R]
    BY <1>4 DEF Serve, Gets
  <2> QED
    BY <2>1, <2>2, <2>3, <2>4, <2>5, <2>6 DEF Gets
<1>8. PICK e \in Requests : Outcome(e)
  BY <1>7
<1>9. /\ net'[s] = e /\ \A r \in Slots \ {s} : net'[r] = net[r]
      /\ net' \in [Slots -> Requests \cup {Free}]
  BY <1>2, <1>8
<1>10. e # Free /\ e.kind \in Kinds
  BY <1>2, <1>8, FreeAssumption
<1>11. TabOf(e.kind) = "settings" => e.kind \in {"getSettings", "postSettings"}
  BY <1>10, KindsAndTabs
<1> QED
  BY <1>1, <1>8, <1>9, <1>10, <1>11

(* What is left of a request when the page goes on after it.               *)
LEMMA Continued ==
  ASSUME TypeOK, NEW s \in Slots, NEW ok \in BOOLEAN, Continue(s, ok)
  PROVE  /\ net[s] # Free /\ net[s] \in Requests /\ net[s].at # "left"
         /\ ok => net[s].at = "served"
         /\ UNCHANGED <<tab, stored, kept, crossed>>
         /\ net' \in [Slots -> Requests \cup {Free}]
         /\ \A r \in Slots \ {s} : net'[r] = net[r]
         /\ net'[s] # Free =>
              \/ /\ ok /\ net[s].kind \in {"restore", "delete"}
                 /\ net'[s].kind = "getBackups" /\ net'[s].at = "sent"
              \/ /\ ~ok /\ net[s].kind \in Changers /\ net[s].at = "sent"
                 /\ net'[s].kind = net[s].kind /\ net'[s].at = "left"
<1>1. /\ net[s] # Free /\ net[s] \in Requests /\ net \in [Slots -> Requests \cup {Free}]
      /\ net[s].at # "left"
  BY DEF Continue, TypeOK
<1> DEFINE q == net[s]
           left == [q EXCEPT !.at = "left"]
           again == ok /\ q.kind \in {"restore", "delete"}
           after == IF again THEN Request("getBackups", None)
                    ELSE IF Pending(s) THEN left ELSE Free
<1>2. net' = [net EXCEPT ![s] = after]
  BY DEF Continue
<1>3. /\ Request("getBackups", None) \in Requests
      /\ Request("getBackups", None).kind = "getBackups"
      /\ Request("getBackups", None).at = "sent"
  BY Requested DEF Kinds, Gets, Values
<1>4. left \in Requests /\ left.kind = q.kind /\ left.at = "left"
  BY <1>1 DEF Requests
<1>5. (ok => q.at = "served") /\ UNCHANGED <<tab, stored, kept, crossed>>
  BY DEF Continue, server
<1>6. Pending(s) => ~ok /\ q.kind \in Changers /\ q.at = "sent"
  BY <1>1, <1>5 DEF Pending
<1>7. after \in Requests \cup {Free}
  BY <1>3, <1>4
<1>8. after # Free =>
        \/ /\ ok /\ q.kind \in {"restore", "delete"}
           /\ after.kind = "getBackups" /\ after.at = "sent"
        \/ /\ ~ok /\ q.kind \in Changers /\ q.at = "sent"
           /\ after.kind = q.kind /\ after.at = "left"
  <2> HIDE DEF left
  <2>1. CASE again
    BY <1>3, <2>1
  <2>2. CASE ~again /\ Pending(s)
    BY <1>4, <1>6, <2>2
  <2>3. CASE ~again /\ ~Pending(s)
    BY <2>3
  <2> QED
    BY <2>1, <2>2, <2>3
<1> HIDE DEF after
<1>9. /\ net'[s] = after /\ \A r \in Slots \ {s} : net'[r] = net[r]
      /\ net' \in [Slots -> Requests \cup {Free}]
  BY <1>1, <1>2, <1>7
<1> QED
  BY <1>1, <1>5, <1>8, <1>9

(* What becomes of a request that the page has given up.                   *)
LEMMA LateHandled ==
  ASSUME TypeOK, NEW s \in Slots, Late(s)
  PROVE  /\ net[s] # Free /\ net[s] \in Requests /\ net[s].at = "left"
         /\ net'[s] = Free
         /\ net' \in [Slots -> Requests \cup {Free}]
         /\ \A r \in Slots \ {s} : net'[r] = net[r]
         /\ stored' \in Vals /\ kept' \subseteq Files
         /\ stored' # stored => net[s].kind = "postSettings"
         /\ kept' # kept => net[s].kind \in Changers
         /\ UNCHANGED <<tab, settings, logs, backups, crossed>>
<1>1. /\ net[s] # Free /\ net[s] \in Requests /\ net[s].at = "left"
      /\ net \in [Slots -> Requests \cup {Free}]
      /\ stored \in Vals /\ kept \subseteq Files
  BY DEF Late, TypeOK
<1>2. net' = [net EXCEPT ![s] = Free] /\ UNCHANGED <<tab, settings, logs, backups, crossed>>
  BY DEF Late
<1>3. /\ net'[s] = Free /\ \A r \in Slots \ {s} : net'[r] = net[r]
      /\ net' \in [Slots -> Requests \cup {Free}]
  BY <1>1, <1>2
<1>4. /\ stored' \in Vals /\ kept' \subseteq Files
      /\ stored' # stored => net[s].kind = "postSettings"
      /\ kept' # kept => net[s].kind \in Changers
  <2>1. ASSUME NEW ok \in BOOLEAN, Handle(net[s], ok)
        PROVE  /\ stored' \in Vals /\ kept' \subseteq Files
               /\ stored' # stored => net[s].kind = "postSettings"
               /\ kept' # kept => net[s].kind \in Changers
    BY <1>1, <2>1, Handled
  <2>2. CASE UNCHANGED server
    BY <1>1, <2>2 DEF server
  <2> QED
    BY <2>1, <2>2 DEF Late
<1> QED
  BY <1>1, <1>2, <1>3, <1>4

----------------------------------------------------------------------------
(* Types.                                                                  *)

LEMMA SendsTyped ==
  ASSUME TypeInv, Sends
  PROVE  /\ net' \in [Slots -> Requests \cup {Free}]
         /\ crossed' \subseteq TabNames
         /\ RequestsTyped'
<1>1. CASE AskNothing
  BY <1>1 DEF AskNothing, TypeInv, TypeOK, RequestsTyped, TabNames
<1>2. ASSUME NEW k \in Kinds, NEW v \in Values, Ask(k, v),
             k = "getLogs" => v \in Sources
      PROVE  /\ net' \in [Slots -> Requests \cup {Free}]
             /\ crossed' \subseteq TabNames
             /\ RequestsTyped'
  <2>1. PICK s \in Slots :
           /\ net[s] = Free /\ net'[s] = Request(k, v)
           /\ \A r \in Slots \ {s} : net'[r] = net[r]
           /\ net' \in [Slots -> Requests \cup {Free}]
    BY <1>2, AskFills DEF TypeInv
  <2>2. crossed' \subseteq TabNames
    BY <1>2, KindsAndTabs DEF Ask, TypeInv, TypeOK, TabNames
  <2>3. /\ Request(k, v).kind = k /\ Request(k, v).val = v
        /\ Request(k, v).at = "sent"
    BY Requested
  <2>4. RequestsTyped'
    BY <1>2, <2>1, <2>3 DEF RequestsTyped, TypeInv
  <2> QED
    BY <2>1, <2>2, <2>4
<1> QED
  BY <1>1, <1>2 DEF Sends

(* The form and the list, when an answer comes or none.                    *)
LEMMA AnsweredTyped ==
  ASSUME TypeInv, NEW s \in Slots, NEW ok \in BOOLEAN, Continue(s, ok)
  PROVE  TypeInv'
<1>1. /\ net[s] # Free /\ net[s] \in Requests
      /\ ok => net[s].at = "served"
      /\ UNCHANGED <<tab, stored, kept, crossed>>
      /\ net' \in [Slots -> Requests \cup {Free}]
      /\ \A r \in Slots \ {s} : net'[r] = net[r]
      /\ net'[s] # Free => /\ net'[s].kind # "getLogs"
                           /\ net'[s].at # "served"
  BY Continued DEF TypeInv, Changers
<1>2. RequestsTyped'
  <2>1. ASSUME NEW r \in Slots, net'[r] # Free
        PROVE  /\ net'[r].kind = "getLogs" => net'[r].val \in Sources
               /\ net'[r].at = "served" /\ TabOf(net'[r].kind) = "settings" =>
                    net'[r].val \in Vals
    <3>1. CASE r = s
      BY <1>1, <2>1, <3>1
    <3>2. CASE r # s
      BY <1>1, <2>1, <3>2 DEF TypeInv, RequestsTyped
    <3> QED
      BY <3>1, <3>2
  <2> QED
    BY <2>1 DEF RequestsTyped
<1>3. /\ net[s].kind \in Kinds /\ net[s].rows \subseteq Files
      /\ net[s].kind = "getLogs" => net[s].val \in Sources
      /\ ok /\ TabOf(net[s].kind) = "settings" => net[s].val \in Vals
  BY <1>1 DEF TypeInv, RequestsTyped, Requests
<1>4. CASE TabOf(net[s].kind) = "settings" /\ SettingsAnswered(net[s], ok)
  BY <1>1, <1>2, <1>3, <1>4
     DEF SettingsAnswered, settingsToForm, logs, backups, TypeInv, TypeOK
<1>5. CASE TabOf(net[s].kind) = "logs" /\ LogsAnswered(net[s], ok)
  <2>1. net[s].kind = "getLogs"
    BY <1>3, <1>5, KindsAndTabs
  <2> QED
    BY ZenonT(30), <1>1, <1>2, <1>3, <1>5, <2>1
       DEF LogsAnswered, settings, backups, TypeInv, TypeOK
<1>6. CASE TabOf(net[s].kind) = "backups" /\ BackupsAnswered(net[s], ok)
  BY ZenonT(30), <1>1, <1>2, <1>3, <1>6
     DEF BackupsAnswered, EndList, StartList, settings, logs, TypeInv, TypeOK
<1>7. CASE UNCHANGED <<settings, logs, backups>>
  BY ZenonT(30), <1>1, <1>2, <1>7 DEF settings, logs, backups, TypeInv, TypeOK
<1> QED
  BY <1>4, <1>5, <1>6, <1>7 DEF Continue

LEMMA TypeInvStays == TypeInv /\ [Next]_vars => TypeInv'
<1> SUFFICES ASSUME TypeInv, [Next]_vars PROVE TypeInv'
  OBVIOUS
<1> USE DEF TypeInv
<1>1. ASSUME User \/ \E t \in Timers : Tick(t)
      PROVE  TypeInv'
  <2>1. Sends
    BY <1>1, UserSends
  <2>2. /\ net' \in [Slots -> Requests \cup {Free}] /\ RequestsTyped'
        /\ crossed' \subseteq {"home", "settings", "logs", "backups"}
    BY <2>1, SendsTyped DEF TabNames
  <2>3. stored' \in Vals /\ kept' \subseteq Files
    BY <2>1 DEF Sends, server, TypeOK
  <2>4. ASSUME NEW t \in {"home", "settings", "logs", "backups"}, activateTab(t)
        PROVE  TypeOK'
    <3>1. /\ tab' = t /\ note' \in {note, ""}
          /\ \/ list' = list /\ state' = state
             \/ list' = {} /\ state' = "loading"
          /\ \/ UNCHANGED <<logsTimer, alive>>
             \/ logsTimer' = None /\ alive' = alive \ {logsTimer}
          /\ UNCHANGED <<form, edited, source, shown, said>>
      BY <2>4 DEF activateTab, StartList, setLogsAutoRefresh
    <3> QED
      BY ZenonT(30), <2>2, <2>3, <3>1 DEF TypeOK
  <2>5. ASSUME NEW v \in Vals, Type(v) PROVE TypeOK'
    BY <2>2, <2>3, <2>5 DEF Type, logs, backups, TypeOK
  <2>6. CASE loadSettings \/ saveSettings
    BY <2>2, <2>3, <2>6 DEF loadSettings, saveSettings, logs, backups, TypeOK
  <2>7. ASSUME NEW c \in Sources, chooseLogs(c) PROVE TypeOK'
    BY <2>2, <2>3, <2>7 DEF chooseLogs, settings, backups, TypeOK
  <2>8. ASSUME NEW on \in BOOLEAN, toggleAutoRefresh(on) PROVE TypeOK'
    <3>1. /\ logsTimer' \in Timers \cup {None} /\ alive' \subseteq Timers
      BY <2>8 DEF toggleAutoRefresh, setLogsAutoRefresh, TypeOK
    <3> QED
      BY <2>2, <2>3, <2>8, <3>1
         DEF toggleAutoRefresh, settings, backups, TypeOK
  <2>9. CASE loadBackups
    BY <2>2, <2>3, <2>9 DEF loadBackups, StartList, settings, logs, TypeOK
  <2>10. ASSUME NEW f \in Files, restoreBackup(f) \/ deleteBackup(f)
         PROVE  TypeOK'
    BY <2>2, <2>3, <2>10
       DEF restoreBackup, deleteBackup, settings, logs, backups, TypeOK
  <2>11. ASSUME NEW t \in Timers, Tick(t) PROVE TypeOK'
    BY <2>2, <2>3, <2>11 DEF Tick, settings, logs, backups, TypeOK
  <2>12. CASE doApply
    BY <2>2, <2>3, <2>12 DEF doApply, settings, logs, backups, TypeOK
  <2> QED
    BY <1>1, <2>2, <2>4, <2>5, <2>6, <2>7, <2>8, <2>9, <2>10, <2>11, <2>12 DEF User
<1>2. ASSUME NEW s \in Slots, Serve(s) PROVE TypeInv'
  <2>1. /\ net[s] # Free
        /\ net'[s].kind = net[s].kind
        /\ \A r \in Slots \ {s} : net'[r] = net[r]
        /\ net' \in [Slots -> Requests \cup {Free}]
        /\ stored' \in Vals /\ kept' \subseteq Files
        /\ net'[s].at = "served" /\ TabOf(net'[s].kind) = "settings" =>
             net'[s].val \in Vals
        /\ net'[s].kind = "getLogs" => net'[s].val = net[s].val
    BY <1>2, Served
  <2>2. RequestsTyped'
    BY <2>1 DEF RequestsTyped
  <2>3. UNCHANGED <<tab, settings, logs, backups, crossed>>
    BY <1>2 DEF Serve
  <2> QED
    BY ZenonT(30), <2>1, <2>2, <2>3 DEF settings, logs, backups, TypeOK
<1>3. ASSUME NEW s \in Slots, NEW ok \in BOOLEAN, Continue(s, ok) PROVE TypeInv'
  BY <1>3, AnsweredTyped
<1>4. ASSUME NEW s \in Slots, Late(s) PROVE TypeInv'
  <2>1. /\ net'[s] = Free /\ \A r \in Slots \ {s} : net'[r] = net[r]
        /\ net' \in [Slots -> Requests \cup {Free}]
        /\ stored' \in Vals /\ kept' \subseteq Files
        /\ UNCHANGED <<tab, settings, logs, backups, crossed>>
    BY <1>4, LateHandled
  <2>2. RequestsTyped'
    BY <2>1 DEF RequestsTyped
  <2> QED
    BY ZenonT(30), <2>1, <2>2 DEF settings, logs, backups, TypeOK
<1>5. CASE UNCHANGED vars
  BY ZenonT(30), <1>5 DEF vars, TypeOK, RequestsTyped
<1> QED
  BY <1>1, <1>2, <1>3, <1>4, <1>5 DEF Next, Machine

----------------------------------------------------------------------------
(* The timer.                                                              *)

LEMMA OneTimerStays ==
  ASSUME TypeOK, OneTimer, [Next]_vars
  PROVE  OneTimer'
<1>1. None \notin Timers /\ alive \subseteq Timers /\ logsTimer \in Timers \cup {None}
  BY TabsAssumption DEF TypeOK
<1>2. alive \ {logsTimer} = {}
  BY DEF OneTimer
<1>3. ASSUME NEW t \in {"home", "settings", "logs", "backups"}, activateTab(t)
      PROVE  OneTimer'
  <2>1. CASE t = "logs"
    BY <1>3, <2>1 DEF activateTab, OneTimer
  <2>2. CASE t # "logs"
    BY <1>2, <1>3, <2>2 DEF activateTab, setLogsAutoRefresh, OneTimer
  <2> QED
    BY <2>1, <2>2
<1>4. ASSUME NEW on \in BOOLEAN, toggleAutoRefresh(on) PROVE OneTimer'
  <2>1. tab' = "logs"
    BY <1>4 DEF toggleAutoRefresh
  <2>2. CASE on
    <3>1. PICK t \in Timers : logsTimer' = t /\ alive' = {t}
      BY <1>2, <1>4, <2>2 DEF toggleAutoRefresh, setLogsAutoRefresh
    <3> QED
      BY <1>1, <2>1, <3>1 DEF OneTimer
  <2>3. CASE ~on
    BY <1>2, <1>4, <2>1, <2>3 DEF toggleAutoRefresh, setLogsAutoRefresh, OneTimer
  <2> QED
    BY <2>2, <2>3
<1>5. ASSUME UNCHANGED <<tab, logsTimer, alive>> PROVE OneTimer'
  BY <1>5 DEF OneTimer
<1>6. ASSUME NEW v \in Vals, Type(v) PROVE OneTimer'
  BY <1>5, <1>6 DEF Type, logs
<1>7. CASE loadSettings \/ saveSettings \/ loadBackups
  BY <1>5, <1>7 DEF loadSettings, saveSettings, loadBackups, logs
<1>8. ASSUME NEW c \in Sources, chooseLogs(c) PROVE OneTimer'
  BY <1>5, <1>8 DEF chooseLogs
<1>9. ASSUME NEW f \in Files, restoreBackup(f) \/ deleteBackup(f) PROVE OneTimer'
  BY <1>5, <1>9 DEF restoreBackup, deleteBackup, logs
<1>10. ASSUME NEW t \in Timers, Tick(t) PROVE OneTimer'
  BY <1>5, <1>10 DEF Tick, logs
<1>11. ASSUME NEW s \in Slots, Serve(s) PROVE OneTimer'
  BY <1>5, <1>11 DEF Serve, logs
<1>12. ASSUME NEW s \in Slots, NEW ok \in BOOLEAN, Continue(s, ok) PROVE OneTimer'
  BY <1>5, <1>12 DEF Continue, SettingsAnswered, LogsAnswered, BackupsAnswered, logs
<1>13. ASSUME NEW s \in Slots, Late(s) PROVE OneTimer'
  BY <1>5, <1>13 DEF Late, logs
<1>14. CASE doApply
  BY <1>5, <1>14 DEF doApply, logs
<1>15. CASE UNCHANGED vars
  BY <1>5, <1>15 DEF vars
<1> QED
  BY <1>3, <1>4, <1>6, <1>7, <1>8, <1>9, <1>10, <1>11, <1>12, <1>13, <1>14, <1>15
     DEF Next, User, Machine

----------------------------------------------------------------------------
(* Overlaps.                                                               *)

(* What asking for something means for the tabs: the tab asked for has a   *)
(* request, and if it had none before it is its only one.                  *)
LEMMA AskOverlaps ==
  ASSUME TypeOK, NEW k \in Kinds, NEW v \in Values, Ask(k, v)
  PROVE  \E s \in Slots :
           /\ net'[s] # Free /\ net'[s].kind = k /\ net'[s].at = "sent"
           /\ \A r \in Slots \ {s} : net'[r] = net[r]
           /\ net[s] = Free
           /\ Busy(TabOf(k))'
           /\ TabOf(k) \notin crossed' => ~Concerned(TabOf(k)) /\ ~Busy(TabOf(k))
           /\ \A t \in TabNames \ {TabOf(k)} :
                /\ Busy(t)' <=> Busy(t)
                /\ t \in crossed' <=> t \in crossed
<1>1. PICK s \in Slots :
         /\ net[s] = Free /\ net'[s] = Request(k, v)
         /\ \A r \in Slots \ {s} : net'[r] = net[r]
  BY AskFills
<1>2. net'[s] # Free /\ net'[s].kind = k /\ net'[s].at = "sent"
  BY <1>1, Requested
<1>3. Busy(TabOf(k))'
  BY <1>2 DEF Busy
<1>4. /\ TabOf(k) \notin crossed' => ~Concerned(TabOf(k)) /\ ~Busy(TabOf(k))
      /\ \A t \in TabNames \ {TabOf(k)} : t \in crossed' <=> t \in crossed
  BY DEF Ask, Concerned
<1>5. ASSUME NEW t \in TabNames \ {TabOf(k)} PROVE Busy(t)' <=> Busy(t)
  BY <1>1, <1>2 DEF Busy
<1> QED
  BY <1>1, <1>2, <1>3, <1>4, <1>5

(* What follows a request is one of the same tab.                          *)
LEMMA ContinuedTab ==
  ASSUME TypeOK, NEW s \in Slots, NEW ok \in BOOLEAN, Continue(s, ok),
         net'[s] # Free
  PROVE  TabOf(net'[s].kind) = TabOf(net[s].kind)
<1>1. \/ net[s].kind \in {"restore", "delete"} /\ net'[s].kind = "getBackups"
      \/ net'[s].kind = net[s].kind
  BY Continued
<1> QED
  BY <1>1, KindsAndTabs DEF Kinds, Gets, Changers

LEMMA OneAtATimeStays ==
  ASSUME TypeOK, OneAtATime, [Next]_vars
  PROVE  OneAtATime'
<1>1. ASSUME crossed' = crossed,
             \A r \in Slots, t \in TabNames : Asked(r, t)' => Asked(r, t)
      PROVE  OneAtATime'
  BY <1>1 DEF OneAtATime
<1>2. ASSUME NEW k \in Kinds, NEW v \in Values, Ask(k, v) PROVE OneAtATime'
  <2>1. PICK z \in Slots :
           /\ net'[z] # Free /\ net'[z].kind = k
           /\ \A r \in Slots \ {z} : net'[r] = net[r]
           /\ TabOf(k) \notin crossed' => ~Busy(TabOf(k))
           /\ \A t \in TabNames \ {TabOf(k)} : t \in crossed' <=> t \in crossed
    BY <1>2, AskOverlaps
  <2>2. ASSUME NEW t \in TabNames \ crossed', NEW r \in Slots, NEW s \in Slots,
               Asked(r, t)', Asked(s, t)'
        PROVE  r = s
    <3>1. CASE t = TabOf(k)
      <4>1. \A i \in Slots : ~Asked(i, t)
        BY <2>1, <2>2, <3>1 DEF Busy, Asked
      <4>2. \A i \in Slots \ {z} : ~Asked(i, t)'
        BY <2>1, <4>1 DEF Asked
      <4> QED
        BY <2>2, <4>2
    <3>2. CASE t # TabOf(k)
      <4>1. t \in TabNames \ crossed /\ ~Asked(z, t)'
        BY <2>1, <2>2, <3>2 DEF Asked
      <4>2. Asked(r, t) /\ Asked(s, t)
        BY <2>1, <2>2, <4>1 DEF Asked
      <4> QED
        BY <4>1, <4>2 DEF OneAtATime
    <3> QED
      BY <3>1, <3>2
  <2> QED
    BY <2>2 DEF OneAtATime
<1>3. ASSUME User \/ \E t \in Timers : Tick(t) PROVE OneAtATime'
  <2>1. Sends
    BY <1>3, UserSends
  <2>2. CASE AskNothing
    BY <1>1, <2>2 DEF AskNothing, Asked
  <2> QED
    BY <1>2, <2>1, <2>2 DEF Sends
<1>4. ASSUME NEW s \in Slots, Serve(s) PROVE OneAtATime'
  <2>1. /\ net[s] # Free /\ net'[s].kind = net[s].kind
        /\ \A r \in Slots \ {s} : net'[r] = net[r]
    BY <1>4, Served
  <2>2. crossed' = crossed
    BY <1>4 DEF Serve
  <2> QED
    BY <1>1, <2>1, <2>2 DEF Asked
<1>5. ASSUME NEW s \in Slots, NEW ok \in BOOLEAN, Continue(s, ok)
      PROVE  OneAtATime'
  <2>1. /\ net[s] # Free /\ crossed' = crossed
        /\ \A r \in Slots \ {s} : net'[r] = net[r]
    BY <1>5, Continued
  <2>2. net'[s] # Free => TabOf(net'[s].kind) = TabOf(net[s].kind)
    BY <1>5, ContinuedTab
  <2> QED
    BY <1>1, <2>1, <2>2 DEF Asked
<1>6. ASSUME NEW s \in Slots, Late(s) PROVE OneAtATime'
  <2>1. net'[s] = Free /\ \A r \in Slots \ {s} : net'[r] = net[r]
    BY <1>6, LateHandled
  <2>2. crossed' = crossed
    BY <1>6 DEF Late
  <2> QED
    BY <1>1, <2>1, <2>2 DEF Asked
<1>7. CASE UNCHANGED vars
  BY <1>1, <1>7 DEF vars, Asked
<1> QED
  BY <1>3, <1>4, <1>5, <1>6, <1>7 DEF Next, Machine

----------------------------------------------------------------------------
(* Answers.                                                                *)

(* While the list of backups is open and its requests did not overlap with *)
(* others, only they change what it shows.                                 *)
LEMMA OnlyItsOwn ==
  ASSUME TypeOK, NoneElsewhere, tab = "backups", "backups" \notin crossed,
         NEW s \in Slots, Serve(s) \/ Late(s), kept' # kept
  PROVE  Asked(s, "backups")
<1>1. /\ net[s] # Free /\ net[s].kind \in Changers /\ net[s].at \in {"sent", "left"}
  BY Served, LateHandled
<1> QED
  BY <1>1 DEF NoneElsewhere, Pending, Asked

LEMMA AnswersTrueStay ==
  ASSUME TypeOK, OneAtATime, NoneElsewhere, AnswersTrue, [Next]_vars
  PROVE  AnswersTrue'
<1> DEFINE True(r) ==
      net[r] # Free /\ net[r].at = "served" =>
        /\ TabOf(net[r].kind) = "settings" /\ "settings" \notin crossed =>
             net[r].val = stored
        /\ net[r].kind = "getBackups" /\ tab = "backups" /\ "backups" \notin crossed =>
             net[r].rows = kept
<1>1. {"settings", "backups"} \subseteq TabNames
  BY DEF TabNames
<1>2. \A k : k = "getBackups" => TabOf(k) = "backups"
  BY DEF TabOf
<1>3. ASSUME NEW k \in Kinds, NEW v \in Values, Ask(k, v), UNCHANGED server,
             tab' = "backups" => TabOf(k) = "backups" \/ tab = "backups"
      PROVE  AnswersTrue'
  <2>1. PICK s \in Slots :
           /\ net'[s].at = "sent"
           /\ \A r \in Slots \ {s} : net'[r] = net[r]
           /\ TabOf(k) \notin crossed' => ~Busy(TabOf(k))
           /\ \A t \in TabNames \ {TabOf(k)} : t \in crossed' <=> t \in crossed
    BY <1>3, AskOverlaps
  <2>2. ASSUME NEW r \in Slots, r # s, NEW t \in TabNames \ crossed',
               net'[r] # Free, TabOf(net'[r].kind) = t
        PROVE  t \notin crossed /\ TabOf(k) # t
    BY <2>1, <2>2 DEF Busy
  <2>3. stored' = stored /\ kept' = kept
    BY <1>3 DEF server
  <2>4. ASSUME NEW r \in Slots PROVE True(r)'
    <3>1. CASE r = s
      BY <2>1, <3>1
    <3>2. CASE r # s
      <4>1. True(r) /\ net'[r] = net[r]
        BY <2>1, <3>2 DEF AnswersTrue
      <4>2. /\ net'[r] # Free /\ TabOf(net'[r].kind) = "settings"
                 /\ "settings" \notin crossed' => "settings" \notin crossed
            /\ net'[r] # Free /\ net'[r].kind = "getBackups" /\ tab' = "backups"
                 /\ "backups" \notin crossed' => tab = "backups" /\ "backups" \notin crossed
        BY <1>1, <1>2, <1>3, <2>2, <3>2
      <4> QED
        BY <2>3, <4>1, <4>2
    <3> QED
      BY <3>1, <3>2
  <2> QED
    BY <2>4 DEF AnswersTrue
<1>4. ASSUME User \/ \E t \in Timers : Tick(t) PROVE AnswersTrue'
  <2>1. Sends
    BY <1>4, UserSends
  <2>2. CASE /\ AskNothing /\ UNCHANGED server
             /\ tab' = "backups" => tab = "backups"
    BY <2>2 DEF AskNothing, server, AnswersTrue
  <2> QED
    BY <1>3, <2>1, <2>2 DEF Sends
<1>5. ASSUME NEW s \in Slots, Serve(s) \/ Late(s) PROVE AnswersTrue'
  <2>1. /\ net[s] # Free /\ net[s] \in Requests
        /\ \A r \in Slots \ {s} : net'[r] = net[r]
        /\ stored' # stored => net[s].kind = "postSettings"
        /\ net'[s] # Free /\ net'[s].at = "served" =>
             /\ TabOf(net'[s].kind) = "settings" => net'[s].val = stored'
             /\ net'[s].kind = "getBackups" => net'[s].rows = kept'
    BY <1>5, Served, LateHandled
  <2>2. crossed' = crossed /\ tab' = tab
    BY <1>5 DEF Serve, Late
  <2>3. /\ stored' # stored => Asked(s, "settings")
        /\ kept' # kept /\ tab = "backups" /\ "backups" \notin crossed =>
             Asked(s, "backups")
    BY <1>5, <2>1, KindsAndTabs, OnlyItsOwn DEF Asked, Requests
  <2>4. ASSUME NEW r \in Slots PROVE True(r)'
    <3>1. CASE r = s
      BY <2>1, <3>1
    <3>2. CASE r # s
      <4>1. True(r) /\ net'[r] = net[r]
        BY <2>1, <3>2 DEF AnswersTrue
      <4>2. /\ Asked(r, "settings") /\ "settings" \notin crossed => stored' = stored
            /\ Asked(r, "backups") /\ tab = "backups" /\ "backups" \notin crossed =>
                 kept' = kept
        BY <1>1, <2>3, <3>2 DEF OneAtATime
      <4>3. /\ net[r] # Free /\ TabOf(net[r].kind) = "settings" => Asked(r, "settings")
            /\ net[r] # Free /\ net[r].kind = "getBackups" => Asked(r, "backups")
        BY <1>2 DEF Asked
      <4> QED
        BY <2>2, <4>1, <4>2, <4>3
    <3> QED
      BY <3>1, <3>2
  <2> QED
    BY <2>4 DEF AnswersTrue
<1>6. ASSUME NEW s \in Slots, NEW ok \in BOOLEAN, Continue(s, ok)
      PROVE  AnswersTrue'
  <2>1. /\ UNCHANGED <<tab, stored, kept, crossed>>
        /\ \A r \in Slots \ {s} : net'[r] = net[r]
        /\ net'[s] # Free => net'[s].at # "served"
    BY <1>6, Continued
  <2> QED
    BY <2>1 DEF AnswersTrue
<1>7. CASE UNCHANGED vars
  BY <1>7 DEF vars, AnswersTrue
<1> QED
  BY <1>4, <1>5, <1>6, <1>7 DEF Next, Machine

LEMMA NoneElsewhereStays ==
  ASSUME TypeOK, NoneElsewhere, [Next]_vars
  PROVE  NoneElsewhere'
<1>1. ASSUME UNCHANGED crossed, tab' = "backups" => tab = "backups",
             \A r \in Slots : Pending(r)' =>
               Pending(r) /\ TabOf(net'[r].kind) = TabOf(net[r].kind)
      PROVE  NoneElsewhere'
  BY <1>1 DEF NoneElsewhere
<1>2. ASSUME NEW k \in Kinds, NEW v \in Values, Ask(k, v),
             tab' = "backups" =>
               TabOf(k) = "backups" \/ (tab = "backups" /\ k = "getLogs")
      PROVE  NoneElsewhere'
  <2>1. PICK s \in Slots :
           /\ net'[s] # Free /\ net'[s].kind = k
           /\ \A r \in Slots \ {s} : net'[r] = net[r]
           /\ TabOf(k) \notin crossed' => ~Concerned(TabOf(k))
           /\ \A t \in TabNames \ {TabOf(k)} : t \in crossed' <=> t \in crossed
    BY <1>2, AskOverlaps
  <2>2. ASSUME NEW r \in Slots, Pending(r)', tab' = "backups", "backups" \notin crossed'
        PROVE  TabOf(net'[r].kind) = "backups"
    <3>1. r # s => Pending(r) /\ net'[r] = net[r]
      BY <2>1, <2>2 DEF Pending
    <3>2. CASE TabOf(k) = "backups"
      BY <2>1, <2>2, <3>1, <3>2 DEF Concerned
    <3>3. CASE tab = "backups" /\ k = "getLogs"
      <4>1. r # s
        BY <2>1, <2>2, <3>3 DEF Pending, Changers
      <4>2. "backups" \in TabNames /\ TabOf(k) # "backups"
        BY <3>3 DEF TabNames, TabOf
      <4>3. "backups" \notin crossed
        BY <2>1, <2>2, <4>2
      <4> QED
        BY <3>1, <3>3, <4>1, <4>3 DEF NoneElsewhere
    <3> QED
      BY <1>2, <2>2, <3>2, <3>3
  <2> QED
    BY <2>2 DEF NoneElsewhere
<1>3. ASSUME User \/ \E t \in Timers : Tick(t) PROVE NoneElsewhere'
  <2>1. Sends
    BY <1>3, UserSends
  <2>2. CASE AskNothing /\ (tab' = "backups" => tab = "backups")
    BY <1>1, <2>2 DEF AskNothing, Pending
  <2> QED
    BY <1>2, <2>1, <2>2 DEF Sends
<1>4. ASSUME NEW s \in Slots, Serve(s) \/ Late(s) PROVE NoneElsewhere'
  <2>1. /\ \A r \in Slots \ {s} : net'[r] = net[r]
        /\ net'[s] # Free => net'[s].at \in {"served", "refused"}
    BY <1>4, Served, LateHandled
  <2>2. crossed' = crossed /\ tab' = tab
    BY <1>4 DEF Serve, Late
  <2> QED
    BY <1>1, <2>1, <2>2 DEF Pending
<1>5. ASSUME NEW s \in Slots, NEW ok \in BOOLEAN, Continue(s, ok)
      PROVE  NoneElsewhere'
  <2>1. /\ net[s] # Free /\ UNCHANGED <<tab, crossed>>
        /\ \A r \in Slots \ {s} : net'[r] = net[r]
        /\ net'[s] # Free =>
             \/ net'[s].kind = "getBackups"
             \/ net[s].kind \in Changers /\ net[s].at = "sent" /\ net'[s].kind = net[s].kind
    BY <1>5, Continued
  <2> QED
    BY <1>1, <2>1 DEF Pending, Changers
<1>6. CASE UNCHANGED vars
  BY <1>1, <1>6 DEF vars, Pending
<1> QED
  BY <1>3, <1>4, <1>5, <1>6 DEF Next, Machine

LEMMA LeftToldStays ==
  ASSUME TypeOK, OneAtATime, LeftTold, [Next]_vars
  PROVE  LeftTold'
<1> DEFINE Told(r) ==
      net[r] # Free /\ net[r].at = "left" =>
        /\ TabOf(net[r].kind) = "settings" /\ "settings" \notin crossed =>
             note = "failed"
        /\ TabOf(net[r].kind) = "backups" /\ "backups" \notin crossed =>
             said = "failed"
<1>1. {"settings", "backups"} \subseteq TabNames
  BY DEF TabNames
<1>2. ASSUME NEW k \in Kinds, NEW v \in Values, Ask(k, v),
             note' = note \/ TabOf(k) = "settings",
             said' = said \/ TabOf(k) = "backups"
      PROVE  LeftTold'
  <2>1. PICK s \in Slots :
           /\ net'[s].at = "sent"
           /\ \A r \in Slots \ {s} : net'[r] = net[r]
           /\ TabOf(k) \notin crossed' => ~Busy(TabOf(k))
           /\ \A t \in TabNames \ {TabOf(k)} : t \in crossed' <=> t \in crossed
    BY <1>2, AskOverlaps
  <2>2. ASSUME NEW r \in Slots, r # s, NEW t \in TabNames \ crossed',
               net'[r] # Free, TabOf(net'[r].kind) = t
        PROVE  t \notin crossed /\ TabOf(k) # t
    BY <2>1, <2>2 DEF Busy
  <2>3. ASSUME NEW r \in Slots PROVE Told(r)'
    <3>1. CASE r = s
      BY <2>1, <3>1
    <3>2. CASE r # s
      <4>1. Told(r) /\ net'[r] = net[r]
        BY <2>1, <3>2 DEF LeftTold
      <4>2. /\ net'[r] # Free /\ TabOf(net'[r].kind) = "settings"
                 /\ "settings" \notin crossed' => "settings" \notin crossed /\ note' = note
            /\ net'[r] # Free /\ TabOf(net'[r].kind) = "backups"
                 /\ "backups" \notin crossed' => "backups" \notin crossed /\ said' = said
        BY <1>1, <1>2, <2>2, <3>2
      <4> QED
        BY <4>1, <4>2
    <3> QED
      BY <3>1, <3>2
  <2> QED
    BY <2>3 DEF LeftTold
<1>3. ASSUME User \/ \E t \in Timers : Tick(t) PROVE LeftTold'
  <2>1. Sends
    BY <1>3, UserSends
  <2>2. CASE AskNothing /\ UNCHANGED <<note, said>>
    BY <2>2 DEF AskNothing, LeftTold
  <2> QED
    BY <1>2, <2>1, <2>2 DEF Sends
<1>4. ASSUME NEW s \in Slots, Serve(s) \/ Late(s) PROVE LeftTold'
  <2>1. /\ \A r \in Slots \ {s} : net'[r] = net[r]
        /\ net'[s] # Free => net'[s].at \in {"served", "refused"}
    BY <1>4, Served, LateHandled
  <2>2. UNCHANGED <<crossed, note, said>>
    BY <1>4 DEF Serve, Late, settings, backups
  <2> QED
    BY <2>1, <2>2 DEF LeftTold
<1>5. ASSUME NEW s \in Slots, NEW ok \in BOOLEAN, Continue(s, ok)
      PROVE  LeftTold'
  <2>1. /\ net[s] # Free /\ net[s].at # "left" /\ crossed' = crossed
        /\ \A r \in Slots \ {s} : net'[r] = net[r]
        /\ net'[s] # Free /\ net'[s].at = "left" => ~ok
    BY <1>5, Continued
  <2>2. net'[s] # Free => TabOf(net'[s].kind) = TabOf(net[s].kind)
    BY <1>5, ContinuedTab
  <2>3. /\ TabOf(net[s].kind) # "settings" => note' = note
        /\ TabOf(net[s].kind) # "backups" => said' = said
    BY <1>5 DEF Continue, SettingsAnswered, LogsAnswered, BackupsAnswered,
                settings, logs, backups
  <2>4. ~ok => /\ TabOf(net[s].kind) = "settings" => note' = "failed"
               /\ TabOf(net[s].kind) = "backups" => said' = "failed"
    BY <1>5 DEF Continue, SettingsAnswered, BackupsAnswered
  <2>5. ASSUME NEW r \in Slots PROVE Told(r)'
    <3>1. CASE r = s
      BY <2>1, <2>2, <2>4, <3>1
    <3>2. CASE r # s
      <4>1. Told(r) /\ net'[r] = net[r]
        BY <2>1, <3>2 DEF LeftTold
      <4>2. /\ net[r] # Free /\ TabOf(net[r].kind) = "settings"
                 /\ "settings" \notin crossed => TabOf(net[s].kind) # "settings"
            /\ net[r] # Free /\ TabOf(net[r].kind) = "backups"
                 /\ "backups" \notin crossed => TabOf(net[s].kind) # "backups"
        BY <1>1, <2>1, <3>2 DEF OneAtATime, Asked
      <4> QED
        BY <2>1, <2>3, <4>1, <4>2
    <3> QED
      BY <3>1, <3>2
  <2> QED
    BY <2>5 DEF LeftTold
<1>6. CASE UNCHANGED vars
  BY <1>6 DEF vars, LeftTold
<1> QED
  BY <1>3, <1>4, <1>5, <1>6 DEF Next, Machine

----------------------------------------------------------------------------
(* Tabs that are quiet and look up to date.                                *)

(* Nothing happens to the requests of tab t and to what may have become of *)
(* them.                                                                   *)
Undisturbed(t) == (Busy(t)' <=> Busy(t)) /\ (t \in crossed' <=> t \in crossed)

(* Whatever is clicked: a tab gets a request, or is not disturbed.         *)
LEMMA AskedOrNot ==
  ASSUME TypeOK, Sends, NEW t \in TabNames
  PROVE  Busy(t)' \/ Undisturbed(t)
<1>1. CASE AskNothing
  BY <1>1 DEF AskNothing, Undisturbed, Busy
<1>2. ASSUME NEW k \in Kinds, NEW v \in Values, Ask(k, v)
      PROVE  Busy(t)' \/ Undisturbed(t)
  BY <1>2, AskOverlaps DEF Undisturbed
<1> QED
  BY <1>1, <1>2 DEF Sends

LEMMA AskedIsBusy ==
  ASSUME TypeOK, NEW k \in Kinds, NEW v \in Values, Ask(k, v)
  PROVE  Busy(TabOf(k))'
BY AskOverlaps

(* The server answers in place.                                            *)
LEMMA ServeDisturbsNone ==
  ASSUME TypeOK, NEW s \in Slots, Serve(s), NEW t \in TabNames
  PROVE  /\ Undisturbed(t)
         /\ stored' # stored => Busy("settings")'
         /\ Asked(s, "backups") => Busy("backups")'
<1>1. /\ net[s] # Free /\ net'[s] # Free
      /\ net[s] \in Requests /\ net'[s].kind = net[s].kind
      /\ \A r \in Slots \ {s} : net'[r] = net[r]
      /\ net'[s].kind # "postSettings" => stored' = stored
  BY Served
<1>2. crossed' = crossed
  BY DEF Serve
<1>3. stored' # stored => TabOf(net'[s].kind) = "settings"
  BY <1>1 DEF TabOf
<1> QED
  BY <1>1, <1>2, <1>3 DEF Undisturbed, Busy, Asked

(* The end of a request that was given up concerns its own tab.            *)
LEMMA LateDisturbsOne ==
  ASSUME TypeOK, NEW s \in Slots, Late(s),
         NEW t \in TabNames, TabOf(net[s].kind) # t
  PROVE  Undisturbed(t)
<1>1. /\ net[s] # Free /\ net'[s] = Free
      /\ \A r \in Slots \ {s} : net'[r] = net[r]
  BY LateHandled
<1>2. crossed' = crossed
  BY DEF Late
<1> QED
  BY <1>1, <1>2 DEF Undisturbed, Busy

(* The end of a request concerns its own tab.                              *)
LEMMA ContinueDisturbsOne ==
  ASSUME TypeOK, NEW s \in Slots, NEW ok \in BOOLEAN, Continue(s, ok),
         NEW t \in TabNames, TabOf(net[s].kind) # t
  PROVE  Undisturbed(t)
<1>1. /\ net[s] # Free /\ crossed' = crossed
      /\ \A r \in Slots \ {s} : net'[r] = net[r]
  BY Continued
<1>2. net'[s] # Free => TabOf(net'[s].kind) = TabOf(net[s].kind)
  BY ContinuedTab
<1> QED
  BY <1>1, <1>2 DEF Undisturbed, Busy

LEMMA FormTrueStays ==
  ASSUME TypeOK, AnswersTrue, LeftTold, FormTrue, [Next]_vars
  PROVE  FormTrue'
<1>0. "settings" \in TabNames
  BY DEF TabNames
<1>1. ASSUME Busy("settings")' PROVE FormTrue'
  BY <1>1 DEF FormTrue
<1>2. ASSUME Undisturbed("settings"), UNCHANGED <<form, edited, note, stored>>
      PROVE  FormTrue'
  BY <1>2 DEF FormTrue, Undisturbed
<1>3. ASSUME User \/ \E t \in Timers : Tick(t) PROVE FormTrue'
  <2>1. Sends /\ UNCHANGED stored
    BY <1>3, UserSends DEF Sends, server
  <2>2. Busy("settings")' \/ Undisturbed("settings")
    BY <1>0, <2>1, AskedOrNot
  <2>3. ASSUME UNCHANGED settings PROVE FormTrue'
    BY <1>1, <1>2, <2>1, <2>2, <2>3 DEF settings
  <2>4. /\ {"getSettings", "postSettings"} \subseteq Kinds
        /\ None \in Values /\ form \in Values
    BY DEF Kinds, Gets, Changers, Values, TypeOK
  <2>5. /\ TabOf("getSettings") = "settings" /\ TabOf("postSettings") = "settings"
    BY DEF TabOf
  <2>6. ASSUME Ask("getSettings", None) \/ Ask("postSettings", form)
        PROVE  FormTrue'
    <3>1. Busy("settings")'
      BY <2>4, <2>5, <2>6, AskedIsBusy
    <3> QED
      BY <1>1, <3>1
  <2>7. ASSUME NEW t \in {"home", "settings", "logs", "backups"}, activateTab(t)
        PROVE  FormTrue'
    <3>1. CASE t = "settings"
      BY <2>6, <2>7, <3>1 DEF activateTab
    <3>2. CASE t # "settings"
      BY <2>3, <2>7, <3>2 DEF activateTab, settings
    <3> QED
      BY <3>1, <3>2
  <2>8. ASSUME NEW v \in Vals, Type(v) PROVE FormTrue'
    BY <2>8 DEF Type, FormTrue
  <2>9. CASE loadSettings \/ saveSettings
    BY <2>6, <2>9 DEF loadSettings, saveSettings
  <2>10. ASSUME NEW c \in Sources, chooseLogs(c) PROVE FormTrue'
    BY <2>3, <2>10 DEF chooseLogs
  <2>11. ASSUME NEW on \in BOOLEAN, toggleAutoRefresh(on) PROVE FormTrue'
    BY <2>3, <2>11 DEF toggleAutoRefresh
  <2>12. CASE loadBackups
    BY <2>3, <2>12 DEF loadBackups
  <2>13. ASSUME NEW f \in Files, restoreBackup(f) \/ deleteBackup(f)
         PROVE  FormTrue'
    BY <2>3, <2>13 DEF restoreBackup, deleteBackup
  <2>14. ASSUME NEW t \in Timers, Tick(t) PROVE FormTrue'
    BY <2>3, <2>14 DEF Tick
  <2>15. CASE doApply
    BY <2>3, <2>15 DEF doApply
  <2> QED
    BY <1>3, <2>7, <2>8, <2>9, <2>10, <2>11, <2>12, <2>13, <2>14, <2>15 DEF User
<1>4. ASSUME NEW s \in Slots, Serve(s) PROVE FormTrue'
  <2>1. Undisturbed("settings") /\ (stored' # stored => Busy("settings")')
    BY <1>0, <1>4, ServeDisturbsNone
  <2>2. UNCHANGED settings
    BY <1>4 DEF Serve
  <2> QED
    BY <1>1, <1>2, <2>1, <2>2 DEF settings
<1>5. ASSUME NEW s \in Slots, NEW ok \in BOOLEAN, Continue(s, ok)
      PROVE  FormTrue'
  <2>1. /\ net[s] # Free /\ net[s] \in Requests
        /\ ok => net[s].at = "served"
        /\ UNCHANGED <<stored, crossed>>
    BY <1>5, Continued
  <2>2. CASE TabOf(net[s].kind) = "settings"
    <3>1. SettingsAnswered(net[s], ok)
      BY <1>5, <2>2 DEF Continue
    <3>2. CASE ok
      <4>1. form' = net[s].val
        BY <3>1, <3>2 DEF SettingsAnswered, settingsToForm
      <4>2. "settings" \notin crossed => net[s].val = stored
        BY <2>1, <2>2, <3>2 DEF AnswersTrue
      <4> QED
        BY <2>1, <4>1, <4>2 DEF FormTrue
    <3>3. CASE ~ok
      <4>1. note' = "failed"
        BY <3>1, <3>3 DEF SettingsAnswered
      <4> QED
        BY <4>1 DEF FormTrue
    <3> QED
      BY <3>2, <3>3
  <2>3. CASE TabOf(net[s].kind) # "settings"
    <3>1. UNCHANGED settings
      BY <1>5, <2>3 DEF Continue, LogsAnswered, BackupsAnswered
    <3>2. Undisturbed("settings")
      BY <1>0, <1>5, <2>3, ContinueDisturbsOne
    <3> QED
      BY <1>2, <2>1, <3>1, <3>2 DEF settings
  <2> QED
    BY <2>2, <2>3
<1>6. ASSUME NEW s \in Slots, Late(s) PROVE FormTrue'
  <2>1. /\ net[s] # Free /\ net[s].at = "left"
        /\ stored' # stored => net[s].kind = "postSettings"
        /\ UNCHANGED <<settings, crossed>>
    BY <1>6, LateHandled
  <2>2. CASE TabOf(net[s].kind) = "settings"
    BY <2>1, <2>2 DEF LeftTold, FormTrue, settings
  <2>3. CASE TabOf(net[s].kind) # "settings"
    <3>1. Undisturbed("settings")
      BY <1>0, <1>6, <2>3, LateDisturbsOne
    <3>2. stored' = stored
      BY <2>1, <2>3 DEF TabOf
    <3> QED
      BY <1>2, <2>1, <3>1, <3>2 DEF settings
  <2> QED
    BY <2>2, <2>3
<1>7. CASE UNCHANGED vars
  BY <1>2, <1>7 DEF vars, Undisturbed, Busy
<1> QED
  BY <1>3, <1>4, <1>5, <1>6, <1>7 DEF Next, Machine

LEMMA ListTrueStays ==
  ASSUME TypeOK, AnswersTrue, NoneElsewhere, LeftTold, ListTrue, [Next]_vars
  PROVE  ListTrue'
<1>0. "backups" \in TabNames
  BY DEF TabNames
<1>1. ASSUME Busy("backups")' PROVE ListTrue'
  BY <1>1 DEF ListTrue
<1>2. ASSUME Undisturbed("backups"), UNCHANGED <<list, state, said, kept>>,
             tab' = "backups" => tab = "backups"
      PROVE  ListTrue'
  BY <1>2 DEF ListTrue, Undisturbed
<1>3. ASSUME User \/ \E t \in Timers : Tick(t) PROVE ListTrue'
  <2>1. Sends /\ UNCHANGED kept
    BY <1>3, UserSends DEF Sends, server
  <2>2. Busy("backups")' \/ (Undisturbed("backups") /\ (tab' = "backups" => tab = "backups"))
    <3>1. Busy("backups")' \/ Undisturbed("backups")
      BY <1>0, <2>1, AskedOrNot
    <3>2. Busy("backups")' \/ (tab' = "backups" => tab = "backups")
      BY <2>1, AskedIsBusy DEF Sends
    <3> QED
      BY <3>1, <3>2
  <2>3. ASSUME UNCHANGED backups PROVE ListTrue'
    BY <1>1, <1>2, <2>1, <2>2, <2>3 DEF backups
  <2>4. /\ {"getBackups", "restore"} \subseteq Kinds
        /\ None \in Values /\ Files \subseteq Values
    BY DEF Kinds, Gets, Changers, Values
  <2>5. TabOf("getBackups") = "backups" /\ TabOf("restore") = "backups"
    BY DEF TabOf
  <2>6. ASSUME Ask("getBackups", None) \/ \E f \in Files : Ask("restore", f)
        PROVE  ListTrue'
    <3>1. Busy("backups")'
      BY <2>4, <2>5, <2>6, AskedIsBusy
    <3> QED
      BY <1>1, <3>1
  <2>7. ASSUME NEW t \in {"home", "settings", "logs", "backups"}, activateTab(t)
        PROVE  ListTrue'
    <3>1. CASE t = "backups"
      BY <2>6, <2>7, <3>1 DEF activateTab
    <3>2. CASE t # "backups"
      BY <2>3, <2>7, <3>2 DEF activateTab, backups
    <3> QED
      BY <3>1, <3>2
  <2>8. ASSUME NEW v \in Vals, Type(v) PROVE ListTrue'
    BY <2>3, <2>8 DEF Type
  <2>9. CASE loadSettings \/ saveSettings
    BY <2>3, <2>9 DEF loadSettings, saveSettings
  <2>10. ASSUME NEW c \in Sources, chooseLogs(c) PROVE ListTrue'
    BY <2>3, <2>10 DEF chooseLogs
  <2>11. ASSUME NEW on \in BOOLEAN, toggleAutoRefresh(on) PROVE ListTrue'
    BY <2>3, <2>11 DEF toggleAutoRefresh
  <2>12. CASE loadBackups
    BY <2>6, <2>12 DEF loadBackups
  <2>13. ASSUME NEW f \in Files, restoreBackup(f) PROVE ListTrue'
    BY <2>6, <2>13 DEF restoreBackup
  <2>14. ASSUME NEW f \in Files, deleteBackup(f) PROVE ListTrue'
    BY <2>3, <2>14 DEF deleteBackup
  <2>15. ASSUME NEW t \in Timers, Tick(t) PROVE ListTrue'
    BY <2>3, <2>15 DEF Tick
  <2>16. CASE doApply
    BY <2>3, <2>16 DEF doApply
  <2> QED
    BY <1>3, <2>7, <2>8, <2>9, <2>10, <2>11, <2>12, <2>13, <2>14, <2>15, <2>16 DEF User
<1>4. ASSUME NEW s \in Slots, Serve(s) PROVE ListTrue'
  <2>1. Undisturbed("backups") /\ (Asked(s, "backups") => Busy("backups")')
    BY <1>0, <1>4, ServeDisturbsNone
  <2>2. UNCHANGED <<tab, backups, crossed>>
    BY <1>4 DEF Serve
  <2>3. kept' # kept /\ tab = "backups" /\ "backups" \notin crossed =>
          Asked(s, "backups")
    BY <1>4, OnlyItsOwn
  <2>4. CASE kept' = kept
    BY <1>2, <2>1, <2>2, <2>4 DEF backups
  <2>5. CASE kept' # kept
    BY <1>1, <2>1, <2>2, <2>3, <2>5 DEF ListTrue
  <2> QED
    BY <2>4, <2>5
<1>5. ASSUME NEW s \in Slots, NEW ok \in BOOLEAN, Continue(s, ok)
      PROVE  ListTrue'
  <2>1. /\ net[s] # Free /\ net[s] \in Requests
        /\ ok => net[s].at = "served"
        /\ UNCHANGED <<tab, kept, crossed>>
    BY <1>5, Continued
  <2>2. CASE TabOf(net[s].kind) = "backups"
    <3>1. BackupsAnswered(net[s], ok)
      BY <1>5, <2>2 DEF Continue
    <3>2. CASE net[s].kind = "getBackups" /\ ok
      <4>1. list' = net[s].rows
        BY <3>1, <3>2 DEF BackupsAnswered, EndList
      <4>2. tab = "backups" /\ "backups" \notin crossed => net[s].rows = kept
        BY <2>1, <3>2 DEF AnswersTrue
      <4> QED
        BY <2>1, <4>1, <4>2 DEF ListTrue
    <3>3. CASE net[s].kind # "getBackups" /\ ok
      <4>1. state' = "loading"
        BY <3>1, <3>3 DEF BackupsAnswered, StartList
      <4> QED
        BY <4>1 DEF ListTrue
    <3>4. CASE ~ok
      <4>1. said' = "failed"
        BY <3>1, <3>4 DEF BackupsAnswered
      <4> QED
        BY <4>1 DEF ListTrue
    <3> QED
      BY <3>2, <3>3, <3>4
  <2>3. CASE TabOf(net[s].kind) # "backups"
    <3>1. UNCHANGED backups
      BY <1>5, <2>3 DEF Continue, SettingsAnswered, LogsAnswered
    <3>2. Undisturbed("backups")
      BY <1>0, <1>5, <2>3, ContinueDisturbsOne
    <3> QED
      BY <1>2, <2>1, <3>1, <3>2 DEF backups
  <2> QED
    BY <2>2, <2>3
<1>6. ASSUME NEW s \in Slots, Late(s) PROVE ListTrue'
  <2>1. /\ net[s] # Free /\ net[s].at = "left"
        /\ UNCHANGED <<tab, backups, crossed>>
    BY <1>6, LateHandled
  <2>2. CASE TabOf(net[s].kind) = "backups"
    BY <2>1, <2>2 DEF LeftTold, ListTrue, backups
  <2>3. CASE TabOf(net[s].kind) # "backups"
    <3>1. Undisturbed("backups")
      BY <1>0, <1>6, <2>3, LateDisturbsOne
    <3>2. kept' # kept => ~(tab = "backups" /\ "backups" \notin crossed)
      BY <1>6, <2>3, OnlyItsOwn DEF Asked
    <3>3. CASE kept' = kept
      BY <1>2, <2>1, <3>1, <3>3 DEF backups
    <3>4. CASE kept' # kept
      BY <2>1, <3>2, <3>4 DEF ListTrue
    <3> QED
      BY <3>3, <3>4
  <2> QED
    BY <2>2, <2>3
<1>7. CASE UNCHANGED vars
  BY <1>2, <1>7 DEF vars, Undisturbed, Busy
<1> QED
  BY <1>3, <1>4, <1>5, <1>6, <1>7 DEF Next, Machine

----------------------------------------------------------------------------
LEMMA TabsInvHolds == Spec => []TabsInv
<1>1. Init => TabsInv
  <2> SUFFICES ASSUME Init PROVE TabsInv
    OBVIOUS
  <2>1. \A s \in Slots : net[s] = Free
    BY DEF Init
  <2>2. TypeOK
    BY DEF Init, TypeOK
  <2>3. /\ RequestsTyped /\ OneAtATime /\ AnswersTrue
        /\ NoneElsewhere /\ LeftTold
    BY <2>1 DEF RequestsTyped, OneAtATime, AnswersTrue, Asked, NoneElsewhere,
                Pending, LeftTold
  <2>4. OneTimer /\ FormTrue /\ ListTrue
    BY DEF Init, OneTimer, FormTrue, ListTrue
  <2> QED
    BY <2>2, <2>3, <2>4 DEF TabsInv, TypeInv
<1>2. TabsInv /\ [Next]_vars => TabsInv'
  BY TypeInvStays, OneTimerStays, OneAtATimeStays, AnswersTrueStay,
     NoneElsewhereStays, LeftToldStays, FormTrueStays, ListTrueStays
     DEF TabsInv, TypeInv
<1> QED
  BY <1>1, <1>2, PTL DEF Spec

(* Every variable stays in its type, whatever the network does: what an    *)
(* answer puts into the form or the list was settings or backups.          *)
THEOREM TabsTyped == Spec => []TypeOK
<1>1. TabsInv => TypeOK
  BY DEF TabsInv, TypeInv
<1> QED
  BY <1>1, TabsInvHolds, PTL

(* However the user hurries between the tabs and the check box, no         *)
(* interval is left over that nobody can clear, and none of them loads     *)
(* lines while another tab is open.                                        *)
THEOREM TabsOneTimer == Spec => []OneTimer
<1>1. TabsInv => OneTimer
  BY DEF TabsInv
<1> QED
  BY <1>1, TabsInvHolds, PTL

(* A settings form that was filled and not edited since shows what the     *)
(* server has, unless requests of its tab overlapped or its last one       *)
(* failed: for any number of requests of other tabs, any answers lost, and *)
(* any saves that the page has given up and the server handles later.      *)
THEOREM FormShowsStored == Spec => []FormTrue
<1>1. TabsInv => FormTrue
  BY DEF TabsInv
<1> QED
  BY <1>1, TabsInvHolds, PTL

(* And the list of backups while its tab is open, through deletions,       *)
(* restores that add one and the reload that follows them, whatever        *)
(* applies and changes of settings have made and trimmed before it was     *)
(* opened: unless one of these was still under way when the tab last asked *)
(* for something.                                                          *)
THEOREM ListShowsKept == Spec => []ListTrue
<1>1. TabsInv => ListTrue
  BY DEF TabsInv
<1> QED
  BY <1>1, TabsInvHolds, PTL

============================================================================
