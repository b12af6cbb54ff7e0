-------------------------------- MODULE Tabs --------------------------------
(***************************************************************************)
(* The tabs of the page beside the home tab: the settings form, the log    *)
(* view with its timer, and the list of backups, as the user of one page   *)
(* meets them, the only one who uses the helper; of the home tab, the      *)
(* applies, which make and trim backups too.  A request is sent, handled   *)
(* by the server and answered at three different moments; answers overtake *)
(* each other and get lost, and a request that the page has given up may   *)
(* still be handled.  Only an apply keeps its button from a second click.  *)
(***************************************************************************)
EXTENDS Integers, FiniteSets

CONSTANTS
  Vals,       (* settings that the form can hold and the server accepts    *)
  Blank,      (* the form before anything was loaded: not accepted         *)
  Sources,    (* what may be chosen on the logs tab                        *)
  Files,      (* names of backups                                          *)
  Free,       (* a slot of the network without a request                   *)
  Slots,      (* bound: requests of these tabs under way at a time         *)
  Timers,     (* identifiers that setInterval returns                      *)
  None        (* nothing: null, or no lines yet                            *)

ASSUME TabsAssumption ==
  /\ Blank \notin Vals
  /\ None \notin Timers \cup Sources

VARIABLES
  tab,        (* the active tab                                            *)
  form,       (* what the settings form shows                              *)
  edited,     (* it was edited since it was filled                         *)
  note,       (* settings-status                                           *)
  source,     (* logs-source and logs-lines                                *)
  shown,      (* of which choice the lines in logs-out are, and logs-note  *)
  logsTimer,  (* the variable of that name                                 *)
  alive,      (* intervals that have not been cleared                      *)
  list,       (* backups-list: the rows                                    *)
  state,      (* of the list: rows, a placeholder, or nothing              *)
  said,       (* backups-status                                            *)
  stored,     (* the settings of the server                                *)
  kept,       (* the backups on the router                                 *)
  net,        (* requests under way                                        *)
  crossed     (* history: tabs that asked for something while a request    *)
              (* that concerns them was under way, until they ask without  *)

settings == <<form, edited, note>>
logs     == <<source, shown, logsTimer, alive>>
backups  == <<list, state, said>>
server   == <<stored, kept>>
vars == <<tab, form, edited, note, source, shown, logsTimer, alive, list, state,
          said, stored, kept, net, crossed>>

Gets     == {"getSettings", "getLogs", "getBackups"}
Changers == {"postSettings", "apply", "restore", "delete"}
Kinds    == Gets \cup Changers
TabOf(k) ==
  CASE k \in {"getSettings", "postSettings"} -> "settings"
    [] k = "getLogs"                         -> "logs"
    [] k = "apply"                           -> "home"
    [] OTHER                                 -> "backups"

(* val: the settings, the choice of lines or the file of the request, or   *)
(* the settings of the answer; rows: the backups of the answer.  A request *)
(* that is left has been given up by the page and not yet by the server.   *)
Requests ==
  [kind: Kinds, val: Vals \cup Sources \cup Files \cup {Blank, None},
   rows: SUBSET Files, at: {"sent", "served", "refused", "left"}]

(* An empty slot is told from a request.                                   *)
ASSUME FreeAssumption == Free \notin Requests

TypeOK ==
  /\ tab \in {"home", "settings", "logs", "backups"}
  /\ form \in Vals \cup {Blank} /\ edited \in BOOLEAN
  /\ note \in {"", "saved", "failed"}
  /\ source \in Sources /\ shown \in Sources \cup {None}
  /\ logsTimer \in Timers \cup {None} /\ alive \subseteq Timers
  /\ list \subseteq Files /\ state \in {"none", "loading", "rows"}
  /\ said \in {"", "done", "failed"}
  /\ stored \in Vals /\ kept \subseteq Files
  /\ net \in [Slots -> Requests \cup {Free}]
  /\ crossed \subseteq {"home", "settings", "logs", "backups"}

----------------------------------------------------------------------------
(* The network.                                                            *)

Busy(t) == \E s \in Slots : net[s] # Free /\ TabOf(net[s].kind) = t

Request(k, v) == [kind |-> k, val |-> v, rows |-> {}, at |-> "sent"]

(* What the server has may still change.                                   *)
Pending(s) ==
  net[s] # Free /\ net[s].kind \in Changers /\ net[s].at \in {"sent", "left"}

(* Requests that concern tab t: its own, and of the backups every one that *)
(* may make or remove some.                                                *)
Concerned(t) == Busy(t) \/ (t = "backups" /\ \E s \in Slots : Pending(s))

(* api(path, opts): one more request.                                      *)
Ask(k, v) ==
  /\ \E s \in Slots : net[s] = Free /\ net' = [net EXCEPT ![s] = Request(k, v)]
  /\ crossed' = IF Concerned(TabOf(k)) THEN crossed \cup {TabOf(k)}
                                       ELSE crossed \ {TabOf(k)}

AskNothing == UNCHANGED <<net, crossed>>

(* loadBackups before its await.                                           *)
StartList == list' = {} /\ state' = "loading"

----------------------------------------------------------------------------
(* Tabs.                                                                   *)

(* Mutants of setLogsAutoRefresh: the old interval is not cleared, and     *)
(* turning the timer off only forgets it.                                  *)
MutSetLogsAutoRefresh(on) ==
  IF on THEN \E t \in Timers \ alive : logsTimer' = t /\ alive' = alive \cup {t}
        ELSE logsTimer' = None /\ alive' = alive

(* setLogsAutoRefresh: clears the interval there is and starts another.    *)
setLogsAutoRefresh(on) ==
  LET rest == alive \ {logsTimer} IN
  IF on THEN \E t \in Timers \ rest : logsTimer' = t /\ alive' = rest \cup {t}
        ELSE logsTimer' = None /\ alive' = rest

(* activateTab: a tab loads what it shows, and leaving the logs stops the  *)
(* timer.                                                                  *)
activateTab(t) ==
  /\ tab' = t
  /\ CASE t = "settings" -> note' = "" /\ Ask("getSettings", None) /\ UNCHANGED <<list, state>>
       [] t = "logs"     -> Ask("getLogs", source) /\ UNCHANGED <<note, list, state>>
       [] t = "backups"  -> StartList /\ Ask("getBackups", None) /\ UNCHANGED note
       [] OTHER          -> AskNothing /\ UNCHANGED <<note, list, state>>
  /\ IF t = "logs" THEN UNCHANGED <<logsTimer, alive>> ELSE setLogsAutoRefresh(FALSE)
  /\ UNCHANGED <<form, edited, source, shown, said, server>>

----------------------------------------------------------------------------
(* Home: the button is disabled while an apply is awaited.  What the page  *)
(* does with the answer is not on these tabs.                              *)

doApply ==
  /\ tab = "home"
  /\ \A s \in Slots : net[s] # Free /\ net[s].kind = "apply" => net[s].at = "left"
  /\ Ask("apply", None)
  /\ UNCHANGED <<tab, settings, logs, backups, server>>

----------------------------------------------------------------------------
(* Settings.                                                               *)

Type(v) ==
  /\ tab = "settings"
  /\ form' = v /\ edited' = TRUE
  /\ AskNothing /\ UNCHANGED <<tab, note, logs, backups, server>>

loadSettings ==
  /\ tab = "settings"
  /\ note' = ""
  /\ Ask("getSettings", None)
  /\ UNCHANGED <<tab, form, edited, logs, backups, server>>

saveSettings ==
  /\ tab = "settings"
  /\ note' = ""
  /\ Ask("postSettings", form)
  /\ UNCHANGED <<tab, form, edited, logs, backups, server>>

(* Mutant of settingsToForm: what was typed meanwhile stays.               *)
MutSettingsToForm(v) == form' = (IF edited THEN form ELSE v) /\ edited' = FALSE

(* settingsToForm, in loadSettings and saveSettings.                       *)
settingsToForm(v) == form' = v /\ edited' = FALSE

(* Mutant of SettingsAnswered: the status of the answer is not looked at.  *)
MutSettingsAnswered(q, ok) ==
  settingsToForm(q.val) /\ UNCHANGED <<note, logs, backups>>

(* What the two do with an answer, or with none.                           *)
SettingsAnswered(q, ok) ==
  /\ IF ok THEN settingsToForm(q.val) ELSE UNCHANGED <<form, edited>>
  /\ note' = CASE ~ok                          -> "failed"
               [] ok /\ q.kind = "postSettings" -> "saved"
               [] OTHER                         -> note
  /\ UNCHANGED <<logs, backups>>

----------------------------------------------------------------------------
(* Logs.                                                                   *)

(* The choice has changed, or the user asks for the lines anew: loadLogs.  *)
chooseLogs(c) ==
  /\ tab = "logs"
  /\ source' = c
  /\ Ask("getLogs", c)
  /\ UNCHANGED <<tab, shown, logsTimer, alive, settings, backups, server>>

(* The check box.                                                          *)
toggleAutoRefresh(on) ==
  /\ tab = "logs"
  /\ setLogsAutoRefresh(on)
  /\ AskNothing /\ UNCHANGED <<tab, source, shown, settings, backups, server>>

(* Mutant of Tick: the interval is bound to the choice at the start.       *)
MutTick(t) ==
  /\ t \in alive
  /\ Ask("getLogs", CHOOSE c \in Sources : TRUE)
  /\ UNCHANGED <<tab, settings, logs, backups, server>>

(* An interval calls loadLogs, answered or not.                            *)
Tick(t) ==
  /\ t \in alive
  /\ Ask("getLogs", source)
  /\ UNCHANGED <<tab, settings, logs, backups, server>>

(* The lines are shown whatever is chosen by now; an error leaves them.    *)
LogsAnswered(q, ok) ==
  /\ shown' = IF ok THEN q.val ELSE shown
  /\ UNCHANGED <<source, logsTimer, alive, settings, backups>>

----------------------------------------------------------------------------
(* Backups.                                                                *)

loadBackups ==
  /\ tab = "backups"
  /\ StartList
  /\ Ask("getBackups", None)
  /\ UNCHANGED <<tab, said, settings, logs, server>>

(* The buttons of a row, and the question whether the user is sure.        *)
restoreBackup(f) ==
  /\ tab = "backups" /\ f \in list
  /\ said' = ""
  /\ Ask("restore", f)
  /\ UNCHANGED <<tab, list, state, settings, logs, server>>

deleteBackup(f) ==
  /\ tab = "backups" /\ f \in list
  /\ Ask("delete", f)
  /\ UNCHANGED <<tab, backups, settings, logs, server>>

(* loadBackups after its await.                                            *)
EndList(rows, st) == list' = rows /\ state' = st

(* Mutants of BackupsAnswered: a list that could not be loaded looks like  *)
(* one without backups, and nobody catches the exception of loadBackups.   *)
MutNoListIsEmpty(q, ok) ==
  /\ \/ q.kind = "getBackups" /\ EndList(q.rows, "rows") /\ UNCHANGED said
     \/ q.kind # "getBackups" /\ ok /\ StartList /\ said' = "done"
     \/ q.kind # "getBackups" /\ ~ok /\ said' = "failed" /\ UNCHANGED <<list, state>>
  /\ UNCHANGED <<settings, logs>>

MutNoCatch(q, ok) ==
  /\ \/ q.kind = "getBackups" /\ ok /\ EndList(q.rows, "rows") /\ UNCHANGED said
     \/ q.kind # "getBackups" /\ ok /\ StartList /\ said' = "done"
     \/ ~ok /\ UNCHANGED backups
  /\ UNCHANGED <<settings, logs>>

(* A restore and a deletion go on with loadBackups, but not after an error.*)
BackupsAnswered(q, ok) ==
  /\ \/ q.kind = "getBackups" /\ ok /\ EndList(q.rows, "rows") /\ UNCHANGED said
     \/ q.kind = "getBackups" /\ ~ok /\ EndList({}, "none") /\ said' = "failed"
     \/ q.kind # "getBackups" /\ ok /\ StartList /\ said' = "done"
     \/ q.kind # "getBackups" /\ ~ok /\ said' = "failed" /\ UNCHANGED <<list, state>>
  /\ UNCHANGED <<settings, logs>>

----------------------------------------------------------------------------
(* The server, of which other modules say more: one step per request.      *)
(* That a handler changes the files at several moments makes a difference  *)
(* only to requests that overlap with it.                                  *)

(* Create makes one more, with a name of its own or of this second, or     *)
(* none where there is no config.json.                                     *)
Snapshots == {kept} \cup {kept \cup {f} : f \in Files}

(* The handlers, with or without an error status.  With a managed node     *)
(* handleSettingsPost makes a backup, and failing to is no error.          *)
handleSettingsPost(v, ok) ==
  IF ok THEN v \in Vals /\ stored' = v /\ kept' \in Snapshots
        ELSE UNCHANGED server

(* Which of them Trim takes is said in Files.                              *)
handleApply(ok) ==
  /\ \E K \in Snapshots : IF ok THEN kept' \in SUBSET K ELSE kept' = K
  /\ UNCHANGED stored

(* Restore fails for a file that is gone, and may fail after its snapshot. *)
handleBackupsRestore(f, ok) ==
  /\ ok => f \in kept
  /\ IF f \in kept THEN kept' \in Snapshots ELSE kept' = kept
  /\ UNCHANGED stored

handleBackupsDelete(f, ok) ==
  /\ ok => f \in kept
  /\ kept' = IF ok THEN kept \ {f} ELSE kept
  /\ UNCHANGED stored

Handle(q, ok) ==
  \/ q.kind = "postSettings" /\ handleSettingsPost(q.val, ok)
  \/ q.kind = "apply" /\ handleApply(ok)
  \/ q.kind = "restore" /\ handleBackupsRestore(q.val, ok)
  \/ q.kind = "delete" /\ handleBackupsDelete(q.val, ok)

Serve(s) ==
  LET q == net[s]
      Answer(e) == net' = [net EXCEPT ![s] = [e EXCEPT !.at = "served"]]
      Refuse    == net' = [net EXCEPT ![s].at = "refused"]
  IN
  /\ q # Free /\ q.at = "sent"
  /\ \/ q.kind = "getSettings" /\ Answer([q EXCEPT !.val = stored]) /\ UNCHANGED server
     \/ q.kind = "getLogs" /\ Answer(q) /\ UNCHANGED server
     \/ q.kind = "getBackups" /\ Answer([q EXCEPT !.rows = kept]) /\ UNCHANGED server
     \/ q.kind \in Changers /\ Handle(q, TRUE) /\ Answer(q)
     \/ q.kind \in Changers /\ Handle(q, FALSE) /\ Refuse
  /\ UNCHANGED <<tab, settings, logs, backups, crossed>>

(* The page goes on after an await: with the answer, or with an exception  *)
(* for an error status or a lost connection.  The answer may get lost of a *)
(* request that was handled, or one be given up that was not; its slot is  *)
(* left to it if handling it later makes a difference.                     *)
Continue(s, ok) ==
  LET q == net[s] IN
  /\ q # Free /\ q.at # "left"
  /\ ok => q.at = "served"
  /\ \/ TabOf(q.kind) = "home" /\ UNCHANGED <<settings, logs, backups>>
     \/ TabOf(q.kind) = "settings" /\ SettingsAnswered(q, ok)
     \/ TabOf(q.kind) = "logs" /\ LogsAnswered(q, ok)
     \/ TabOf(q.kind) = "backups" /\ BackupsAnswered(q, ok)
  /\ net' = [net EXCEPT ![s] =
               IF ok /\ q.kind \in {"restore", "delete"}
                 THEN Request("getBackups", None)
               ELSE IF Pending(s) THEN [q EXCEPT !.at = "left"] ELSE Free]
  /\ UNCHANGED <<tab, server, crossed>>

(* net/http handles a request that the page has given up, or it never got  *)
(* there.                                                                  *)
Late(s) ==
  LET q == net[s] IN
  /\ q # Free /\ q.at = "left"
  /\ net' = [net EXCEPT ![s] = Free]
  /\ Handle(q, TRUE) \/ Handle(q, FALSE) \/ UNCHANGED server
  /\ UNCHANGED <<tab, settings, logs, backups, crossed>>

----------------------------------------------------------------------------
Init ==
  /\ tab = "home"
  /\ form = Blank /\ edited = FALSE /\ note = ""
  /\ source \in Sources /\ shown = None
  /\ logsTimer = None /\ alive = {}
  /\ list = {} /\ state = "none" /\ said = ""
  /\ stored \in Vals /\ kept \in SUBSET Files
  /\ net = [s \in Slots |-> Free]
  /\ crossed = {}

(* Clicks and typing.                                                      *)
User ==
  \/ \E t \in {"home", "settings", "logs", "backups"} : activateTab(t)
  \/ doApply
  \/ (\E v \in Vals : Type(v)) \/ loadSettings \/ saveSettings
  \/ \E c \in Sources : chooseLogs(c)
  \/ \E on \in BOOLEAN : toggleAutoRefresh(on)
  \/ loadBackups
  \/ \E f \in Files : restoreBackup(f) \/ deleteBackup(f)

(* Timers, the server and the network.                                     *)
Machine ==
  \/ \E t \in Timers : Tick(t)
  \/ \E s \in Slots : Serve(s) \/ Late(s) \/ Continue(s, TRUE) \/ Continue(s, FALSE)

Next == User \/ Machine

Spec == Init /\ [][Next]_vars

(* A request ends, with an answer or without, also on the server.  Not all *)
(* go wrong for ever, and the browser runs its timers.                     *)
Fairness ==
  /\ \A s \in Slots : WF_vars(Continue(s, TRUE) \/ Continue(s, FALSE))
  /\ \A s \in Slots : WF_vars(Late(s))
  /\ SF_vars(\E s \in Slots : Serve(s))
  /\ SF_vars(\E s \in Slots : Continue(s, TRUE))
  /\ SF_vars(\E t \in Timers : Tick(t))

FairSpec == Spec /\ Fairness

----------------------------------------------------------------------------
(* Properties.                                                             *)

(* However the user hurries between tabs and check box, at most one        *)
(* interval is alive, the one that can be cleared, and none while another  *)
(* tab is open.                                                            *)
OneTimer == alive = {logsTimer} \ {None} /\ (alive # {} => tab = "logs")

(* When the requests of the settings tab came one after the other and none *)
(* is under way or has failed, a form that was not edited shows what the   *)
(* server has: also after answers that got lost or requests that were      *)
(* given up and handled later, and after answers that came while the user  *)
(* was typing or on another tab.                                           *)
FormTrue ==
  ~Busy("settings") /\ "settings" \notin crossed /\ note # "failed"
    /\ form # Blank /\ ~edited => form = stored

(* The same of the list of backups while its tab is open: it is loaded     *)
(* anew whenever the user comes back, so that no backup which an apply or  *)
(* a change of settings has made or trimmed meanwhile is missing from it   *)
(* or left in it, unless such a request is still under way.                *)
ListTrue ==
  tab = "backups" /\ ~Busy("backups") /\ "backups" \notin crossed
    /\ said # "failed" /\ state = "rows" => list = kept

(* The placeholder goes: whatever overlaps or fails, every list the user   *)
(* has asked for ends as rows or as an error.                              *)
ListAppears == state = "loading" ~> state # "loading"

(* With the timer on, the lines on show are again and again those chosen,  *)
(* although late answers replace newer lines and some loads fail.          *)
LogsCatchUp == alive # {} ~> shown = source \/ alive = {}

=============================================================================
