------------------------------- MODULE Helper -------------------------------
(***************************************************************************)
(* The core of singbox-helper: everything that changes config.json, its    *)
(* backups, state.json, config.yaml, the settings in memory and what       *)
(* sing-box runs.  Those are shared by                                     *)
(*   - the goroutines net/http starts for POST /api/apply, POST            *)
(*     /api/settings, POST /api/backups/restore and DELETE /api/backups    *)
(*     (Handlers: how many of them are under way at a time), and           *)
(*   - `singbox-helper --from-uri U --apply` started by hand (Clis),       *)
(* and no lock is held across the steps of any of them; the only mutex of  *)
(* the server guards single reads and writes of the settings in memory.    *)
(*                                                                         *)
(* One step of a request is one system call, or the code between two.  A   *)
(* rendered config.json is abstracted to what it was rendered from: a node *)
(* URI and settings.  A backup is named by the second it was created in.   *)
(***************************************************************************)
EXTENDS Files, Integers, FiniteSets

CONSTANTS
  Handlers,         (* requests that may be under way in the server        *)
  Clis,             (* command-line runs that may be under way             *)
  NoProc,           (* "nobody"                                            *)
  Ops,              (* what users do, a subset of Operations               *)
  URIs,             (* node URIs that parse                                *)
  Foreign,          (* configs the helper did not render                   *)
  Endpoint,         (* server:port of a URI's or a foreign config's node   *)
  SettingsVals,     (* settings                                            *)
  Accepted,         (* those that validateSettings accepts                 *)
  YamlEdits,        (* what a hand edit may leave in config.yaml, which    *)
                    (* nobody validates                                    *)
  DefaultSettings,  (* config.DefaultSettings()                            *)
  NoSettings,       (* "no settings posted"                                *)
  Down,             (* sing-box is not running                             *)
  MaxClock,         (* bound: number of distinct seconds of the clock      *)
  KeepBackups,      (* Server.KeepBackups                                  *)
  IOErrors,         (* TRUE: a system call may fail by itself              *)
  ClockSteps,       (* TRUE: the wall clock may be set back (NTP, DST)     *)
  Crashes           (* TRUE: processes are killed, the router restarts     *)

Operations == {"apply", "settings", "restore", "delete", "cli"}

ASSUME ProcsAssumption ==
  /\ Handlers \cap Clis = {}
  /\ NoProc \notin Handlers \cup Clis
  /\ Ops \subseteq Operations

ASSUME BoundsAssumption ==
  /\ MaxClock \in Nat \ {0}
  /\ KeepBackups \in Nat \ {0}

ASSUME SwitchesAssumption == {IOErrors, ClockSteps, Crashes} \subseteq BOOLEAN

Procs  == Handlers \cup Clis
Stamps == 1..MaxClock
NoStamp == 0  (* Create returned "": there was no config.json to back up   *)

(* What Render makes of a parsed URI and settings.                         *)
Rendered(u, s) == [uri |-> u, set |-> s]
Configs  == [uri: URIs, set: SettingsVals]
Whole    == Configs \cup Foreign
Contents == Whole \cup Unusable

ASSUME ContentsAssumption ==
  /\ Whole \cap Unusable = {}
  /\ URIs \cap Unusable = {}
  /\ SettingsVals \cap Unusable = {}
  /\ Down \notin Whole
  /\ Accepted \subseteq SettingsVals
  /\ DefaultSettings \in Accepted
  /\ YamlEdits \subseteq SettingsVals \cup Unusable
  /\ NoSettings \notin SettingsVals

VARIABLES
  config,     (* config.json                                               *)
  baks,       (* config.json.bak-<stamp>: contents, Absent if no such file *)
  writer,     (* the process that still has that backup open for writing   *)
  stateFile,  (* state.json and state.json.tmp: the URI applied last       *)
  yamlFile,   (* config.yaml and config.yaml.tmp                           *)
  mem,        (* Server.settings                                           *)
  running,    (* the configuration sing-box has loaded, or Down            *)
  now,        (* the wall clock, in seconds                                *)
  pc,         (* where each process is                                     *)
  job,        (* its local variables                                       *)
  (* History, read by properties only:                                     *)
  good,       (* the last whole configuration config.json held             *)
  discarded,  (* backups that went by the user's or a failed Create's hand *)
  owed,       (* config.json or sing-box was last changed by something     *)
              (* that no successful restart has followed                   *)
  apart       (* config.yaml could not be read at the last start, or was   *)
              (* edited since, and nothing has been saved after that       *)

files   == <<config, baks, writer>>
history == <<good, discarded, owed, apart>>
vars == <<config, baks, writer, stateFile, yamlFile, mem, running, now,
          pc, job, good, discarded, owed, apart>>

NoJob == [op |-> "none", uri |-> Absent, set |-> NoSettings, body |-> Absent,
          file |-> NoStamp, bak |-> NoStamp, todo |-> {}, restarted |-> FALSE]

Jobs == [op: Operations \cup {"none"}, uri: URIs \cup {Absent},
         set: SettingsVals \cup {NoSettings}, body: Contents,
         file: 0..MaxClock, bak: 0..MaxClock, todo: SUBSET Stamps,
         restarted: BOOLEAN]

Labels == {"idle", "stamp", "create", "copy", "read", "truncate", "write",
           "restart", "saveOpen", "saveWrite", "saveRename", "saveRemove",
           "swap", "load", "list", "trim", "reply"}

TypeOK ==
  /\ config \in Contents
  /\ baks \in [Stamps -> Contents]
  /\ writer \in [Stamps -> Procs \cup {NoProc}]
  /\ stateFile \in Cell(Procs, URIs \cup Unusable)
  /\ yamlFile \in Cell(Procs, SettingsVals \cup Unusable)
  /\ mem \in SettingsVals
  /\ running \in Whole \cup {Down}
  /\ now \in Stamps
  /\ pc \in [Procs -> Labels]
  /\ job \in [Procs -> Jobs]
  /\ good \in Whole \cup {Absent}
  /\ discarded \subseteq Stamps
  /\ owed \in BOOLEAN
  /\ apart \in BOOLEAN

----------------------------------------------------------------------------
(* What sing-box runs once its init script has loaded c: it refuses what   *)
(* it cannot decode and exits.                                             *)
Loaded(c) == IF c \in Whole THEN c ELSE Down

(* Mutant of Decoded: a missing config.yaml is not replaced by defaults.   *)
MutNoDefaults(y) == {y}

(* The settings that LoadSettings can make of config.yaml: defaults for a  *)
(* missing or an empty file, anything for bytes that are a mixture.        *)
Decoded(y) ==
  CASE y \in SettingsVals -> {y}
    [] y = Torn           -> SettingsVals
    [] OTHER              -> {DefaultSettings}

(* What main takes at its start.  Nothing is validated, and where the file *)
(* can not be read or decoded it goes on with defaults.                    *)
LoadSettings(y) ==
  [set: Decoded(y), failed: {FALSE}]
    \cup (IF IOErrors \/ y = Torn
            THEN {[set |-> DefaultSettings, failed |-> TRUE]} ELSE {})

(* state.Load: the URI, or Absent where readStateFromDisk returns nil.     *)
StateURI == IF stateFile.file \in URIs THEN stateFile.file ELSE Absent

Present(t) == baks[t] # Absent
Newer(t) == {u \in Stamps : u > t /\ Present(u)}

(* Mutants of Surplus: all[keep-1:], and a list sorted oldest first.       *)
MutSurplusOneMore ==
  {t \in Stamps : Present(t) /\ Cardinality(Newer(t)) >= KeepBackups - 1}
MutSurplusOldestFirst ==
  {t \in Stamps : Present(t) /\
     Cardinality({u \in Stamps : u < t /\ Present(u)}) >= KeepBackups}

(* Trim removes all[keep:] of the list sorted newest first.                *)
Surplus == {t \in Stamps : Present(t) /\ Cardinality(Newer(t)) >= KeepBackups}

Goto(p, l) == pc' = [pc EXCEPT ![p] = l]

(* The handler has answered, or the command has exited.                    *)
Finish(p) ==
  /\ Goto(p, "idle")
  /\ job' = [job EXCEPT ![p] = NoJob]

----------------------------------------------------------------------------
(* Requests.  Those that are refused before they touch anything (bad JSON, *)
(* a URI that does not parse, settings that validateSettings rejects, a    *)
(* file name that belongsHere rejects) change no state and have no action. *)

(* handleApply up to Render, which reads the settings in memory.           *)
BeginApply(p, u) ==
  /\ "apply" \in Ops /\ p \in Handlers /\ pc[p] = "idle"
  /\ job' = [job EXCEPT ![p] = [NoJob EXCEPT
               !.op = "apply", !.uri = u, !.body = Rendered(u, mem)]]
  /\ Goto(p, "stamp")
  /\ UNCHANGED <<files, stateFile, yamlFile, mem, running, now, history>>

(* handleSettingsPost up to SaveSettings.                                  *)
BeginSettings(p, s) ==
  /\ "settings" \in Ops /\ p \in Handlers /\ pc[p] = "idle"
  /\ job' = [job EXCEPT ![p] = [NoJob EXCEPT !.op = "settings", !.set = s]]
  /\ Goto(p, "saveOpen")
  /\ UNCHANGED <<files, stateFile, yamlFile, mem, running, now, history>>

(* handleBackupsRestore up to the Stat in Restore.                         *)
BeginRestore(p, t) ==
  /\ "restore" \in Ops /\ p \in Handlers /\ pc[p] = "idle"
  /\ Present(t)
  /\ job' = [job EXCEPT ![p] = [NoJob EXCEPT !.op = "restore", !.file = t]]
  /\ Goto(p, "stamp")
  /\ UNCHANGED <<files, stateFile, yamlFile, mem, running, now, history>>

(* main and run: the settings come from config.yaml.                       *)
BeginCli(p, u) ==
  /\ "cli" \in Ops /\ p \in Clis /\ pc[p] = "idle"
  /\ \E l \in LoadSettings(yamlFile.file) :
       job' = [job EXCEPT ![p] = [NoJob EXCEPT
                 !.op = "cli", !.uri = u, !.body = Rendered(u, l.set)]]
  /\ Goto(p, "stamp")
  /\ UNCHANGED <<files, stateFile, yamlFile, mem, running, now, history>>

(* DELETE /api/backups?file=: one os.Remove.  The user gives the contents  *)
(* up.                                                                     *)
DeleteBackup(p, t) ==
  /\ "delete" \in Ops /\ p \in Handlers /\ pc[p] = "idle"
  /\ Present(t)
  /\ baks' = [baks EXCEPT ![t] = Absent]
  /\ writer' = [writer EXCEPT ![t] = NoProc]
  /\ discarded' = discarded \cup {t}
  /\ good' = IF baks[t] = good THEN Absent ELSE good
  /\ UNCHANGED <<config, stateFile, yamlFile, mem, running, now, pc, job, owed,
                 apart>>

----------------------------------------------------------------------------
(* Manager.Create and backupIfExists.                                      *)

AfterBackup(p) == IF job[p].op = "restore" THEN "read" ELSE "truncate"

(* os.Open(config.json), and the time of day for the name.                 *)
OpenLive(p) ==
  /\ pc[p] = "stamp"
  /\ IF config = Absent
       THEN Goto(p, AfterBackup(p)) /\ UNCHANGED job
       ELSE Goto(p, "create") /\ job' = [job EXCEPT ![p].bak = now]
  /\ UNCHANGED <<files, stateFile, yamlFile, mem, running, now, history>>

(* Mutant of NameFree: the file is opened without O_EXCL.                  *)
MutNameFree(t) == t \in Stamps

(* O_EXCL lets the open of a backup succeed.                               *)
NameFree(t) == ~Present(t)

(* os.OpenFile(bak, O_CREATE|O_EXCL).                                      *)
CreateBackup(p) ==
  LET t == job[p].bak IN
  /\ pc[p] = "create"
  /\ NameFree(t)
  /\ baks' = [baks EXCEPT ![t] = Empty]
  /\ writer' = [writer EXCEPT ![t] = p]
  /\ discarded' = discarded \ {t}
  /\ Goto(p, "copy")
  /\ UNCHANGED <<config, stateFile, yamlFile, mem, running, now, job, good, owed,
                 apart>>

(* io.Copy and the two closes.  What is copied is what config.json holds   *)
(* now.  It goes to the inode that was created, which may have lost its    *)
(* name in the meantime.                                                   *)
CopyBackup(p) ==
  LET t == job[p].bak IN
  /\ pc[p] = "copy"
  /\ IF writer[t] = p
       THEN /\ baks' = [baks EXCEPT ![t] = config]
            /\ writer' = [writer EXCEPT ![t] = NoProc]
       ELSE UNCHANGED <<baks, writer>>
  /\ Goto(p, AfterBackup(p))
  /\ UNCHANGED <<config, stateFile, yamlFile, mem, running, now, job, history>>

(* Mutant of CopyFails: the error of io.Copy is not looked at.             *)
MutCopyErrorIgnored(p) ==
  LET t == job[p].bak IN
  /\ IOErrors
  /\ pc[p] = "copy"
  /\ writer[t] = p
  /\ \E c \in {Empty, Torn} : baks' = [baks EXCEPT ![t] = c]
  /\ writer' = [writer EXCEPT ![t] = NoProc]
  /\ Goto(p, AfterBackup(p))
  /\ UNCHANGED <<config, stateFile, yamlFile, mem, running, now, job, history>>

(* io.Copy fails.  Create removes the file, by name, and ignores whether   *)
(* that worked; backupIfExists leaves it.                                  *)
CopyFails(p) ==
  LET t == job[p].bak IN
  /\ IOErrors
  /\ pc[p] = "copy"
  /\ \/ /\ p \in Handlers
        /\ baks' = [baks EXCEPT ![t] = Absent]
        /\ writer' = [writer EXCEPT ![t] = NoProc]
        /\ discarded' = discarded \cup {t}
        /\ good' = IF baks[t] = good THEN Absent ELSE good
     \/ /\ writer[t] = p
        /\ \E c \in {Empty, Torn} : baks' = [baks EXCEPT ![t] = c]
        /\ writer' = [writer EXCEPT ![t] = NoProc]
        /\ UNCHANGED <<discarded, good>>
     \/ writer[t] # p /\ UNCHANGED <<baks, writer, discarded, good>>
  /\ Finish(p)
  /\ UNCHANGED <<config, stateFile, yamlFile, mem, running, now, owed, apart>>

----------------------------------------------------------------------------
(* The write of config.json.                                               *)

(* Restore reads the backup after it has snapshotted the live config.      *)
ReadBackup(p) ==
  LET t == job[p].file IN
  /\ pc[p] = "read"
  /\ Present(t)
  /\ job' = [job EXCEPT ![p].body = baks[t]]
  /\ Goto(p, "truncate")
  /\ UNCHANGED <<files, stateFile, yamlFile, mem, running, now, history>>

(* The open in os.WriteFile(config.json): O_CREATE|O_TRUNC.                *)
TruncateLive(p) ==
  /\ pc[p] = "truncate"
  /\ config' = Empty
  /\ Goto(p, "write")
  /\ UNCHANGED <<baks, writer, stateFile, yamlFile, mem, running, now, job, history>>

(* What can fail before config.json is touched: opening it for the backup, *)
(* the name of the backup being taken, reading the backup to restore, which*)
(* may be gone, MkdirAll and the open above.  The request ends: with a 500,*)
(* a 422 or, for POST /api/settings, a restart_error.                      *)
FailsBeforeWrite(p) ==
  /\ \/ IOErrors /\ pc[p] \in {"stamp", "create", "read", "truncate"}
     \/ pc[p] = "create" /\ ~NameFree(job[p].bak)
     \/ pc[p] = "read" /\ ~Present(job[p].file)
  /\ Finish(p)
  /\ UNCHANGED <<files, stateFile, yamlFile, mem, running, now, history>>

(* The write in os.WriteFile.  The command stops here and asks the user to *)
(* restart sing-box.                                                       *)
WriteLive(p) ==
  /\ pc[p] = "write"
  /\ config' \in AfterWrite(config, job[p].body)
  /\ good' = IF config' \in Whole THEN config' ELSE good
  /\ IF p \in Clis THEN Finish(p) /\ owed' = TRUE
                   ELSE Goto(p, "restart") /\ UNCHANGED <<job, owed>>
  /\ UNCHANGED <<baks, writer, stateFile, yamlFile, mem, running, now, discarded,
                 apart>>

(* No space left: nothing, or the beginning of the body, is in the file.   *)
WriteFails(p) ==
  /\ IOErrors
  /\ pc[p] = "write"
  /\ config' \in AfterWrite(config, Empty) \cup AfterWrite(config, Torn)
  /\ owed' = TRUE
  /\ Finish(p)
  /\ UNCHANGED <<baks, writer, stateFile, yamlFile, mem, running, now, good, discarded,
                 apart>>

----------------------------------------------------------------------------
(* restartSingBox: the init script, which is not part of this repository.  *)

AfterRestart(p) == IF job[p].op = "apply" THEN "saveOpen" ELSE "reply"

(* Mutant of RestartOk: the exit status of the script is not looked at.    *)
MutRestartUnchecked(p) ==
  /\ pc[p] = "restart"
  /\ running' \in {running, Loaded(config)}
  /\ owed' = FALSE
  /\ job' = [job EXCEPT ![p].restarted = TRUE]
  /\ Goto(p, AfterRestart(p))
  /\ UNCHANGED <<files, stateFile, yamlFile, mem, now, good, discarded, apart>>

(* Mutant of RestartFails: handleApply gives up after a failed restart.    *)
MutRestartGivesUp(p) ==
  /\ pc[p] = "restart"
  /\ running' \in {running, Down, Loaded(config)}
  /\ owed' = TRUE
  /\ Finish(p)
  /\ UNCHANGED <<files, stateFile, yamlFile, mem, now, good, discarded, apart>>

RestartOk(p) ==
  /\ pc[p] = "restart"
  /\ running' = Loaded(config)
  /\ owed' = FALSE
  /\ job' = [job EXCEPT ![p].restarted = TRUE]
  /\ Goto(p, AfterRestart(p))
  /\ UNCHANGED <<files, stateFile, yamlFile, mem, now, good, discarded, apart>>

(* There is no script, it could not stop sing-box, or could not start it,  *)
(* or did and reports an error none the less.                              *)
RestartFails(p) ==
  /\ pc[p] = "restart"
  /\ running' \in {running, Down, Loaded(config)}
  /\ owed' = TRUE
  /\ Goto(p, AfterRestart(p))
  /\ UNCHANGED <<files, stateFile, yamlFile, mem, now, job, good, discarded, apart>>

----------------------------------------------------------------------------
(* state.Save for an apply, config.SaveSettings for settings: see module   *)
(* AtomicSave, which studies the two on their own.                         *)

AfterSave(p) == IF job[p].op = "apply" THEN "list" ELSE "swap"

(* Mutant of SaveGivesUp: an error of SaveSettings is only reported too.   *)
MutSaveErrorIgnored(p) == Goto(p, AfterSave(p)) /\ UNCHANGED job

(* An error of Save goes into the answer to the apply, which carries on;   *)
(* an error of SaveSettings ends the request before anything else changed. *)
SaveGivesUp(p) ==
  IF job[p].op = "apply" THEN Goto(p, "list") /\ UNCHANGED job ELSE Finish(p)

PutCell(p, c) ==
  IF job[p].op = "apply" THEN stateFile' = c /\ UNCHANGED yamlFile
                         ELSE yamlFile' = c /\ UNCHANGED stateFile

CellOf(p)  == IF job[p].op = "apply" THEN stateFile ELSE yamlFile
ValueOf(p) == IF job[p].op = "apply" THEN job[p].uri ELSE job[p].set

SaveOpen(p) ==
  /\ pc[p] = "saveOpen"
  /\ PutCell(p, OpenedTmp(CellOf(p), p))
  /\ Goto(p, "saveWrite")
  /\ UNCHANGED <<files, mem, running, now, job, history>>

SaveOpenFails(p) ==
  /\ IOErrors
  /\ pc[p] = "saveOpen"
  /\ SaveGivesUp(p)
  /\ UNCHANGED <<files, stateFile, yamlFile, mem, running, now, history>>

SaveWrite(p) ==
  /\ pc[p] = "saveWrite"
  /\ \E c \in WrittenTmp(CellOf(p), p, ValueOf(p)) : PutCell(p, c)
  /\ Goto(p, "saveRename")
  /\ UNCHANGED <<files, mem, running, now, job, history>>

SaveWriteFails(p) ==
  /\ IOErrors
  /\ pc[p] = "saveWrite"
  /\ \E b \in {Empty, Torn} :
       \E c \in WrittenTmp(CellOf(p), p, b) : PutCell(p, c)
  /\ SaveGivesUp(p)
  /\ UNCHANGED <<files, mem, running, now, history>>

SaveRename(p) ==
  /\ pc[p] = "saveRename"
  /\ CellOf(p).tmp # Absent
  /\ PutCell(p, Renamed(CellOf(p)))
  /\ Goto(p, AfterSave(p))
  /\ UNCHANGED <<files, mem, running, now, job, history>>

(* Save returns the error; SaveSettings first removes the temporary file.  *)
SaveRenameFails(p) ==
  /\ pc[p] = "saveRename"
  /\ CellOf(p).tmp = Absent \/ IOErrors
  /\ IF job[p].op = "apply" THEN SaveGivesUp(p)
                            ELSE Goto(p, "saveRemove") /\ UNCHANGED job
  /\ UNCHANGED <<files, stateFile, yamlFile, mem, running, now, history>>

SaveRemove(p) ==
  /\ pc[p] = "saveRemove"
  /\ yamlFile' = RemovedTmp(yamlFile) \/ (IOErrors /\ UNCHANGED yamlFile)
  /\ Finish(p)
  /\ UNCHANGED <<files, stateFile, mem, running, now, history>>

----------------------------------------------------------------------------
(* The rest of handleSettingsPost.                                         *)

SwapSettings(p) ==
  /\ pc[p] = "swap"
  /\ mem' = job[p].set
  /\ apart' = FALSE
  /\ Goto(p, "load")
  /\ UNCHANGED <<files, stateFile, yamlFile, running, now, job, good, discarded,
                 owed>>

(* readStateFromDisk and Render: with a node in state.json config.json is  *)
(* rendered anew and written; without one, and if state.json can not be    *)
(* read, the request is done.                                              *)
LoadState(p) ==
  /\ pc[p] = "load"
  /\ \/ /\ StateURI \in URIs
        /\ job' = [job EXCEPT ![p].body = Rendered(StateURI, job[p].set)]
        /\ Goto(p, "stamp")
     \/ /\ StateURI \notin URIs \/ IOErrors
        /\ Goto(p, "reply")
        /\ UNCHANGED job
  /\ UNCHANGED <<files, stateFile, yamlFile, mem, running, now, history>>

----------------------------------------------------------------------------
(* The rest of handleApply: Trim.                                          *)

ListBackups(p) ==
  /\ pc[p] = "list"
  /\ job' = [job EXCEPT ![p].todo = Surplus]
  /\ Goto(p, IF Surplus = {} THEN "reply" ELSE "trim")
  /\ UNCHANGED <<files, stateFile, yamlFile, mem, running, now, history>>

ListFails(p) ==
  /\ IOErrors
  /\ pc[p] = "list"
  /\ Goto(p, "reply")
  /\ UNCHANGED <<files, stateFile, yamlFile, mem, running, now, job, history>>

(* Mutant of TrimOne: the os.Remove of a file that is gone is retried.     *)
MutTrimRetries(p, t) ==
  /\ pc[p] = "trim"
  /\ t \in job[p].todo
  /\ \A u \in job[p].todo : u <= t
  /\ Present(t)
  /\ job' = [job EXCEPT ![p].todo = @ \ {t}]
  /\ Goto(p, IF job[p].todo = {t} THEN "reply" ELSE "trim")
  /\ baks' = [baks EXCEPT ![t] = Absent]
  /\ writer' = [writer EXCEPT ![t] = NoProc]
  /\ UNCHANGED <<config, stateFile, yamlFile, mem, running, now, history>>

(* One os.Remove of the list, whose error is ignored.                      *)
TrimOne(p, t) ==
  /\ pc[p] = "trim"
  /\ t \in job[p].todo
  /\ \A u \in job[p].todo : u <= t
  /\ job' = [job EXCEPT ![p].todo = @ \ {t}]
  /\ Goto(p, IF job[p].todo = {t} THEN "reply" ELSE "trim")
  /\ \/ /\ baks' = [baks EXCEPT ![t] = Absent]
        /\ writer' = [writer EXCEPT ![t] = NoProc]
     \/ IOErrors /\ UNCHANGED <<baks, writer>>
  /\ UNCHANGED <<config, stateFile, yamlFile, mem, running, now, history>>

Reply(p) ==
  /\ pc[p] = "reply"
  /\ Finish(p)
  /\ UNCHANGED <<files, stateFile, yamlFile, mem, running, now, history>>

----------------------------------------------------------------------------
(* The surroundings.                                                       *)

Tick ==
  /\ now < MaxClock
  /\ now' = now + 1
  /\ UNCHANGED <<files, stateFile, yamlFile, mem, running, pc, job, history>>

(* The router has no clock of its own: NTP corrects it after the start,    *)
(* and the names hold local time, which daylight saving sets back.         *)
ClockBack ==
  /\ ClockSteps
  /\ \E t \in Stamps : t < now /\ now' = t
  /\ UNCHANGED <<files, stateFile, yamlFile, mem, running, pc, job, history>>

(* Someone edits config.json by hand while no request is under way.        *)
HandEdit(c) ==
  /\ \A p \in Procs : pc[p] = "idle"
  /\ config' = c
  /\ good' = c
  /\ owed' = TRUE
  /\ UNCHANGED <<baks, writer, stateFile, yamlFile, mem, running, now, pc, job,
                 discarded, apart>>

(* Or config.yaml, which the server reads at its start only.               *)
EditYaml(y) ==
  /\ \A p \in Procs : pc[p] = "idle"
  /\ yamlFile' = [yamlFile EXCEPT !.file = y]
  /\ apart' = TRUE
  /\ UNCHANGED <<files, stateFile, mem, running, now, pc, job, good, discarded,
                 owed>>

(* The processes in P die: their descriptors are closed, the files stay.   *)
Killed(P) ==
  /\ pc' = [p \in Procs |-> IF p \in P THEN "idle" ELSE pc[p]]
  /\ job' = [p \in Procs |-> IF p \in P THEN NoJob ELSE job[p]]
  /\ writer' = [t \in Stamps |-> IF writer[t] \in P THEN NoProc ELSE writer[t]]
  /\ stateFile' = ClosedBy(stateFile, P)
  /\ yamlFile' = ClosedBy(yamlFile, P)

Unfinished(P) == \E p \in P : pc[p] \in {"write", "restart"}

(* main up to web.New.                                                     *)
Starts ==
  \E l \in LoadSettings(yamlFile.file) : mem' = l.set /\ apart' = l.failed

(* The helper dies or is upgraded, and starts again.                       *)
HelperRestarts ==
  /\ Crashes
  /\ Killed(Handlers)
  /\ Starts
  /\ owed' = (owed \/ Unfinished(Handlers))
  /\ UNCHANGED <<config, baks, running, now, good, discarded>>

CliKilled(p) ==
  /\ Crashes
  /\ p \in Clis
  /\ pc[p] # "idle"
  /\ Killed({p})
  /\ owed' = (owed \/ Unfinished({p}))
  /\ UNCHANGED <<config, baks, mem, running, now, good, discarded, apart>>

(* The router restarts: sing-box and the helper are started by their init  *)
(* scripts.                                                                *)
Reboot ==
  /\ Crashes
  /\ Killed(Procs)
  /\ Starts
  /\ running' = Loaded(config)
  /\ owed' = FALSE
  /\ UNCHANGED <<config, baks, now, good, discarded>>

----------------------------------------------------------------------------
Init ==
  /\ config \in Whole \cup {Absent}
  /\ baks = [t \in Stamps |-> Absent]
  /\ writer = [t \in Stamps |-> NoProc]
  /\ \E u \in URIs \cup {Absent} : stateFile = NewCell(Procs, u)
  /\ \E y \in SettingsVals \cup {Absent, Torn} : \E l \in LoadSettings(y) :
       /\ yamlFile = NewCell(Procs, y)
       /\ mem = l.set
       /\ apart = l.failed
  /\ running = Loaded(config)
  /\ now = 1
  /\ pc = [p \in Procs |-> "idle"]
  /\ job = [p \in Procs |-> NoJob]
  /\ good = config
  /\ discarded = {}
  /\ owed = FALSE

Begin(p) ==
  \/ \E u \in URIs : BeginApply(p, u) \/ BeginCli(p, u)
  \/ \E s \in Accepted : BeginSettings(p, s)
  \/ \E t \in Stamps : BeginRestore(p, t) \/ DeleteBackup(p, t)

BackupStep(p) ==
  \/ OpenLive(p) \/ CreateBackup(p) \/ CopyBackup(p) \/ CopyFails(p)

WriteStep(p) ==
  \/ ReadBackup(p) \/ TruncateLive(p) \/ FailsBeforeWrite(p)
  \/ WriteLive(p) \/ WriteFails(p)

SaveStep(p) ==
  \/ SaveOpen(p) \/ SaveOpenFails(p) \/ SaveWrite(p) \/ SaveWriteFails(p)
  \/ SaveRename(p) \/ SaveRenameFails(p) \/ SaveRemove(p)

TailStep(p) ==
  \/ SwapSettings(p) \/ LoadState(p) \/ ListBackups(p) \/ ListFails(p)
  \/ (\E t \in Stamps : TrimOne(p, t)) \/ Reply(p)

(* What a process does by itself once it is under way.                     *)
Step(p) == BackupStep(p) \/ WriteStep(p) \/ SaveStep(p) \/ TailStep(p)

Restart(p) == RestartOk(p) \/ RestartFails(p)

Surroundings ==
  \/ Tick \/ ClockBack
  \/ \E c \in Foreign : HandEdit(c)
  \/ \E y \in YamlEdits : EditYaml(y)
  \/ HelperRestarts \/ Reboot
  \/ \E p \in Clis : CliKilled(p)

Next == (\E p \in Procs : Begin(p) \/ Step(p) \/ Restart(p)) \/ Surroundings

Spec == Init /\ [][Next]_vars

AllIdle == \A p \in Procs : pc[p] = "idle"

(* One user, who waits for an answer or for the prompt before going on.    *)
SerialNext ==
  \/ \E p \in Procs : (AllIdle /\ Begin(p)) \/ Step(p) \/ Restart(p)
  \/ Surroundings

SerialSpec == Init /\ [][SerialNext]_vars

(* System calls return and goroutines are scheduled.  Nothing is assumed   *)
(* of Restart: restartSingBox waits for the init script without a limit.   *)
FairSpec == Spec /\ \A p \in Procs : WF_vars(Step(p))

----------------------------------------------------------------------------
(* Properties that hold whatever requests and command-line runs overlap.   *)

(* A finished backup never changes: as long as the file exists it holds    *)
(* what was copied into it, although names are only a second fine and      *)
(* Create, backupIfExists, Trim and DELETE overlap in any order.           *)
BackupsImmutable ==
  [][\A t \in Stamps :
       Present(t) /\ writer[t] = NoProc => baks'[t] \in {baks[t], Absent}]_vars

(* Trim works from a list that may be out of date, and next to other       *)
(* Trims.  Even so, every backup on a list has KeepBackups younger ones,   *)
(* not counting those that were discarded by hand since.                   *)
TrimSparesNewest ==
  \A p \in Procs : \A t \in job[p].todo :
    Cardinality({u \in Stamps : u > t /\ (Present(u) \/ u \in discarded)})
      >= KeepBackups

(* "so the directory doesn't accumulate forever": however applies overlap  *)
(* with each other and with deletions, and whether their restarts work or  *)
(* not, at most KeepBackups are left when all are through - if system calls*)
(* work, nothing is killed, and nobody uses what makes backups and does not*)
(* trim: the settings, a restore, the command.                             *)
AtMostKeep ==
  AllIdle /\ ~IOErrors /\ ~Crashes /\ Ops \subseteq {"apply", "delete"} =>
    Cardinality({t \in Stamps : Present(t)}) <= KeepBackups

(* Once no write of config.json waits for its restart, and no restart is   *)
(* owed because one failed, was cut off by a crash or is left to the user, *)
(* sing-box runs what config.json says ("the source of truth"): the        *)
(* restarts of overlapping requests come after their writes.               *)
RunningFollowsConfig ==
  ~owed /\ ~Unfinished(Procs) => running = Loaded(config)

(* A request under way is answered, or waits for the init script; a script *)
(* that hangs holds up no other request.                                   *)
EveryRequestEnds ==
  \A p \in Procs : pc[p] # "idle" ~> pc[p] \in {"idle", "restart"}

----------------------------------------------------------------------------
(* Properties that hold while requests and command-line runs come one after*)
(* the other (SerialSpec), with I/O errors and crashes at any step.        *)

(* The last whole configuration that config.json held can be got back: it  *)
(* is still there or it is in a backup, unless the user deleted that one.  *)
(* ("so the previous config is recoverable")                               *)
LastGoodRecoverable ==
  good \in {Absent, config} \/ \E t \in Stamps : baks[t] = good

(* Between requests the settings in memory are those of config.yaml, so    *)
(* that a restart of the helper brings back what was saved, whatever has   *)
(* failed or been cut off.  Only two things part them, a start that cannot *)
(* read the file and a hand edit of it, and the next save joins them again.*)
SettingsAgree == AllIdle /\ ~apart => mem \in Decoded(yamlFile.file)

(* What an answer says is so when it is sent: the config written is the    *)
(* one asked for, "restarted" means that sing-box runs it, and it was      *)
(* rendered with the settings in force.                                    *)
ReplyTrue ==
  \A p \in Procs : pc[p] = "reply" =>
    /\ job[p].body # Absent => config = job[p].body
    /\ job[p].restarted => running = Loaded(job[p].body)
    /\ job[p].op # "restore" /\ job[p].body # Absent => config.set = mem

(* The backup that an answer names exists, unless the user has deleted it. *)
(* ("Trim deletes the oldest backups until at most keep remain": never the *)
(* one just made.)                                                         *)
ReplyNamesBackup ==
  \A p \in Procs : pc[p] = "reply" /\ job[p].bak # NoStamp =>
    Present(job[p].bak) \/ job[p].bak \in discarded

----------------------------------------------------------------------------
(* What comments, tests and the README say, and the code does not do.      *)

(* readCurrentOutbound and handleStatus: the node that config.json holds   *)
(* is taken for the one in state.json if server and port agree.            *)
EndpointOf(c) == IF c \in Foreign THEN Endpoint[c] ELSE Endpoint[c.uri]
Managed ==
  config \in Whole /\ StateURI # Absent /\ EndpointOf(config) = Endpoint[StateURI]

(* "if a node is currently applied (state.json present + matches           *)
(* config.json) - re-renders config.json": settings replace no other node. *)
ReRendersAppliedNode ==
  \A p \in Procs : pc[p] = "truncate" /\ job[p].op = "settings" => Managed

(* "Before overwriting, the current live config is itself snapshotted".    *)
SnapshotHoldsLive ==
  \A p \in Procs :
    pc[p] = "truncate" /\ job[p].op = "restore" /\ config \in Whole =>
      \E t \in Stamps : baks[t] = config

============================================================================
