---------------------------- MODULE HelperProofs ----------------------------
(***************************************************************************)
(* What holds of module Helper for any number of handlers, command-line    *)
(* runs, URIs, settings and seconds, however they overlap, with I/O errors,*)
(* crashes and a clock that is set back; and what it promises to one user  *)
(* at a time.  First comes an inductive invariant; the theorems on backups,*)
(* trimming, restarts and, in the last part, single users rest on it.      *)
(***************************************************************************)
EXTENDS Helper, FilesProofs, FiniteSetTheorems, TLAPS

(* What the place of a request says of its local variables: which requests *)
(* get there, and that what the next step uses has been set.               *)
JobOK(p) ==
  /\ job[p].op = "restore" => job[p].file \in Stamps
  /\ job[p].op = "settings" => job[p].set \in SettingsVals
  /\ pc[p] \in {"saveRemove", "swap", "load"} => job[p].op = "settings"
  /\ pc[p] \in {"saveOpen", "saveWrite", "saveRename"} =>
       job[p].op \in {"apply", "settings"}
  /\ pc[p] = "read" => job[p].op = "restore"
  /\ pc[p] \in {"create", "copy"} => job[p].bak \in Stamps /\ config # Absent
  /\ pc[p] \in {"stamp", "create", "copy"} =>
       job[p].op = "restore" \/ job[p].body # Absent
  /\ pc[p] \in {"truncate", "write"} => job[p].body # Absent

(* TypeOK alone is not inductive: the values that a request stores are in  *)
(* its local variables, and config.json must not vanish under a backup.    *)
IInv == TypeOK /\ \A p \in Procs : JobOK(p)

----------------------------------------------------------------------------
(* Facts about the data.                                                   *)

(* A process that is idle has well-typed local variables.                  *)
LEMMA NoJobTyped == NoJob \in Jobs
BY BoundsAssumption DEF NoJob, Jobs, NoStamp, Contents, Unusable, Operations

(* Rendering a URI with settings gives a configuration.                    *)
LEMMA RenderedTyped ==
  ASSUME NEW u \in URIs, NEW s \in SettingsVals
  PROVE  Rendered(u, s) \in Configs /\ Rendered(u, s) # Absent
BY ContentsAssumption DEF Rendered, Configs, Whole, Unusable

(* The server starts with some settings, whatever config.yaml holds; with  *)
(* those of the file, unless it could not be read.                         *)
LEMMA LoadTyped ==
  ASSUME NEW y \in SettingsVals \cup Unusable, NEW l \in LoadSettings(y)
  PROVE  /\ l.set \in SettingsVals
         /\ l.failed \in BOOLEAN
         /\ ~l.failed => l.set \in Decoded(y)
<1>1. Decoded(y) \subseteq SettingsVals
  <2>1. CASE y \in SettingsVals
    BY <2>1 DEF Decoded
  <2>2. CASE y = Torn
    BY <2>2, ContentsAssumption DEF Decoded, Unusable
  <2>3. CASE y \notin SettingsVals /\ y # Torn
    BY <2>3, ContentsAssumption DEF Decoded
  <2> QED
    BY <2>1, <2>2, <2>3
<1>2. CASE l \in [set: Decoded(y), failed: {FALSE}]
  BY <1>1, <1>2
<1>3. CASE l = [set |-> DefaultSettings, failed |-> TRUE]
  BY <1>3, ContentsAssumption
<1> QED
  BY <1>2, <1>3 DEF LoadSettings

(* Assignments to one local variable.                                      *)
LEMMA JobUpdates ==
  ASSUME NEW j \in Jobs
  PROVE  /\ \A t \in Stamps : [j EXCEPT !.bak = t] \in Jobs
         /\ \A b \in Contents : [j EXCEPT !.body = b] \in Jobs
         /\ \A T \in SUBSET Stamps : [j EXCEPT !.todo = T] \in Jobs
         /\ [j EXCEPT !.restarted = TRUE] \in Jobs
<1>1. ASSUME NEW t \in Stamps PROVE [j EXCEPT !.bak = t] \in Jobs
  <2>1. t \in 0..MaxClock
    BY BoundsAssumption DEF Stamps
  <2> QED
    BY <2>1 DEF Jobs
<1>2. ASSUME NEW b \in Contents PROVE [j EXCEPT !.body = b] \in Jobs
  BY DEF Jobs
<1>3. ASSUME NEW T \in SUBSET Stamps PROVE [j EXCEPT !.todo = T] \in Jobs
  BY DEF Jobs
<1>4. [j EXCEPT !.restarted = TRUE] \in Jobs
  BY DEF Jobs
<1> QED
  BY <1>1, <1>2, <1>3, <1>4

(* The two kinds of cells hold what the decoders reject, too; and what a   *)
(* saving request writes is typed for the cell it writes to.               *)
LEMMA CellsTyped ==
  ASSUME IInv, NEW p \in Procs,
         pc[p] \in {"saveOpen", "saveWrite", "saveRename", "saveRemove"}
  PROVE  /\ job[p].op = "apply" => /\ CellOf(p) \in Cell(Procs, URIs \cup Unusable)
                                   /\ ValueOf(p) \in URIs \cup Unusable
         /\ job[p].op # "apply" =>
              /\ CellOf(p) \in Cell(Procs, SettingsVals \cup Unusable)
              /\ ValueOf(p) \in SettingsVals \cup Unusable
BY DEF IInv, TypeOK, JobOK, Jobs, CellOf, ValueOf, Unusable

(* Storing a typed cell where it came from keeps both cells typed.         *)
LEMMA PutCellTyped ==
  ASSUME TypeOK, NEW p \in Procs, NEW c, PutCell(p, c),
         job[p].op = "apply" => c \in Cell(Procs, URIs \cup Unusable),
         job[p].op # "apply" => c \in Cell(Procs, SettingsVals \cup Unusable)
  PROVE  /\ stateFile' \in Cell(Procs, URIs \cup Unusable)
         /\ yamlFile' \in Cell(Procs, SettingsVals \cup Unusable)
BY DEF TypeOK, PutCell

(* The script leaves sing-box with a configuration it can run, or down.    *)
LEMMA LoadedTyped ==
  ASSUME NEW c
  PROVE  Loaded(c) \in Whole \cup {Down}
BY DEF Loaded

----------------------------------------------------------------------------
(* The invariant.                                                          *)

(* Every state the program starts in satisfies it.                         *)
LEMMA InitIInv == Init => IInv
<1> SUFFICES ASSUME Init PROVE IInv
  OBVIOUS
<1>1. /\ stateFile \in Cell(Procs, URIs \cup Unusable)
      /\ yamlFile \in Cell(Procs, SettingsVals \cup Unusable)
  <2>1. PICK u \in URIs \cup Unusable : stateFile = NewCell(Procs, u)
    BY DEF Init, Unusable
  <2>2. PICK y \in SettingsVals \cup Unusable : yamlFile = NewCell(Procs, y)
    BY DEF Init, Unusable
  <2> QED
    BY <2>1, <2>2, NewCellTyped
<1>2. mem \in SettingsVals /\ apart \in BOOLEAN
  BY LoadTyped DEF Init, Unusable
<1>3. running \in Whole \cup {Down}
  BY LoadedTyped DEF Init
<1>4. now \in Stamps
  BY BoundsAssumption DEF Init, Stamps
<1>5. TypeOK
  BY <1>1, <1>2, <1>3, <1>4, NoJobTyped DEF Init, TypeOK, Contents, Unusable, Labels
<1>6. ASSUME NEW p \in Procs PROVE JobOK(p)
  BY DEF Init, JobOK, NoJob
<1> QED
  BY <1>5, <1>6 DEF IInv

(* What the death of the processes in P leaves behind is typed, and the    *)
(* others go on as before.                                                 *)
LEMMA KilledTyped ==
  ASSUME TypeOK, NEW P, Killed(P)
  PROVE  /\ pc' \in [Procs -> Labels]
         /\ job' \in [Procs -> Jobs]
         /\ writer' \in [Stamps -> Procs \cup {NoProc}]
         /\ stateFile' \in Cell(Procs, URIs \cup Unusable)
         /\ yamlFile' \in Cell(Procs, SettingsVals \cup Unusable)
         /\ \A q \in Procs :
              \/ pc'[q] = pc[q] /\ job'[q] = job[q]
              \/ pc'[q] = "idle" /\ job'[q] = NoJob
<1>1. pc' \in [Procs -> Labels]
  BY DEF TypeOK, Killed, Labels
<1>2. job' \in [Procs -> Jobs]
  BY NoJobTyped DEF TypeOK, Killed
<1>3. writer' \in [Stamps -> Procs \cup {NoProc}]
  BY DEF TypeOK, Killed
<1>4. /\ stateFile' \in Cell(Procs, URIs \cup Unusable)
      /\ yamlFile' \in Cell(Procs, SettingsVals \cup Unusable)
  BY ClosedByTyped DEF TypeOK, Killed
<1>5. ASSUME NEW q \in Procs
      PROVE  \/ pc'[q] = pc[q] /\ job'[q] = job[q]
             \/ pc'[q] = "idle" /\ job'[q] = NoJob
  BY DEF Killed
<1>6. \A q \in Procs :
        \/ pc'[q] = pc[q] /\ job'[q] = job[q]
        \/ pc'[q] = "idle" /\ job'[q] = NoJob
  BY <1>5
<1> QED
  BY <1>1, <1>2, <1>3, <1>4, <1>6

(* If each process goes on as before or is idle, what JobOK says of it     *)
(* stays true, as long as config.json does not vanish.                     *)
LEMMA IdleOrSame ==
  ASSUME NEW q \in Procs, JobOK(q), config # Absent => config' # Absent,
         \/ pc'[q] = pc[q] /\ job'[q] = job[q]
         \/ pc'[q] = "idle" /\ job'[q] = NoJob
  PROVE  JobOK(q)'
BY DEF JobOK, NoJob

(* Every step of the program preserves it.                                 *)
LEMMA NextIInv == IInv /\ [Next]_vars => IInv'
<1> SUFFICES ASSUME IInv, [Next]_vars PROVE IInv'
  OBVIOUS
<1> USE DEF IInv
<1>1. ASSUME NEW p \in Procs, NEW u \in URIs, BeginApply(p, u) PROVE IInv'
  <2>1. Rendered(u, mem) \in Configs /\ Rendered(u, mem) # Absent
    BY <1>1, RenderedTyped DEF TypeOK
  <2>2. [NoJob EXCEPT !.op = "apply", !.uri = u, !.body = Rendered(u, mem)] \in Jobs
    BY <1>1, <2>1, NoJobTyped DEF NoJob, Jobs, Operations, Contents, Whole
  <2>3. TypeOK'
    BY <1>1, <2>2 DEF BeginApply, TypeOK, Goto, files, history, Labels
  <2>4. ASSUME NEW q \in Procs PROVE JobOK(q)'
    BY <1>1, <2>1, NoJobTyped DEF BeginApply, TypeOK, JobOK, Goto, files, history, NoJob
  <2> QED
    BY <2>3, <2>4
<1>2. ASSUME NEW p \in Procs, NEW s \in Accepted, BeginSettings(p, s) PROVE IInv'
  <2>1. s \in SettingsVals /\ [NoJob EXCEPT !.op = "settings", !.set = s] \in Jobs
    BY <1>2, NoJobTyped, ContentsAssumption DEF NoJob, Jobs, Operations
  <2>2. TypeOK'
    BY <1>2, <2>1 DEF BeginSettings, TypeOK, Goto, files, history, Labels
  <2>3. ASSUME NEW q \in Procs PROVE JobOK(q)'
    BY <1>2, <2>1, NoJobTyped DEF BeginSettings, TypeOK, JobOK, Goto, files, history, NoJob
  <2> QED
    BY <2>2, <2>3
<1>3. ASSUME NEW p \in Procs, NEW t \in Stamps, BeginRestore(p, t) PROVE IInv'
  <2>1. t \in 0..MaxClock
    BY <1>3, BoundsAssumption DEF Stamps
  <2>2. [NoJob EXCEPT !.op = "restore", !.file = t] \in Jobs
    BY <1>3, <2>1, NoJobTyped DEF NoJob, Jobs, Operations
  <2>3. TypeOK'
    BY <1>3, <2>2 DEF BeginRestore, TypeOK, Goto, files, history, Labels
  <2>4. ASSUME NEW q \in Procs PROVE JobOK(q)'
    BY <1>3, NoJobTyped DEF BeginRestore, TypeOK, JobOK, Goto, files, history, NoJob
  <2> QED
    BY <2>3, <2>4
<1>4. ASSUME NEW p \in Procs, NEW u \in URIs, BeginCli(p, u) PROVE IInv'
  <2>1. PICK s \in SettingsVals :
           job' = [job EXCEPT ![p] = [NoJob EXCEPT
                     !.op = "cli", !.uri = u, !.body = Rendered(u, s)]]
    BY <1>4, LoadTyped DEF BeginCli, TypeOK, Cell
  <2>2. Rendered(u, s) \in Configs /\ Rendered(u, s) # Absent
    BY <1>4, RenderedTyped
  <2>3. [NoJob EXCEPT !.op = "cli", !.uri = u, !.body = Rendered(u, s)] \in Jobs
    BY <1>4, <2>2, NoJobTyped DEF NoJob, Jobs, Operations, Contents, Whole
  <2>4. TypeOK'
    BY <1>4, <2>1, <2>3 DEF BeginCli, TypeOK, Goto, files, history, Labels
  <2>5. ASSUME NEW q \in Procs PROVE JobOK(q)'
    BY <1>4, <2>1, <2>2 DEF BeginCli, TypeOK, JobOK, Goto, files, history, NoJob
  <2> QED
    BY <2>4, <2>5
<1>5. ASSUME NEW p \in Procs, NEW t \in Stamps, DeleteBackup(p, t) PROVE IInv'
  <2>1. TypeOK'
    BY <1>5 DEF DeleteBackup, TypeOK, Goto, files, history, Unusable, Contents
  <2>2. ASSUME NEW q \in Procs PROVE JobOK(q)'
    BY <1>5 DEF DeleteBackup, TypeOK, JobOK, Goto, files, history
  <2> QED
    BY <2>1, <2>2
<1>6. ASSUME NEW p \in Procs, OpenLive(p) PROVE IInv'
  <2>1. [job[p] EXCEPT !.bak = now] \in Jobs
    BY <1>6, JobUpdates DEF TypeOK
  <2>2. job' \in {job, [job EXCEPT ![p] = [job[p] EXCEPT !.bak = now]]}
    BY <1>6 DEF OpenLive
  <2>3. TypeOK'
    BY <1>6, <2>1, <2>2 DEF OpenLive, TypeOK, Goto, files, history, Labels, AfterBackup
  <2>4. ASSUME NEW q \in Procs PROVE JobOK(q)'
    BY <1>6, <2>1, <2>2 DEF OpenLive, TypeOK, JobOK, Goto, files, history, AfterBackup, Jobs
  <2> QED
    BY <2>3, <2>4
<1>7. ASSUME NEW p \in Procs, CreateBackup(p) PROVE IInv'
  <2>1. TypeOK'
    BY <1>7 DEF CreateBackup, TypeOK, Goto, files, history, Labels, Contents, Unusable
  <2>2. ASSUME NEW q \in Procs PROVE JobOK(q)'
    BY <1>7 DEF CreateBackup, TypeOK, JobOK, Goto, files, history
  <2> QED
    BY <2>1, <2>2
<1>8. ASSUME NEW p \in Procs, CopyBackup(p) PROVE IInv'
  <2>1. TypeOK'
    BY <1>8 DEF CopyBackup, TypeOK, Goto, files, history, Labels, AfterBackup
  <2>2. ASSUME NEW q \in Procs PROVE JobOK(q)'
    BY <1>8 DEF CopyBackup, TypeOK, JobOK, Goto, files, history, AfterBackup
  <2> QED
    BY <2>1, <2>2
<1>9. ASSUME NEW p \in Procs, CopyFails(p) PROVE IInv'
  <2>1. /\ baks' \in [Stamps -> Contents]
        /\ writer' \in [Stamps -> Procs \cup {NoProc}]
        /\ good' \in Whole \cup {Absent}
        /\ discarded' \subseteq Stamps
    BY <1>9 DEF CopyFails, TypeOK, JobOK, Contents, Unusable
  <2>2. TypeOK'
    BY <1>9, <2>1, NoJobTyped DEF CopyFails, TypeOK, Goto, files, history, Labels, Finish
  <2>3. ASSUME NEW q \in Procs PROVE JobOK(q)'
    BY <1>9, NoJobTyped DEF CopyFails, TypeOK, JobOK, Goto, files, history, Finish, NoJob
  <2> QED
    BY <2>2, <2>3
<1>10. ASSUME NEW p \in Procs, ReadBackup(p) PROVE IInv'
  <2>1. [job[p] EXCEPT !.body = baks[job[p].file]] \in Jobs
    BY <1>10, JobUpdates DEF TypeOK, JobOK, ReadBackup
  <2>2. job[p] \in Jobs /\ baks[job[p].file] # Absent
    BY <1>10 DEF ReadBackup, Present, TypeOK
  <2>3. TypeOK'
    BY <1>10, <2>1 DEF ReadBackup, TypeOK, Goto, files, history, Labels
  <2>4. ASSUME NEW q \in Procs PROVE JobOK(q)'
    BY <1>10, <2>2 DEF ReadBackup, TypeOK, JobOK, Goto, files, history, Present, Jobs
  <2> QED
    BY <2>3, <2>4
<1>11. ASSUME NEW p \in Procs, TruncateLive(p) PROVE IInv'
  <2>1. TypeOK'
    BY <1>11 DEF TruncateLive, TypeOK, Goto, files, history, Labels, Contents, Unusable
  <2>2. ASSUME NEW q \in Procs PROVE JobOK(q)'
    BY <1>11, FilesAssumption DEF TruncateLive, TypeOK, JobOK, Goto, files, history
  <2> QED
    BY <2>1, <2>2
<1>12. ASSUME NEW p \in Procs, FailsBeforeWrite(p) PROVE IInv'
  <2>1. TypeOK'
    BY <1>12, NoJobTyped DEF FailsBeforeWrite, TypeOK, Goto, files, history, Labels, Finish
  <2>2. ASSUME NEW q \in Procs PROVE JobOK(q)'
    BY <1>12, NoJobTyped DEF FailsBeforeWrite, TypeOK, JobOK, Goto, files, history, Finish, NoJob
  <2> QED
    BY <2>1, <2>2
<1>13. ASSUME NEW p \in Procs, WriteLive(p) PROVE IInv'
  <2>1. config' \in Contents
    BY ZenonT(30), <1>13, AfterWriteTyped DEF WriteLive, TypeOK, Jobs, Contents
  <2>2. config # Absent => config' # Absent
    BY <1>13, AfterWriteExists DEF WriteLive, JobOK
  <2>3. TypeOK'
    BY <1>13, <2>1, NoJobTyped DEF WriteLive, TypeOK, Goto, files, history, Labels, Finish, Contents
  <2>4. ASSUME NEW q \in Procs PROVE JobOK(q)'
    BY <1>13, <2>2, NoJobTyped DEF WriteLive, TypeOK, JobOK, Goto, files, history, Finish, NoJob
  <2> QED
    BY <2>3, <2>4
<1>14. ASSUME NEW p \in Procs, WriteFails(p) PROVE IInv'
  <2>1. config' \in Contents
    BY <1>14, AfterWriteTyped DEF WriteFails, TypeOK, Contents, Unusable
  <2>2. config # Absent => config' # Absent
    BY <1>14, AfterWriteExists, FilesAssumption DEF WriteFails
  <2>3. TypeOK'
    BY <1>14, <2>1, NoJobTyped DEF WriteFails, TypeOK, Goto, files, history, Labels, Finish
  <2>4. ASSUME NEW q \in Procs PROVE JobOK(q)'
    BY <1>14, <2>2, NoJobTyped DEF WriteFails, TypeOK, JobOK, Goto, files, history, Finish, NoJob
  <2> QED
    BY <2>3, <2>4
<1>15. ASSUME NEW p \in Procs, RestartOk(p) PROVE IInv'
  <2>1. [job[p] EXCEPT !.restarted = TRUE] \in Jobs
    BY <1>15, JobUpdates DEF TypeOK
  <2>2. TypeOK'
    BY <1>15, <2>1, LoadedTyped DEF RestartOk, TypeOK, Goto, files, history, Labels, AfterRestart
  <2>3. ASSUME NEW q \in Procs PROVE JobOK(q)'
    BY <1>15 DEF RestartOk, TypeOK, JobOK, Goto, files, history, AfterRestart, Jobs
  <2> QED
    BY <2>2, <2>3
<1>16. ASSUME NEW p \in Procs, RestartFails(p) PROVE IInv'
  <2>1. TypeOK'
    BY <1>16, LoadedTyped DEF RestartFails, TypeOK, Goto, files, history, Labels, AfterRestart
  <2>2. ASSUME NEW q \in Procs PROVE JobOK(q)'
    BY <1>16 DEF RestartFails, TypeOK, JobOK, Goto, files, history, AfterRestart
  <2> QED
    BY <2>1, <2>2
<1>17. ASSUME NEW p \in Procs, SaveOpen(p) PROVE IInv'
  <2>1. /\ stateFile' \in Cell(Procs, URIs \cup Unusable)
        /\ yamlFile' \in Cell(Procs, SettingsVals \cup Unusable)
    <3> DEFINE c == OpenedTmp(CellOf(p), p)
    <3>1. PutCell(p, c)
      BY <1>17 DEF SaveOpen
    <3>2. /\ job[p].op = "apply" => c \in Cell(Procs, URIs \cup Unusable)
          /\ job[p].op # "apply" => c \in Cell(Procs, SettingsVals \cup Unusable)
      BY <1>17, CellsTyped, OpenedTmpTyped DEF SaveOpen
    <3> HIDE DEF c
    <3> QED
      BY <1>17, <3>1, <3>2, PutCellTyped
  <2>2. TypeOK'
    BY <1>17, <2>1, NoJobTyped DEF SaveOpen, TypeOK, Goto, files, history, Labels, Finish, SaveGivesUp, AfterSave
  <2>3. ASSUME NEW q \in Procs PROVE JobOK(q)'
    BY <1>17, NoJobTyped DEF SaveOpen, TypeOK, JobOK, Goto, files, history, Finish, NoJob, SaveGivesUp, AfterSave
  <2> QED
    BY <2>2, <2>3
<1>18. ASSUME NEW p \in Procs, SaveOpenFails(p) PROVE IInv'
  <2>1. TypeOK'
    BY <1>18, NoJobTyped DEF SaveOpenFails, TypeOK, Goto, files, history, Labels, Finish, SaveGivesUp, AfterSave
  <2>2. ASSUME NEW q \in Procs PROVE JobOK(q)'
    BY <1>18, NoJobTyped DEF SaveOpenFails, TypeOK, JobOK, Goto, files, history, Finish, NoJob, SaveGivesUp, AfterSave
  <2> QED
    BY <2>1, <2>2
<1>19. ASSUME NEW p \in Procs, SaveWrite(p) PROVE IInv'
  <2>1. /\ stateFile' \in Cell(Procs, URIs \cup Unusable)
        /\ yamlFile' \in Cell(Procs, SettingsVals \cup Unusable)
    <3>1. PICK c \in WrittenTmp(CellOf(p), p, ValueOf(p)) : PutCell(p, c)
      BY <1>19 DEF SaveWrite
    <3>2. /\ job[p].op = "apply" => c \in Cell(Procs, URIs \cup Unusable)
          /\ job[p].op # "apply" => c \in Cell(Procs, SettingsVals \cup Unusable)
      BY <1>19, CellsTyped, WrittenTmpTyped DEF SaveWrite
    <3> QED
      BY <1>19, <3>1, <3>2, PutCellTyped
  <2>2. TypeOK'
    BY <1>19, <2>1, NoJobTyped DEF SaveWrite, TypeOK, Goto, files, history, Labels, Finish, SaveGivesUp, AfterSave
  <2>3. ASSUME NEW q \in Procs PROVE JobOK(q)'
    BY <1>19, NoJobTyped DEF SaveWrite, TypeOK, JobOK, Goto, files, history, Finish, NoJob, SaveGivesUp, AfterSave
  <2> QED
    BY <2>2, <2>3
<1>20. ASSUME NEW p \in Procs, SaveWriteFails(p) PROVE IInv'
  <2>1. /\ stateFile' \in Cell(Procs, URIs \cup Unusable)
        /\ yamlFile' \in Cell(Procs, SettingsVals \cup Unusable)
    <3>1. PICK b \in {Empty, Torn} :
            \E c \in WrittenTmp(CellOf(p), p, b) : PutCell(p, c)
      BY <1>20 DEF SaveWriteFails
    <3>2. PICK c \in WrittenTmp(CellOf(p), p, b) : PutCell(p, c)
      BY <1>20, <3>1
    <3>3. b \in URIs \cup Unusable /\ b \in SettingsVals \cup Unusable
      BY <1>20 DEF Unusable
    <3>4. /\ job[p].op = "apply" => c \in Cell(Procs, URIs \cup Unusable)
          /\ job[p].op # "apply" => c \in Cell(Procs, SettingsVals \cup Unusable)
      BY <1>20, <3>2, <3>3, CellsTyped, WrittenTmpTyped DEF SaveWriteFails
    <3> QED
      BY <1>20, <3>2, <3>4, PutCellTyped
  <2>2. TypeOK'
    BY <1>20, <2>1, NoJobTyped DEF SaveWriteFails, TypeOK, Goto, files, history, Labels, Finish, SaveGivesUp, AfterSave
  <2>3. ASSUME NEW q \in Procs PROVE JobOK(q)'
    BY <1>20, NoJobTyped DEF SaveWriteFails, TypeOK, JobOK, Goto, files, history, Finish, NoJob, SaveGivesUp, AfterSave
  <2> QED
    BY <2>2, <2>3
<1>21. ASSUME NEW p \in Procs, SaveRename(p) PROVE IInv'
  <2>1. /\ stateFile' \in Cell(Procs, URIs \cup Unusable)
        /\ yamlFile' \in Cell(Procs, SettingsVals \cup Unusable)
    <3> DEFINE c == Renamed(CellOf(p))
    <3>1. PutCell(p, c)
      BY <1>21 DEF SaveRename
    <3>2. /\ job[p].op = "apply" => c \in Cell(Procs, URIs \cup Unusable)
          /\ job[p].op # "apply" => c \in Cell(Procs, SettingsVals \cup Unusable)
      BY <1>21, CellsTyped, RenamedTyped DEF SaveRename
    <3> HIDE DEF c
    <3> QED
      BY <1>21, <3>1, <3>2, PutCellTyped
  <2>2. TypeOK'
    BY <1>21, <2>1, NoJobTyped DEF SaveRename, TypeOK, Goto, files, history, Labels, Finish, SaveGivesUp, AfterSave
  <2>3. ASSUME NEW q \in Procs PROVE JobOK(q)'
    BY <1>21, NoJobTyped DEF SaveRename, TypeOK, JobOK, Goto, files, history, Finish, NoJob, SaveGivesUp, AfterSave
  <2> QED
    BY <2>2, <2>3
<1>22. ASSUME NEW p \in Procs, SaveRenameFails(p) PROVE IInv'
  <2>1. TypeOK'
    BY <1>22, NoJobTyped DEF SaveRenameFails, TypeOK, Goto, files, history, Labels, Finish, SaveGivesUp, AfterSave
  <2>2. ASSUME NEW q \in Procs PROVE JobOK(q)'
    BY <1>22, NoJobTyped DEF SaveRenameFails, TypeOK, JobOK, Goto, files, history, Finish, NoJob, SaveGivesUp, AfterSave
  <2> QED
    BY <2>1, <2>2
<1>23. ASSUME NEW p \in Procs, SaveRemove(p) PROVE IInv'
  <2>1. yamlFile' \in Cell(Procs, SettingsVals \cup Unusable)
    BY <1>23, RemovedTmpTyped DEF SaveRemove, TypeOK
  <2>2. TypeOK'
    BY <1>23, <2>1, NoJobTyped DEF SaveRemove, TypeOK, Goto, files, history, Labels, Finish, SaveGivesUp, AfterSave
  <2>3. ASSUME NEW q \in Procs PROVE JobOK(q)'
    BY <1>23, NoJobTyped DEF SaveRemove, TypeOK, JobOK, Goto, files, history, Finish, NoJob, SaveGivesUp, AfterSave
  <2> QED
    BY <2>2, <2>3
<1>24. ASSUME NEW p \in Procs, SwapSettings(p) PROVE IInv'
  <2>1. mem' \in SettingsVals
    BY <1>24 DEF SwapSettings, JobOK
  <2>2. TypeOK'
    BY <1>24, <2>1 DEF SwapSettings, TypeOK, Goto, files, history, Labels
  <2>3. ASSUME NEW q \in Procs PROVE JobOK(q)'
    BY <1>24 DEF SwapSettings, TypeOK, JobOK, Goto, files, history
  <2> QED
    BY <2>2, <2>3
<1>25. ASSUME NEW p \in Procs, LoadState(p) PROVE IInv'
  <2>1. ASSUME StateURI \in URIs
        PROVE  /\ Rendered(StateURI, job[p].set) # Absent
               /\ [job[p] EXCEPT !.body = Rendered(StateURI, job[p].set)] \in Jobs
    <3>1. job[p].set \in SettingsVals
      BY <1>25 DEF LoadState, JobOK
    <3>2. /\ Rendered(StateURI, job[p].set) # Absent
          /\ Rendered(StateURI, job[p].set) \in Contents
      BY <1>25, <2>1, <3>1, RenderedTyped DEF Contents, Whole
    <3> QED
      BY <1>25, <3>2, JobUpdates DEF TypeOK
  <2>2. TypeOK'
    BY <1>25, <2>1 DEF LoadState, TypeOK, Goto, files, history, Labels
  <2>3. ASSUME NEW q \in Procs PROVE JobOK(q)'
    BY <1>25, <2>1 DEF LoadState, TypeOK, JobOK, Goto, files, history, Jobs
  <2> QED
    BY <2>2, <2>3
<1>26. ASSUME NEW p \in Procs, ListBackups(p) PROVE IInv'
  <2>1. [job[p] EXCEPT !.todo = Surplus] \in Jobs
    BY <1>26, JobUpdates DEF TypeOK, Surplus
  <2>2. TypeOK'
    BY <1>26, <2>1 DEF ListBackups, TypeOK, Goto, files, history, Labels
  <2>3. ASSUME NEW q \in Procs PROVE JobOK(q)'
    BY <1>26 DEF ListBackups, TypeOK, JobOK, Goto, files, history, Jobs
  <2> QED
    BY <2>2, <2>3
<1>27. ASSUME NEW p \in Procs, ListFails(p) PROVE IInv'
  <2>1. TypeOK'
    BY <1>27 DEF ListFails, TypeOK, Goto, files, history, Labels
  <2>2. ASSUME NEW q \in Procs PROVE JobOK(q)'
    BY <1>27 DEF ListFails, TypeOK, JobOK, Goto, files, history
  <2> QED
    BY <2>1, <2>2
<1>28. ASSUME NEW p \in Procs, NEW t \in Stamps, TrimOne(p, t) PROVE IInv'
  <2>1. [job[p] EXCEPT !.todo = job[p].todo \ {t}] \in Jobs
    <3>1. job[p] \in Jobs /\ job[p].todo \ {t} \in SUBSET Stamps
      BY <1>28 DEF TypeOK, Jobs
    <3> QED
      BY <1>28, <3>1, JobUpdates
  <2>2. TypeOK'
    BY <1>28, <2>1 DEF TrimOne, TypeOK, Goto, files, history, Labels, Contents, Unusable
  <2>3. ASSUME NEW q \in Procs PROVE JobOK(q)'
    BY <1>28 DEF TrimOne, TypeOK, JobOK, Goto, files, history, Jobs
  <2> QED
    BY <2>2, <2>3
<1>29. ASSUME NEW p \in Procs, Reply(p) PROVE IInv'
  <2>1. TypeOK'
    BY <1>29, NoJobTyped DEF Reply, TypeOK, Goto, files, history, Labels, Finish
  <2>2. ASSUME NEW q \in Procs PROVE JobOK(q)'
    BY <1>29, NoJobTyped DEF Reply, TypeOK, JobOK, Goto, files, history, Finish, NoJob
  <2> QED
    BY <2>1, <2>2
<1>30. ASSUME Tick PROVE IInv'
  <2>1. TypeOK'
    BY <1>30, BoundsAssumption DEF Tick, TypeOK, Stamps, files, history
  <2>2. ASSUME NEW q \in Procs PROVE JobOK(q)'
    BY <1>30 DEF Tick, JobOK, files, history
  <2> QED
    BY <2>1, <2>2
<1>31. ASSUME ClockBack PROVE IInv'
  <2>1. TypeOK'
    BY <1>31 DEF ClockBack, TypeOK, files, history
  <2>2. ASSUME NEW q \in Procs PROVE JobOK(q)'
    BY <1>31 DEF ClockBack, JobOK, files, history
  <2> QED
    BY <2>1, <2>2
<1>32. ASSUME NEW c \in Foreign, HandEdit(c) PROVE IInv'
  <2>1. TypeOK'
    BY <1>32 DEF HandEdit, TypeOK, Contents, Whole
  <2>2. config' # Absent
    BY <1>32, ContentsAssumption DEF HandEdit, Whole, Unusable
  <2>3. ASSUME NEW q \in Procs PROVE JobOK(q)'
    BY <1>32, <2>2 DEF HandEdit, JobOK
  <2> QED
    BY <2>1, <2>3
<1>33. ASSUME HelperRestarts PROVE IInv'
  <2>1. Killed(Handlers)
    BY <1>33 DEF HelperRestarts
  <2>2. mem' \in SettingsVals /\ apart' \in BOOLEAN
    BY <1>33, LoadTyped DEF HelperRestarts, Starts, TypeOK, Cell
  <2>3. TypeOK'
    BY <1>33, <2>1, <2>2, KilledTyped, LoadedTyped DEF HelperRestarts, TypeOK, Unfinished
  <2>4. ASSUME NEW q \in Procs PROVE JobOK(q)'
    BY <1>33, <2>1, KilledTyped, IdleOrSame DEF HelperRestarts
  <2> QED
    BY <2>3, <2>4
<1>34. ASSUME NEW p \in Clis, CliKilled(p) PROVE IInv'
  <2>1. Killed({p})
    BY <1>34 DEF CliKilled
  <2>2. mem' \in SettingsVals
    BY <1>34 DEF CliKilled, TypeOK
  <2>3. TypeOK'
    BY <1>34, <2>1, <2>2, KilledTyped, LoadedTyped DEF CliKilled, TypeOK, Unfinished
  <2>4. ASSUME NEW q \in Procs PROVE JobOK(q)'
    BY <1>34, <2>1, KilledTyped, IdleOrSame DEF CliKilled
  <2> QED
    BY <2>3, <2>4
<1>35. ASSUME Reboot PROVE IInv'
  <2>1. Killed(Procs)
    BY <1>35 DEF Reboot
  <2>2. mem' \in SettingsVals /\ apart' \in BOOLEAN
    BY <1>35, LoadTyped DEF Reboot, Starts, TypeOK, Cell
  <2>3. TypeOK'
    BY <1>35, <2>1, <2>2, KilledTyped, LoadedTyped DEF Reboot, TypeOK, Unfinished
  <2>4. ASSUME NEW q \in Procs PROVE JobOK(q)'
    BY <1>35, <2>1, KilledTyped, IdleOrSame DEF Reboot
  <2> QED
    BY <2>3, <2>4
<1>36. ASSUME NEW y \in YamlEdits, EditYaml(y) PROVE IInv'
  <2>1. y \in SettingsVals \cup Unusable
    BY <1>36, ContentsAssumption
  <2>2. yamlFile' \in Cell(Procs, SettingsVals \cup Unusable)
    BY <1>36, <2>1 DEF EditYaml, TypeOK, Cell
  <2>3. TypeOK'
    BY <1>36, <2>2 DEF EditYaml, TypeOK, files
  <2>4. ASSUME NEW q \in Procs PROVE JobOK(q)'
    BY <1>36 DEF EditYaml, JobOK, files
  <2> QED
    BY <2>3, <2>4
<1>37. CASE UNCHANGED vars
  BY <1>37 DEF vars, TypeOK, JobOK
<1> QED
  BY <1>1, <1>2, <1>3, <1>4, <1>5, <1>6, <1>7, <1>8, <1>9, <1>10, <1>11, <1>12, <1>13, <1>14, <1>15, <1>16, <1>17, <1>18, <1>19, <1>20, <1>21, <1>22, <1>23, <1>24, <1>25, <1>26, <1>27, <1>28, <1>29, <1>30, <1>31, <1>32, <1>33, <1>34, <1>35, <1>36, <1>37
  DEF Next, Begin, Step, Restart, Surroundings, BackupStep, WriteStep, SaveStep,
      TailStep, Procs

(* Every reachable state is well typed: the server always has some settings*)
(* in memory, accepted or not, and no step stores a local variable that its*)
(* request has not set.                                                    *)
THEOREM TypeCorrect == Spec => []TypeOK
<1>1. IInv => TypeOK
  BY DEF IInv
<1> QED
  BY InitIInv, NextIInv, <1>1, PTL DEF Spec

----------------------------------------------------------------------------
(* The actions of one process, by what they leave alone.                   *)

(* A step of one process leaves the others alone.                          *)
LEMMA OthersGoOn ==
  ASSUME TypeOK, NEW p \in Procs, Begin(p) \/ Step(p) \/ Restart(p),
         NEW q \in Procs, q # p
  PROVE  pc'[q] = pc[q] /\ job'[q] = job[q]
<1> USE DEF TypeOK, Goto, Finish
<1> DEFINE Stays == pc'[q] = pc[q] /\ job'[q] = job[q]
<1>1. ASSUME Begin(p) PROVE Stays
  BY <1>1 DEF Begin, BeginApply, BeginCli, BeginSettings, BeginRestore, DeleteBackup
<1>2. ASSUME BackupStep(p) PROVE Stays
  BY <1>2 DEF BackupStep, OpenLive, CreateBackup, CopyBackup, CopyFails
<1>3. ASSUME WriteStep(p) PROVE Stays
  BY <1>3 DEF WriteStep, ReadBackup, TruncateLive, FailsBeforeWrite, WriteLive,
             WriteFails
<1>4. ASSUME SaveStep(p) PROVE Stays
  BY <1>4 DEF SaveStep, SaveOpen, SaveOpenFails, SaveWrite, SaveWriteFails,
             SaveRename, SaveRenameFails, SaveRemove, SaveGivesUp
<1>5. ASSUME TailStep(p) PROVE Stays
  BY <1>5 DEF TailStep, SwapSettings, LoadState, ListBackups, ListFails, TrimOne,
             Reply
<1>6. ASSUME Restart(p) PROVE Stays
  BY <1>6 DEF Restart, RestartOk, RestartFails
<1> QED
  BY <1>1, <1>2, <1>3, <1>4, <1>5, <1>6 DEF Step

(* Only five actions touch the backups.                                    *)
LEMMA BackupsTouched ==
  ASSUME Next, ~(\E p \in Procs :
           \/ \E t \in Stamps : DeleteBackup(p, t) \/ TrimOne(p, t)
           \/ CreateBackup(p) \/ CopyBackup(p) \/ CopyFails(p))
  PROVE  baks' = baks
<1>1. ASSUME NEW p \in Procs, Begin(p) PROVE baks' = baks
  BY <1>1 DEF Begin, BeginApply, BeginCli, BeginSettings, BeginRestore, files
<1>2. ASSUME NEW p \in Procs, BackupStep(p) PROVE baks' = baks
  BY <1>2 DEF BackupStep, OpenLive, files
<1>3. ASSUME NEW p \in Procs, WriteStep(p) PROVE baks' = baks
  BY <1>3 DEF WriteStep, ReadBackup, TruncateLive, FailsBeforeWrite, WriteLive,
             WriteFails, files
<1>4. ASSUME NEW p \in Procs, SaveStep(p) PROVE baks' = baks
  BY <1>4 DEF SaveStep, SaveOpen, SaveOpenFails, SaveWrite, SaveWriteFails,
             SaveRename, SaveRenameFails, SaveRemove, files
<1>5. ASSUME NEW p \in Procs, TailStep(p) PROVE baks' = baks
  BY <1>5 DEF TailStep, SwapSettings, LoadState, ListBackups, ListFails, Reply, files
<1>6. ASSUME NEW p \in Procs, Restart(p) PROVE baks' = baks
  BY <1>6 DEF Restart, RestartOk, RestartFails, files
<1>7. ASSUME Surroundings PROVE baks' = baks
  BY <1>7 DEF Surroundings, Tick, ClockBack, HandEdit, EditYaml, HelperRestarts, Reboot,
             CliKilled, files
<1> QED
  BY <1>1, <1>2, <1>3, <1>4, <1>5, <1>6, <1>7 DEF Next, Step

----------------------------------------------------------------------------
(* A finished backup keeps its contents: O_EXCL and the inode that io.Copy *)
(* writes to make up for names that are only a second fine.                *)
THEOREM BackupsStay == Spec => BackupsImmutable
<1> DEFINE Stays(t) == baks'[t] \in {baks[t], Absent}
<1>1. ASSUME IInv, Next, NEW t \in Stamps, Present(t), writer[t] = NoProc
      PROVE  Stays(t)
  <2> USE DEF IInv
  <2>1. ASSUME NEW p \in Procs, NEW u \in Stamps, DeleteBackup(p, u) PROVE Stays(t)
    BY <1>1, <2>1 DEF DeleteBackup, TypeOK
  <2>2. ASSUME NEW p \in Procs, NEW u \in Stamps, TrimOne(p, u) PROVE Stays(t)
    BY <1>1, <2>2 DEF TrimOne, TypeOK
  <2>3. ASSUME NEW p \in Procs, CreateBackup(p) PROVE Stays(t)
    BY <1>1, <2>3 DEF CreateBackup, TypeOK, NameFree, Present
  <2>4. ASSUME NEW p \in Procs, CopyBackup(p) PROVE Stays(t)
    BY <1>1, <2>4, ProcsAssumption DEF CopyBackup, TypeOK, Procs
  <2>5. ASSUME NEW p \in Procs, CopyFails(p) PROVE Stays(t)
    BY <1>1, <2>5, ProcsAssumption DEF CopyFails, TypeOK, Procs
  <2>6. CASE baks' = baks
    BY <2>6
  <2> QED
    BY <1>1, <2>1, <2>2, <2>3, <2>4, <2>5, <2>6, BackupsTouched
<1>2. IInv /\ [Next]_vars =>
        [\A t \in Stamps : Present(t) /\ writer[t] = NoProc => Stays(t)]_vars
  BY <1>1
<1> QED
  BY <1>2, InitIInv, NextIInv, PTL DEF Spec, BackupsImmutable

----------------------------------------------------------------------------
(* Trim.                                                                   *)

(* The backups after t, and those discarded by hand.                       *)
Kept(t) == {u \in Stamps : u > t /\ (Present(u) \/ u \in discarded)}

(* Backups are counted: there are finitely many seconds.                   *)
LEMMA StampsCounted ==
  ASSUME NEW S \in SUBSET Stamps, NEW T \in SUBSET Stamps, S \subseteq T
  PROVE  /\ IsFiniteSet(T) /\ Cardinality(T) \in Nat
         /\ Cardinality(S) \in Nat /\ Cardinality(S) <= Cardinality(T)
<1>1. IsFiniteSet(Stamps)
  BY FS_Interval, BoundsAssumption DEF Stamps
<1>2. IsFiniteSet(T)
  BY <1>1, FS_Subset
<1>3. IsFiniteSet(S) /\ Cardinality(S) <= Cardinality(T)
  BY <1>2, FS_Subset
<1> QED
  BY <1>2, <1>3, FS_CardinalityType

(* Having enough of them is monotonic.                                     *)
LEMMA MoreBackups ==
  ASSUME NEW S \in SUBSET Stamps, NEW T \in SUBSET Stamps, S \subseteq T,
         Cardinality(S) >= KeepBackups
  PROVE  Cardinality(T) >= KeepBackups
<1>1. /\ Cardinality(S) \in Nat /\ Cardinality(T) \in Nat
      /\ Cardinality(S) <= Cardinality(T)
  BY StampsCounted
<1> QED
  BY <1>1, BoundsAssumption

(* A step that neither puts a backup on a list nor makes one vanish that   *)
(* was not discarded keeps the promise.                                    *)
LEMMA SparedStill ==
  ASSUME TrimSparesNewest,
         \A p \in Procs : job'[p].todo \subseteq job[p].todo,
         \A u \in Stamps : Present(u) \/ u \in discarded =>
                             Present(u)' \/ u \in discarded',
         \A p \in Procs : job[p].todo \subseteq Stamps
  PROVE  TrimSparesNewest'
<1> SUFFICES ASSUME NEW p \in Procs, NEW t \in job'[p].todo
             PROVE  Cardinality(Kept(t)') >= KeepBackups
  BY DEF TrimSparesNewest, Kept
<1>1. t \in job[p].todo
  OBVIOUS
<1>2. Cardinality(Kept(t)) >= KeepBackups
  BY <1>1 DEF TrimSparesNewest, Kept
<1>3. Kept(t) \subseteq Kept(t)'
  BY DEF Kept
<1>4. Kept(t) \in SUBSET Stamps /\ Kept(t)' \in SUBSET Stamps
  BY DEF Kept
<1> QED
  BY <1>2, <1>3, <1>4, MoreBackups

(* Lists get longer only where Trim makes its list.                        *)
LEMMA ListsTouched ==
  ASSUME IInv, Next, ~(\E p \in Procs : ListBackups(p)), NEW q \in Procs
  PROVE  job'[q].todo \subseteq job[q].todo
<1> USE DEF IInv, TypeOK, NoJob, Finish
<1> DEFINE Shorter == job'[q].todo \subseteq job[q].todo
<1>1. ASSUME NEW p \in Procs, Begin(p) PROVE Shorter
  BY ZenonT(30), <1>1
     DEF Begin, BeginApply, BeginCli, BeginSettings, BeginRestore, DeleteBackup
<1>2. ASSUME NEW p \in Procs, BackupStep(p) PROVE Shorter
  BY <1>2 DEF BackupStep, OpenLive, CreateBackup, CopyBackup, CopyFails, Jobs
<1>3. ASSUME NEW p \in Procs, WriteStep(p) PROVE Shorter
  BY <1>3 DEF WriteStep, ReadBackup, TruncateLive, FailsBeforeWrite, WriteLive,
             WriteFails, Jobs
<1>4. ASSUME NEW p \in Procs, SaveStep(p) PROVE Shorter
  BY <1>4 DEF SaveStep, SaveOpen, SaveOpenFails, SaveWrite, SaveWriteFails,
             SaveRename, SaveRenameFails, SaveRemove, SaveGivesUp
<1>5. ASSUME NEW p \in Procs, TailStep(p), ~ListBackups(p) PROVE Shorter
  <2>1. ASSUME NEW t \in Stamps, TrimOne(p, t) PROVE Shorter
    BY <2>1 DEF TrimOne, Jobs
  <2>2. ASSUME SwapSettings(p) \/ ListFails(p) \/ Reply(p) PROVE Shorter
    BY <2>2 DEF SwapSettings, ListFails, Reply
  <2>3. ASSUME LoadState(p) PROVE Shorter
    BY <2>3 DEF LoadState, Jobs
  <2> QED
    BY <1>5, <2>1, <2>2, <2>3 DEF TailStep
<1>6. ASSUME NEW p \in Procs, Restart(p) PROVE Shorter
  BY <1>6 DEF Restart, RestartOk, RestartFails, Jobs
<1>7. ASSUME Surroundings PROVE Shorter
  <2>1. ASSUME NEW P, Killed(P) PROVE Shorter
    BY <2>1, KilledTyped
  <2> QED
    BY <1>7, <2>1 DEF Surroundings, Tick, ClockBack, HandEdit, EditYaml, HelperRestarts,
               Reboot, CliKilled
<1> QED
  BY <1>1, <1>2, <1>3, <1>4, <1>5, <1>6, <1>7 DEF Next, Step

(* A backup goes unmarked only in Trim.                                    *)
LEMMA BackupsMarked ==
  ASSUME IInv, Next, ~(\E p \in Procs : \E t \in Stamps : TrimOne(p, t)),
         NEW u \in Stamps, Present(u) \/ u \in discarded
  PROVE  Present(u)' \/ u \in discarded'
<1> USE DEF IInv, TypeOK, Present
<1> DEFINE Marked == Present(u)' \/ u \in discarded'
<1>1. ASSUME NEW p \in Procs, Begin(p) PROVE Marked
  BY <1>1 DEF Begin, BeginApply, BeginCli, BeginSettings, BeginRestore,
             DeleteBackup, files, history
<1>2. ASSUME NEW p \in Procs, CreateBackup(p) PROVE Marked
  BY <1>2, FilesAssumption DEF CreateBackup
<1>3. ASSUME NEW p \in Procs, CopyBackup(p) PROVE Marked
  BY <1>3 DEF CopyBackup, JobOK, history
<1>4. ASSUME NEW p \in Procs, CopyFails(p) PROVE Marked
  BY <1>4, FilesAssumption DEF CopyFails
<1>5. ASSUME NEW p \in Procs, OpenLive(p) PROVE Marked
  BY <1>5 DEF OpenLive, files, history
<1>6. ASSUME NEW p \in Procs, WriteStep(p) PROVE Marked
  BY <1>6 DEF WriteStep, ReadBackup, TruncateLive, FailsBeforeWrite, WriteLive,
             WriteFails, files, history
<1>7. ASSUME NEW p \in Procs, SaveStep(p) PROVE Marked
  BY <1>7 DEF SaveStep, SaveOpen, SaveOpenFails, SaveWrite, SaveWriteFails,
             SaveRename, SaveRenameFails, SaveRemove, files, history
<1>8. ASSUME NEW p \in Procs, TailStep(p) PROVE Marked
  BY <1>8 DEF TailStep, SwapSettings, LoadState, ListBackups, ListFails, Reply,
             files, history
<1>9. ASSUME NEW p \in Procs, Restart(p) PROVE Marked
  BY <1>9 DEF Restart, RestartOk, RestartFails, files
<1>10. ASSUME Surroundings PROVE Marked
  BY <1>10 DEF Surroundings, Tick, ClockBack, HandEdit, EditYaml, HelperRestarts, Reboot,
              CliKilled, files, history
<1> QED
  BY <1>1, <1>2, <1>3, <1>4, <1>5, <1>6, <1>7, <1>8, <1>9, <1>10
  DEF Next, Step, BackupStep

(* Trim from a list that may be out of date, next to other Trims and       *)
(* deletions: never the youngest KeepBackups.  When t goes, an older one   *)
(* on any list loses t, and still has the KeepBackups that t had.          *)
THEOREM TrimSpares == Spec => []TrimSparesNewest
<1>1. Init => TrimSparesNewest
  BY DEF Init, NoJob, TrimSparesNewest
<1>2. ASSUME IInv, TrimSparesNewest, [Next]_vars PROVE TrimSparesNewest'
  <2> USE DEF IInv
  <2>0. \A p \in Procs : job[p].todo \subseteq Stamps
    BY <1>2 DEF TypeOK, Jobs
  <2>1. ASSUME NEW p \in Procs, ListBackups(p) PROVE TrimSparesNewest'
    <3> SUFFICES ASSUME NEW q \in Procs, NEW t \in job'[q].todo
                 PROVE  Cardinality(Kept(t)') >= KeepBackups
      BY DEF TrimSparesNewest, Kept
    <3>1. Kept(t)' = Kept(t)
      BY <2>1 DEF ListBackups, Kept, Present, files, history
    <3>2. CASE q = p
      <4>1. t \in Surplus
        BY <1>2, <2>1, <3>2 DEF ListBackups, TypeOK, Jobs
      <4>2. Newer(t) \subseteq Kept(t) /\ Cardinality(Newer(t)) >= KeepBackups
        BY <4>1 DEF Surplus, Newer, Kept
      <4>3. Newer(t) \in SUBSET Stamps /\ Kept(t) \in SUBSET Stamps
        BY DEF Newer, Kept
      <4> QED
        BY <3>1, <4>2, <4>3, MoreBackups
    <3>3. CASE q # p
      <4>1. t \in job[q].todo
        BY <1>2, <2>1, <3>3 DEF ListBackups, TypeOK
      <4> QED
        BY <1>2, <3>1, <4>1 DEF TrimSparesNewest, Kept
    <3> QED
      BY <3>2, <3>3
  <2>2. ASSUME NEW p \in Procs, NEW t \in Stamps, TrimOne(p, t)
        PROVE  TrimSparesNewest'
    <3> SUFFICES ASSUME NEW q \in Procs, NEW v \in job'[q].todo
                 PROVE  Cardinality(Kept(v)') >= KeepBackups
      BY DEF TrimSparesNewest, Kept
    <3>1. v \in job[q].todo /\ t \in job[p].todo
      BY <1>2, <2>2 DEF TrimOne, TypeOK, Jobs
    <3>2. v \in Nat /\ t \in Nat
      BY <2>0, <3>1 DEF Stamps
    <3>3. /\ Cardinality(Kept(v)) >= KeepBackups
          /\ Cardinality(Kept(t)) >= KeepBackups
      BY <1>2, <3>1 DEF TrimSparesNewest, Kept
    <3>4. \A u \in Stamps \ {t} : u \in Kept(v) => u \in Kept(v)'
      BY <1>2, <2>2 DEF TrimOne, TypeOK, Kept, Present, history
    <3>5. CASE t > v
      <4>1. Kept(t) \subseteq Kept(v)'
        BY <3>2, <3>4, <3>5 DEF Kept, Stamps
      <4>2. Kept(t) \in SUBSET Stamps /\ Kept(v)' \in SUBSET Stamps
        BY DEF Kept
      <4> QED
        BY <3>3, <4>1, <4>2, MoreBackups
    <3>6. CASE ~(t > v)
      <4>1. Kept(v) \subseteq Kept(v)'
        BY <3>4, <3>6 DEF Kept
      <4>2. Kept(v) \in SUBSET Stamps /\ Kept(v)' \in SUBSET Stamps
        BY DEF Kept
      <4> QED
        BY <3>3, <4>1, <4>2, MoreBackups
    <3> QED
      BY <3>5, <3>6
  <2>3. ASSUME Next,
               ~(\E p \in Procs : ListBackups(p)),
               ~(\E p \in Procs : \E t \in Stamps : TrimOne(p, t))
        PROVE  TrimSparesNewest'
    BY <1>2, <2>0, <2>3, ListsTouched, BackupsMarked, SparedStill
  <2>4. CASE UNCHANGED vars
    BY <1>2, <2>4 DEF vars, TrimSparesNewest, Present
  <2> QED
    BY <1>2, <2>1, <2>2, <2>3, <2>4
<1> QED
  BY <1>1, <1>2, InitIInv, NextIInv, PTL DEF Spec

----------------------------------------------------------------------------
(* How many backups there are when all is quiet.                           *)

(* Among backups there is an oldest.                                       *)
LEMMA Oldest ==
  ASSUME NEW S \in SUBSET Stamps, S # {}
  PROVE  \E t \in S : \A u \in S : t <= u
<1>1. S \subseteq Nat
  BY DEF Stamps
<1>2. PICK t \in S : \A u \in S : <<u, t>> \notin OpToRel(<, Nat)
  BY <1>1, WFMin, NatLessThanWellFounded
<1>3. ASSUME NEW u \in S PROVE t <= u
  <2>1. t \in Nat /\ u \in Nat
    BY <1>1
  <2>2. ~(u < t)
    BY <1>2, <2>1 DEF OpToRel
  <2> QED
    BY <2>1, <2>2
<1> QED
  BY <1>3

(* all[:keep] has at most keep elements: the oldest of them has all others *)
(* after it.                                                               *)
LEMMA SurplusLeavesFew ==
  LET Rest == {t \in Stamps : Present(t)} \ Surplus
  IN  Rest \subseteq Stamps /\ Cardinality(Rest) <= KeepBackups
<1> DEFINE Rest == {t \in Stamps : Present(t)} \ Surplus
<1>1. Rest \in SUBSET Stamps
  OBVIOUS
<1>2. CASE Rest = {}
  BY <1>1, <1>2, FS_EmptySet, BoundsAssumption
<1>3. CASE Rest # {}
  <2>1. PICK t \in Rest : \A u \in Rest : t <= u
    BY <1>1, <1>3, Oldest
  <2>2. Rest \ {t} \subseteq Newer(t)
    <3>1. ASSUME NEW u \in Rest \ {t} PROVE u > t
      <4>1. t \in Nat /\ u \in Nat /\ u # t /\ t <= u
        BY <1>1, <2>1 DEF Stamps
      <4> QED
        BY <4>1
    <3> QED
      BY <3>1 DEF Newer
  <2>3. /\ Cardinality(Rest \ {t}) \in Nat /\ Cardinality(Newer(t)) \in Nat
        /\ Cardinality(Rest \ {t}) <= Cardinality(Newer(t))
    <3>1. Rest \ {t} \in SUBSET Stamps /\ Newer(t) \in SUBSET Stamps
      BY DEF Newer
    <3> QED
      BY <2>2, <3>1, StampsCounted
  <2>4. ~(Cardinality(Newer(t)) >= KeepBackups)
    BY DEF Surplus
  <2>5. Cardinality(Rest \ {t}) = Cardinality(Rest) - 1 /\ Cardinality(Rest) \in Nat
    BY <1>1, FS_RemoveElement, StampsCounted
  <2> QED
    BY <1>1, <2>3, <2>4, <2>5, BoundsAssumption
<1> QED
  BY <1>2, <1>3

(* Only what trims makes backups, and everything it does works.            *)
OnlyApplies == ~IOErrors /\ ~Crashes /\ Ops \subseteq {"apply", "delete"}

(* Where an apply may have made a backup, and will yet list them all.      *)
WillList == {"copy", "truncate", "write", "restart", "saveOpen", "saveWrite",
             "saveRename", "list"}

(* The backups that will stay, as things are.                              *)
Staying == {t \in Stamps : Present(t) /\ \A p \in Procs : t \notin job[p].todo}

(* Once the last apply has listed the backups, those that are on nobody's  *)
(* list are few enough.                                                    *)
KeepInv ==
  /\ \A p \in Procs : pc[p] # "idle" => job[p].op = "apply" /\ p \in Handlers
  /\ \A p \in Procs : pc[p] # "trim" => job[p].todo = {}
  /\ (\E p \in Procs : pc[p] \in WillList) \/ Cardinality(Staying) <= KeepBackups

(* What a step of p may do to the count: it goes on to list, or it makes   *)
(* nothing stay that did not.                                              *)
KeepsCount(p) ==
  \/ pc'[p] \in WillList
  \/ Staying' \subseteq Staying /\ pc[p] \notin WillList

(* A step that does neither more nor puts another kind of request on its   *)
(* way keeps the invariant.                                                *)
LEMMA KeepStep ==
  ASSUME IInv, KeepInv, NEW p \in Procs, Begin(p) \/ Step(p) \/ Restart(p),
         KeepsCount(p),
         pc'[p] # "idle" => job'[p].op = "apply" /\ p \in Handlers,
         pc'[p] # "trim" => job'[p].todo = {}
  PROVE  KeepInv'
<1>1. \A q \in Procs \ {p} : pc'[q] = pc[q] /\ job'[q] = job[q]
  BY OthersGoOn DEF IInv
<1>2. ASSUME NEW q \in Procs
      PROVE  /\ pc'[q] # "idle" => job'[q].op = "apply" /\ q \in Handlers
             /\ pc'[q] # "trim" => job'[q].todo = {}
  BY <1>1 DEF KeepInv
<1>3. CASE pc'[p] \in WillList
  BY <1>2, <1>3 DEF KeepInv
<1>4. CASE Staying' \subseteq Staying /\ pc[p] \notin WillList
  <2>1. ASSUME NEW q \in Procs, pc[q] \in WillList PROVE pc'[q] \in WillList
    BY <1>1, <1>4, <2>1
  <2>2. Cardinality(Staying) <= KeepBackups => Cardinality(Staying') <= KeepBackups
    <3>1. Staying \in SUBSET Stamps /\ Staying' \in SUBSET Stamps
      BY DEF Staying
    <3>2. /\ Cardinality(Staying) \in Nat /\ Cardinality(Staying') \in Nat
          /\ Cardinality(Staying') <= Cardinality(Staying)
      BY <1>4, <3>1, StampsCounted
    <3> QED
      BY <3>2, BoundsAssumption
  <2> QED
    BY <1>2, <2>1, <2>2 DEF KeepInv
<1> QED
  BY <1>3, <1>4 DEF KeepsCount

(* Every step: what is made is followed by a list, and what the last list  *)
(* leaves out is few.                                                      *)
LEMMA KeepNext == ASSUME OnlyApplies, IInv, KeepInv, [Next]_vars PROVE KeepInv'
<1> USE DEF IInv, TypeOK, Jobs, Goto, Finish, NoJob, OnlyApplies, files, history
<1> DEFINE Fits(p) == /\ pc'[p] # "idle" => job'[p].op = "apply" /\ p \in Handlers
                      /\ pc'[p] # "trim" => job'[p].todo = {}
                      /\ KeepsCount(p)
<1>0. ASSUME NEW p \in Procs
      PROVE  /\ pc[p] # "idle" => job[p].op = "apply" /\ p \in Handlers
             /\ pc[p] # "trim" => job[p].todo = {}
             /\ p \in Handlers => p \notin Clis
  BY ProcsAssumption DEF KeepInv
<1>1. ASSUME NEW p \in Procs, Begin(p) PROVE Fits(p)
  <2>1. ASSUME NEW u \in URIs, BeginApply(p, u) PROVE Fits(p)
    <3>1. Staying' \subseteq Staying
      BY <1>0, <2>1 DEF BeginApply, Staying, Present
    <3> QED
      BY <2>1, <3>1 DEF BeginApply, KeepsCount, WillList
  <2>2. ASSUME NEW t \in Stamps, DeleteBackup(p, t) PROVE Fits(p)
    <3>1. Staying' \subseteq Staying
      BY <2>2 DEF DeleteBackup, Staying, Present
    <3> QED
      BY <1>0, <2>2, <3>1 DEF DeleteBackup, KeepsCount, WillList
  <2> QED
    BY <1>1, <2>1, <2>2 DEF Begin, BeginCli, BeginSettings, BeginRestore
<1>2. ASSUME NEW p \in Procs, BackupStep(p) PROVE Fits(p)
  <2>1. ASSUME OpenLive(p) PROVE Fits(p)
    <3>1. pc'[p] = "truncate" \/ pc'[p] = "create"
      BY <1>0, <2>1 DEF OpenLive, AfterBackup
    <3>2. Staying' \subseteq Staying
      BY <2>1 DEF OpenLive, Staying, Present
    <3> QED
      BY <1>0, <2>1, <3>1, <3>2 DEF OpenLive, KeepsCount, WillList
  <2>2. ASSUME CreateBackup(p) PROVE Fits(p)
    <3>1. pc[p] = "create" /\ pc'[p] = "copy" /\ job' = job
      BY <2>2 DEF CreateBackup
    <3> QED
      BY <1>0, <3>1 DEF KeepsCount, WillList
  <2>3. ASSUME CopyBackup(p) PROVE Fits(p)
    BY <1>0, <2>3 DEF CopyBackup, KeepsCount, WillList, AfterBackup
  <2> QED
    BY <1>2, <2>1, <2>2, <2>3 DEF BackupStep, CopyFails
<1>3. ASSUME NEW p \in Procs, WriteStep(p) PROVE Fits(p)
  <2>1. ASSUME FailsBeforeWrite(p) PROVE Fits(p)
    <3>1. pc[p] = "create"
      BY <1>0, <2>1 DEF FailsBeforeWrite, JobOK
    <3>2. Staying' \subseteq Staying
      BY <1>0, <2>1, <3>1 DEF FailsBeforeWrite, Staying, Present
    <3> QED
      BY <2>1, <3>1, <3>2 DEF FailsBeforeWrite, KeepsCount, WillList
  <2>2. ASSUME TruncateLive(p) \/ WriteLive(p) PROVE Fits(p)
    BY <1>0, <2>2 DEF TruncateLive, WriteLive, KeepsCount, WillList
  <2>3. ~ReadBackup(p)
    BY <1>0 DEF ReadBackup, JobOK
  <2> QED
    BY <1>3, <2>1, <2>2, <2>3 DEF WriteStep, WriteFails
<1>4. ASSUME NEW p \in Procs, SaveStep(p) PROVE Fits(p)
  <2>1. pc[p] \in {"saveOpen", "saveWrite", "saveRename"} /\ job[p].op = "apply"
    BY <1>0, <1>4 DEF SaveStep, SaveOpen, SaveOpenFails, SaveWrite, SaveWriteFails,
         SaveRename, SaveRenameFails, SaveRemove, JobOK
  <2>2. pc'[p] \in {"saveWrite", "saveRename", "list"} /\ job' = job
    BY <1>4, <2>1 DEF SaveStep, SaveOpen, SaveOpenFails, SaveWrite, SaveWriteFails,
         SaveRename, SaveRenameFails, SaveRemove, SaveGivesUp, AfterSave
  <2> QED
    BY <1>0, <2>1, <2>2 DEF KeepsCount, WillList
<1>5. ASSUME NEW p \in Procs, TailStep(p), ~ListBackups(p) PROVE Fits(p)
  <2>1. ASSUME NEW t \in Stamps, TrimOne(p, t) PROVE Fits(p)
    <3>1. job' = [job EXCEPT ![p].todo = @ \ {t}]
      BY <2>1 DEF TrimOne
    <3>2. job'[p].todo = job[p].todo \ {t} /\ job'[p].op = job[p].op
      BY <3>1
    <3>3. \A q \in Procs \ {p} : job'[q] = job[q]
      BY <3>1
    <3>4. baks' = [baks EXCEPT ![t] = Absent]
      BY <2>1 DEF TrimOne
    <3>5. Staying' \subseteq Staying
      BY <3>2, <3>3, <3>4 DEF Staying, Present
    <3>6. pc'[p] = IF job[p].todo = {t} THEN "reply" ELSE "trim"
      BY <2>1 DEF TrimOne
    <3> QED
      BY <1>0, <2>1, <3>2, <3>5, <3>6 DEF TrimOne, KeepsCount, WillList
  <2>2. ASSUME Reply(p) PROVE Fits(p)
    <3>1. Staying' \subseteq Staying
      BY <1>0, <2>2 DEF Reply, Staying, Present
    <3> QED
      BY <2>2, <3>1 DEF Reply, KeepsCount, WillList
  <2>3. ~SwapSettings(p) /\ ~LoadState(p) /\ ~ListFails(p)
    BY <1>0 DEF SwapSettings, LoadState, ListFails, JobOK
  <2> QED
    BY <1>5, <2>1, <2>2, <2>3 DEF TailStep
<1>6. ASSUME NEW p \in Procs, Restart(p) PROVE Fits(p)
  BY <1>0, <1>6 DEF Restart, RestartOk, RestartFails, AfterRestart, KeepsCount, WillList
<1>7. ASSUME NEW p \in Procs, ListBackups(p) PROVE KeepInv'
  <2>1. /\ pc'[p] \in {"reply", "trim"} /\ job'[p].todo = Surplus /\ job'[p].op = job[p].op
        /\ pc'[p] = "reply" => Surplus = {}
        /\ baks' = baks
    BY <1>7 DEF ListBackups
  <2>2. \A q \in Procs \ {p} : pc'[q] = pc[q] /\ job'[q] = job[q]
    BY <1>7, OthersGoOn DEF Step, TailStep
  <2>3. Staying' \subseteq {t \in Stamps : Present(t)} \ Surplus
    BY <2>1 DEF Staying, Present
  <2>4. Cardinality(Staying') <= KeepBackups
    <3> DEFINE Rest == {t \in Stamps : Present(t)} \ Surplus
    <3>1. Staying' \in SUBSET Stamps /\ Rest \in SUBSET Stamps
      BY DEF Staying
    <3>2. /\ Cardinality(Rest) \in Nat /\ Cardinality(Staying') \in Nat
          /\ Cardinality(Staying') <= Cardinality(Rest)
      BY <2>3, <3>1, StampsCounted
    <3>3. Cardinality(Rest) <= KeepBackups
      BY SurplusLeavesFew
    <3> QED
      BY <3>2, <3>3, BoundsAssumption
  <2>5. pc[p] = "list"
    BY <1>7 DEF ListBackups
  <2>6. ASSUME NEW q \in Procs
        PROVE  /\ pc'[q] # "idle" => job'[q].op = "apply" /\ q \in Handlers
               /\ pc'[q] # "trim" => job'[q].todo = {}
    BY <1>0, <2>1, <2>2, <2>5
  <2> QED
    BY <2>4, <2>6 DEF KeepInv
<1>8. ASSUME UNCHANGED <<pc, job, baks>> PROVE KeepInv'
  BY <1>8 DEF KeepInv, Staying, Present
<1>9. Surroundings \/ UNCHANGED vars => UNCHANGED <<pc, job, baks>>
  BY DEF Surroundings, Tick, ClockBack, HandEdit, EditYaml, HelperRestarts, Reboot, CliKilled, vars
<1>10. ASSUME NEW p \in Procs, Begin(p) \/ Step(p) \/ Restart(p) PROVE KeepInv'
  <2>1. CASE Fits(p)
    BY <1>10, <2>1, KeepStep
  <2> QED
    BY <1>1, <1>2, <1>3, <1>4, <1>5, <1>6, <1>7, <1>10, <2>1 DEF Step
<1> QED
  BY <1>8, <1>9, <1>10 DEF Next

(* "Trim deletes the oldest backups until at most keep remain": however    *)
(* many applies overlap with each other and with deletions, when all are   *)
(* through no more than KeepBackups are there, if all calls work.          *)
THEOREM BackupsBounded == Spec => []AtMostKeep
<1>1. CASE OnlyApplies
  <2>1. Init => KeepInv
    <3> SUFFICES ASSUME Init PROVE KeepInv
      OBVIOUS
    <3>1. Staying = {}
      BY DEF Init, Staying, Present
    <3>2. Cardinality(Staying) <= KeepBackups
      BY <3>1, FS_EmptySet, BoundsAssumption
    <3> QED
      BY <3>2 DEF Init, KeepInv, NoJob
  <2>2. KeepInv => AtMostKeep
    <3> SUFFICES ASSUME KeepInv, AllIdle
                 PROVE  Cardinality({t \in Stamps : Present(t)}) <= KeepBackups
      BY DEF AtMostKeep
    <3>1. Staying = {t \in Stamps : Present(t)}
      BY DEF AllIdle, KeepInv, Staying
    <3>2. ~\E p \in Procs : pc[p] \in WillList
      BY DEF AllIdle, WillList
    <3> QED
      BY <3>1, <3>2 DEF KeepInv
  <2>3. IInv /\ KeepInv /\ [Next]_vars => KeepInv'
    BY <1>1, KeepNext
  <2> QED
    BY <2>1, <2>2, <2>3, InitIInv, NextIInv, PTL DEF Spec
<1>2. CASE ~OnlyApplies
  <2>1. AtMostKeep
    BY <1>2 DEF AtMostKeep, OnlyApplies
  <2> QED
    BY <2>1, PTL
<1> QED
  BY <1>1, <1>2

----------------------------------------------------------------------------
(* Restarts.                                                               *)

(* Overlapping requests write and restart in any order; once none is       *)
(* between its write and its restart, sing-box runs what config.json says. *)
THEOREM RunningFollows == Spec => []RunningFollowsConfig
<1>1. Init => RunningFollowsConfig
  BY DEF Init, RunningFollowsConfig
<1>2. ASSUME IInv, RunningFollowsConfig, [Next]_vars PROVE RunningFollowsConfig'
  <2> USE <1>2 DEF IInv, TypeOK, RunningFollowsConfig, Unfinished, Goto, Finish,
              files, history
  <2>1. ASSUME NEW p \in Procs, Begin(p) PROVE RunningFollowsConfig'
    BY <2>1 DEF Begin, BeginApply, BeginCli, BeginSettings, BeginRestore,
               DeleteBackup
  <2>2. ASSUME NEW p \in Procs, BackupStep(p) PROVE RunningFollowsConfig'
    BY <2>2 DEF BackupStep, OpenLive, CreateBackup, CopyBackup, CopyFails,
               AfterBackup
  <2>3. ASSUME NEW p \in Procs, WriteStep(p) PROVE RunningFollowsConfig'
    <3>1. ASSUME TruncateLive(p) PROVE RunningFollowsConfig'
      BY <3>1 DEF TruncateLive
    <3>2. ASSUME WriteLive(p) PROVE RunningFollowsConfig'
      BY <3>2 DEF WriteLive
    <3>3. ASSUME WriteFails(p) PROVE RunningFollowsConfig'
      BY <3>3 DEF WriteFails
    <3>4. ASSUME ReadBackup(p) \/ FailsBeforeWrite(p) PROVE RunningFollowsConfig'
      BY <3>4 DEF ReadBackup, FailsBeforeWrite
    <3> QED
      BY <2>3, <3>1, <3>2, <3>3, <3>4 DEF WriteStep
  <2>4. ASSUME NEW p \in Procs, SaveStep(p) PROVE RunningFollowsConfig'
    BY <2>4 DEF SaveStep, SaveOpen, SaveOpenFails, SaveWrite, SaveWriteFails,
               SaveRename, SaveRenameFails, SaveRemove, SaveGivesUp, AfterSave
  <2>5. ASSUME NEW p \in Procs, TailStep(p) PROVE RunningFollowsConfig'
    BY <2>5 DEF TailStep, SwapSettings, LoadState, ListBackups, ListFails,
               TrimOne, Reply
  <2>6. ASSUME NEW p \in Procs, Restart(p) PROVE RunningFollowsConfig'
    BY <2>6 DEF Restart, RestartOk, RestartFails, AfterRestart
  <2>7. ASSUME Surroundings PROVE RunningFollowsConfig'
    <3>1. ASSUME HelperRestarts PROVE RunningFollowsConfig'
      BY <3>1, ProcsAssumption DEF HelperRestarts, Killed, Procs
    <3>2. ASSUME NEW p \in Clis, CliKilled(p) PROVE RunningFollowsConfig'
      BY <3>2 DEF CliKilled, Killed, Procs
    <3>3. ASSUME Reboot PROVE RunningFollowsConfig'
      BY <3>3 DEF Reboot
    <3> QED
      BY <2>7, <3>1, <3>2, <3>3 DEF Surroundings, Tick, ClockBack, HandEdit, EditYaml
  <2>8. CASE UNCHANGED vars
    BY <2>8 DEF vars
  <2> QED
    BY <1>2, <2>1, <2>2, <2>3, <2>4, <2>5, <2>6, <2>7, <2>8 DEF Next, Step
<1> QED
  BY <1>1, <1>2, InitIInv, NextIInv, PTL DEF Spec

----------------------------------------------------------------------------
(***************************************************************************)
(* One user, who waits for the answer or the prompt before going on:       *)
(* SerialSpec, with I/O errors at any step, crashes between any two, and   *)
(* hand edits.  Each promise has an inductive invariant of its own, which  *)
(* says for each place in a request what is owed to it there.              *)
(***************************************************************************)

(* A step of p, for one user.                                              *)
Moves(p) == (AllIdle /\ Begin(p)) \/ Step(p) \/ Restart(p)

(* One at a time; and the command never gets to what only the server does. *)
Alone ==
  /\ \A p, q \in Procs : pc[p] # "idle" /\ pc[q] # "idle" => p = q
  /\ \A p \in Procs : pc[p] # "idle" =>
       /\ job[p].op \in {"apply", "settings", "restore", "cli"}
       /\ p \in Clis <=> job[p].op = "cli"

(* The user of SerialSpec is one of the users of Spec.                     *)
LEMMA SerialIsNext == [SerialNext]_vars => [Next]_vars
BY DEF SerialNext, Next

(* Only a request under way goes on, so all others wait.                   *)
LEMMA OthersWait ==
  ASSUME TypeOK, Alone, NEW p \in Procs, Moves(p), NEW q \in Procs, q # p
  PROVE  pc[q] = "idle" /\ pc'[q] = "idle"
<1>1. Step(p) \/ Restart(p) => pc[p] # "idle"
  BY DEF Step, Restart, BackupStep, WriteStep, SaveStep, TailStep,
         OpenLive, CreateBackup, CopyBackup, CopyFails, ReadBackup, TruncateLive,
         FailsBeforeWrite, WriteLive, WriteFails, SaveOpen, SaveOpenFails,
         SaveWrite, SaveWriteFails, SaveRename, SaveRenameFails, SaveRemove,
         SwapSettings, LoadState, ListBackups, ListFails, TrimOne, Reply,
         RestartOk, RestartFails
<1>2. pc[q] = "idle"
  BY <1>1 DEF Alone, Moves, AllIdle
<1> QED
  BY <1>2, OthersGoOn DEF Moves

(* A request keeps its kind until it ends.                                 *)
LEMMA KindStays ==
  ASSUME IInv, NEW p \in Procs, Step(p) \/ Restart(p)
  PROVE  pc'[p] = "idle" \/ job'[p].op = job[p].op
<1> USE DEF IInv, TypeOK, Jobs, Goto, Finish
<1> DEFINE Same == pc'[p] = "idle" \/ job'[p].op = job[p].op
<1>2. ASSUME BackupStep(p) PROVE Same
  BY <1>2 DEF BackupStep, OpenLive, CreateBackup, CopyBackup, CopyFails
<1>3. ASSUME WriteStep(p) PROVE Same
  BY <1>3 DEF WriteStep, ReadBackup, TruncateLive, FailsBeforeWrite, WriteLive,
             WriteFails
<1>4. ASSUME SaveStep(p) PROVE Same
  BY <1>4 DEF SaveStep, SaveOpen, SaveOpenFails, SaveWrite, SaveWriteFails,
             SaveRename, SaveRenameFails, SaveRemove, SaveGivesUp
<1>5. ASSUME TailStep(p) PROVE Same
  BY <1>5 DEF TailStep, SwapSettings, LoadState, ListBackups, ListFails, TrimOne,
             Reply
<1>6. ASSUME Restart(p) PROVE Same
  BY <1>6 DEF Restart, RestartOk, RestartFails
<1> QED
  BY <1>2, <1>3, <1>4, <1>5, <1>6 DEF Step

(* What the surroundings do to requests is to kill them.                   *)
LEMMA SurroundingsKill ==
  ASSUME TypeOK, Surroundings, NEW p \in Procs
  PROVE  pc'[p] = "idle" \/ (pc'[p] = pc[p] /\ job'[p] = job[p])
BY DEF Surroundings, Tick, ClockBack, HandEdit, EditYaml, HelperRestarts, Reboot, CliKilled,
       Killed, Procs

(* The next one begins when all are idle.                                  *)
LEMMA AloneNext == ASSUME IInv, Alone, [SerialNext]_vars PROVE Alone'
<1> USE DEF IInv
<1>1. ASSUME NEW p \in Procs, Moves(p) PROVE Alone'
  <2>1. \A q \in Procs \ {p} : pc'[q] = "idle"
    BY <1>1, OthersWait
  <2>2. ASSUME Begin(p), pc'[p] # "idle"
        PROVE  /\ job'[p].op \in {"apply", "settings", "restore", "cli"}
               /\ p \in Clis <=> job'[p].op = "cli"
    <3> DEFINE Fits == /\ job'[p].op \in {"apply", "settings", "restore", "cli"}
                       /\ p \in Clis <=> job'[p].op = "cli"
    <3>1. ASSUME NEW u \in URIs, BeginApply(p, u) PROVE Fits
      BY <3>1, ProcsAssumption DEF TypeOK, BeginApply, NoJob
    <3>2. ASSUME NEW u \in URIs, BeginCli(p, u) PROVE Fits
      BY <3>2, ProcsAssumption DEF TypeOK, BeginCli, NoJob
    <3>3. ASSUME NEW s \in Accepted, BeginSettings(p, s) PROVE Fits
      BY <3>3, ProcsAssumption DEF TypeOK, BeginSettings, NoJob
    <3>4. ASSUME NEW t \in Stamps, BeginRestore(p, t) PROVE Fits
      BY <3>4, ProcsAssumption DEF TypeOK, BeginRestore, NoJob
    <3>5. ~\E t \in Stamps : DeleteBackup(p, t)
      BY <2>2 DEF DeleteBackup
    <3> QED
      BY <2>2, <3>1, <3>2, <3>3, <3>4, <3>5 DEF Begin
  <2>3. ASSUME Step(p) \/ Restart(p)
        PROVE  pc'[p] = "idle" \/ (pc[p] # "idle" /\ job'[p].op = job[p].op)
    BY <2>3, KindStays DEF Step, Restart, BackupStep, WriteStep, SaveStep, TailStep,
         OpenLive, CreateBackup, CopyBackup, CopyFails, ReadBackup, TruncateLive,
         FailsBeforeWrite, WriteLive, WriteFails, SaveOpen, SaveOpenFails,
         SaveWrite, SaveWriteFails, SaveRename, SaveRenameFails, SaveRemove,
         SwapSettings, LoadState, ListBackups, ListFails, TrimOne, Reply,
         RestartOk, RestartFails
  <2> QED
    BY <1>1, <2>1, <2>2, <2>3 DEF Alone, Moves
<1>2. ASSUME Surroundings PROVE Alone'
  BY <1>2, SurroundingsKill DEF Alone
<1>3. CASE UNCHANGED vars
  BY <1>3 DEF vars, Alone
<1> QED
  BY <1>1, <1>2, <1>3 DEF SerialNext, Moves

----------------------------------------------------------------------------
(* The settings in memory and in config.yaml.                              *)

Saving == {"saveOpen", "saveWrite", "saveRename", "saveRemove"}

Agreed == ~apart => mem \in Decoded(yamlFile.file)

(* The temporary file is the request's own until it is renamed, and once   *)
(* it is, the settings go into memory before anything else happens.        *)
SettingsAt(p) ==
  job[p].op = "settings" =>
    /\ pc[p] = "saveWrite"  => yamlFile.fd[p] = "tmp" /\ yamlFile.tmp = Empty
    /\ pc[p] = "saveRename" => yamlFile.tmp = job[p].set
    /\ pc[p] = "swap"       => yamlFile.file = job[p].set
    /\ pc[p] \notin Saving \cup {"idle", "swap"} => mem = job[p].set

SettingsInv ==
  /\ (\A p \in Procs : pc[p] # "swap") => Agreed
  /\ \A p \in Procs : SettingsAt(p)

(* Steps that touch neither, except where the next lemma looks.            *)
LEMMA SettingsQuiet ==
  ASSUME IInv, Alone, SettingsInv, NEW p \in Procs, Moves(p),
         UNCHANGED <<mem, yamlFile, apart>>, pc[p] # "swap",
         \/ pc'[p] = "idle"
         \/ job'[p].op # "settings" /\ pc'[p] # "swap"
         \/ pc'[p] \in {"saveOpen", "saveRemove"}
         \/ /\ job'[p].op = job[p].op /\ job'[p].set = job[p].set
            /\ pc[p] \notin Saving \cup {"idle"}
            /\ pc'[p] \notin Saving \cup {"swap"}
  PROVE  SettingsInv'
<1>1. \A q \in Procs \ {p} : pc[q] = "idle" /\ pc'[q] = "idle"
  BY OthersWait DEF IInv
<1>2. ASSUME NEW q \in Procs, q # p PROVE SettingsAt(q)'
  BY <1>1, <1>2 DEF SettingsAt, Saving
<1>3. SettingsAt(p)'
  BY DEF SettingsInv, SettingsAt, Saving
<1>4. Agreed /\ pc'[p] # "swap"
  BY <1>1 DEF SettingsInv, Saving
<1> QED
  BY <1>2, <1>3, <1>4 DEF SettingsInv, Agreed

(* Saving: what is renamed is what was posted.                             *)
LEMMA SettingsSaved ==
  ASSUME IInv, Alone, SettingsInv, NEW p \in Procs, SaveStep(p),
         job[p].op = "settings"
  PROVE  SettingsInv'
<1> USE DEF IInv
<1>1. \A q \in Procs \ {p} : pc[q] = "idle" /\ pc'[q] = "idle"
  BY OthersWait DEF Moves, Step
<1>2. ASSUME NEW q \in Procs, q # p PROVE SettingsAt(q)'
  BY <1>1, <1>2 DEF SettingsAt, Saving
<1>3. SettingsAt(p) /\ CellOf(p) = yamlFile /\ ValueOf(p) = job[p].set
  BY DEF SettingsInv, CellOf, ValueOf
<1>4. pc[p] \in Saving /\ Agreed
  BY <1>1 DEF SaveStep, SaveOpen, SaveOpenFails, SaveWrite, SaveWriteFails, SaveRename,
         SaveRenameFails, SaveRemove, Saving, SettingsInv
<1>5. /\ yamlFile.fd \in [Procs -> Places]
      /\ job[p].set \in SettingsVals /\ job[p].set \notin Unusable
      /\ yamlFile.file \in SettingsVals \cup Unusable
      /\ pc \in [Procs -> Labels]
  BY ContentsAssumption DEF TypeOK, Cell, JobOK
<1>6. mem' = mem /\ apart' = apart
  BY DEF SaveStep, SaveOpen, SaveOpenFails, SaveWrite, SaveWriteFails, SaveRename,
         SaveRenameFails, SaveRemove, history
<1> DEFINE FileStays == yamlFile'.file = yamlFile.file
<1>7. ASSUME SaveOpen(p) PROVE SettingsAt(p)' /\ FileStays
  <2>1. yamlFile' = OpenedTmp(yamlFile, p)
    BY <1>3, <1>7 DEF SaveOpen, PutCell
  <2>2. yamlFile'.tmp = Empty /\ yamlFile'.fd[p] = "tmp" /\ FileStays
    BY <2>1, <1>5 DEF OpenedTmp, TypeOK, Cell
  <2> QED
    BY <2>2, <1>5, <1>7 DEF SaveOpen, SettingsAt, Goto, Saving
<1>8. ASSUME SaveWrite(p) PROVE SettingsAt(p)' /\ FileStays
  <2>1. PICK c \in WrittenTmp(yamlFile, p, job[p].set) : yamlFile' = c
    BY <1>3, <1>8 DEF SaveWrite, PutCell
  <2>2. yamlFile.tmp = Empty /\ yamlFile.fd[p] = "tmp"
    BY <1>3, <1>8 DEF SettingsAt, SaveWrite
  <2>3. c.tmp = job[p].set /\ c.file = yamlFile.file
    BY <1>5, <2>2 DEF WrittenTmp, AfterWrite, Unusable
  <2> QED
    BY <2>1, <2>3, <1>5, <1>8 DEF SaveWrite, SettingsAt, Goto, Saving
<1>9. ASSUME SaveRename(p) PROVE SettingsAt(p)' /\ yamlFile'.file = job[p].set
  <2>1. yamlFile'.file = job[p].set
    BY <1>3, <1>9 DEF SaveRename, PutCell, Renamed, SettingsAt
  <2> QED
    BY <2>1, <1>5, <1>9 DEF SaveRename, SettingsAt, Goto, Saving, AfterSave
<1>10. ASSUME SaveWriteFails(p) PROVE pc'[p] = "idle" /\ FileStays
  <2>1. PICK b \in {Empty, Torn} : \E c \in WrittenTmp(yamlFile, p, b) : yamlFile' = c
    BY <1>3, <1>10 DEF SaveWriteFails, PutCell
  <2>2. yamlFile.fd[p] = "tmp"
    BY <1>3, <1>10 DEF SettingsAt, SaveWriteFails
  <2>3. FileStays
    BY <2>1, <2>2 DEF WrittenTmp
  <2> QED
    BY <2>3, <1>5, <1>10 DEF SaveWriteFails, SaveGivesUp, Finish, Goto
<1>11. ASSUME SaveOpenFails(p) \/ SaveRenameFails(p)
       PROVE  pc'[p] \in {"idle", "saveRemove"} /\ FileStays
  BY <1>5, <1>11 DEF SaveOpenFails, SaveRenameFails, SaveGivesUp, Finish, Goto
<1>12. ASSUME SaveRemove(p) PROVE pc'[p] = "idle" /\ FileStays
  BY <1>5, <1>12 DEF SaveRemove, RemovedTmp, Finish, Goto, TypeOK, Cell
<1>13. FileStays => Agreed'
  BY <1>4, <1>6 DEF Agreed
<1>14. pc'[p] \in {"idle", "saveRemove"} => SettingsAt(p)'
  BY DEF SettingsAt, Saving
<1>15. SettingsAt(p)' /\ (FileStays \/ pc'[p] = "swap")
  BY <1>5, <1>7, <1>8, <1>9, <1>10, <1>11, <1>12, <1>14
  DEF SaveStep, SaveRename, Goto, AfterSave
<1> QED
  BY <1>2, <1>13, <1>15 DEF SettingsInv

(* All other steps of a request.                                           *)
LEMMA SettingsMoved ==
  ASSUME IInv, Alone, SettingsInv, NEW p \in Procs, Moves(p)
  PROVE  SettingsInv'
<1> USE DEF IInv, TypeOK, Goto, Finish, Saving, Labels, history
<1> DEFINE Quiet ==
      /\ UNCHANGED <<mem, yamlFile, apart>> /\ pc[p] # "swap"
      /\ \/ pc'[p] = "idle"
         \/ job'[p].op # "settings" /\ pc'[p] # "swap"
         \/ pc'[p] \in {"saveOpen", "saveRemove"}
         \/ /\ job'[p].op = job[p].op /\ job'[p].set = job[p].set
            /\ pc[p] \notin Saving \cup {"idle"}
            /\ pc'[p] \notin Saving \cup {"swap"}
<1>1. ASSUME AllIdle, Begin(p) PROVE Quiet
  <2>1. ASSUME NEW u \in URIs, BeginApply(p, u) \/ BeginCli(p, u) PROVE Quiet
    BY ZenonT(30), <2>1 DEF BeginApply, BeginCli, NoJob
  <2>2. ASSUME NEW s \in Accepted, BeginSettings(p, s) PROVE Quiet
    BY <2>2 DEF BeginSettings
  <2>3. ASSUME NEW t \in Stamps, BeginRestore(p, t) \/ DeleteBackup(p, t) PROVE Quiet
    BY <2>3 DEF BeginRestore, DeleteBackup, NoJob
  <2> QED
    BY <1>1, <2>1, <2>2, <2>3 DEF Begin
<1>2. ASSUME BackupStep(p) PROVE Quiet
  BY <1>2 DEF BackupStep, OpenLive, CreateBackup, CopyBackup, CopyFails, AfterBackup, Jobs
<1>3. ASSUME WriteStep(p) PROVE Quiet
  BY <1>3 DEF WriteStep, ReadBackup, TruncateLive, FailsBeforeWrite, WriteLive,
             WriteFails, Jobs
<1>4. ASSUME SaveStep(p), job[p].op # "settings" PROVE Quiet
  <2>1. pc[p] \in Saving /\ job[p].op = "apply"
    BY <1>4 DEF SaveStep, SaveOpen, SaveOpenFails, SaveWrite, SaveWriteFails,
               SaveRename, SaveRenameFails, SaveRemove, JobOK
  <2> QED
    BY <1>4, <2>1 DEF SaveStep, SaveOpen, SaveOpenFails, SaveWrite, SaveWriteFails,
       SaveRename, SaveRenameFails, SaveRemove, JobOK, SaveGivesUp, AfterSave, PutCell
<1>5. ASSUME SwapSettings(p) PROVE SettingsInv'
  <2>1. \A q \in Procs \ {p} : pc[q] = "idle" /\ pc'[q] = "idle"
    BY <1>5, OthersWait DEF Moves, Step, TailStep
  <2>2. yamlFile'.file = job[p].set /\ mem' = job[p].set /\ job[p].set \in SettingsVals
    BY <1>5 DEF SwapSettings, SettingsInv, SettingsAt, JobOK
  <2>3. Agreed'
    BY <2>2 DEF Agreed, Decoded
  <2>4. SettingsAt(p)'
    BY <1>5, <2>2 DEF SwapSettings, SettingsAt
  <2>5. ASSUME NEW q \in Procs, q # p PROVE SettingsAt(q)'
    BY <2>1, <2>5 DEF SettingsAt
  <2> QED
    BY <2>3, <2>4, <2>5 DEF SettingsInv
<1>6. ASSUME TailStep(p), ~SwapSettings(p) PROVE Quiet
  <2>1. ASSUME NEW t \in Stamps, TrimOne(p, t) PROVE Quiet
    BY <2>1 DEF TrimOne, Jobs
  <2>2. ASSUME LoadState(p) PROVE Quiet
    BY <2>2 DEF LoadState, Jobs
  <2>3. ASSUME ListBackups(p) \/ ListFails(p) \/ Reply(p) PROVE Quiet
    BY <2>3 DEF ListBackups, ListFails, Reply, Jobs
  <2> QED
    BY <1>6, <2>1, <2>2, <2>3 DEF TailStep
<1>7. ASSUME Restart(p) PROVE Quiet
  BY <1>7 DEF Restart, RestartOk, RestartFails, AfterRestart, Jobs
<1>8. CASE Quiet
  BY <1>8, SettingsQuiet
<1> QED
  BY <1>1, <1>2, <1>3, <1>4, <1>5, <1>6, <1>7, <1>8, SettingsSaved DEF Moves, Step

(* Killing requests between any two steps keeps the settings: the helper   *)
(* starts with what is under the final name.                               *)
LEMMA SettingsNext ==
  ASSUME IInv, Alone, SettingsInv, [SerialNext]_vars
  PROVE  SettingsInv'
<1> USE DEF IInv, TypeOK
<1>1. ASSUME NEW p \in Procs, Moves(p) PROVE SettingsInv'
  BY <1>1, SettingsMoved
<1>2. ASSUME UNCHANGED <<pc, job, mem, yamlFile, apart>> PROVE SettingsInv'
  BY <1>2 DEF SettingsInv, SettingsAt, Agreed
<1>3. Tick \/ ClockBack \/ (\E c \in Foreign : HandEdit(c)) \/ UNCHANGED vars
        => UNCHANGED <<pc, job, mem, yamlFile, apart>>
  BY DEF Tick, ClockBack, HandEdit, vars, history
<1>4. ASSUME HelperRestarts PROVE SettingsInv'
  <2>1. yamlFile'.file = yamlFile.file
    BY <1>4 DEF HelperRestarts, Killed, ClosedBy, Cell
  <2>2. Agreed'
    BY <1>4, <2>1, LoadTyped DEF HelperRestarts, Starts, Agreed, Cell
  <2>3. ASSUME NEW q \in Procs PROVE SettingsAt(q)'
    BY <1>4, ProcsAssumption DEF HelperRestarts, Killed, SettingsAt, Alone, Procs, Saving
  <2> QED
    BY <2>2, <2>3 DEF SettingsInv
<1>5. ASSUME Reboot PROVE SettingsInv'
  <2>1. yamlFile'.file = yamlFile.file
    BY <1>5 DEF Reboot, Killed, ClosedBy, Cell
  <2>2. Agreed'
    BY <1>5, <2>1, LoadTyped DEF Reboot, Starts, Agreed, Cell
  <2>3. ASSUME NEW q \in Procs PROVE SettingsAt(q)'
    BY <1>5 DEF Reboot, Killed, SettingsAt, Saving
  <2> QED
    BY <2>2, <2>3 DEF SettingsInv
<1>6. ASSUME NEW p \in Clis, CliKilled(p) PROVE SettingsInv'
  <2>1. \A q \in Procs : pc'[q] = "idle"
    BY <1>6 DEF CliKilled, Killed, Alone, Procs
  <2>2. pc[p] # "swap" /\ \A q \in Procs : pc[q] # "swap"
    BY <1>6 DEF CliKilled, Alone, JobOK, Procs
  <2>3. yamlFile'.file = yamlFile.file /\ mem' = mem /\ apart' = apart
    BY <1>6 DEF CliKilled, Killed, ClosedBy, Cell
  <2>4. Agreed'
    BY <2>2, <2>3 DEF SettingsInv, Agreed
  <2>5. ASSUME NEW q \in Procs PROVE SettingsAt(q)'
    BY <2>1 DEF SettingsAt, Saving
  <2> QED
    BY <2>4, <2>5 DEF SettingsInv
<1>7. ASSUME NEW y \in YamlEdits, EditYaml(y) PROVE SettingsInv'
  <2>1. Agreed' /\ \A q \in Procs : pc'[q] = "idle"
    BY <1>7 DEF EditYaml, Agreed
  <2> QED
    BY <2>1 DEF SettingsInv, SettingsAt, Saving
<1> QED
  BY <1>1, <1>2, <1>3, <1>4, <1>5, <1>6, <1>7 DEF SerialNext, Surroundings, Moves

(* A router that is switched on, or a helper that is started.              *)
LEMMA SerialInit == Init => Alone /\ SettingsInv
<1> SUFFICES ASSUME Init PROVE Alone /\ SettingsInv
  OBVIOUS
<1>1. Agreed
  BY LoadTyped DEF Init, Agreed, NewCell, Unusable
<1> QED
  BY <1>1 DEF Init, Alone, SettingsInv, SettingsAt, NoJob, Saving

(* Between requests memory and config.yaml agree, unless the file could not*)
(* be read at the start or was edited since; a save ends that.             *)
THEOREM SettingsStayAgreed == SerialSpec => []SettingsAgree
<1>1. SettingsInv => SettingsAgree
  BY DEF SettingsInv, SettingsAgree, Agreed, AllIdle
<1>2. Init => IInv /\ Alone /\ SettingsInv
  BY InitIInv, SerialInit
<1>3. IInv /\ Alone /\ SettingsInv /\ [SerialNext]_vars
        => IInv' /\ Alone' /\ SettingsInv'
  BY NextIInv, SerialIsNext, AloneNext, SettingsNext
<1> QED
  BY <1>1, <1>2, <1>3, PTL DEF SerialSpec

----------------------------------------------------------------------------
(* The last whole configuration.                                           *)

Backed == good = Absent \/ \E t \in Stamps : baks[t] = good

(* Before config.json is truncated a finished backup holds the last whole  *)
(* configuration; until a request for an apply has trimmed, it is also in  *)
(* config.json, so that Trim may take any backup.                          *)
GoodAt(p) ==
  pc[p] # "idle" =>
    /\ pc[p] = "copy" => writer[job[p].bak] = p
    /\ pc[p] \in {"read", "truncate", "write"} => Backed
    /\ pc[p] = "write" => config = Empty
    /\ job[p].op = "apply" =>
         /\ job[p].body \in Configs
         /\ pc[p] \in {"restart"} \cup Saving => good = config
    /\ pc[p] \in {"list", "trim"} => good = config

GoodInv ==
  /\ LastGoodRecoverable
  /\ \A t \in Stamps : writer[t] # NoProc => baks[t] = Empty
  /\ \A p \in Procs : GoodAt(p)

(* A step of p is judged by what it does to the backups and to p.          *)
LEMMA GoodMove ==
  ASSUME IInv, Alone, GoodInv, NEW p \in Procs, Moves(p),
         LastGoodRecoverable', GoodAt(p)',
         \A t \in Stamps : writer'[t] # NoProc => baks'[t] = Empty
  PROVE  GoodInv'
<1>1. \A q \in Procs \ {p} : pc'[q] = "idle"
  BY OthersWait DEF IInv
<1> QED
  BY <1>1 DEF GoodInv, GoodAt

(* Making a backup.                                                        *)
LEMMA GoodBackup ==
  ASSUME IInv, Alone, GoodInv, NEW p \in Procs, BackupStep(p)
  PROVE  GoodInv'
<1> USE DEF IInv, TypeOK, JobOK, GoodInv
<1> DEFINE t == job[p].bak
<1>0. /\ GoodAt(p)
      /\ good # Absent => good \notin Unusable
      /\ config \in Contents /\ Absent # Empty
  BY ContentsAssumption, FilesAssumption DEF Contents, Unusable
<1>1. ASSUME OpenLive(p) PROVE GoodInv'
  <2>1. UNCHANGED <<config, baks, writer, good>>
    BY <1>1 DEF OpenLive, files, history
  <2>2. config = Absent => Backed
    BY DEF LastGoodRecoverable, Backed
  <2>3. GoodAt(p)'
    BY <1>0, <1>1, <2>1, <2>2
    DEF OpenLive, GoodAt, Backed, Goto, AfterBackup, Jobs, Saving
  <2> QED
    BY <1>1, <2>1, <2>3, GoodMove DEF LastGoodRecoverable, Moves, Step, BackupStep
<1>2. ASSUME CreateBackup(p) PROVE GoodInv'
  <2>1. t \in Stamps /\ baks[t] = Absent /\ baks'[t] = Empty /\ writer'[t] = p
    BY <1>2 DEF CreateBackup, NameFree, Present
  <2>2. /\ \A u \in Stamps \ {t} : baks'[u] = baks[u] /\ writer'[u] = writer[u]
        /\ UNCHANGED <<config, good, job>>
    BY <1>2 DEF CreateBackup
  <2>3. LastGoodRecoverable'
    BY <2>1, <2>2 DEF LastGoodRecoverable
  <2>4. GoodAt(p)'
    BY <1>0, <1>2, <2>1, <2>2 DEF CreateBackup, GoodAt, Goto, Saving
  <2> QED
    BY <1>2, <2>1, <2>2, <2>3, <2>4, GoodMove DEF Moves, Step, BackupStep
<1>3. ASSUME CopyBackup(p) PROVE GoodInv'
  <2>1. t \in Stamps /\ writer[t] = p /\ p # NoProc /\ baks[t] = Empty
    BY <1>0, <1>3, ProcsAssumption DEF CopyBackup, GoodAt, Procs
  <2>2. baks'[t] = config /\ writer'[t] = NoProc
    BY <1>3, <2>1 DEF CopyBackup
  <2>3. /\ \A u \in Stamps \ {t} : baks'[u] = baks[u] /\ writer'[u] = writer[u]
        /\ UNCHANGED <<config, good, job>>
    BY <1>3, <2>1 DEF CopyBackup, history
  <2>4. Backed'
    BY <1>0, <2>1, <2>2, <2>3 DEF LastGoodRecoverable, Backed, Unusable
  <2>5. LastGoodRecoverable'
    BY <2>4 DEF LastGoodRecoverable, Backed
  <2>6. GoodAt(p)'
    BY <1>0, <1>3, <2>3, <2>4 DEF CopyBackup, GoodAt, Goto, AfterBackup, Saving
  <2> QED
    BY <1>3, <2>1, <2>2, <2>3, <2>5, <2>6, GoodMove DEF Moves, Step, BackupStep
<1>4. ASSUME CopyFails(p) PROVE GoodInv'
  <2>1. t \in Stamps /\ writer[t] = p /\ p # NoProc /\ baks[t] = Empty
    BY <1>0, <1>4, ProcsAssumption DEF CopyFails, GoodAt, Procs
  <2>2. baks'[t] \in Unusable /\ writer'[t] = NoProc
    BY <1>4, <2>1 DEF CopyFails, Unusable
  <2>3. /\ \A u \in Stamps \ {t} : baks'[u] = baks[u] /\ writer'[u] = writer[u]
        /\ UNCHANGED config
    BY <1>4, <2>1 DEF CopyFails
  <2>4. good' \in {Absent, good}
    BY <1>4 DEF CopyFails
  <2>5. LastGoodRecoverable'
    BY <1>0, <2>1, <2>3, <2>4 DEF LastGoodRecoverable, Unusable
  <2>6. GoodAt(p)'
    BY <1>4 DEF CopyFails, GoodAt, Finish, Goto
  <2> QED
    BY <1>4, <2>1, <2>2, <2>3, <2>5, <2>6, GoodMove DEF Moves, Step, BackupStep
<1> QED
  BY <1>1, <1>2, <1>3, <1>4 DEF BackupStep

(* Writing config.json.                                                    *)
LEMMA GoodWrite ==
  ASSUME IInv, Alone, GoodInv, NEW p \in Procs, WriteStep(p)
  PROVE  GoodInv'
<1> USE DEF IInv, TypeOK, JobOK, GoodInv
<1>0. /\ GoodAt(p) /\ UNCHANGED <<baks, writer>>
      /\ pc[p] \in {"read", "truncate", "write"} => Backed
  BY DEF GoodAt, WriteStep, ReadBackup, TruncateLive, FailsBeforeWrite, WriteLive,
         WriteFails, files
<1>1. Configs \cap Unusable = {} /\ Configs \subseteq Whole
  BY ContentsAssumption DEF Whole
<1>2. ASSUME ReadBackup(p) PROVE LastGoodRecoverable' /\ GoodAt(p)'
  BY <1>0, <1>2 DEF ReadBackup, GoodAt, Backed, LastGoodRecoverable, Goto, Jobs, Saving,
                    files, history
<1>3. ASSUME TruncateLive(p) PROVE LastGoodRecoverable' /\ GoodAt(p)'
  BY <1>0, <1>3 DEF TruncateLive, GoodAt, Backed, LastGoodRecoverable, Goto, Saving, history
<1>4. ASSUME FailsBeforeWrite(p) PROVE LastGoodRecoverable' /\ GoodAt(p)'
  BY <1>0, <1>4 DEF FailsBeforeWrite, GoodAt, LastGoodRecoverable, Finish, Goto, files, history
<1>5. ASSUME WriteLive(p) PROVE LastGoodRecoverable' /\ GoodAt(p)'
  <2>1. Backed /\ config = Empty /\ pc[p] = "write"
    BY <1>0, <1>5 DEF WriteLive, GoodAt
  <2>2. good' = config' \/ good' = good
    BY <1>5 DEF WriteLive
  <2>3. LastGoodRecoverable'
    BY <1>0, <2>1, <2>2 DEF LastGoodRecoverable, Backed
  <2>4. ASSUME job[p].op = "apply" PROVE good' = config'
    <3>1. job[p].body \in Configs
      BY <1>0, <2>1, <2>4 DEF GoodAt
    <3>2. config' = job[p].body
      BY <1>1, <1>5, <2>1, <3>1 DEF WriteLive, AfterWrite, Unusable
    <3> QED
      BY <1>1, <1>5, <3>1, <3>2 DEF WriteLive
  <2>5. GoodAt(p)'
    BY <1>0, <1>5, <2>4 DEF WriteLive, GoodAt, Goto, Finish, Saving
  <2> QED
    BY <2>3, <2>5
<1>6. ASSUME WriteFails(p) PROVE LastGoodRecoverable' /\ GoodAt(p)'
  BY <1>0, <1>6 DEF WriteFails, GoodAt, Backed, LastGoodRecoverable, Finish, Goto
<1>7. \A t \in Stamps : writer'[t] # NoProc => baks'[t] = Empty
  BY <1>0
<1> QED
  BY <1>2, <1>3, <1>4, <1>5, <1>6, <1>7, GoodMove DEF WriteStep, Moves, Step

(* What is left of a request, with Trim after the others.                  *)
LEMMA GoodMoved ==
  ASSUME IInv, Alone, GoodInv, NEW p \in Procs, Moves(p)
  PROVE  GoodInv'
<1> USE DEF IInv, TypeOK, JobOK, GoodInv, Goto, Finish
<1> DEFINE Same == UNCHANGED <<config, baks, writer, good>>
<1>0. /\ GoodAt(p)
      /\ good # Absent => good \notin Unusable
  BY ContentsAssumption DEF Unusable
<1>1. ASSUME AllIdle, Begin(p) PROVE GoodInv'
  <2>1. ASSUME NEW u \in URIs, BeginApply(p, u) PROVE Same /\ GoodAt(p)'
    <3>1. Rendered(u, mem) \in Configs
      BY RenderedTyped
    <3> QED
      BY <2>1, <3>1 DEF BeginApply, GoodAt, NoJob, Saving, files, history
  <2>2. ASSUME NEW u \in URIs, BeginCli(p, u) PROVE Same /\ GoodAt(p)'
    BY <2>2 DEF BeginCli, GoodAt, NoJob, files, history
  <2>3. ASSUME NEW s \in Accepted, BeginSettings(p, s) PROVE Same /\ GoodAt(p)'
    BY <2>3 DEF BeginSettings, GoodAt, NoJob, files, history
  <2>4. ASSUME NEW t \in Stamps, BeginRestore(p, t) PROVE Same /\ GoodAt(p)'
    BY <2>4 DEF BeginRestore, GoodAt, NoJob, files, history
  <2>5. ASSUME NEW t \in Stamps, DeleteBackup(p, t) PROVE GoodInv'
    <3>1. good' = (IF baks[t] = good THEN Absent ELSE good) /\ config' = config
      BY <2>5 DEF DeleteBackup
    <3>2. \A u \in Stamps \ {t} : baks'[u] = baks[u] /\ writer'[u] = writer[u]
      BY <2>5 DEF DeleteBackup
    <3>3. writer'[t] = NoProc /\ pc'[p] = "idle"
      BY <2>5 DEF DeleteBackup
    <3>4. LastGoodRecoverable'
      BY <3>1, <3>2 DEF LastGoodRecoverable
    <3>5. GoodAt(p)'
      BY <3>3 DEF GoodAt
    <3> QED
      BY <1>1, <3>2, <3>3, <3>4, <3>5, GoodMove DEF Moves
  <2>6. CASE Same /\ GoodAt(p)'
    BY <1>1, <2>6, GoodMove DEF LastGoodRecoverable, Moves
  <2> QED
    BY <1>1, <2>1, <2>2, <2>3, <2>4, <2>5, <2>6 DEF Begin
<1>2. ASSUME SaveStep(p) PROVE Same /\ GoodAt(p)'
  <2>1. Same
    BY <1>2 DEF SaveStep, SaveOpen, SaveOpenFails, SaveWrite, SaveWriteFails,
               SaveRename, SaveRenameFails, SaveRemove, files, history
  <2>2. /\ job[p].op = "apply" => good = config
        /\ job[p].op = "apply" => job[p].body \in Configs
        /\ pc[p] \in Saving
    BY <1>0, <1>2 DEF SaveStep, SaveOpen, SaveOpenFails, SaveWrite, SaveWriteFails,
             SaveRename, SaveRenameFails, SaveRemove, GoodAt, Saving
  <2>3. \/ pc'[p] = "idle"
        \/ pc'[p] \in Saving \cup {"swap"} /\ job'[p] = job[p]
        \/ pc'[p] = "list" /\ job'[p] = job[p] /\ job[p].op = "apply"
    BY <1>2 DEF SaveStep, SaveOpen, SaveOpenFails, SaveWrite, SaveWriteFails,
       SaveRename, SaveRenameFails, SaveRemove, SaveGivesUp, AfterSave, Saving
  <2> QED
    BY <2>1, <2>2, <2>3 DEF GoodAt, Saving
<1>3. ASSUME Restart(p) PROVE Same /\ GoodAt(p)'
  BY <1>0, <1>3 DEF Restart, RestartOk, RestartFails, AfterRestart, GoodAt, Saving, Jobs,
                    files
<1>4. ASSUME SwapSettings(p) PROVE Same /\ GoodAt(p)'
  BY <1>4 DEF SwapSettings, GoodAt, Saving, JobOK, files, history
<1>5. ASSUME LoadState(p) PROVE Same /\ GoodAt(p)'
  BY <1>5 DEF LoadState, GoodAt, Saving, JobOK, Jobs, files, history
<1>6. ASSUME ListBackups(p) \/ ListFails(p) PROVE Same /\ GoodAt(p)'
  BY <1>0, <1>6 DEF ListBackups, ListFails, GoodAt, Saving, Jobs, files, history
<1>7. ASSUME Reply(p) PROVE Same /\ GoodAt(p)'
  BY <1>7 DEF Reply, GoodAt, files, history
<1>8. ASSUME NEW t \in Stamps, TrimOne(p, t) PROVE GoodInv'
  <2>1. good = config /\ UNCHANGED <<good, config>>
    BY <1>0, <1>8 DEF TrimOne, GoodAt, history
  <2>2. LastGoodRecoverable'
    BY <2>1 DEF LastGoodRecoverable
  <2>3. GoodAt(p)'
    BY <1>0, <1>8, <2>1 DEF TrimOne, GoodAt, Saving, Jobs
  <2>4. \A u \in Stamps : writer'[u] # NoProc => baks'[u] = Empty
    BY <1>8 DEF TrimOne
  <2> QED
    BY <1>8, <2>2, <2>3, <2>4, GoodMove DEF Moves, Step, TailStep
<1>9. CASE Same /\ GoodAt(p)'
  BY <1>9, GoodMove DEF LastGoodRecoverable
<1> QED
  BY <1>1, <1>2, <1>3, <1>4, <1>5, <1>6, <1>7, <1>8, <1>9, GoodBackup, GoodWrite
  DEF Moves, Step, TailStep

(* A crash closes the backup that was being written and moves nothing.     *)
LEMMA GoodNext ==
  ASSUME IInv, Alone, GoodInv, [SerialNext]_vars
  PROVE  GoodInv'
<1> USE DEF IInv, TypeOK
<1>1. ASSUME NEW p \in Procs, Moves(p) PROVE GoodInv'
  BY <1>1, GoodMoved
<1>2. ASSUME NEW c \in Foreign, HandEdit(c) PROVE GoodInv'
  BY <1>2 DEF HandEdit, GoodInv, GoodAt, LastGoodRecoverable
<1>3. ASSUME UNCHANGED <<config, baks, writer, good, pc, job>> PROVE GoodInv'
  BY <1>3 DEF GoodInv, GoodAt, LastGoodRecoverable, Backed
<1>4. ASSUME NEW P \in SUBSET Procs, Killed(P), UNCHANGED <<config, baks, good>>
      PROVE  GoodInv'
  <2>1. LastGoodRecoverable'
    BY <1>4 DEF GoodInv, LastGoodRecoverable
  <2>2. \A t \in Stamps : writer'[t] \in {writer[t], NoProc}
    BY <1>4 DEF Killed
  <2>3. ASSUME NEW q \in Procs PROVE GoodAt(q)'
    <3>1. CASE q \in P
      BY <1>4, <3>1 DEF Killed, GoodAt
    <3>2. CASE q \notin P
      <4>1. pc'[q] = pc[q] /\ job'[q] = job[q]
        BY <1>4, <3>2 DEF Killed
      <4>2. pc[q] = "copy" => writer'[job[q].bak] = writer[job[q].bak]
        BY <1>4, <3>2 DEF Killed, GoodInv, GoodAt, JobOK
      <4> QED
        BY <1>4, <4>1, <4>2 DEF GoodInv, GoodAt, Backed
    <3> QED
      BY <3>1, <3>2
  <2> QED
    BY <1>4, <2>1, <2>2, <2>3 DEF GoodInv
<1>5. Tick \/ ClockBack \/ (\E y \in YamlEdits : EditYaml(y)) \/ UNCHANGED vars
        => UNCHANGED <<config, baks, writer, good, pc, job>>
  BY DEF Tick, ClockBack, EditYaml, vars, files, history
<1>6. ASSUME HelperRestarts \/ Reboot \/ \E p \in Clis : CliKilled(p) PROVE GoodInv'
  <2>1. /\ \E P \in SUBSET Procs : Killed(P)
        /\ UNCHANGED <<config, baks, good>>
    BY <1>6 DEF HelperRestarts, Reboot, CliKilled, Procs
  <2> QED
    BY <1>4, <2>1
<1> QED
  BY <1>1, <1>2, <1>3, <1>5, <1>6 DEF SerialNext, Surroundings, Moves

(* However often writes fail, processes die and backups are restored, the  *)
(* last whole configuration can be got back.                               *)
THEOREM LastGoodKept == SerialSpec => []LastGoodRecoverable
<1>1. GoodInv => LastGoodRecoverable
  BY DEF GoodInv
<1>2. Init => IInv /\ Alone /\ GoodInv
  BY InitIInv, SerialInit DEF Init, GoodInv, GoodAt, LastGoodRecoverable
<1>3. IInv /\ Alone /\ GoodInv /\ [SerialNext]_vars => IInv' /\ Alone' /\ GoodInv'
  BY NextIInv, SerialIsNext, AloneNext, GoodNext
<1> QED
  BY <1>1, <1>2, <1>3, PTL DEF SerialSpec

----------------------------------------------------------------------------
(* Answers.                                                                *)

(* Places before the restart, or without one.                              *)
NotRestarted(p) ==
  \/ pc[p] \in {"stamp", "create", "copy", "read", "truncate", "write", "restart",
               "swap", "load"}
  \/ pc[p] \in Saving /\ job[p].op = "settings"

(* What was written is in config.json, and what was loaded is running, to  *)
(* the end of the request; and it was rendered with the settings in memory.*)
TellAt(p) ==
  pc[p] # "idle" =>
    /\ NotRestarted(p) => ~job[p].restarted
    /\ job[p].op = "cli" => pc[p] \in {"stamp", "create", "copy", "truncate", "write"}
    /\ pc[p] = "restart" => job[p].body # Absent
    /\ pc[p] \in {"swap", "load"} => job[p].body = Absent
    /\ pc[p] \in Saving /\ job[p].op = "settings" => job[p].body = Absent
    /\ job[p].op \in {"apply", "settings"} /\ job[p].body # Absent =>
         job[p].body \in Configs /\ job[p].body.set = mem
    /\ job[p].restarted => job[p].body # Absent /\ running = Loaded(job[p].body)
    /\ pc[p] = "write" => config = Empty
    /\ \/ pc[p] \in {"restart", "list", "trim"}
       \/ pc[p] = "reply" /\ job[p].body # Absent
       \/ pc[p] \in Saving /\ job[p].op = "apply"
       => config = job[p].body

TellInv == \A p \in Procs : TellAt(p)

(* Each step of a request keeps its own account true.                      *)
LEMMA TellMoved ==
  ASSUME IInv, Alone, SettingsInv, TellInv, NEW p \in Procs, Moves(p)
  PROVE  TellAt(p)'
<1> USE DEF IInv, TypeOK, JobOK, Goto, Finish, Saving
<1> DEFINE Told == TellAt(p)'
<1>0. TellAt(p) /\ SettingsAt(p)
  BY DEF TellInv, SettingsInv
<1>1. ASSUME AllIdle, Begin(p) PROVE Told
  <2>1. ASSUME NEW u \in URIs, BeginApply(p, u) PROVE Told
    <3>1. Rendered(u, mem) \in Configs /\ Rendered(u, mem).set = mem
      BY RenderedTyped DEF Rendered
    <3> QED
      BY <2>1, <3>1 DEF BeginApply, TellAt, NotRestarted, NoJob
  <2>2. ASSUME NEW u \in URIs, BeginCli(p, u) PROVE Told
    BY <2>2 DEF BeginCli, TellAt, NotRestarted, NoJob
  <2>3. ASSUME NEW s \in Accepted, BeginSettings(p, s) PROVE Told
    BY <2>3 DEF BeginSettings, TellAt, NotRestarted, NoJob
  <2>4. ASSUME NEW t \in Stamps, BeginRestore(p, t) PROVE Told
    BY <2>4 DEF BeginRestore, TellAt, NotRestarted, NoJob
  <2>5. ASSUME NEW t \in Stamps, DeleteBackup(p, t) PROVE Told
    BY <2>5 DEF DeleteBackup, TellAt
  <2> QED
    BY <1>1, <2>1, <2>2, <2>3, <2>4, <2>5 DEF Begin
<1>2. ASSUME BackupStep(p) PROVE Told
  BY <1>0, <1>2 DEF BackupStep, OpenLive, CreateBackup, CopyBackup, CopyFails, AfterBackup,
                    TellAt, NotRestarted, Jobs
<1>3. ASSUME WriteStep(p) PROVE Told
  <2>1. ASSUME ReadBackup(p) PROVE Told
    BY <1>0, <2>1 DEF ReadBackup, TellAt, NotRestarted, Jobs
  <2>2. ASSUME TruncateLive(p) PROVE Told
    BY <1>0, <2>2 DEF TruncateLive, TellAt, NotRestarted
  <2>3. ASSUME FailsBeforeWrite(p) \/ WriteFails(p) PROVE Told
    BY <2>3 DEF FailsBeforeWrite, WriteFails, TellAt
  <2>4. ASSUME WriteLive(p) PROVE Told
    <3>1. config' = job[p].body
      BY <1>0, <2>4 DEF WriteLive, TellAt, AfterWrite
    <3> QED
      BY <1>0, <2>4, <3>1 DEF WriteLive, TellAt, NotRestarted, Alone
  <2> QED
    BY <1>3, <2>1, <2>2, <2>3, <2>4 DEF WriteStep
<1>4. ASSUME SaveStep(p) PROVE Told
  <2>1. UNCHANGED <<config, running, mem>> /\ pc[p] \in Saving
    BY <1>4 DEF SaveStep, SaveOpen, SaveOpenFails, SaveWrite, SaveWriteFails,
               SaveRename, SaveRenameFails, SaveRemove, files
  <2>2. \/ pc'[p] = "idle"
        \/ /\ job'[p] = job[p]
           /\ \/ pc'[p] \in Saving
              \/ pc'[p] = "swap" /\ job[p].op = "settings"
              \/ pc'[p] = "list" /\ job[p].op = "apply"
    BY <1>4 DEF SaveStep, SaveOpen, SaveOpenFails, SaveWrite, SaveWriteFails,
       SaveRename, SaveRenameFails, SaveRemove, SaveGivesUp, AfterSave
  <2> QED
    BY <1>0, <2>1, <2>2 DEF TellAt, NotRestarted
<1>5. ASSUME RestartOk(p) PROVE Told
  BY <1>0, <1>5 DEF RestartOk, AfterRestart, TellAt, NotRestarted, Jobs, files
<1>6. ASSUME RestartFails(p) PROVE Told
  BY <1>0, <1>6 DEF RestartFails, AfterRestart, TellAt, NotRestarted, files
<1>7. ASSUME SwapSettings(p) PROVE Told
  BY <1>0, <1>7 DEF SwapSettings, TellAt, NotRestarted, files, history
<1>8. ASSUME LoadState(p) PROVE Told
  <2>1. job[p].op = "settings" /\ job[p].set = mem /\ mem \in SettingsVals
    BY <1>0, <1>8 DEF LoadState, SettingsAt
  <2>2. ASSUME StateURI \in URIs
        PROVE  Rendered(StateURI, mem) \in Configs /\ Rendered(StateURI, mem).set = mem
    BY <2>1, <2>2, RenderedTyped DEF Rendered
  <2> QED
    BY <1>0, <1>8, <2>1, <2>2 DEF LoadState, TellAt, NotRestarted, Jobs, files, history
<1>9. ASSUME ListBackups(p) \/ ListFails(p) \/ Reply(p) PROVE Told
  BY <1>0, <1>9 DEF ListBackups, ListFails, Reply, TellAt, NotRestarted, Jobs, files, history
<1>10. ASSUME NEW t \in Stamps, TrimOne(p, t) PROVE Told
  BY <1>0, <1>10 DEF TrimOne, TellAt, NotRestarted, Jobs, history
<1> QED
  BY <1>1, <1>2, <1>3, <1>4, <1>5, <1>6, <1>7, <1>8, <1>9, <1>10
  DEF Moves, Step, Restart, TailStep

(* Nothing else happens to a request, except that it is killed.            *)
LEMMA TellNext ==
  ASSUME IInv, Alone, SettingsInv, TellInv, [SerialNext]_vars
  PROVE  TellInv'
<1> USE DEF IInv, TypeOK
<1>1. ASSUME NEW p \in Procs, Moves(p) PROVE TellInv'
  <2>1. \A q \in Procs \ {p} : pc'[q] = "idle"
    BY <1>1, OthersWait
  <2> QED
    BY <1>1, <2>1, TellMoved DEF TellInv, TellAt
<1>2. ASSUME NEW c \in Foreign, HandEdit(c) PROVE TellInv'
  BY <1>2 DEF HandEdit, TellInv, TellAt
<1>3. ASSUME UNCHANGED <<config, running, mem, pc, job>> PROVE TellInv'
  BY <1>3 DEF TellInv, TellAt, NotRestarted
<1>4. Tick \/ ClockBack \/ (\E y \in YamlEdits : EditYaml(y)) \/ UNCHANGED vars
        => UNCHANGED <<config, running, mem, pc, job>>
  BY DEF Tick, ClockBack, EditYaml, vars, files
<1>5. ASSUME HelperRestarts PROVE TellInv'
  <2>1. ASSUME NEW q \in Procs PROVE TellAt(q)'
    <3>1. CASE q \in Handlers
      BY <1>5, <3>1 DEF HelperRestarts, Killed, TellAt
    <3>2. CASE q \notin Handlers
      <4>1. pc'[q] = pc[q] /\ job'[q] = job[q] /\ UNCHANGED <<config, running>>
        BY <1>5, <3>2 DEF HelperRestarts, Killed
      <4>2. pc[q] # "idle" => job[q].op = "cli"
        BY <3>2 DEF Alone, Procs
      <4> QED
        BY <4>1, <4>2 DEF TellInv, TellAt, NotRestarted
    <3> QED
      BY <3>1, <3>2
  <2> QED
    BY <2>1 DEF TellInv
<1>6. ASSUME Reboot PROVE TellInv'
  BY <1>6 DEF Reboot, Killed, TellInv, TellAt
<1>7. ASSUME NEW p \in Clis, CliKilled(p) PROVE TellInv'
  BY <1>7 DEF CliKilled, Killed, Alone, TellInv, TellAt, Procs
<1> QED
  BY <1>1, <1>2, <1>3, <1>4, <1>5, <1>6, <1>7 DEF SerialNext, Surroundings, Moves

(* An answer does not promise what is not so.                              *)
THEOREM AnswersTrue == SerialSpec => []ReplyTrue
<1>1. IInv /\ Alone /\ TellInv => ReplyTrue
  BY DEF IInv, TypeOK, Jobs, Alone, TellInv, TellAt, ReplyTrue, JobOK
<1>2. Init => IInv /\ Alone /\ SettingsInv /\ TellInv
  BY InitIInv, SerialInit DEF Init, TellInv, TellAt
<1>3. IInv /\ Alone /\ SettingsInv /\ TellInv /\ [SerialNext]_vars
        => IInv' /\ Alone' /\ SettingsInv' /\ TellInv'
  BY NextIInv, SerialIsNext, AloneNext, SettingsNext, TellNext
<1> QED
  BY <1>1, <1>2, <1>3, PTL DEF SerialSpec

----------------------------------------------------------------------------
(* The backup an answer names.                                             *)

(* Places where the request has made no backup yet.                        *)
NoBackupYet(p) ==
  \/ pc[p] \in {"stamp", "swap", "load"}
  \/ pc[p] \in Saving /\ job[p].op = "settings"

(* With a clock that only advances, the backup of the request under way is *)
(* the newest.                                                             *)
NamedAt(p) ==
  pc[p] # "idle" =>
    /\ NoBackupYet(p) => job[p].bak = NoStamp /\ job[p].todo = {}
    /\ pc[p] = "copy" => writer[job[p].bak] = p
    /\ job[p].bak \notin job[p].todo
    /\ job[p].bak # NoStamp =>
         /\ job[p].bak \in Stamps /\ job[p].bak <= now
         /\ \A t \in Stamps : Present(t) => t <= job[p].bak
         /\ pc[p] # "create" => Present(job[p].bak)

NamedInv ==
  /\ \A t \in Stamps : Present(t) => t <= now
  /\ \A p \in Procs : NamedAt(p)

(* Steps that leave the backups and the clock alone.                       *)
LEMMA NamedQuiet ==
  ASSUME IInv, NamedInv, NEW p \in Procs, UNCHANGED <<baks, writer, now>>,
         \/ pc'[p] = "idle"
         \/ /\ pc[p] # "idle" /\ pc[p] # "create"
            /\ pc'[p] # "copy" /\ (NoBackupYet(p)' => NoBackupYet(p))
            /\ job'[p].bak = job[p].bak /\ job'[p].todo = job[p].todo
         \/ NoBackupYet(p)' /\ job'[p].bak = NoStamp /\ job'[p].todo = {}
  PROVE  NamedAt(p)'
BY DEF NamedInv, NamedAt, Present, NoBackupYet, Saving

(* Trim does not list the newest backup.                                   *)
LEMMA NewestSpared ==
  ASSUME NEW t \in 0..MaxClock, \A u \in Stamps : Present(u) => u <= t
  PROVE  t \notin Surplus
<1> SUFFICES ASSUME t \in Surplus PROVE FALSE
  OBVIOUS
<1>1. t \in Stamps /\ Cardinality(Newer(t)) >= KeepBackups
  BY DEF Surplus
<1>2. Newer(t) = {}
  BY <1>1 DEF Newer, Stamps
<1>3. Cardinality(Newer(t)) = 0
  BY <1>2, FS_EmptySet
<1> QED
  BY <1>1, <1>3, BoundsAssumption

(* Each step of a request keeps its backup.                                *)
LEMMA NamedMoved ==
  ASSUME IInv, Alone, NamedInv, NEW p \in Procs, Moves(p)
  PROVE  /\ NamedAt(p)'
         /\ now' = now
         /\ \A t \in Stamps : Present(t)' => t <= now
<1> USE DEF IInv, TypeOK, JobOK, Goto, Finish, Saving, NoBackupYet
<1> DEFINE Quiet ==
      /\ UNCHANGED <<baks, writer, now>>
      /\ \/ pc'[p] = "idle"
         \/ /\ pc[p] # "idle" /\ pc[p] # "create"
            /\ pc'[p] # "copy" /\ (NoBackupYet(p)' => NoBackupYet(p))
            /\ job'[p].bak = job[p].bak /\ job'[p].todo = job[p].todo
         \/ NoBackupYet(p)' /\ job'[p].bak = NoStamp /\ job'[p].todo = {}
      Newest == \A t \in Stamps : Present(t)' => t <= now
      Named == NamedAt(p)' /\ now' = now /\ Newest
<1>0. NamedAt(p) /\ \A t \in Stamps : Present(t) => t <= now
  BY DEF NamedInv
<1>1. ASSUME AllIdle, Begin(p) PROVE Quiet \/ Named
  <2>1. ASSUME NEW u \in URIs, BeginApply(p, u) PROVE Quiet
    BY <2>1 DEF BeginApply, NoJob, files
  <2>5. ASSUME NEW u \in URIs, BeginCli(p, u) PROVE Quiet
    BY <2>5 DEF BeginCli, NoJob, files
  <2>2. ASSUME NEW s \in Accepted, BeginSettings(p, s) PROVE Quiet
    BY <2>2 DEF BeginSettings, NoJob, files
  <2>3. ASSUME NEW t \in Stamps, BeginRestore(p, t) PROVE Quiet
    BY <2>3 DEF BeginRestore, NoJob, files
  <2>4. ASSUME NEW t \in Stamps, DeleteBackup(p, t) PROVE Named
    BY <1>0, <2>4 DEF DeleteBackup, NamedAt, Present
  <2> QED
    BY <1>1, <2>1, <2>2, <2>3, <2>4, <2>5 DEF Begin
<1>2. ASSUME OpenLive(p) PROVE Named
  <2>1. UNCHANGED <<baks, writer, now>> /\ Newest /\ job[p].todo = {}
    BY <1>0, <1>2 DEF OpenLive, files, Present, NamedAt
  <2>2. CASE config = Absent
    BY <1>0, <1>2, <2>1, <2>2 DEF OpenLive, NamedAt, AfterBackup, NoStamp
  <2>3. CASE config # Absent
    <3>1. pc'[p] = "create" /\ job'[p] = [job[p] EXCEPT !.bak = now]
      BY <1>2, <2>3 DEF OpenLive
    <3>2. job'[p].bak = now /\ job'[p].todo = {}
      BY <2>1, <3>1 DEF Jobs
    <3>3. now \in Stamps /\ now <= now
      BY DEF Stamps
    <3> QED
      BY <1>0, <2>1, <3>1, <3>2, <3>3 DEF NamedAt, Present
  <2> QED
    BY <2>2, <2>3
<1>3. ASSUME CreateBackup(p) PROVE Named
  <2>1. /\ baks' = [baks EXCEPT ![job[p].bak] = Empty]
        /\ writer' = [writer EXCEPT ![job[p].bak] = p]
        /\ UNCHANGED <<now, job>> /\ pc'[p] = "copy" /\ pc[p] = "create"
    BY <1>3 DEF CreateBackup
  <2>2. job[p].bak # NoStamp /\ job[p].bak \in Stamps /\ job[p].bak <= job[p].bak
    BY <2>1 DEF Stamps, NoStamp
  <2> QED
    BY <1>0, <2>1, <2>2, FilesAssumption DEF NamedAt, Present
<1>4. ASSUME CopyBackup(p) PROVE Named
  <2>1. /\ baks' = [baks EXCEPT ![job[p].bak] = config] /\ config # Absent
        /\ UNCHANGED <<now, job>> /\ pc[p] = "copy" /\ pc'[p] \in {"read", "truncate"}
    BY <1>0, <1>4 DEF CopyBackup, NamedAt, AfterBackup
  <2>2. job[p].bak # NoStamp /\ job[p].bak \in Stamps
    BY <2>1 DEF Stamps, NoStamp
  <2> QED
    BY <1>0, <2>1, <2>2 DEF NamedAt, Present
<1>5. ASSUME CopyFails(p) PROVE Named
  <2>1. pc'[p] = "idle" /\ now' = now /\ pc[p] = "copy"
    BY <1>5 DEF CopyFails
  <2>2. Present(job[p].bak) /\ job[p].bak \in Stamps
    BY <1>0, <2>1 DEF NamedAt, Stamps, NoStamp
  <2>3. \A t \in Stamps : Present(t)' => Present(t)
    BY <1>5, <2>2 DEF CopyFails, Present
  <2> QED
    BY <1>0, <2>1, <2>3 DEF NamedAt
<1>6. ASSUME WriteStep(p) PROVE Quiet
  BY <1>6 DEF WriteStep, ReadBackup, TruncateLive, FailsBeforeWrite, WriteLive,
             WriteFails, files, Jobs
<1>7. ASSUME SaveStep(p) PROVE Quiet
  BY <1>7 DEF SaveStep, SaveOpen, SaveOpenFails, SaveWrite, SaveWriteFails,
       SaveRename, SaveRenameFails, SaveRemove, SaveGivesUp, AfterSave, files
<1>8. ASSUME Restart(p) PROVE Quiet
  BY <1>8 DEF Restart, RestartOk, RestartFails, AfterRestart, files, Jobs
<1>9. ASSUME SwapSettings(p) \/ LoadState(p) \/ ListFails(p) \/ Reply(p) PROVE Quiet
  BY <1>9 DEF SwapSettings, LoadState, ListFails, Reply, files, Jobs
<1>10. ASSUME ListBackups(p) PROVE Named
  <2>1. /\ UNCHANGED <<baks, writer, now>> /\ job'[p].bak = job[p].bak
        /\ job'[p].todo = Surplus /\ pc[p] = "list" /\ pc'[p] \in {"reply", "trim"}
    BY <1>10 DEF ListBackups, files, Jobs
  <2>2. job[p].bak \notin Surplus
    <3>1. CASE job[p].bak = NoStamp
      BY <3>1 DEF Surplus, Stamps, NoStamp
    <3>2. CASE job[p].bak # NoStamp
      <4>1. job[p].bak \in 0..MaxClock
        BY DEF Jobs
      <4>2. \A u \in Stamps : Present(u) => u <= job[p].bak
        BY <1>0, <2>1, <3>2 DEF NamedAt
      <4> QED
        BY <4>1, <4>2, NewestSpared
    <3> QED
      BY <3>1, <3>2
  <2> QED
    BY <1>0, <2>1, <2>2 DEF NamedAt, Present
<1>11. ASSUME NEW t \in Stamps, TrimOne(p, t) PROVE Named
  <2>1. /\ t \in job[p].todo /\ job'[p].todo \subseteq job[p].todo
        /\ job'[p].bak = job[p].bak /\ now' = now
        /\ pc[p] = "trim" /\ pc'[p] \in {"reply", "trim"}
    BY <1>11 DEF TrimOne, Jobs
  <2>2. \A u \in Stamps : baks'[u] \in {baks[u], Absent} /\ (u # t => baks'[u] = baks[u])
    BY <1>11 DEF TrimOne
  <2>3. Newest
    BY <1>0, <2>2 DEF Present
  <2>4. NamedAt(p)'
    BY <1>0, <2>1, <2>2 DEF NamedAt, Present
  <2> QED
    BY <2>1, <2>3, <2>4
<1>12. CASE Quiet
  BY <1>0, <1>12, NamedQuiet DEF Present
<1> QED
  BY <1>1, <1>2, <1>3, <1>4, <1>5, <1>6, <1>7, <1>8, <1>9, <1>10, <1>11, <1>12
  DEF Moves, Step, BackupStep, TailStep

(* The rest of the system only lets time pass, or kills.                   *)
LEMMA NamedNext ==
  ASSUME ~ClockSteps, IInv, Alone, NamedInv, [SerialNext]_vars
  PROVE  NamedInv'
<1> USE DEF IInv, TypeOK
<1>1. ASSUME NEW p \in Procs, Moves(p) PROVE NamedInv'
  <2>1. \A q \in Procs \ {p} : pc'[q] = "idle"
    BY <1>1, OthersWait
  <2> QED
    BY <1>1, <2>1, NamedMoved DEF NamedInv, NamedAt
<1>2. ASSUME UNCHANGED <<baks, writer, pc, job>>, now' \in {now, now + 1} PROVE NamedInv'
  <2>1. \A t \in Int : t <= now => t <= now'
    BY <1>2 DEF Stamps
  <2> QED
    BY <1>2, <2>1 DEF NamedInv, NamedAt, NoBackupYet, Present, Stamps
<1>3. Tick \/ (\E c \in Foreign : HandEdit(c)) \/ (\E y \in YamlEdits : EditYaml(y))
         \/ UNCHANGED vars
        => UNCHANGED <<baks, writer, pc, job>> /\ now' \in {now, now + 1}
  BY DEF Tick, HandEdit, EditYaml, vars, files
<1>4. ASSUME NEW P \in SUBSET Procs, Killed(P), UNCHANGED <<baks, now>> PROVE NamedInv'
  <2>1. ASSUME NEW q \in Procs PROVE NamedAt(q)'
    <3>1. CASE q \in P
      BY <1>4, <3>1 DEF Killed, NamedAt
    <3>2. CASE q \notin P
      <4>1. pc'[q] = pc[q] /\ job'[q] = job[q]
        BY <1>4, <3>2 DEF Killed
      <4>2. pc[q] = "copy" => writer'[job[q].bak] = writer[job[q].bak]
        BY <1>4, <3>2 DEF Killed, NamedInv, NamedAt, JobOK
      <4> QED
        BY <1>4, <4>1, <4>2 DEF NamedInv, NamedAt, NoBackupYet, Present
    <3> QED
      BY <3>1, <3>2
  <2> QED
    BY <1>4, <2>1 DEF NamedInv, Present
<1>5. ASSUME HelperRestarts \/ Reboot \/ \E p \in Clis : CliKilled(p) PROVE NamedInv'
  <2>1. (\E P \in SUBSET Procs : Killed(P)) /\ UNCHANGED <<baks, now>>
    BY <1>5 DEF HelperRestarts, Reboot, CliKilled, Procs
  <2> QED
    BY <1>4, <2>1
<1>6. ~ClockBack
  BY DEF ClockBack
<1> QED
  BY <1>1, <1>2, <1>3, <1>5, <1>6 DEF SerialNext, Surroundings, Moves

(* The backup an answer names is there, if the clock is not set back.      *)
THEOREM NamedBackupThere ==
  ASSUME ~ClockSteps
  PROVE  SerialSpec => []ReplyNamesBackup
<1>1. NamedInv => ReplyNamesBackup
  BY DEF NamedInv, NamedAt, ReplyNamesBackup
<1>2. Init => IInv /\ Alone /\ NamedInv
  BY InitIInv, SerialInit DEF Init, NamedInv, NamedAt, Present
<1>3. IInv /\ Alone /\ NamedInv /\ [SerialNext]_vars => IInv' /\ Alone' /\ NamedInv'
  BY NextIInv, SerialIsNext, AloneNext, NamedNext
<1> QED
  BY <1>1, <1>2, <1>3, PTL DEF SerialSpec

============================================================================
