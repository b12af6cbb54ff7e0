----------------------------- MODULE AtomicSave -----------------------------
(***************************************************************************)
(* state.Save and config.SaveSettings: write the new contents to           *)
(* path+".tmp", then rename it over path.  Save is called by POST          *)
(* /api/apply on state.json, SaveSettings by POST /api/settings on         *)
(* config.yaml; net/http runs every request in its own goroutine and       *)
(* neither function takes a lock, so several calls may be under way.       *)
(***************************************************************************)
EXTENDS Files

CONSTANTS
  Savers,      (* goroutines that may call the function                    *)
  Values,      (* the encoded contents they may be asked to save           *)
  NoValue,     (* "no call under way"                                      *)
  RemovesTmp,  (* TRUE: SaveSettings, which removes tmp when rename fails; *)
               (* FALSE: Save, which leaves it                             *)
  IOErrors     (* TRUE: open, write, rename and remove may fail by         *)
               (* themselves (disk full, read-only file system)            *)

ASSUME SaveAssumption ==
  /\ Values \cap Unusable = {}
  /\ NoValue \notin Values
  /\ RemovesTmp \in BOOLEAN
  /\ IOErrors \in BOOLEAN

VARIABLES
  cell,    (* the two names and who has the temporary one open             *)
  pc,      (* where each call is                                           *)
  val,     (* what each call is saving                                     *)
  result   (* what each caller has been told: "none" before the first      *)
           (* call, "busy" during one, then "ok" or "err"                  *)

vars == <<cell, pc, val, result>>

Contents == Values \cup Unusable

TypeOK ==
  /\ cell \in Cell(Savers, Contents)
  /\ pc \in [Savers -> {"idle", "open", "write", "rename", "remove"}]
  /\ val \in [Savers -> Values \cup {NoValue}]
  /\ result \in [Savers -> {"none", "busy", "ok", "err"}]

Init ==
  /\ \E v \in Values \cup {Absent} : cell = NewCell(Savers, v)
  /\ pc = [s \in Savers |-> "idle"]
  /\ val = [s \in Savers |-> NoValue]
  /\ result = [s \in Savers |-> "none"]

----------------------------------------------------------------------------
Goto(s, l) == pc' = [pc EXCEPT ![s] = l]

Return(s, r) ==
  /\ Goto(s, "idle")
  /\ val' = [val EXCEPT ![s] = NoValue]
  /\ result' = [result EXCEPT ![s] = r]

(* The call, up to the point where the temporary file is opened: MkdirAll  *)
(* and the encoding touch neither name.                                    *)
Call(s, v) ==
  /\ pc[s] = "idle"
  /\ Goto(s, "open")
  /\ val' = [val EXCEPT ![s] = v]
  /\ result' = [result EXCEPT ![s] = "busy"]
  /\ UNCHANGED cell

OpenTmp(s) ==
  /\ pc[s] = "open"
  /\ cell' = OpenedTmp(cell, s)
  /\ Goto(s, "write")
  /\ UNCHANGED <<val, result>>

(* MkdirAll, the encoding or the open of the temporary file fails.         *)
OpenFails(s) ==
  /\ IOErrors
  /\ pc[s] = "open"
  /\ Return(s, "err")
  /\ UNCHANGED cell

WriteTmp(s) ==
  /\ pc[s] = "write"
  /\ cell' \in WrittenTmp(cell, s, val[s])
  /\ Goto(s, "rename")
  /\ UNCHANGED <<val, result>>

(* Mutant of WriteFails: the error of os.WriteFile is not looked at.       *)
MutWriteErrorIgnored(s) ==
  /\ IOErrors
  /\ pc[s] = "write"
  /\ cell' \in WrittenTmp(cell, s, Empty) \cup WrittenTmp(cell, s, Torn)
  /\ Goto(s, "rename")
  /\ UNCHANGED <<val, result>>

(* The write fails with nothing or with part of the bytes written.         *)
WriteFails(s) ==
  /\ IOErrors
  /\ pc[s] = "write"
  /\ cell' \in WrittenTmp(cell, s, Empty) \cup WrittenTmp(cell, s, Torn)
  /\ Return(s, "err")

RenameTmp(s) ==
  /\ pc[s] = "rename"
  /\ cell.tmp # Absent
  /\ cell' = Renamed(cell)
  /\ Return(s, "ok")

(* Rename fails: another call has moved the temporary file away, or an I/O *)
(* error.  Only SaveSettings goes on to remove the temporary file.         *)
RenameFails(s) ==
  /\ pc[s] = "rename"
  /\ cell.tmp = Absent \/ IOErrors
  /\ IF RemovesTmp THEN Goto(s, "remove") /\ UNCHANGED <<val, result>>
                   ELSE Return(s, "err")
  /\ UNCHANGED cell

(* os.Remove(tmp), whose own error is ignored.                             *)
RemoveTmp(s) ==
  /\ pc[s] = "remove"
  /\ cell' = RemovedTmp(cell) \/ (IOErrors /\ cell' = cell)
  /\ Return(s, "err")

(* The helper dies (killed, upgraded, router switched off) and starts      *)
(* again: every call is gone, the two names stay as they are.              *)
Crash ==
  /\ cell' = ClosedBy(cell, Savers)
  /\ pc' = [s \in Savers |-> "idle"]
  /\ val' = [s \in Savers |-> NoValue]
  /\ result' = [s \in Savers |-> "none"]

Step(s) ==
  \/ OpenTmp(s)
  \/ OpenFails(s)
  \/ WriteTmp(s)
  \/ WriteFails(s)
  \/ RenameTmp(s)
  \/ RenameFails(s)
  \/ RemoveTmp(s)

Next ==
  \/ \E s \in Savers, v \in Values : Call(s, v)
  \/ \E s \in Savers : Step(s)
  \/ Crash

Spec == Init /\ [][Next]_vars

----------------------------------------------------------------------------
(* Through every interleaving with crashes and I/O errors, path behaves as *)
(* a register that each call sets at one instant or, if it reports an      *)
(* error or dies, may leave alone: the promise of the two doc comments.    *)
Register == INSTANCE DurableRegister WITH
  Callers <- Savers, Initial <- Values \cup {Absent}, reg <- cell.file,
  arg <- val, told <- result

RegisterSpec == Register!Spec

============================================================================
