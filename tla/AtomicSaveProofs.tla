-------------------------- MODULE AtomicSaveProofs --------------------------
(***************************************************************************)
(* state.Save and config.SaveSettings, for any values: the types whatever  *)
(* calls overlap, and that a single caller sees an atomic register.        *)
(***************************************************************************)
EXTENDS AtomicSave, FilesProofs

----------------------------------------------------------------------------
(* Any number of callers.                                                  *)

(* Every reachable state is well typed: what is written is what the call   *)
(* was given, whoever else has the temporary file open.                    *)
THEOREM SaveTypeCorrect == Spec => []TypeOK
<1> DEFINE HasValue(s) == pc[s] \in {"open", "write"} => val[s] \in Values
<1> DEFINE Inv == TypeOK /\ \A s \in Savers : HasValue(s)
<1>1. Init => Inv
  <2> SUFFICES ASSUME Init PROVE Inv
    OBVIOUS
  <2>1. PICK v \in Contents : cell = NewCell(Savers, v)
    BY DEF Init, Contents, Unusable
  <2>2. cell \in Cell(Savers, Contents)
    BY <2>1, NewCellTyped DEF Contents
  <2> QED
    BY <2>2 DEF Init, TypeOK
<1>2. Inv /\ [Next]_vars => Inv'
  <2> SUFFICES ASSUME Inv, [Next]_vars PROVE Inv'
    OBVIOUS
  <2> USE DEF TypeOK, Goto, Return
  <2>1. ASSUME NEW s \in Savers, NEW v \in Values, Call(s, v) PROVE Inv'
    BY <2>1 DEF Call
  <2>2. ASSUME NEW s \in Savers, OpenTmp(s) PROVE Inv'
    <3>1. cell' \in Cell(Savers, Contents)
      BY <2>2, OpenedTmpTyped DEF OpenTmp, Contents
    <3> QED
      BY <2>2, <3>1 DEF OpenTmp
  <2>3. ASSUME NEW s \in Savers, OpenFails(s) PROVE Inv'
    BY <2>3 DEF OpenFails
  <2>4. ASSUME NEW s \in Savers, WriteTmp(s) PROVE Inv'
    <3>1. val[s] \in Contents
      BY <2>4 DEF WriteTmp, Contents
    <3>2. cell' \in Cell(Savers, Contents)
      BY <2>4, <3>1, WrittenTmpTyped DEF WriteTmp, Contents
    <3> QED
      BY <2>4, <3>2 DEF WriteTmp
  <2>5. ASSUME NEW s \in Savers, WriteFails(s) PROVE Inv'
    <3>1. Empty \in Contents /\ Torn \in Contents
      BY DEF Contents, Unusable
    <3>2. cell' \in Cell(Savers, Contents)
      BY <2>5, <3>1, WrittenTmpTyped DEF WriteFails, Contents
    <3> QED
      BY <2>5, <3>2 DEF WriteFails
  <2>6. ASSUME NEW s \in Savers, RenameTmp(s) PROVE Inv'
    <3>1. cell' \in Cell(Savers, Contents)
      BY <2>6, RenamedTyped DEF RenameTmp, Contents
    <3> QED
      BY <2>6, <3>1 DEF RenameTmp
  <2>7. ASSUME NEW s \in Savers, RenameFails(s) PROVE Inv'
    BY <2>7 DEF RenameFails
  <2>8. ASSUME NEW s \in Savers, RemoveTmp(s) PROVE Inv'
    <3>1. cell' \in Cell(Savers, Contents)
      BY <2>8, RemovedTmpTyped DEF RemoveTmp, Contents
    <3> QED
      BY <2>8, <3>1 DEF RemoveTmp
  <2>9. CASE Crash
    <3>1. cell' \in Cell(Savers, Contents)
      BY <2>9, ClosedByTyped DEF Crash
    <3> QED
      BY <2>9, <3>1 DEF Crash
  <2>10. CASE UNCHANGED vars
    BY <2>10 DEF vars
  <2> QED
    BY <2>1, <2>2, <2>3, <2>4, <2>5, <2>6, <2>7, <2>8, <2>9, <2>10 DEF Next, Step
<1>3. Inv => TypeOK
  OBVIOUS
<1> QED
  BY <1>1, <1>2, <1>3, PTL DEF Spec

----------------------------------------------------------------------------
(* One caller.                                                             *)

(* What one caller relies on between its steps: only its own descriptor is *)
(* open, on a temporary file that is still where it put it; what it is     *)
(* about to rename is the whole value; and it is told the result at the    *)
(* very step that ends the call.                                           *)
Alone(s) ==
  /\ cell.fd[s] = (IF pc[s] = "write" THEN "tmp" ELSE "closed")
  /\ pc[s] = "write" => cell.tmp = Empty
  /\ pc[s] = "rename" => cell.tmp = val[s]
  /\ pc[s] \in {"open", "write", "rename"} => val[s] \in Values
  /\ result[s] = "busy" <=> pc[s] # "idle"

(* With one call at a time, I/O errors and crashes at every step included, *)
(* the protocol of state.Save and config.SaveSettings implements the       *)
(* register: path changes in one step, exactly when success is reported.   *)
THEOREM SaveIsAtomic ==
  ASSUME NEW s, Savers = {s}
  PROVE  Spec => RegisterSpec
<1>1. Init => Alone(s)
  BY DEF Init, NewCell, Alone
<1>2. ASSUME TypeOK, Alone(s), [Next]_vars PROVE Alone(s)'
  <2> USE <1>2 DEF TypeOK, Alone, Goto, Return
  <2>1. s \in Savers /\ cell.fd \in [Savers -> Places]
    BY DEF Cell
  <2>2. ASSUME NEW v \in Values, Call(s, v) PROVE Alone(s)'
    BY <2>1, <2>2 DEF Call
  <2>3. ASSUME OpenTmp(s) PROVE Alone(s)'
    BY <2>1, <2>3 DEF OpenTmp, OpenedTmp, Cell
  <2>4. ASSUME OpenFails(s) PROVE Alone(s)'
    BY <2>1, <2>4 DEF OpenFails
  <2>5. ASSUME WriteTmp(s) PROVE Alone(s)'
    <3>1. cell.fd[s] = "tmp" /\ cell.tmp = Empty /\ val[s] \in Values /\ val[s] # Empty
      BY <2>5, SaveAssumption DEF WriteTmp, Unusable
    <3>2. cell'.tmp = val[s] /\ cell'.fd[s] = "closed"
      BY <2>1, <2>5, <3>1 DEF WriteTmp, WrittenTmp, AfterWrite
    <3> QED
      BY <2>1, <2>5, <3>1, <3>2 DEF WriteTmp
  <2>6. ASSUME WriteFails(s) PROVE Alone(s)'
    <3>1. cell'.fd[s] = "closed"
      BY <2>1, <2>6 DEF WriteFails, WrittenTmp
    <3> QED
      BY <2>1, <2>6, <3>1 DEF WriteFails
  <2>7. ASSUME RenameTmp(s) PROVE Alone(s)'
    <3>1. cell'.fd[s] = "closed"
      BY <2>1, <2>7 DEF RenameTmp, Renamed
    <3> QED
      BY <2>1, <2>7, <3>1 DEF RenameTmp
  <2>8. ASSUME RenameFails(s) PROVE Alone(s)'
    BY <2>1, <2>8 DEF RenameFails
  <2>9. ASSUME RemoveTmp(s) PROVE Alone(s)'
    <3>1. cell.fd[s] = "closed"
      BY <2>9 DEF RemoveTmp
    <3>2. RemovedTmp(cell).fd[s] = "closed"
      BY <2>1, <3>1 DEF RemovedTmp, Cell
    <3>3. cell'.fd[s] = "closed"
      BY <2>9, <3>1, <3>2 DEF RemoveTmp
    <3> QED
      BY <2>1, <2>9, <3>3 DEF RemoveTmp
  <2>10. CASE Crash
    BY <2>1, <2>10 DEF Crash, ClosedBy
  <2>11. CASE UNCHANGED vars
    BY <2>11 DEF vars
  <2> QED
    BY <2>2, <2>3, <2>4, <2>5, <2>6, <2>7, <2>8, <2>9, <2>10, <2>11 DEF Next, Step
<1>3. Init => Register!Init
  BY DEF Init, Register!Init, NewCell
<1>4. ASSUME TypeOK, Alone(s), [Next]_vars
      PROVE  [Register!Next]_<<cell.file, val, result>>
  <2> USE <1>4 DEF TypeOK, Alone, Goto, Return, Register!Next, Register!Return
  <2>1. s \in Savers
    OBVIOUS
  <2>2. ASSUME NEW v \in Values, Call(s, v) PROVE Register!Begin(s, v)
    BY <2>1, <2>2 DEF Call, Register!Begin
  <2>3. ASSUME OpenTmp(s) PROVE UNCHANGED <<cell.file, val, result>>
    BY <2>3 DEF OpenTmp, OpenedTmp, Cell
  <2>4. ASSUME OpenFails(s) PROVE Register!Fail(s)
    BY <2>1, <2>4 DEF OpenFails, Register!Fail
  <2>5. ASSUME WriteTmp(s) PROVE UNCHANGED <<cell.file, val, result>>
    BY <2>5 DEF WriteTmp, WrittenTmp
  <2>6. ASSUME WriteFails(s) PROVE Register!Fail(s)
    BY <2>1, <2>6 DEF WriteFails, WrittenTmp, Register!Fail
  <2>7. ASSUME RenameTmp(s) PROVE Register!Commit(s)
    BY <2>1, <2>7 DEF RenameTmp, Renamed, Register!Commit
  <2>8. ASSUME RenameFails(s)
        PROVE  Register!Fail(s) \/ UNCHANGED <<cell.file, val, result>>
    BY <2>1, <2>8 DEF RenameFails, Register!Fail
  <2>9. ASSUME RemoveTmp(s) PROVE Register!Fail(s)
    BY <2>1, <2>9 DEF RemoveTmp, RemovedTmp, Cell, Register!Fail
  <2>10. CASE Crash
    BY <2>10 DEF Crash, ClosedBy, Cell, Register!Crash
  <2>11. CASE UNCHANGED vars
    BY <2>11 DEF vars
  <2> QED
    BY <2>1, <2>2, <2>3, <2>4, <2>5, <2>6, <2>7, <2>8, <2>9, <2>10, <2>11
    DEF Next, Step
<1> QED
  BY <1>1, <1>2, <1>3, <1>4, SaveTypeCorrect, PTL DEF Spec, RegisterSpec, Register!Spec

============================================================================
