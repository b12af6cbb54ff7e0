---------------------------- MODULE FilesProofs ----------------------------
(***************************************************************************)
(* What the operators of Files return, whatever the writers and contents.  *)
(***************************************************************************)
EXTENDS Files, TLAPS

(* A write leaves contents, if it was given contents.                      *)
LEMMA AfterWriteTyped ==
  ASSUME NEW C, Unusable \subseteq C, NEW old \in C, NEW new \in C
  PROVE  AfterWrite(old, new) \subseteq C
BY DEF AfterWrite, Unusable

(* Writing something to a file that exists does not make it vanish.        *)
LEMMA AfterWriteExists ==
  ASSUME NEW old, NEW new, old # Absent, new # Absent
  PROVE  Absent \notin AfterWrite(old, new)
BY FilesAssumption DEF AfterWrite

(* A file starts without a temporary one, and with all descriptors closed. *)
LEMMA NewCellTyped ==
  ASSUME NEW W, NEW C, Unusable \subseteq C, NEW c \in C
  PROVE  NewCell(W, c) \in Cell(W, C)
BY DEF NewCell, Cell, Places, Unusable

(* Opening the temporary file leaves it empty, and one descriptor on it.   *)
LEMMA OpenedTmpTyped ==
  ASSUME NEW W, NEW C, Unusable \subseteq C, NEW c \in Cell(W, C), NEW w \in W
  PROVE  OpenedTmp(c, w) \in Cell(W, C)
BY DEF OpenedTmp, Cell, Places, Unusable

(* A write reaches whichever file the writer's descriptor has become.      *)
LEMMA WrittenTmpTyped ==
  ASSUME NEW W, NEW C, Unusable \subseteq C, NEW c \in Cell(W, C), NEW w \in W,
         NEW v \in C
  PROVE  WrittenTmp(c, w, v) \subseteq Cell(W, C)
<1>1. c.file \in C /\ c.tmp \in C /\ c.fd \in [W -> Places]
  BY DEF Cell
<1>2. AfterWrite(c.file, v) \subseteq C /\ AfterWrite(c.tmp, v) \subseteq C
  BY <1>1, AfterWriteTyped
<1>3. [c.fd EXCEPT ![w] = "closed"] \in [W -> Places]
  BY <1>1 DEF Places
<1> QED
  BY <1>1, <1>2, <1>3 DEF WrittenTmp, Cell

(* A rename moves the temporary contents, and the descriptors with them.   *)
LEMMA RenamedTyped ==
  ASSUME NEW W, NEW C, Unusable \subseteq C, NEW c \in Cell(W, C)
  PROVE  Renamed(c) \in Cell(W, C)
<1>1. c.tmp \in C /\ c.fd \in [W -> Places] /\ DOMAIN c.fd = W
  BY DEF Cell
<1>2. Renamed(c).fd \in [W -> Places]
  BY <1>1 DEF Renamed, Places
<1> QED
  BY <1>1, <1>2 DEF Renamed, Cell, Unusable

(* A removal takes the name and leaves the descriptors open.               *)
LEMMA RemovedTmpTyped ==
  ASSUME NEW W, NEW C, Unusable \subseteq C, NEW c \in Cell(W, C)
  PROVE  RemovedTmp(c) \in Cell(W, C)
<1>1. c.file \in C /\ c.fd \in [W -> Places] /\ DOMAIN c.fd = W
  BY DEF Cell
<1>2. [w \in DOMAIN c.fd |-> IF c.fd[w] = "tmp" THEN "unlinked" ELSE c.fd[w]]
        \in [W -> Places]
  BY <1>1 DEF Places
<1> QED
  BY <1>1, <1>2 DEF RemovedTmp, Cell, Unusable

(* A process that dies closes its descriptors and changes no contents.     *)
LEMMA ClosedByTyped ==
  ASSUME NEW W, NEW C, NEW c \in Cell(W, C), NEW P
  PROVE  ClosedBy(c, P) \in Cell(W, C)
<1>1. c.file \in C /\ c.tmp \in C /\ c.fd \in [W -> Places] /\ DOMAIN c.fd = W
  BY DEF Cell
<1>2. [w \in DOMAIN c.fd |-> IF w \in P THEN "closed" ELSE c.fd[w]]
        \in [W -> Places]
  BY <1>1 DEF Places
<1> QED
  BY <1>1, <1>2 DEF ClosedBy, Cell

============================================================================
