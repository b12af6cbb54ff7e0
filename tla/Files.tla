------------------------------- MODULE Files -------------------------------
(***************************************************************************)
(* Small files as this program reads and writes them.  A file is one value:*)
(* whole contents (supplied by the modules that use this one) or one of    *)
(* the three values below.                                                 *)
(*                                                                         *)
(* Every file of the helper is smaller than a page and is written by one   *)
(* write(2) call after an open with O_TRUNC (os.WriteFile) or on a fresh   *)
(* file (io.Copy), so "opened" and "written" are two separate steps, and   *)
(* each of them is atomic.                                                 *)
(***************************************************************************)

CONSTANTS
  Absent,  (* no file of that name                                         *)
  Empty,   (* the file exists and has no bytes: opened, not yet written    *)
  Torn     (* bytes of two writers, or of an interrupted write: no decoder *)
           (* of the program accepts it as whole contents                  *)

ASSUME FilesAssumption == Absent # Empty /\ Absent # Torn /\ Empty # Torn

(* What encoding/json and yaml.v3 never read as whole contents.            *)
Unusable == {Absent, Empty, Torn}

(* The possible contents after the bytes `new` are written at offset 0 of  *)
(* a file that holds `old`.  On a truncated file they are what is read     *)
(* back.  Where another writer has been quicker and its bytes are longer,  *)
(* their tail stays behind; sizes are not modelled, so both may happen.    *)
AfterWrite(old, new) ==
  IF new = Empty THEN {old}
  ELSE IF old \in {Empty, new} THEN {new}
  ELSE {new, Torn}

----------------------------------------------------------------------------
(***************************************************************************)
(* A file that is replaced through a temporary name: path and path+".tmp". *)
(* All writers of one path share the one temporary name.  A cell holds the *)
(* contents under both names and, for each writer, under which name the    *)
(* inode it has open is now reachable: opening with O_TRUNC joins whatever *)
(* inode is at the temporary name, and rename moves that inode - with the  *)
(* descriptors that are open on it - to the final name.                    *)
(***************************************************************************)
Places == {"closed", "tmp", "file", "unlinked"}

Cell(Writers, Contents) ==
  [file: Contents, tmp: Contents, fd: [Writers -> Places]]

NewCell(Writers, contents) ==
  [file |-> contents, tmp |-> Absent, fd |-> [w \in Writers |-> "closed"]]

(* os.OpenFile(tmp, O_WRONLY|O_CREATE|O_TRUNC).                            *)
OpenedTmp(c, w) == [c EXCEPT !.tmp = Empty, !.fd[w] = "tmp"]

(* The write and the close that end os.WriteFile: the cells it can leave.  *)
WrittenTmp(c, w, v) ==
  { [file |-> f, tmp |-> t, fd |-> [c.fd EXCEPT ![w] = "closed"]] :
      f \in IF c.fd[w] = "file" THEN AfterWrite(c.file, v) ELSE {c.file},
      t \in IF c.fd[w] = "tmp"  THEN AfterWrite(c.tmp, v)  ELSE {c.tmp} }

(* os.Rename(tmp, path): the old inode of path is unlinked.                *)
Renamed(c) ==
  [file |-> c.tmp, tmp |-> Absent,
   fd |-> [w \in DOMAIN c.fd |->
             CASE c.fd[w] = "tmp"  -> "file"
               [] c.fd[w] = "file" -> "unlinked"
               [] OTHER            -> c.fd[w]]]

(* os.Remove(tmp).                                                         *)
RemovedTmp(c) ==
  [c EXCEPT !.tmp = Absent,
            !.fd = [w \in DOMAIN c.fd |->
                      IF c.fd[w] = "tmp" THEN "unlinked" ELSE c.fd[w]]]

(* The process of the writers in W has died: its descriptors are closed.   *)
ClosedBy(c, W) ==
  [c EXCEPT !.fd = [w \in DOMAIN c.fd |-> IF w \in W THEN "closed" ELSE c.fd[w]]]

============================================================================
