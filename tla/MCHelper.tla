------------------------------ MODULE MCHelper ------------------------------
(* Instances of Helper for TLC.                                            *)
EXTENDS Helper, TLC

CONSTANTS u1, u2, f1, set1, set2, set3, Ep1, Ep2

(* Different servers behind the two URIs, and a third in the foreign one.  *)
EndpointsApart == (u1 :> Ep1) @@ (u2 :> Ep2) @@ (f1 :> Ep2)

(* A first installation: no config.json, no state.json, no config.yaml.    *)
FreshInit ==
  /\ Init
  /\ config = Absent
  /\ stateFile.file = Absent
  /\ yamlFile.file = Absent
  /\ ~apart

(* Requests are interchangeable.                                           *)
Symmetry == Permutations(Handlers)

FreshSpec == FreshInit /\ [][Next]_vars

FreshSerialSpec == FreshInit /\ [][SerialNext]_vars

FreshFairSpec == FreshSpec /\ \A p \in Procs : WF_vars(Step(p))

(* Bound: at most two requests or command-line runs at a time.  It keeps   *)
(* only a third from beginning, which nothing waits for.                   *)
AtMostTwo == Cardinality({p \in Procs : pc[p] # "idle"}) <= 2

(* What is left in a .tmp when nobody is between the open and the rename   *)
(* of it decides nothing: the next open truncates the file.  States that   *)
(* differ in that alone are the same to TLC.                               *)
Saving(c) == IF \E p \in Procs : pc[p] \in {"saveWrite", "saveRename"}
               THEN c ELSE [c EXCEPT !.tmp = Absent]

EssentialView ==
  <<files, Saving(stateFile), Saving(yamlFile), mem, running, now, pc, job,
    history>>

=============================================================================
