---------------------------- MODULE MCAtomicSave ----------------------------
(* Instances of AtomicSave for TLC: the values come from the .cfg files.   *)
EXTENDS AtomicSave

============================================================================
