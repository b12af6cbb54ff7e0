------------------------------- MODULE MCTabs -------------------------------
(* Instances of Tabs for TLC.                                              *)
EXTENDS Tabs, TLC

CONSTANT MaxClicks  (* bound: how often the user does something            *)

VARIABLE clicks

(* Settings, and choices of lines, are interchangeable.                    *)
MCInit ==
  /\ Init
  /\ stored = CHOOSE v \in Vals : TRUE
  /\ source = CHOOSE c \in Sources : TRUE
  /\ clicks = 0

MCNext ==
  \/ User /\ clicks < MaxClicks /\ clicks' = clicks + 1
  \/ Machine /\ UNCHANGED clicks

MCFairSpec == MCInit /\ [][MCNext]_<<vars, clicks>> /\ Fairness

=============================================================================
