-------------------------- MODULE DurableRegister --------------------------
(***************************************************************************)
(* What an atomic save promises its callers: a register on stable storage. *)
(* A call that reports success has set it, at one instant while it ran; a  *)
(* call that reports an error has not; a crash during a call leaves the    *)
(* value before or the value after it.                                     *)
(***************************************************************************)
CONSTANTS
  Callers,  (* who may set the register                                    *)
  Values,   (* what it may be set to                                       *)
  Initial,  (* what it may hold at the start                               *)
  NoValue   (* the argument of a caller that is not calling                *)

VARIABLES
  reg,      (* the contents                                                *)
  arg,      (* the argument of each call under way                         *)
  told      (* what each caller knows: "none", "busy", "ok", "err"         *)

Init ==
  /\ reg \in Initial
  /\ arg = [c \in Callers |-> NoValue]
  /\ told = [c \in Callers |-> "none"]

Begin(c, v) ==
  /\ told[c] # "busy"
  /\ arg' = [arg EXCEPT ![c] = v]
  /\ told' = [told EXCEPT ![c] = "busy"]
  /\ UNCHANGED reg

Return(c, r) ==
  /\ told[c] = "busy"
  /\ arg' = [arg EXCEPT ![c] = NoValue]
  /\ told' = [told EXCEPT ![c] = r]

Commit(c) == Return(c, "ok") /\ reg' = arg[c]

Fail(c) == Return(c, "err") /\ UNCHANGED reg

Crash ==
  /\ arg' = [c \in Callers |-> NoValue]
  /\ told' = [c \in Callers |-> "none"]
  /\ UNCHANGED reg

Next ==
  \/ \E c \in Callers, v \in Values : Begin(c, v)
  \/ \E c \in Callers : Commit(c) \/ Fail(c)
  \/ Crash

Spec == Init /\ [][Next]_<<reg, arg, told>>

============================================================================
